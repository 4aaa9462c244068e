------------------------ MODULE CombinedTrustProofs ------------------------
(***************************************************************************)
(* Which keys of the Combined Worker tables carry, for any number of       *)
(* invocations, keys and deaths.                                           *)
(***************************************************************************)
EXTENDS CombinedTrust, TLAPS

(***************************************************************************)
(* A table is signed with a key that is, or was, in KV.                    *)
(***************************************************************************)
Stored(k) == k # NoKey /\ k \in {own} \cup retired

SignedWithStored ==
  /\ \A t \in Tasks : pc[t] = "store" => Stored(draft[t].self)
  /\ \A t \in Tasks : push[t] # NoTable => Stored(push[t].self)
  /\ \A n \in Nodes : cache[n] # NoTable => Stored(cache[n].self)

(***************************************************************************)
(* A key is held from when it is generated until it is stored.             *)
(***************************************************************************)
HeldUntilStored ==
  \A t \in Tasks : pc[t] \in {"generated", "replacing"} => held[t] # NoKey

IInv == TypeOK /\ SignedWithStored /\ HeldUntilStored

LEMMA InitInvariant == Init => IInv
BY MaxKeysAssumption, MaxPeerKeysAssumption, MaxCrashesAssumption
   DEF Init, IInv, TypeOK, SignedWithStored, HeldUntilStored, Stored, Table, NoTable, NoKey,
       Nodes, Kinds

-----------------------------------------------------------------------------
(* What a key, once known, makes of an invocation.                         *)

Signed(t, k) ==
  /\ pc' = [pc EXCEPT ![t] = "store"]
  /\ draft' = [draft EXCEPT ![t].self = k]
  /\ push' = push \/ push' = [push EXCEPT ![t] = draft'[t]]
  /\ held' = [held EXCEPT ![t] = NoKey]
  /\ UNCHANGED << made, kind >>

Generated(t) ==
  /\ made < MaxKeys
  /\ made' = made + 1
  /\ held' = [held EXCEPT ![t] = made']
  /\ pc' = [pc EXCEPT ![t] = "replacing"]
  /\ UNCHANGED << draft, push, kind >>

Over(t) ==
  /\ pc' = [pc EXCEPT ![t] = "idle"]
  /\ kind' = [kind EXCEPT ![t] = "use"]
  /\ held' = [held EXCEPT ![t] = NoKey]
  /\ UNCHANGED << made, draft, push >>

LEMMA WithIdentityCases ==
  ASSUME NEW t, NEW k, WithIdentity(t, k)
  PROVE  Signed(t, k) \/ Generated(t) \/ Over(t)
<1>1. CASE kind[t] \in {"serve", "push"}
  BY <1>1 DEF WithIdentity, Signed
<1>2. CASE kind[t] = "rotate" /\ made < MaxKeys
  BY <1>2 DEF WithIdentity, Generated
<1>3. CASE ~ (kind[t] \in {"serve", "push"}) /\ ~ (kind[t] = "rotate" /\ made < MaxKeys)
  BY <1>3 DEF WithIdentity, Over, End
<1> QED
  BY <1>1, <1>2, <1>3

(***************************************************************************)
(* A step after which a key k is stored, and an invocation has it.         *)
(***************************************************************************)
LEMMA IdentityStep ==
  ASSUME IInv, NEW t \in Tasks, NEW k \in 0 .. made, k # NoKey,
         WithIdentity(t, k),
         own' = k, retired' = retired \/ retired' = Replaced,
         own' = own \/ retired' = Replaced,
         UNCHANGED << crashes, peerKey, listed, cache >>
  PROVE  IInv'
<1> DEFINE Kept(j) == j # NoKey /\ j \in {own'} \cup retired'
<1>1. made \in Nat /\ MaxKeys \in Nat /\ made <= MaxKeys /\ own \in 0 .. made
      /\ retired \subseteq 1 .. made
  BY MaxKeysAssumption DEF IInv, TypeOK
<1>2. retired' \subseteq 1 .. made /\ (\A j : Stored(j) => Kept(j)) /\ Kept(k)
  <2>1. CASE own = NoKey
    BY <1>1, <2>1 DEF Stored, Replaced
  <2>2. CASE own # NoKey
    <3>1. own \in 1 .. made /\ Replaced = retired \cup {own}
      BY <1>1, <2>2 DEF Replaced, NoKey
    <3>2. retired' \subseteq 1 .. made
      BY <1>1, <3>1
    <3>3. \A j : Stored(j) => Kept(j)
      BY <3>1 DEF Stored
    <3> QED
      BY <3>2, <3>3
  <2> QED
    BY <2>1, <2>2
<1>3. \A n \in Nodes : cache[n] # NoTable => Kept(cache[n].self)
  BY <1>2 DEF IInv, SignedWithStored
<1>4. \A n \in Nodes : cache[n] # NoTable => cache[n].self \in {own'} \cup retired'
  BY <1>3
<1>5. CASE Signed(t, k)
  <2>1. k \in 0 .. MaxKeys
    BY <1>1
  <2>2. draft' \in [Tasks -> Table] /\ draft'[t].self = k
        /\ \A u \in Tasks \ {t} : draft'[u] = draft[u]
    <3>1. draft \in [Tasks -> Table] /\ draft' = [draft EXCEPT ![t].self = k]
      BY <1>5 DEF IInv, TypeOK, Signed
    <3>2. [draft[t] EXCEPT !.self = k] \in Table
      BY <2>1, <3>1 DEF Table
    <3>3. draft'[t] = [draft[t] EXCEPT !.self = k]
      BY <3>1
    <3>4. draft[t] \in Table
      BY <3>1
    <3>5. draft'[t].self = k
      BY <3>3, <3>4 DEF Table
    <3> QED
      BY <3>1, <3>2, <3>3, <3>5
  <2>3. push' \in [Tasks -> Table]
        /\ \A u \in Tasks : push'[u] = push[u] \/ push'[u].self = k
    BY <1>5, <2>2 DEF IInv, TypeOK, Signed
  <2>4. /\ pc'[t] = "store" /\ \A u \in Tasks \ {t} : pc'[u] = pc[u] /\ held'[u] = held[u]
        /\ pc' \in [Tasks -> {"idle", "urls", "pubkeys", "identity",
                              "generated", "replacing", "store"}]
        /\ held' \in [Tasks -> 0 .. made] /\ made' = made /\ kind' = kind
    BY <1>1, <1>5 DEF IInv, TypeOK, Signed, NoKey
  <2>5. TypeOK'
    BY <1>2, <1>4, <2>2, <2>3, <2>4 DEF IInv, TypeOK
  <2>6. SignedWithStored'
    BY <1>2, <1>3, <2>2, <2>3, <2>4 DEF IInv, SignedWithStored, Stored
  <2>7. HeldUntilStored'
    BY <2>4 DEF IInv, HeldUntilStored
  <2> QED
    BY <2>5, <2>6, <2>7 DEF IInv
<1>6. CASE Generated(t) \/ Over(t)
  <2>1. /\ made' \in 0 .. MaxKeys /\ made <= made' /\ made' \in Nat
        /\ \A u \in Tasks \ {t} : pc'[u] = pc[u] /\ held'[u] = held[u]
        /\ \/ pc'[t] = "replacing" /\ held'[t] # NoKey
           \/ pc'[t] = "idle"
        /\ pc' \in [Tasks -> {"idle", "urls", "pubkeys", "identity",
                              "generated", "replacing", "store"}]
        /\ kind' \in [Tasks -> Kinds]
        /\ held' \in [Tasks -> 0 .. made']
        /\ UNCHANGED << draft, push >>
    BY <1>1, <1>6 DEF IInv, TypeOK, Generated, Over, NoKey, Kinds
  <2>2. retired' \subseteq 1 .. made' /\ own' \in 0 .. made'
    BY <1>1, <1>2, <2>1
  <2>3. TypeOK'
    BY <1>4, <2>1, <2>2 DEF IInv, TypeOK
  <2>4. SignedWithStored'
    BY <1>2, <1>3, <2>1 DEF IInv, SignedWithStored, Stored
  <2>5. HeldUntilStored'
    BY <2>1 DEF IInv, HeldUntilStored
  <2> QED
    BY <2>3, <2>4, <2>5 DEF IInv
<1> QED
  BY <1>5, <1>6, WithIdentityCases

-----------------------------------------------------------------------------
(* The other steps.                                                        *)

LEMMA StepCases ==
  ASSUME [Next]_vars
  PROVE  \/ ListPeer \/ RotatePeer \/ UNCHANGED vars
         \/ \E t \in Tasks :
              \/ BeginServe(t) \/ BeginPush(t) \/ BeginRotate(t) \/ BeginUse(t)
              \/ ReadUrls(t) \/ ReadPubkeys(t) \/ LoadIdentity(t) \/ GenerateIdentity(t)
              \/ StoreIdentity(t) \/ ReplaceIdentity(t) \/ StoreTable(t) \/ Crash(t)
              \/ Deliver(t) \/ Lose(t)
BY DEF Next, Advance

LEMMA Inductive ==
  ASSUME IInv, [Next]_vars
  PROVE  IInv'
<1> USE DEF IInv, SignedWithStored, HeldUntilStored
<1>0. made \in Nat /\ MaxKeys \in Nat /\ peerKey \in Nat /\ MaxPeerKeys \in Nat
      /\ MaxCrashes \in Nat /\ crashes \in Nat
  BY MaxKeysAssumption, MaxPeerKeysAssumption, MaxCrashesAssumption DEF TypeOK
<1>a. NoTable \in Table
  BY <1>0 DEF NoTable, Table, NoKey
<1>1. CASE ListPeer \/ RotatePeer \/ UNCHANGED vars
  <2>1. /\ peerKey' \in 1 .. MaxPeerKeys /\ listed' \in 0 .. peerKey'
        /\ UNCHANGED << crashes, own, made, pc, kind, held, draft, push, cache, retired >>
    BY <1>0, <1>1 DEF TypeOK, ListPeer, RotatePeer, vars
  <2> QED
    BY <2>1 DEF TypeOK, Stored
<1>2. ASSUME NEW t \in Tasks, BeginServe(t) \/ BeginPush(t) \/ BeginRotate(t) \/ BeginUse(t)
      PROVE  IInv'
  <2>1. \E k \in Kinds, at \in {"urls", "identity"} : Begin(t, k, at)
    BY <1>2 DEF BeginServe, BeginPush, BeginRotate, BeginUse, Kinds
  <2>2. /\ pc' \in [Tasks -> {"idle", "urls", "pubkeys", "identity",
                              "generated", "replacing", "store"}]
        /\ kind' \in [Tasks -> Kinds]
        /\ \A u \in Tasks \ {t} : pc'[u] = pc[u]
        /\ pc'[t] \in {"urls", "identity"}
        /\ UNCHANGED << crashes, own, made, peerKey, listed, held, push, cache, retired >>
    BY <2>1 DEF TypeOK, Begin
  <2>3. draft' \in [Tasks -> Table] /\ \A u \in Tasks \ {t} : draft'[u] = draft[u]
    <3>1. [NoTable EXCEPT !.gone = retired] \in Table
      BY <1>0, <1>a DEF TypeOK, NoTable, Table, NoKey
    <3> QED
      BY <1>2, <3>1 DEF TypeOK, BeginServe, BeginPush, BeginRotate, BeginUse, BeginTable
  <2>4. TypeOK'
    BY <2>2, <2>3 DEF TypeOK
  <2>5. SignedWithStored'
    BY <2>2, <2>3 DEF Stored
  <2>6. HeldUntilStored'
    BY <2>2
  <2> QED
    BY <2>4, <2>5, <2>6
<1>3. ASSUME NEW t \in Tasks, ReadUrls(t) \/ ReadPubkeys(t) PROVE IInv'
  <2>1. listed \in 0 .. MaxPeerKeys
    BY <1>0 DEF TypeOK
  <2>2. /\ draft' \in [Tasks -> Table]
        /\ \A u \in Tasks : draft'[u].self = draft[u].self
    <3>1. draft \in [Tasks -> Table] /\ NoKey \in 0 .. MaxPeerKeys
      BY <1>0 DEF TypeOK, NoKey
    <3>2. \E p \in 0 .. MaxPeerKeys : draft' = [draft EXCEPT ![t].peer = p]
      BY <1>3, <2>1, <3>1 DEF ReadUrls, ReadPubkeys
    <3> QED
      BY <3>1, <3>2 DEF Table
  <2>3. /\ pc' \in [Tasks -> {"idle", "urls", "pubkeys", "identity",
                              "generated", "replacing", "store"}]
        /\ \A u \in Tasks : pc'[u] = pc[u] \/ pc'[u] \in {"pubkeys", "identity"}
        /\ UNCHANGED << crashes, own, made, peerKey, listed, kind, held, push, cache, retired >>
    BY <1>3 DEF TypeOK, ReadUrls, ReadPubkeys
  <2>4. TypeOK'
    BY <2>2, <2>3 DEF TypeOK, Stored
  <2>5. SignedWithStored'
    BY <2>2, <2>3 DEF Stored
  <2>6. HeldUntilStored'
    BY <2>3
  <2> QED
    BY <2>4, <2>5, <2>6
<1>4. ASSUME NEW t \in Tasks, LoadIdentity(t) PROVE IInv'
  <2>1. own \in 0 .. made /\ own # NoKey
    BY <1>4 DEF TypeOK, LoadIdentity
  <2> QED
    BY <1>4, <2>1, IdentityStep DEF LoadIdentity
<1>5. ASSUME NEW t \in Tasks, StoreIdentity(t) PROVE IInv'
  <2>1. held[t] \in 0 .. made /\ held[t] # NoKey
    BY <1>5 DEF TypeOK, StoreIdentity
  <2> QED
    BY <1>5, <2>1, IdentityStep DEF StoreIdentity
<1>6. ASSUME NEW t \in Tasks, GenerateIdentity(t) PROVE IInv'
  BY <1>0, <1>6 DEF TypeOK, Stored, GenerateIdentity, NoKey
<1>7. ASSUME NEW t \in Tasks, ReplaceIdentity(t) PROVE IInv'
  BY <1>0, <1>7 DEF TypeOK, Stored, ReplaceIdentity, Replaced, End, NoKey, Kinds
<1>8. ASSUME NEW t \in Tasks, StoreTable(t) PROVE IInv'
  <2>1. /\ cache' \in [Nodes -> Table]
        /\ \A n \in Nodes : cache'[n] = cache[n] \/ cache'[n] = draft[t]
    BY <1>8 DEF TypeOK, StoreTable, Nodes
  <2>2. /\ draft' \in [Tasks -> Table] /\ kind' \in [Tasks -> Kinds]
        /\ pc' \in [Tasks -> {"idle", "urls", "pubkeys", "identity",
                              "generated", "replacing", "store"}]
        /\ pc'[t] = "idle" /\ \A u \in Tasks \ {t} : pc'[u] = pc[u] /\ draft'[u] = draft[u]
        /\ UNCHANGED << crashes, own, made, peerKey, listed, held, push, retired >>
    BY <1>8, <1>a DEF TypeOK, StoreTable, End, Kinds
  <2>3. Stored(draft[t].self)
    BY <1>8 DEF StoreTable
  <2>4. \A n \in Nodes : cache'[n] # NoTable => Stored(cache'[n].self)
    BY <2>1, <2>3
  <2>5. TypeOK'
    BY <2>1, <2>2, <2>4 DEF TypeOK, Stored
  <2>6. SignedWithStored'
    BY <2>1, <2>2, <2>4 DEF Stored
  <2>7. HeldUntilStored'
    BY <2>2
  <2> QED
    BY <2>5, <2>6, <2>7
<1>9. ASSUME NEW t \in Tasks, Crash(t) PROVE IInv'
  BY <1>0, <1>9 DEF TypeOK, Stored, Crash, End, NoTable, Table, NoKey, Kinds
<1>10. ASSUME NEW t \in Tasks, Deliver(t) \/ Lose(t) PROVE IInv'
  <2>1. /\ cache' \in [Nodes -> Table]
        /\ \A n \in Nodes : cache'[n] = cache[n] \/ cache'[n] = push[t]
    BY <1>10 DEF TypeOK, Deliver, Lose, Nodes
  <2>2. /\ push' \in [Tasks -> Table]
        /\ \A u \in Tasks : push'[u] = push[u] \/ push'[u] = NoTable
        /\ UNCHANGED << crashes, own, made, peerKey, listed, pc, kind, held, draft, retired >>
    BY <1>10, <1>a DEF TypeOK, Deliver, Lose
  <2>3. \A n \in Nodes : cache'[n] # NoTable => Stored(cache'[n].self)
    BY <2>1
  <2>4. TypeOK'
    BY <2>1, <2>2, <2>3 DEF TypeOK, Stored
  <2>5. SignedWithStored'
    BY <2>1, <2>2, <2>3 DEF Stored
  <2>6. HeldUntilStored'
    BY <2>2
  <2> QED
    BY <2>4, <2>5, <2>6
<1> QED
  BY <1>1, <1>2, <1>3, <1>4, <1>5, <1>6, <1>7, <1>8, <1>9, <1>10, StepCases

LEMMA Invariant == Spec => []IInv
<1>1. IInv /\ [Next]_vars => IInv'
  BY Inductive
<1> QED
  BY <1>1, InitInvariant, PTL DEF Spec

-----------------------------------------------------------------------------

(***************************************************************************)
(* Every table that is cached, by the Combined Worker or by the peer, was  *)
(* signed with a key that is or was in the Worker's KV.                    *)
(***************************************************************************)
THEOREM TypeCorrect == Spec => []TypeOK
<1>1. IInv => TypeOK
  BY DEF IInv
<1> QED
  BY <1>1, Invariant, PTL

(***************************************************************************)
(* A key is stored once: one that is held is neither in KV nor replaced,   *)
(* and no other invocation holds it.                                       *)
(***************************************************************************)
StoredOnce ==
  /\ own \notin retired
  /\ \A t \in Tasks : held[t] # NoKey => held[t] \notin {own} \cup retired
  /\ \A t, u \in Tasks : t # u /\ held[t] # NoKey => held[t] # held[u]

(***************************************************************************)
(* CachedKeysFresh speaks of tables that arrived; the invariant of those   *)
(* that are built or on their way.                                         *)
(***************************************************************************)
TablesFresh ==
  /\ \A t \in Tasks :
       /\ draft[t].gone \subseteq retired
       /\ pc[t] = "store" => draft[t].self \notin draft[t].gone
       /\ push[t].self \notin push[t].gone
  /\ \A n \in Nodes : cache[n].self \notin cache[n].gone

LEMMA InitFresh == Init => StoredOnce /\ TablesFresh
BY DEF Init, StoredOnce, TablesFresh, NoTable, NoKey

(***************************************************************************)
(* The table that is signed with a key k not replaced so far is fresh.     *)
(***************************************************************************)
LEMMA IdentityFresh ==
  ASSUME IInv, StoredOnce, TablesFresh, NEW t \in Tasks,
         NEW k \in 0 .. made, k # NoKey, k \notin retired,
         \A u \in Tasks \ {t} : held[u] # k,
         WithIdentity(t, k),
         own' = k, \/ own' = own /\ retired' = retired
                   \/ own' # own /\ retired' = Replaced,
         UNCHANGED cache
  PROVE  (StoredOnce /\ TablesFresh)'
<1>1. made \in Nat /\ own \in 0 .. made /\ retired \subseteq 1 .. made
      /\ held \in [Tasks -> 0 .. made]
  BY MaxKeysAssumption DEF IInv, TypeOK
<1>2. retired \subseteq retired' /\ retired' \subseteq retired \cup {own}
      /\ retired' \subseteq 1 .. made /\ k \notin retired'
  <2>1. CASE own = NoKey
    BY <1>1, <2>1 DEF Replaced
  <2>2. CASE own # NoKey
    <3>1. own \in 1 .. made /\ Replaced = retired \cup {own}
      BY <1>1, <2>2 DEF Replaced, NoKey
    <3> QED
      BY <1>1, <3>1
  <2> QED
    BY <2>1, <2>2
<1>3. CASE Signed(t, k)
  <2>1. /\ held'[t] = NoKey /\ \A u \in Tasks \ {t} : held'[u] = held[u] /\ pc'[u] = pc[u]
    BY <1>1, <1>3 DEF IInv, TypeOK, Signed
  <2>2. StoredOnce'
    BY <1>1, <1>2, <2>1 DEF StoredOnce
  <2>3. /\ \A u \in Tasks : draft'[u].gone = draft[u].gone
        /\ draft'[t].self = k /\ \A u \in Tasks \ {t} : draft'[u] = draft[u]
    BY <1>3 DEF IInv, TypeOK, Table, Signed
  <2>4. draft'[t].self \notin draft'[t].gone
    BY <2>3 DEF TablesFresh
  <2>5. \A u \in Tasks : push'[u] = push[u] \/ push'[u] = draft'[t]
    BY <1>3 DEF IInv, TypeOK, Signed
  <2> QED
    BY <1>2, <2>1, <2>2, <2>3, <2>4, <2>5 DEF TablesFresh
<1>4. CASE Generated(t) \/ Over(t)
  <2>1. /\ held'[t] = NoKey \/ held'[t] = made + 1
        /\ \A u \in Tasks \ {t} : held'[u] = held[u] /\ pc'[u] = pc[u]
        /\ pc'[t] # "store"
        /\ UNCHANGED << draft, push >>
    BY <1>1, <1>4 DEF IInv, TypeOK, Generated, Over
  <2>2. StoredOnce'
    BY <1>1, <1>2, <2>1 DEF StoredOnce
  <2> QED
    BY <1>2, <2>1, <2>2 DEF TablesFresh
<1> QED
  BY <1>3, <1>4, WithIdentityCases

LEMMA FreshInductive ==
  ASSUME IInv, StoredOnce, TablesFresh, [Next]_vars
  PROVE  (StoredOnce /\ TablesFresh)'
<1>0. made \in Nat /\ own \in 0 .. made /\ retired \subseteq 1 .. made
      /\ held \in [Tasks -> 0 .. made]
  BY MaxKeysAssumption DEF IInv, TypeOK
<1>1. CASE ListPeer \/ RotatePeer \/ UNCHANGED vars
  BY <1>1 DEF StoredOnce, TablesFresh, ListPeer, RotatePeer, vars
<1>2. ASSUME NEW t \in Tasks, BeginServe(t) \/ BeginPush(t) \/ BeginRotate(t) \/ BeginUse(t)
      PROVE  (StoredOnce /\ TablesFresh)'
  <2>1. /\ \A u \in Tasks \ {t} : pc'[u] = pc[u]
        /\ pc'[t] # "store"
        /\ UNCHANGED << own, held, push, cache, retired >>
    BY <1>2 DEF IInv, TypeOK, BeginServe, BeginPush, BeginRotate, BeginUse, Begin
  <2>2. \A u \in Tasks : draft'[u] = draft[u] \/ (u = t /\ draft'[u].gone = retired)
    BY <1>2 DEF IInv, TypeOK, NoTable, BeginServe, BeginPush, BeginRotate, BeginUse, BeginTable
  <2> QED
    BY <2>1, <2>2 DEF StoredOnce, TablesFresh
<1>3. ASSUME NEW t \in Tasks, ReadUrls(t) \/ ReadPubkeys(t)
      PROVE  (StoredOnce /\ TablesFresh)'
  <2>1. \A u \in Tasks : draft'[u].self = draft[u].self /\ draft'[u].gone = draft[u].gone
    <3>1. draft \in [Tasks -> Table]
      BY DEF IInv, TypeOK
    <3>2. PICK p : draft' = [draft EXCEPT ![t].peer = p]
      BY <1>3 DEF ReadUrls, ReadPubkeys
    <3> QED
      BY <3>1, <3>2 DEF Table
  <2>2. /\ \A u \in Tasks : pc'[u] = "store" => pc[u] = "store"
        /\ UNCHANGED << own, held, push, cache, retired >>
    BY <1>3 DEF IInv, TypeOK, ReadUrls, ReadPubkeys
  <2> QED
    BY <2>1, <2>2 DEF StoredOnce, TablesFresh
<1>4. ASSUME NEW t \in Tasks, LoadIdentity(t) PROVE (StoredOnce /\ TablesFresh)'
  <2>1. own # NoKey /\ own \notin retired /\ \A u \in Tasks : held[u] # own
    BY <1>4 DEF LoadIdentity, StoredOnce
  <2> QED
    BY <1>0, <1>4, <2>1, IdentityFresh DEF LoadIdentity
<1>5. ASSUME NEW t \in Tasks, StoreIdentity(t) PROVE (StoredOnce /\ TablesFresh)'
  <2>1. held[t] # NoKey /\ held[t] \in 0 .. made
    BY <1>0, <1>5 DEF IInv, HeldUntilStored, StoreIdentity
  <2>2. held[t] \notin retired /\ held[t] # own /\ \A u \in Tasks \ {t} : held[u] # held[t]
    BY <2>1 DEF StoredOnce
  <2> QED
    BY <1>5, <2>1, <2>2, IdentityFresh DEF StoreIdentity
<1>6. ASSUME NEW t \in Tasks, GenerateIdentity(t) PROVE (StoredOnce /\ TablesFresh)'
  <2>1. /\ held'[t] = made + 1 /\ \A u \in Tasks \ {t} : held'[u] = held[u]
        /\ \A u \in Tasks : pc'[u] = "store" => pc[u] = "store"
        /\ UNCHANGED << own, draft, push, cache, retired >>
    BY <1>0, <1>6 DEF IInv, TypeOK, GenerateIdentity
  <2>2. StoredOnce'
    BY <1>0, <2>1 DEF StoredOnce
  <2> QED
    BY <2>1, <2>2 DEF TablesFresh
<1>7. ASSUME NEW t \in Tasks, ReplaceIdentity(t) PROVE (StoredOnce /\ TablesFresh)'
  <2>1. held[t] # NoKey /\ held[t] \notin retired /\ held[t] # own
        /\ \A u \in Tasks \ {t} : held[u] # held[t]
    BY <1>7 DEF IInv, HeldUntilStored, StoredOnce, ReplaceIdentity
  <2>2. /\ own' = held[t] /\ held'[t] = NoKey /\ \A u \in Tasks \ {t} : held'[u] = held[u]
        /\ \A u \in Tasks : pc'[u] = "store" => pc[u] = "store"
        /\ UNCHANGED << draft, push, cache >>
    BY <1>0, <1>7 DEF IInv, TypeOK, ReplaceIdentity, End
  <2>3. retired \subseteq retired' /\ retired' \subseteq retired \cup {own}
    BY <1>7 DEF ReplaceIdentity, Replaced
  <2>4. StoredOnce'
    BY <2>1, <2>2, <2>3 DEF StoredOnce
  <2> QED
    BY <2>2, <2>3, <2>4 DEF TablesFresh
<1>8. ASSUME NEW t \in Tasks, StoreTable(t) PROVE (StoredOnce /\ TablesFresh)'
  <2>1. /\ \A n \in Nodes : cache'[n] = cache[n] \/ cache'[n] = draft[t]
        /\ \A u \in Tasks : draft'[u] = draft[u] \/ draft'[u] = NoTable
        /\ \A u \in Tasks : pc'[u] = "store" => pc[u] = "store" /\ draft'[u] = draft[u]
        /\ pc[t] = "store"
        /\ UNCHANGED << own, held, push, retired >>
    BY <1>8 DEF IInv, TypeOK, StoreTable, End
  <2> QED
    BY <2>1 DEF StoredOnce, TablesFresh, NoTable
<1>9. ASSUME NEW t \in Tasks, Crash(t) PROVE (StoredOnce /\ TablesFresh)'
  <2>1. /\ \A u \in Tasks : draft'[u] = draft[u] \/ draft'[u] = NoTable
        /\ \A u \in Tasks : pc'[u] = "store" => pc[u] = "store" /\ draft'[u] = draft[u]
        /\ \A u \in Tasks : held'[u] = held[u] \/ held'[u] = NoKey
        /\ UNCHANGED << own, push, cache, retired >>
    BY <1>9 DEF IInv, TypeOK, Crash, End
  <2> QED
    BY <2>1 DEF StoredOnce, TablesFresh, NoTable
<1>10. ASSUME NEW t \in Tasks, Deliver(t) \/ Lose(t) PROVE (StoredOnce /\ TablesFresh)'
  <2>1. /\ \A n \in Nodes : cache'[n] = cache[n] \/ cache'[n] = push[t]
        /\ \A u \in Tasks : push'[u] = push[u] \/ push'[u] = NoTable
        /\ UNCHANGED << own, pc, held, draft, retired >>
    BY <1>10 DEF IInv, TypeOK, Deliver, Lose
  <2> QED
    BY <2>1 DEF StoredOnce, TablesFresh, NoTable
<1> QED
  BY <1>1, <1>2, <1>3, <1>4, <1>5, <1>6, <1>7, <1>8, <1>9, <1>10, StepCases

(***************************************************************************)
(* For any number of invocations, keys and deaths, and in whatever order   *)
(* puts and calls end, a node caches a replaced key of the Combined Worker *)
(* only with a table whose build began before the key was replaced.        *)
(***************************************************************************)
THEOREM CachedKeysFreshHolds == Spec => []CachedKeysFresh
<1>1. IInv /\ (StoredOnce /\ TablesFresh) /\ [Next]_vars => (StoredOnce /\ TablesFresh)'
  BY FreshInductive
<1>2. TablesFresh => CachedKeysFresh
  BY DEF TablesFresh, CachedKeysFresh
<1> QED
  BY <1>1, <1>2, InitFresh, Invariant, PTL DEF Spec

=============================================================================
