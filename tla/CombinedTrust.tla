---------------------------- MODULE CombinedTrust ----------------------------
(***************************************************************************)
(* Who trusts whom in a mesh whose Router is a Combined Worker, which also *)
(* holds mailboxes itself (combined/worker.js), and one shard that         *)
(* registered with it, the peer.                                           *)
(*                                                                         *)
(* A node takes /internal/replicate calls only from keys in the table it   *)
(* caches.  The Combined Worker signs that table, lists itself in it with  *)
(* the key of its own KV, puts it into its own cache and pushes it to the  *)
(* peer.  It never registers with itself: a rotation of its own key        *)
(* changes neither the list nor the version, and reaches the caches with   *)
(* the next table.  Builds run for every GET /routing_table.json and every *)
(* push, overlap, and end in whatever order their puts and calls do.       *)
(*                                                                         *)
(* Keys are numbered in the order in which they are generated.  Requests   *)
(* that change the list are admitted ones and atomic here (ShardRegistry   *)
(* has them await by await).  Signatures and the version, which no cache   *)
(* looks at, are left out.                                                 *)
(***************************************************************************)
EXTENDS Naturals

CONSTANTS
  Tasks,        \* invocations of the Combined Worker under way (bound)
  MaxKeys,      \* bound on the keys it generates
  MaxPeerKeys,  \* bound on the peer's keys
  MaxCrashes    \* bound on the invocations that die

ASSUME MaxKeysAssumption     == MaxKeys \in Nat
ASSUME MaxPeerKeysAssumption == MaxPeerKeys \in Nat \ {0}
ASSUME MaxCrashesAssumption  == MaxCrashes \in Nat

VARIABLES
  own,       \* KV "shard_identity" of the Combined Worker, or NoKey
  made,      \* keys it generated
  peerKey,   \* the peer's key
  listed,    \* KV "registered_shards": the peer's key, or NoKey
  pc,        \* pc[t]: the await invocation t is at
  kind,      \* kind[t]: what it was started for
  held,      \* held[t]: the key it generated and has not stored yet, or NoKey
  draft,     \* draft[t]: the table as far as read
  push,      \* push[t]: the call of the peer that t made, or NoTable
  cache,     \* cache[n]: KV "routing_table_cache" of node n, or NoTable
  crashes,
  retired    \* history: keys of the Combined Worker replaced in its KV

vars == << own, made, peerKey, listed, pc, kind, held,
           draft, push, cache, crashes, retired >>

NoKey == 0
Nodes == {"self", "peer"}
Kinds == {"serve", "push", "rotate", "use"}

(***************************************************************************)
(* peer is in shard_urls exactly when it has a key: entries are never      *)
(* removed.  gone is history: the own keys already replaced when the       *)
(* table's build began.                                                    *)
(***************************************************************************)
Table == [ peer : 0 .. MaxPeerKeys, self : 0 .. MaxKeys,
           gone : SUBSET (1 .. MaxKeys) ]

NoTable == [ peer |-> NoKey, self |-> NoKey, gone |-> {} ]

\* Table b lists what a build would sign if it read everything at once.
Current(b) == b.peer = listed /\ b.self = own

TypeOK ==
  /\ own \in 0 .. made
  /\ made \in 0 .. MaxKeys
  /\ peerKey \in 1 .. MaxPeerKeys
  /\ listed \in 0 .. peerKey
  /\ pc \in [Tasks -> {"idle", "urls", "pubkeys", "identity",
                       "generated", "replacing", "store"}]
  /\ kind \in [Tasks -> Kinds]
  /\ held \in [Tasks -> 0 .. made]
  /\ draft \in [Tasks -> Table]
  /\ \A t \in Tasks : pc[t] = "store" => draft[t].self # NoKey
  /\ push \in [Tasks -> Table]
  /\ cache \in [Nodes -> Table]
  /\ \A n \in Nodes :
       cache[n] # NoTable => cache[n].self \in {own} \cup retired
  /\ crashes \in 0 .. MaxCrashes
  /\ retired \subseteq 1 .. made

Init ==
  /\ own = NoKey
  /\ made = 0
  /\ peerKey = 1
  /\ listed = NoKey
  /\ pc = [t \in Tasks |-> "idle"]
  /\ kind = [t \in Tasks |-> "use"]
  /\ held = [t \in Tasks |-> NoKey]
  /\ draft = [t \in Tasks |-> NoTable]
  /\ push = [t \in Tasks |-> NoTable]
  /\ cache = [n \in Nodes |-> NoTable]
  /\ crashes = 0
  /\ retired = {}

-----------------------------------------------------------------------------
(* The list of registered shards                                           *)

\* The peer registers, registers again, or rotates and tells the Router so.
ListPeer ==
  /\ listed # peerKey
  /\ listed' = peerKey
  /\ UNCHANGED << crashes, own, made, peerKey, pc, kind, held, draft, push,
                  cache, retired >>

\* The peer's /admin/rotate_key stores its new key, whoever learns of it.
RotatePeer ==
  /\ peerKey < MaxPeerKeys
  /\ peerKey' = peerKey + 1
  /\ UNCHANGED << crashes, own, made, listed, pc, kind, held, draft,
                  push, cache, retired >>

-----------------------------------------------------------------------------
(* Invocations                                                             *)

End(t) ==
  /\ pc' = [pc EXCEPT ![t] = "idle"]
  /\ kind' = [kind EXCEPT ![t] = "use"]

Begin(t, k, at) ==
  /\ pc[t] = "idle"
  /\ pc' = [pc EXCEPT ![t] = at]
  /\ kind' = [kind EXCEPT ![t] = k]
  /\ UNCHANGED << crashes, own, made, peerKey, listed, held,
                  push, cache, retired >>

BeginTable(t) ==
  draft' = [draft EXCEPT ![t] = [NoTable EXCEPT !.gone = retired]]

\* GET /routing_table.json: a Router does not serve from its cache.
BeginServe(t) == Begin(t, "serve", "urls") /\ BeginTable(t)

(***************************************************************************)
(* scheduled, /admin/push_routing_table.  Whom to push to is read first;   *)
(* only the peer's presence matters, as Self is always in the list.        *)
(***************************************************************************)
BeginPush(t) ==
  /\ push[t] = NoTable
  /\ Begin(t, IF listed = NoKey THEN "serve" ELSE "push", "urls")
  /\ BeginTable(t)

BeginRotate(t) == Begin(t, "rotate", "identity") /\ UNCHANGED draft

\* replicateToSiblings, signed responses, /admin/shard_info.
BeginUse(t) == Begin(t, "use", "identity") /\ UNCHANGED draft

-----------------------------------------------------------------------------
(* buildSignedRoutingTable                                                 *)

ReadUrls(t) ==
  /\ pc[t] = "urls"
  /\ pc' = [pc EXCEPT ![t] = "pubkeys"]
  /\ draft' = [draft EXCEPT ![t].peer = listed]
  /\ UNCHANGED << crashes, own, made, peerKey, listed, kind, held,
                  push, cache, retired >>

\* A shard that was not in the list of urls gets no entry.
ReadPubkeys(t) ==
  /\ pc[t] = "pubkeys"
  /\ pc' = [pc EXCEPT ![t] = "identity"]
  /\ draft' = [draft EXCEPT ![t].peer = IF @ = NoKey THEN NoKey ELSE listed]
  /\ UNCHANGED << crashes, own, made, peerKey, listed, kind, held,
                  push, cache, retired >>

(***************************************************************************)
(* ensureShardIdentity returned key k: the table is signed and the calls   *)
(* begin; a rotation generates the new key; a mere use is over.            *)
(***************************************************************************)
WithIdentity(t, k) ==
  CASE kind[t] \in {"serve", "push"} ->
         /\ pc' = [pc EXCEPT ![t] = "store"]
         /\ draft' = [draft EXCEPT ![t].self = k]
         /\ push' = IF kind[t] = "push"
                    THEN [push EXCEPT ![t] = draft'[t]]
                    ELSE push
         /\ held' = [held EXCEPT ![t] = NoKey]
         /\ UNCHANGED << made, kind >>
    [] kind[t] = "rotate" /\ made < MaxKeys ->
         /\ made' = made + 1
         /\ held' = [held EXCEPT ![t] = made']
         /\ pc' = [pc EXCEPT ![t] = "replacing"]
         /\ UNCHANGED << draft, push, kind >>
    [] OTHER ->    \* a use, or a rotation that fails (bound on the keys)
         /\ End(t)
         /\ held' = [held EXCEPT ![t] = NoKey]
         /\ UNCHANGED << made, draft, push >>

\* Mutated LoadIdentity: the key of the table it last cached.
LoadFromCache(t) ==
  /\ pc[t] = "identity"
  /\ own # NoKey
  /\ WithIdentity(t, IF cache["self"] = NoTable THEN own ELSE cache["self"].self)
  /\ UNCHANGED << crashes, own, peerKey, listed, cache, retired >>

LoadIdentity(t) ==
  /\ pc[t] = "identity"
  /\ own # NoKey
  /\ WithIdentity(t, own)
  /\ UNCHANGED << crashes, own, peerKey, listed, cache, retired >>

GenerateIdentity(t) ==
  /\ pc[t] = "identity"
  /\ own = NoKey
  /\ made < MaxKeys
  /\ made' = made + 1
  /\ held' = [held EXCEPT ![t] = made']
  /\ pc' = [pc EXCEPT ![t] = "generated"]
  /\ UNCHANGED << crashes, own, peerKey, listed, kind, draft, push,
                  cache, retired >>

Replaced == IF own = NoKey THEN retired ELSE retired \cup {own}

\* Mutated StoreIdentity: the key is used and never stored.
StoreNothing(t) ==
  /\ pc[t] = "generated"
  /\ WithIdentity(t, held[t])
  /\ UNCHANGED << crashes, own, peerKey, listed, cache, retired >>

\* The put, over whatever another first use stored meanwhile.
StoreIdentity(t) ==
  /\ pc[t] = "generated"
  /\ own' = held[t]
  /\ retired' = Replaced
  /\ WithIdentity(t, held[t])
  /\ UNCHANGED << crashes, peerKey, listed, cache >>

\* /admin/rotate_key stores the new key and, its own Router, tells nobody.
ReplaceIdentity(t) ==
  /\ pc[t] = "replacing"
  /\ own' = held[t]
  /\ retired' = Replaced
  /\ held' = [held EXCEPT ![t] = NoKey]
  /\ End(t)
  /\ UNCHANGED << crashes, made, peerKey, listed, draft, push, cache >>

\* Mutated StoreTable: pushed to the other shards only.
StoreServed(t) ==
  /\ pc[t] = "store"
  /\ cache' = IF kind[t] = "serve"
              THEN [cache EXCEPT !["self"] = draft[t]]
              ELSE cache
  /\ draft' = [draft EXCEPT ![t] = NoTable]
  /\ End(t)
  /\ UNCHANGED << crashes, own, made, peerKey, listed, held, push, retired >>

\* The put into its own cache, by a GET and by a push alike.
StoreTable(t) ==
  /\ pc[t] = "store"
  /\ cache' = [cache EXCEPT !["self"] = draft[t]]
  /\ draft' = [draft EXCEPT ![t] = NoTable]
  /\ End(t)
  /\ UNCHANGED << crashes, own, made, peerKey, listed, held, push, retired >>

\* The Worker dies or KV throws; a call that has begun goes on.
Crash(t) ==
  /\ pc[t] # "idle"
  /\ crashes < MaxCrashes
  /\ crashes' = crashes + 1
  /\ End(t)
  /\ held' = [held EXCEPT ![t] = NoKey]
  /\ draft' = [draft EXCEPT ![t] = NoTable]
  /\ UNCHANGED << own, made, peerKey, listed, push,
                  cache, retired >>

-----------------------------------------------------------------------------
(* The peer                                                                *)

\* handleRoutingTablePush: the last table wins, whatever its version.
Deliver(t) ==
  /\ push[t] # NoTable
  /\ push' = [push EXCEPT ![t] = NoTable]
  /\ cache' = [cache EXCEPT !["peer"] = push[t]]
  /\ UNCHANGED << crashes, own, made, peerKey, listed, pc, kind, held,
                  draft, retired >>

Lose(t) ==
  /\ push[t] # NoTable
  /\ push' = [push EXCEPT ![t] = NoTable]
  /\ UNCHANGED << crashes, own, made, peerKey, listed, pc, kind, held,
                  draft, cache, retired >>

-----------------------------------------------------------------------------

Advance(t) ==
  \/ ReadUrls(t) \/ ReadPubkeys(t)
  \/ LoadIdentity(t) \/ GenerateIdentity(t) \/ StoreIdentity(t)
  \/ ReplaceIdentity(t)
  \/ StoreTable(t)

Next ==
  \/ ListPeer \/ RotatePeer
  \/ \E t \in Tasks :
       \/ BeginServe(t) \/ BeginPush(t) \/ BeginRotate(t) \/ BeginUse(t)
       \/ Advance(t)
       \/ Crash(t)
       \/ Deliver(t) \/ Lose(t)

(***************************************************************************)
(* Cron goes on, an invocation ends, and not every call of the peer gets   *)
(* lost.  Rotations, registrations and deaths come to an end.              *)
(***************************************************************************)
Fairness ==
  /\ SF_vars(\E t \in Tasks : BeginPush(t))
  /\ \A t \in Tasks : WF_vars(Advance(t)) /\ WF_vars(Deliver(t) \/ Lose(t))
  /\ SF_vars(\E t \in Tasks : Deliver(t))

Spec == Init /\ [][Next]_vars /\ Fairness

-----------------------------------------------------------------------------

(***************************************************************************)
(* No cached table lists a key of the Combined Worker that had been        *)
(* replaced before that table's build began: every build reads the key     *)
(* anew from KV (combined/worker.js:236).  In whatever order builds, first *)
(* uses of the key, rotations, late puts and late pushes overtake each     *)
(* other, an old key returns only with a table begun before it was         *)
(* replaced.                                                               *)
(***************************************************************************)
CachedKeysFresh ==
  \A n \in Nodes : cache[n].self # NoKey => cache[n].self \notin cache[n].gone

(***************************************************************************)
(* Once nobody registers or rotates, both nodes come to cache the table    *)
(* that lists the keys in use, so that each takes the other's replicate    *)
(* calls: although no rotation of the Combined Worker's own key is         *)
(* announced by a version (combined/worker.js:1124), and its own cache is  *)
(* filled by a put of its own (:275).                                      *)
(***************************************************************************)
TrustConverges ==
  <>[]( own # NoKey =>
          /\ Current(cache["self"])
          /\ listed # NoKey => Current(cache["peer"]) )

=============================================================================
