--------------------------- MODULE ShardRegistry ---------------------------
(***************************************************************************)
(* The Router's list of self-registered shards and the version of its      *)
(* routing table (router/router.js 265-288, 318-324, 605-715, 798-870).    *)
(*                                                                         *)
(* /register_shard and /rotate_shard_key read the list, write it whole     *)
(* under one KV key, then read the version and write it plus one: four     *)
(* awaits without a lock, which overlap with those of other requests and   *)
(* may be cut short anywhere.  A proof-of-work nonce admits a registration.*)
(*                                                                         *)
(* Signatures, skew and proof of work are checks a request passes or not;  *)
(* the requests here are those that pass, or fail after their nonce is     *)
(* spent.  The rate limits in front of them are left out.                  *)
(***************************************************************************)
EXTENDS Naturals, Sequences, FiniteSets, SequencesExt

CONSTANTS
  Urls,        \* shards that may register themselves
  Keys,        \* public keys
  NoUrl, NoKey,
  MaxShards,   \* MAX_REGISTERED_SHARDS
  Tasks,       \* requests under way at once (bound)
  MaxStarts,   \* bound on the requests
  MaxNonces    \* bound on the nonces issued

ASSUME NoneAssumption      == NoUrl \notin Urls /\ NoKey \notin Keys
ASSUME MaxShardsAssumption == MaxShards \in Nat \ {0}
ASSUME MaxStartsAssumption == MaxStarts \in Nat
ASSUME MaxNoncesAssumption == MaxNonces \in Nat

VARIABLES
  registered,  \* KV "registered_shards": sequence of [url, key]
  version,     \* KV "routing_table_version"
  nonces,      \* KV "pow_nonce:<n>": issued, unexpired and unspent
  issued,      \* nonces issued so far
  pc,          \* pc[t]: the await request t is at
  job,         \* job[t]: its local variables
  starts,
  (* history *)
  alone,       \* alone[t]: no other request was under way together with t
  anchored,    \* urls listed when a change that was alone was answered
  agreed,      \* agreed[u]: the key such a change listed for u, or NoKey
  announced,   \* the table_version such a change returned
  used         \* nonces whose registration was stored

vars == << registered, version, nonces, issued, pc, job, starts,
           alone, anchored, agreed, announced, used >>

Shard == [url : Urls, key : Keys]

Job == [ url : Urls \cup {NoUrl}, key : Keys \cup {NoKey},
         nonce : 0 .. MaxNonces, list : Seq(Shard), ver : Nat ]

NoJob == [ url |-> NoUrl, key |-> NoKey, nonce |-> 0, list |-> << >>, ver |-> 0 ]

UrlsOf(list) == [ i \in DOMAIN list |-> list[i].url ]

Listed(list, u) == \E i \in DOMAIN list : list[i].url = u

KeyOf(list, u) ==
  IF Listed(list, u) THEN list[CHOOSE i \in DOMAIN list : list[i].url = u].key
                     ELSE NoKey

Rekeyed(list, u, k) ==
  [ i \in DOMAIN list |->
      IF list[i].url = u THEN [url |-> u, key |-> k] ELSE list[i] ]

\* Mutated WithShard: a shard that registers again goes to the end.
WithShardLast(list, u, k) ==
  Append(SelectSeq(list, LAMBDA s : s.url # u), [url |-> u, key |-> k])

\* Mutated WithShard: every registration appends.
WithShardAppended(list, u, k) == Append(list, [url |-> u, key |-> k])

(***************************************************************************)
(* The list with shard u: a known shard keeps its place.                   *)
(***************************************************************************)
WithShard(list, u, k) ==
  IF Listed(list, u) THEN Rekeyed(list, u, k)
                     ELSE Append(list, [url |-> u, key |-> k])

TypeOK ==
  /\ registered \in Seq(Shard)
  /\ version \in 1 .. (1 + MaxStarts)
  /\ nonces \subseteq 1 .. issued
  /\ issued \in 0 .. MaxNonces
  /\ pc \in [Tasks -> {"idle", "burn", "list", "put", "version", "bump"}]
  /\ job \in [Tasks -> Job]
  /\ \A t \in Tasks : pc[t] = "idle" <=> job[t] = NoJob
  /\ starts \in 0 .. MaxStarts
  /\ alone \in [Tasks -> BOOLEAN]
  /\ anchored \in Seq(Urls)
  /\ agreed \in [Urls -> Keys \cup {NoKey}]
  /\ announced \in 0 .. (1 + MaxStarts)
  /\ used \subseteq 1 .. issued

Init ==
  /\ registered = << >>
  /\ version = 1
  /\ nonces = {}
  /\ issued = 0
  /\ pc = [t \in Tasks |-> "idle"]
  /\ job = [t \in Tasks |-> NoJob]
  /\ starts = 0
  /\ alone = [t \in Tasks |-> TRUE]
  /\ anchored = << >>
  /\ agreed = [u \in Urls |-> NoKey]
  /\ announced = 0
  /\ used = {}

-----------------------------------------------------------------------------
(***************************************************************************)
(* /pow_challenge.  A nonce that expires is one that nobody redeems, and   *)
(* more than one unspent nonce gives nothing new (bound).                  *)
(***************************************************************************)
PowChallenge ==
  /\ issued < MaxNonces
  /\ nonces = {}
  /\ issued' = issued + 1
  /\ nonces' = nonces \cup {issued + 1}
  /\ UNCHANGED << registered, version, pc, job, starts, alone, anchored,
                  agreed, announced, used >>

-----------------------------------------------------------------------------
(* Requests                                                                *)

Busy == { t \in Tasks : pc[t] # "idle" }

Start(t, at, j) ==
  /\ pc[t] = "idle"
  /\ starts < MaxStarts
  /\ starts' = starts + 1
  /\ pc' = [pc EXCEPT ![t] = at]
  /\ job' = [job EXCEPT ![t] = j]
  /\ alone' = [v \in Tasks |-> IF v = t THEN Busy = {}
                                        ELSE alone[v] /\ v \notin Busy]
  /\ agreed' = [agreed EXCEPT ![j.url] = NoKey]
  /\ UNCHANGED << registered, version, nonces, issued, anchored, announced, used >>

(***************************************************************************)
(* /register_shard: the nonce is found, and its proof of work is right.    *)
(***************************************************************************)
Redeem(t, u, k, n) ==
  /\ n \in nonces
  /\ Start(t, "burn", [ NoJob EXCEPT !.url = u, !.key = k, !.nonce = n ])

\* Mutated BurnNonce: the nonce is left to expire.
BurnNothing(t) ==
  /\ pc[t] = "burn"
  /\ pc' = [pc EXCEPT ![t] = "list"]
  /\ UNCHANGED << registered, version, nonces, issued, job, starts, alone,
                  anchored, agreed, announced, used >>

BurnNonce(t) ==
  /\ pc[t] = "burn"
  /\ nonces' = nonces \ {job[t].nonce}
  /\ pc' = [pc EXCEPT ![t] = "list"]
  /\ UNCHANGED << registered, version, issued, job, starts, alone, anchored,
                  agreed, announced, used >>

End(t) ==
  /\ pc' = [pc EXCEPT ![t] = "idle"]
  /\ job' = [job EXCEPT ![t] = NoJob]

\* Mutated ReadList: the limit admits one shard too many.
ReadListOffByOne(t) ==
  /\ pc[t] = "list"
  /\ Listed(registered, job[t].url) \/ Len(registered) <= MaxShards
  /\ job' = [job EXCEPT ![t].list = WithShard(registered, job[t].url, job[t].key)]
  /\ pc' = [pc EXCEPT ![t] = "put"]
  /\ UNCHANGED << registered, version, nonces, issued, starts, alone, anchored,
                  agreed, announced, used >>

ReadList(t) ==
  /\ pc[t] = "list"
  /\ Listed(registered, job[t].url) \/ Len(registered) < MaxShards
  /\ job' = [job EXCEPT ![t].list = WithShard(registered, job[t].url, job[t].key)]
  /\ pc' = [pc EXCEPT ![t] = "put"]
  /\ UNCHANGED << registered, version, nonces, issued, starts, alone, anchored,
                  agreed, announced, used >>

RefuseAtCapacity(t) ==
  /\ pc[t] = "list"
  /\ ~ Listed(registered, job[t].url)
  /\ Len(registered) >= MaxShards
  /\ End(t)
  /\ UNCHANGED << registered, version, nonces, issued, starts, alone, anchored,
                  agreed, announced, used >>

(***************************************************************************)
(* /rotate_shard_key: the list is read, its key for u is the old key of    *)
(* the request, both signatures verify.                                    *)
(***************************************************************************)
RotateShardKey(t, u, new) ==
  /\ Listed(registered, u)
  /\ new # KeyOf(registered, u)
  /\ Start(t, "put", [ NoJob EXCEPT !.url = u, !.key = new,
                         !.list = Rekeyed(registered, u, new) ])

-----------------------------------------------------------------------------
(* The two puts that both handlers end with                                *)

PutList(t) ==
  /\ pc[t] = "put"
  /\ registered' = job[t].list
  /\ used' = used \cup ({job[t].nonce} \ {0})
  /\ pc' = [pc EXCEPT ![t] = "version"]
  /\ job' = [job EXCEPT ![t].list = << >>]
  /\ UNCHANGED << version, nonces, issued, starts, alone, anchored, agreed, announced >>

ReadVersion(t) ==
  /\ pc[t] = "version"
  /\ job' = [job EXCEPT ![t].ver = version + 1]
  /\ pc' = [pc EXCEPT ![t] = "bump"]
  /\ UNCHANGED << registered, version, nonces, issued, starts, alone, anchored,
                  agreed, announced, used >>

\* Mutated PutVersion: the version tells how many shards are listed.
PutLength(t) ==
  /\ pc[t] = "bump"
  /\ version' = 1 + Len(registered)
  /\ End(t)
  /\ IF alone[t]
       THEN /\ anchored' = UrlsOf(registered)
            /\ agreed' = [agreed EXCEPT ![job[t].url] = job[t].key]
            /\ announced' = job[t].ver
       ELSE UNCHANGED << anchored, agreed, announced >>
  /\ UNCHANGED << registered, nonces, issued, starts, alone, used >>

\* Mutated PutVersion: one more than the version read, added again.
PutVersionTwice(t) ==
  /\ pc[t] = "bump"
  /\ version' = job[t].ver + 1
  /\ End(t)
  /\ UNCHANGED << registered, nonces, issued, starts, alone, used, anchored,
                  agreed, announced >>

PutVersion(t) ==
  /\ pc[t] = "bump"
  /\ version' = job[t].ver
  /\ End(t)
  /\ IF alone[t]
       THEN /\ anchored' = UrlsOf(registered)
            /\ agreed' = [agreed EXCEPT ![job[t].url] = job[t].key]
            /\ announced' = job[t].ver
       ELSE UNCHANGED << anchored, agreed, announced >>
  /\ UNCHANGED << registered, nonces, issued, starts, alone, used >>

(***************************************************************************)
(* The Worker dies, KV throws, or, once the nonce is spent, the timestamp  *)
(* or the signature turns out wrong.                                       *)
(***************************************************************************)
Crash(t) ==
  /\ pc[t] # "idle"
  /\ End(t)
  /\ UNCHANGED << registered, version, nonces, issued, starts, alone, anchored,
                  agreed, announced, used >>

-----------------------------------------------------------------------------

Advance(t) ==
  \/ BurnNonce(t)
  \/ ReadList(t)
  \/ RefuseAtCapacity(t)
  \/ PutList(t)
  \/ ReadVersion(t)
  \/ PutVersion(t)

Next ==
  \/ PowChallenge
  \/ \E t \in Tasks :
       \/ \E u \in Urls, k \in Keys :
            \/ \E n \in 1 .. MaxNonces : Redeem(t, u, k, n)
            \/ RotateShardKey(t, u, k)
       \/ Advance(t)
       \/ Crash(t)

Spec == Init /\ [][Next]_vars

-----------------------------------------------------------------------------

(***************************************************************************)
(* However registrations overlap, no shard is listed twice and the list    *)
(* never exceeds MAX_REGISTERED_SHARDS.                                    *)
(***************************************************************************)
WellFormed ==
  /\ Len(registered) <= MaxShards
  /\ \A i, j \in DOMAIN registered : registered[i].url = registered[j].url => i = j

(***************************************************************************)
(* Placement uses the indexes of the list (router.js:247-251, "append-     *)
(* only"): once a change that overlapped nothing was answered, every shard *)
(* listed then stays at its index, whatever overlaps or dies afterwards.   *)
(***************************************************************************)
AppendOnly == IsPrefix(anchored, UrlsOf(registered))

(***************************************************************************)
(* The key that a change which overlapped nothing listed for a shard stays *)
(* listed until somebody asks to change it: overlapping requests for other *)
(* shards, each writing the whole list, do not bring an older key back.    *)
(***************************************************************************)
KeySticks == \A u \in Urls : agreed[u] # NoKey => KeyOf(registered, u) = agreed[u]

(***************************************************************************)
(* The table version never falls below one that a change which overlapped  *)
(* nothing returned to its shard (SECURITY.md:209-210).                    *)
(***************************************************************************)
VersionKept == version >= announced

(***************************************************************************)
(* router.js:632, "single-use": a registration that overlapped nothing is  *)
(* not stored with a nonce that a stored registration was made with.       *)
(***************************************************************************)
NonceSpentOnce ==
  [][ \A t \in Tasks : PutList(t) /\ alone[t] => job[t].nonce \notin used ]_vars

=============================================================================
