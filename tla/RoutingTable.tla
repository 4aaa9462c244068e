---------------------------- MODULE RoutingTable ----------------------------
(***************************************************************************)
(* The signed routing table: built by the Router from the list of shards   *)
(* (router/router.js 252-288, 353-384), pushed to the shards by cron or    *)
(* /admin/push_routing_table (401-422, 879-899), cached by each shard and  *)
(* served from there (shard/worker.js 850-907).                            *)
(*                                                                         *)
(* The builder reads the list of urls, the version and the keys at three   *)
(* different times, while registrations and rotations of ShardRegistry go  *)
(* on.  Pushes overtake one another, and a shard caches whatever valid     *)
(* table comes last.                                                       *)
(*                                                                         *)
(* One build is under way at a time: builds do not write, and a slow build *)
(* overtaken by a later one shows as its calls being delayed.  A build     *)
(* that dies is one whose calls are all lost.  Signatures are left out:    *)
(* every table here is one the Router signed.                              *)
(***************************************************************************)
EXTENDS ShardRegistry

CONSTANTS
  Static,    \* SHARD_URLS
  Self,      \* the shard whose cache is followed: caches do not interact
  MaxCalls   \* calls of its /internal/routing_table in flight at once (bound)

ASSUME StaticAssumption == Static \in Seq(Range(Static))

VARIABLES
  bpc,       \* the await the builder is at
  draft,     \* the table as read so far
  calls,     \* calls[c]: the table of a call under way, or NoTable
  cache,     \* KV "routing_table_cache" of Self, or NoTable
  since      \* history: what was agreed upon when the build began

tableVars == << bpc, draft, calls, cache, since >>
allVars == << vars, tableVars >>

NoTable == [ urls |-> << >>, version |-> 0, keys |-> [u \in Urls |-> NoKey] ]

Table == [ urls : Seq(Urls \cup Range(Static)), version : Nat,
           keys : [Urls -> Keys \cup {NoKey}] ]

Joined(urls, url) == IF url \in Range(urls) THEN urls ELSE Append(urls, url)

(***************************************************************************)
(* getShardUrls: the static shards, then the registered ones.              *)
(***************************************************************************)
Merged(urls) ==
  LET merged[n \in 0 .. Len(urls)] ==
        IF n = 0 THEN Static ELSE Joined(merged[n - 1], urls[n])
  IN  merged[Len(urls)]

ShardUrls == Merged(UrlsOf(registered))
Pubkeys   == [ u \in Urls |-> KeyOf(registered, u) ]
Current   == [ urls |-> ShardUrls, version |-> version, keys |-> Pubkeys ]

Agreement == [ urls |-> anchored, keys |-> agreed, version |-> announced ]

TableTypeOK ==
  /\ TypeOK
  /\ bpc \in {"idle", "urls", "version", "keys"}
  /\ draft \in Table
  /\ calls \in [1 .. MaxCalls -> Table]
  /\ cache \in Table
  /\ cache # NoTable => IsPrefix(Static, cache.urls)

TableInit ==
  /\ Init
  /\ bpc = "idle"
  /\ draft = NoTable
  /\ calls = [c \in 1 .. MaxCalls |-> NoTable]
  /\ cache = NoTable
  /\ since = Agreement

-----------------------------------------------------------------------------
(* Builder                                                                 *)

(***************************************************************************)
(* scheduled, /admin/push_routing_table: the shards to push to are read    *)
(* before, and apart from, the table.  GET /routing_table.json builds one  *)
(* in the same way and pushes it nowhere.                                  *)
(***************************************************************************)
BeginPush ==
  /\ bpc = "idle"
  /\ Self \in Range(ShardUrls)
  /\ \E c \in 1 .. MaxCalls : calls[c] = NoTable
  /\ bpc' = "urls"
  /\ since' = Agreement
  /\ UNCHANGED << draft, calls, cache, vars >>

\* Mutated ReadUrls: only the shards that registered themselves.
ReadRegisteredUrls ==
  /\ bpc = "urls"
  /\ bpc' = "version"
  /\ draft' = [draft EXCEPT !.urls = UrlsOf(registered)]
  /\ UNCHANGED << calls, cache, since, vars >>

\* Mutated ReadUrls: the urls of the table pushed before are used again.
ReadUrlsOnce ==
  /\ bpc = "urls"
  /\ bpc' = "version"
  /\ draft' = [draft EXCEPT !.urls = IF cache = NoTable THEN ShardUrls ELSE cache.urls]
  /\ UNCHANGED << calls, cache, since, vars >>

ReadUrls ==
  /\ bpc = "urls"
  /\ bpc' = "version"
  /\ draft' = [draft EXCEPT !.urls = ShardUrls]
  /\ UNCHANGED << calls, cache, since, vars >>

ReadTableVersion ==
  /\ bpc = "version"
  /\ bpc' = "keys"
  /\ draft' = [draft EXCEPT !.version = version]
  /\ UNCHANGED << calls, cache, since, vars >>

Signed == [draft EXCEPT !.keys = Pubkeys]

(***************************************************************************)
(* The keys are read, the table is signed and sent.                        *)
(***************************************************************************)
ReadKeys ==
  /\ bpc = "keys"
  /\ bpc' = "idle"
  /\ \E c \in 1 .. MaxCalls :
       /\ calls[c] = NoTable
       /\ \A b \in 1 .. (c - 1) : calls[b] # NoTable
       /\ calls' = [calls EXCEPT ![c] = Signed]
  /\ draft' = NoTable
  /\ since' = Agreement
  /\ UNCHANGED << cache, vars >>

-----------------------------------------------------------------------------
(* Calls                                                                   *)

\* Mutated Deliver: a table is cached only if its version is higher.
DeliverNewer(c) ==
  /\ calls[c] # NoTable
  /\ calls' = [calls EXCEPT ![c] = NoTable]
  /\ cache' = IF calls[c].version > cache.version THEN calls[c] ELSE cache
  /\ UNCHANGED << bpc, draft, since, vars >>

\* handleRoutingTablePush
Deliver(c) ==
  /\ calls[c] # NoTable
  /\ calls' = [calls EXCEPT ![c] = NoTable]
  /\ cache' = calls[c]
  /\ UNCHANGED << bpc, draft, since, vars >>

(***************************************************************************)
(* The shard is down, the call comes after the table expired, or the put   *)
(* fails.                                                                  *)
(***************************************************************************)
Lose(c) ==
  /\ calls[c] # NoTable
  /\ calls' = [calls EXCEPT ![c] = NoTable]
  /\ UNCHANGED << bpc, draft, cache, since, vars >>

-----------------------------------------------------------------------------

TableNext ==
  \/ Next /\ UNCHANGED tableVars
  \/ BeginPush
  \/ ReadUrls
  \/ ReadTableVersion
  \/ ReadKeys
  \/ \E c \in 1 .. MaxCalls : Deliver(c) \/ Lose(c)

(***************************************************************************)
(* Cron goes on pushing, a build and a call end, and not every call is     *)
(* lost.  Nothing is assumed of the requests that change the list.         *)
(***************************************************************************)
Fairness ==
  /\ WF_allVars(BeginPush)
  /\ WF_allVars(ReadUrls \/ ReadTableVersion \/ ReadKeys)
  /\ \A c \in 1 .. MaxCalls : WF_allVars(Deliver(c) \/ Lose(c))
  /\ SF_allVars(\E c \in 1 .. MaxCalls : Deliver(c))

TableSpec == TableInit /\ [][TableNext]_allVars /\ Fairness

-----------------------------------------------------------------------------

VersionCovered == Signed.version >= since.version

UrlsCovered == IsPrefix(Merged(since.urls), Signed.urls)

KeysCovered ==
  /\ \A u \in Range(since.urls) : Signed.keys[u] # NoKey
  /\ \A u \in Urls : since.keys[u] = agreed[u] /\ agreed[u] # NoKey
                       => Signed.keys[u] = agreed[u]

(***************************************************************************)
(* A table whose build began after a change that overlapped nothing was    *)
(* answered has at least the version that was returned, every shard listed *)
(* then at its index and with a key, and for a shard nobody asked to       *)
(* change since, the key that was agreed upon: although urls, version and  *)
(* keys are read apart, with changes in between.                           *)
(***************************************************************************)
TableCovers == [][ReadKeys => VersionCovered /\ UrlsCovered /\ KeysCovered]_allVars

(***************************************************************************)
(* Whatever order the pushes arrive in: once nobody changes the list any   *)
(* more, the shard comes to serve the current table, and keeps it.         *)
(***************************************************************************)
CachesConverge == <>[](Self \in Range(ShardUrls) => cache = Current)

=============================================================================
