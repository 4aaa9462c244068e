------------------------- MODULE RoutingTableProofs -------------------------
(***************************************************************************)
(* What survives overlapping changes of the Router's list, for any shards, *)
(* keys, limits and number of requests, and what a table built meanwhile   *)
(* is sure to have.                                                        *)
(***************************************************************************)
EXTENDS RoutingTable, FiniteSetTheorems, SequenceTheorems, TLAPS

Pcs == {"idle", "burn", "list", "put", "version", "bump"}

Has(list, u, k) == \E i \in 1 .. Len(list) : list[i] = [url |-> u, key |-> k]

(***************************************************************************)
(* A list that may be stored: well formed, with the urls that must stay at *)
(* their indexes and the keys that must stay listed.                       *)
(***************************************************************************)
Fit(list, urls, keys) ==
  /\ list \in Seq(Shard)
  /\ Len(list) <= MaxShards
  /\ \A i, j \in 1 .. Len(list) : list[i].url = list[j].url => i = j
  /\ Len(urls) <= Len(list)
  /\ \A i \in 1 .. Len(urls) : urls[i] = list[i].url
  /\ \A u \in Urls : keys[u] # NoKey => Has(list, u, keys[u])

\* Requests that have not read the version yet.
Pending == { t \in Tasks : pc[t] \in {"burn", "list", "put", "version"} }

(***************************************************************************)
(* Every request adds at most one to the version.                          *)
(***************************************************************************)
Counted ==
  /\ IsFiniteSet(Pending)
  /\ version + Cardinality(Pending) <= 1 + starts
  /\ \A t \in Tasks :
       pc[t] = "bump" => /\ job[t].ver \in Nat \ {0}
                         /\ job[t].ver + Cardinality(Pending) <= 1 + starts

(***************************************************************************)
(* What a request under way knows, whoever else changes the list.          *)
(***************************************************************************)
JobOK(t) ==
  pc[t] # "idle" =>
    /\ job[t].url \in Urls /\ job[t].key \in Keys
    /\ job[t].nonce \in 0 .. issued
    /\ agreed[job[t].url] = NoKey
    /\ pc[t] # "burn" => job[t].nonce \notin nonces
    /\ pc[t] = "put" => /\ Fit(job[t].list, anchored, agreed)
                        /\ Has(job[t].list, job[t].url, job[t].key)
    /\ pc[t] = "bump" => job[t].ver >= announced

Jobs == \A t \in Tasks : JobOK(t)

(***************************************************************************)
(* A request that overlaps nothing finds what it wrote.                    *)
(***************************************************************************)
AloneOK(t) ==
  alone[t] /\ pc[t] # "idle" =>
    /\ \A v \in Tasks \ {t} : pc[v] = "idle"
    /\ pc[t] \in {"version", "bump"} => Has(registered, job[t].url, job[t].key)
    /\ pc[t] \in {"burn", "list", "put"} => job[t].nonce \notin used

Alone == \A t \in Tasks : AloneOK(t)

Kept ==
  /\ Fit(registered, anchored, agreed)
  /\ version >= announced
  /\ used \cap nonces = {}

IInv == TypeOK /\ Counted /\ Jobs /\ Alone /\ Kept

-----------------------------------------------------------------------------
(* Lists.                                                                  *)

LEMMA ShardFields ==
  /\ \A u \in Urls, k \in Keys : [url |-> u, key |-> k] \in Shard
  /\ \A s \in Shard : s.url \in Urls /\ s.key \in Keys /\ s = [url |-> s.url, key |-> s.key]
  BY DEF Shard

LEMMA ListedIndex ==
  ASSUME NEW list \in Seq(Shard), NEW u
  PROVE  Listed(list, u) <=> \E i \in 1 .. Len(list) : list[i].url = u
  BY DEF Listed

LEMMA RekeyedFits ==
  ASSUME NEW list, NEW urls \in Seq(Urls), NEW keys, Fit(list, urls, keys),
         NEW u \in Urls, NEW k \in Keys, keys[u] = NoKey
  PROVE  /\ Fit(Rekeyed(list, u, k), urls, keys)
         /\ Listed(list, u) => Has(Rekeyed(list, u, k), u, k)
<1> DEFINE new == Rekeyed(list, u, k)
<1>0. list \in Seq(Shard) /\ Len(list) \in Nat
  BY DEF Fit
<1>1. /\ new \in Seq(Shard) /\ Len(new) = Len(list)
      /\ \A i \in 1 .. Len(list) :
           new[i] = IF list[i].url = u THEN [url |-> u, key |-> k] ELSE list[i]
  <2>1. new = [ i \in 1 .. Len(list) |->
                  IF list[i].url = u THEN [url |-> u, key |-> k] ELSE list[i] ]
    BY <1>0 DEF Rekeyed
  <2>2. \A i \in 1 .. Len(list) : new[i] \in Shard
    BY <1>0, <2>1, ShardFields
  <2> HIDE DEF new
  <2>3. new \in Seq(Shard) /\ Len(new) = Len(list)
    BY <1>0, <2>1, <2>2, IsASeq
  <2> QED
    BY <2>1, <2>3
<1> HIDE DEF new
<1>2. \A i \in 1 .. Len(list) : new[i].url = list[i].url
  BY <1>1
<1>3. ASSUME NEW v \in Urls, keys[v] # NoKey PROVE Has(new, v, keys[v])
  <2>1. PICK i \in 1 .. Len(list) : list[i] = [url |-> v, key |-> keys[v]]
    BY <1>3 DEF Fit, Has
  <2>2. list[i].url # u
    BY <1>3, <2>1
  <2>3. new[i] = [url |-> v, key |-> keys[v]]
    BY <1>1, <2>1, <2>2
  <2> QED
    BY <1>1, <2>3 DEF Has
<1>4. Fit(new, urls, keys)
  BY <1>1, <1>2, <1>3 DEF Fit
<1>5. Listed(list, u) => Has(new, u, k)
  BY <1>0, <1>1, ListedIndex DEF Has
<1> QED
  BY <1>4, <1>5 DEF new

LEMMA AppendFits ==
  ASSUME NEW list, NEW urls \in Seq(Urls), NEW keys, Fit(list, urls, keys),
         NEW u \in Urls, NEW k \in Keys, ~ Listed(list, u), Len(list) < MaxShards
  PROVE  /\ Fit(Append(list, [url |-> u, key |-> k]), urls, keys)
         /\ Has(Append(list, [url |-> u, key |-> k]), u, k)
<1> DEFINE s == [url |-> u, key |-> k]
           new == Append(list, s)
<1>0. list \in Seq(Shard) /\ Len(list) \in Nat /\ s \in Shard
  BY ShardFields DEF Fit
<1>1. /\ new \in Seq(Shard) /\ Len(new) = Len(list) + 1
      /\ \A i \in 1 .. Len(list) : new[i] = list[i]
      /\ new[Len(list) + 1] = s
  <2> HIDE DEF s
  <2> QED
    BY <1>0, AppendProperties
<1>2. s.url = u
  OBVIOUS
<1> HIDE DEF new, s
<1>3. \A i \in 1 .. Len(list) : list[i].url # u
  BY <1>0, ListedIndex
<1>4. \A i, j \in 1 .. Len(new) : new[i].url = new[j].url => i = j
  <2> SUFFICES ASSUME NEW i \in 1 .. Len(new), NEW j \in 1 .. Len(new),
                      new[i].url = new[j].url
               PROVE  i = j
    OBVIOUS
  <2>1. /\ i \in 1 .. Len(list) \/ i = Len(list) + 1
        /\ j \in 1 .. Len(list) \/ j = Len(list) + 1
    BY <1>0, <1>1
  <2> QED
    BY <1>1, <1>2, <1>3, <2>1 DEF Fit
<1>5. \A i \in 1 .. Len(urls) : urls[i] = new[i].url
  BY <1>0, <1>1 DEF Fit
<1>6. ASSUME NEW v \in Urls, keys[v] # NoKey PROVE Has(new, v, keys[v])
  <2>1. PICK i \in 1 .. Len(list) : list[i] = [url |-> v, key |-> keys[v]]
    BY <1>6 DEF Fit, Has
  <2> QED
    BY <1>0, <1>1, <2>1 DEF Has
<1>7. Fit(new, urls, keys)
  BY <1>0, <1>1, <1>4, <1>5, <1>6, MaxShardsAssumption DEF Fit
<1>8. Has(new, u, k)
  BY <1>0, <1>1 DEF Has, s
<1> QED
  BY <1>7, <1>8 DEF new, s

LEMMA WithShardFits ==
  ASSUME NEW list, NEW urls \in Seq(Urls), NEW keys, Fit(list, urls, keys),
         NEW u \in Urls, NEW k \in Keys, keys[u] = NoKey,
         Listed(list, u) \/ Len(list) < MaxShards
  PROVE  /\ Fit(WithShard(list, u, k), urls, keys)
         /\ Has(WithShard(list, u, k), u, k)
<1>1. CASE Listed(list, u)
  BY <1>1, RekeyedFits DEF WithShard
<1>2. CASE ~ Listed(list, u)
  BY <1>2, AppendFits DEF WithShard
<1> QED
  BY <1>1, <1>2

LEMMA KeyOfHas ==
  ASSUME NEW list, NEW urls, NEW keys, Fit(list, urls, keys),
         NEW u, NEW k, Has(list, u, k)
  PROVE  KeyOf(list, u) = k
<1>1. list \in Seq(Shard)
  BY DEF Fit
<1>2. PICK i \in 1 .. Len(list) : list[i] = [url |-> u, key |-> k]
  BY DEF Has
<1>3. i \in DOMAIN list /\ list[i].url = u
  BY <1>1, <1>2
<1> DEFINE j == CHOOSE n \in DOMAIN list : list[n].url = u
<1>4. j \in DOMAIN list /\ list[j].url = u
  BY <1>3
<1> HIDE DEF j
<1>5. j = i
  BY <1>1, <1>2, <1>3, <1>4 DEF Fit
<1>6. list[j].key = k
  BY <1>2, <1>5
<1> QED
  BY <1>3, <1>6 DEF KeyOf, Listed, j

LEMMA UrlsOfTyped ==
  ASSUME NEW list \in Seq(Shard)
  PROVE  /\ UrlsOf(list) \in Seq(Urls) /\ Len(UrlsOf(list)) = Len(list)
         /\ \A i \in 1 .. Len(list) : UrlsOf(list)[i] = list[i].url
<1>1. UrlsOf(list) = [ i \in 1 .. Len(list) |-> list[i].url ]
  BY DEF UrlsOf
<1>2. \A i \in 1 .. Len(list) : list[i].url \in Urls
  BY ShardFields
<1> QED
  BY <1>1, <1>2, IsASeq

LEMMA FitPrefix ==
  ASSUME NEW list, NEW urls \in Seq(Urls), NEW keys, Fit(list, urls, keys)
  PROVE  IsPrefix(urls, UrlsOf(list))
<1> DEFINE all == UrlsOf(list)
<1>1. /\ all \in Seq(Urls) /\ Len(all) = Len(list)
      /\ \A i \in 1 .. Len(list) : all[i] = list[i].url
  BY UrlsOfTyped DEF Fit
<1> HIDE DEF all
<1>2. Len(urls) \in Nat /\ Len(urls) <= Len(all)
  BY <1>1 DEF Fit
<1>3. \A i \in 1 .. Len(urls) : urls[i] = all[i]
  BY <1>1 DEF Fit
<1>4. /\ SubSeq(urls, 1, Len(urls)) \in Seq(Urls)
      /\ SubSeq(all, 1, Len(urls)) \in Seq(Urls)
      /\ Len(SubSeq(urls, 1, Len(urls))) = Len(urls)
      /\ Len(SubSeq(all, 1, Len(urls))) = Len(urls)
      /\ \A i \in 1 .. Len(urls) : /\ SubSeq(urls, 1, Len(urls))[i] = urls[i]
                                   /\ SubSeq(all, 1, Len(urls))[i] = all[i]
  <2>1. \A i \in 1 .. Len(urls) : urls[i] \in Urls /\ all[i] \in Urls
    BY <1>1, <1>2
  <2> QED
    BY <1>2, <2>1, SubSeqProperties
<1>5. SubSeq(urls, 1, Len(urls)) = SubSeq(all, 1, Len(urls))
  BY <1>2, <1>3, <1>4, SeqEqual
<1> QED
  BY <1>2, <1>5 DEF IsPrefix, all

\* What does not have to stay, need not stay.
LEMMA FitLess ==
  ASSUME NEW list, NEW urls, NEW keys \in [Urls -> Keys \cup {NoKey}], NEW u \in Urls,
         Fit(list, urls, keys)
  PROVE  Fit(list, urls, [keys EXCEPT ![u] = NoKey])
  BY DEF Fit

-----------------------------------------------------------------------------
(* Typing.                                                                 *)

LEMMA NoJobTyped == NoJob \in Job /\ NoJob.url \notin Urls
<1>1. << >> \in Seq(Shard) /\ 0 \in 0 .. MaxNonces
  BY MaxNoncesAssumption
<1> QED
  BY <1>1, NoneAssumption DEF NoJob, Job

LEMMA JobFields ==
  ASSUME NEW j \in Job
  PROVE  /\ j.url \in Urls \cup {NoUrl} /\ j.key \in Keys \cup {NoKey}
         /\ j.nonce \in 0 .. MaxNonces /\ j.list \in Seq(Shard) /\ j.ver \in Nat
         /\ \A list \in Seq(Shard) :
              /\ [j EXCEPT !.list = list] \in Job
              /\ [j EXCEPT !.list = list].url = j.url
              /\ [j EXCEPT !.list = list].key = j.key
              /\ [j EXCEPT !.list = list].nonce = j.nonce
              /\ [j EXCEPT !.list = list].ver = j.ver
              /\ [j EXCEPT !.list = list].list = list
         /\ \A ver \in Nat :
              /\ [j EXCEPT !.ver = ver] \in Job
              /\ [j EXCEPT !.ver = ver].url = j.url
              /\ [j EXCEPT !.ver = ver].key = j.key
              /\ [j EXCEPT !.ver = ver].nonce = j.nonce
              /\ [j EXCEPT !.ver = ver].list = j.list
              /\ [j EXCEPT !.ver = ver].ver = ver
  BY DEF Job

\* Where a request is after a step of request t, and what it knows.
LEMMA OthersStay ==
  ASSUME TypeOK, NEW t \in Tasks
  PROVE  /\ \A at : pc' = [pc EXCEPT ![t] = at] =>
              pc'[t] = at /\ \A v \in Tasks \ {t} : pc'[v] = pc[v]
         /\ \A j : job' = [job EXCEPT ![t] = j] =>
              job'[t] = j /\ \A v \in Tasks \ {t} : job'[v] = job[v]
         /\ \A list : job' = [job EXCEPT ![t].list = list] =>
              /\ job'[t] = [job[t] EXCEPT !.list = list]
              /\ \A v \in Tasks \ {t} : job'[v] = job[v]
         /\ \A ver : job' = [job EXCEPT ![t].ver = ver] =>
              /\ job'[t] = [job[t] EXCEPT !.ver = ver]
              /\ \A v \in Tasks \ {t} : job'[v] = job[v]
  BY DEF TypeOK

LEMMA StartTyped ==
  ASSUME TypeOK, NEW t \in Tasks, NEW at \in {"burn", "put"}, NEW j \in Job,
         j.url \in Urls, Start(t, at, j)
  PROVE  TypeOK'
<1>1. pc' \in [Tasks -> Pcs] /\ job' \in [Tasks -> Job]
  BY DEF Start, TypeOK, Pcs
<1>2. \A v \in Tasks : pc'[v] = "idle" <=> job'[v] = NoJob
  BY OthersStay, NoJobTyped DEF Start, TypeOK
<1>3. alone' \in [Tasks -> BOOLEAN]
  BY DEF Start, TypeOK
<1>4. agreed' \in [Urls -> Keys \cup {NoKey}]
  BY DEF Start, TypeOK
<1>5. starts' \in 0 .. MaxStarts
  BY MaxStartsAssumption DEF Start, TypeOK
<1> QED
  BY <1>1, <1>2, <1>3, <1>4, <1>5 DEF Start, TypeOK, Pcs

LEMMA EndTyped ==
  ASSUME TypeOK, NEW t \in Tasks, End(t)
  PROVE  /\ pc' \in [Tasks -> Pcs] /\ job' \in [Tasks -> Job]
         /\ \A v \in Tasks : pc'[v] = "idle" <=> job'[v] = NoJob
<1>1. pc' \in [Tasks -> Pcs] /\ job' \in [Tasks -> Job]
  BY NoJobTyped DEF End, TypeOK, Pcs
<1>2. \A v \in Tasks : pc'[v] = "idle" <=> job'[v] = NoJob
  BY OthersStay DEF End, TypeOK
<1> QED
  BY <1>1, <1>2

LEMMA CountBound ==
  ASSUME TypeOK, Counted
  PROVE  /\ Cardinality(Pending) \in Nat
         /\ version + 1 \in 1 .. (1 + MaxStarts) \/ Pending = {}
         /\ \A t \in Tasks : pc[t] = "bump" => job[t].ver \in 1 .. (1 + MaxStarts)
<1>1. Cardinality(Pending) \in Nat /\ (Cardinality(Pending) = 0 <=> Pending = {})
  BY FS_CardinalityType, FS_EmptySet DEF Counted
<1>2. starts \in Nat /\ starts <= MaxStarts /\ version \in Nat
  BY MaxStartsAssumption DEF TypeOK
<1> QED
  BY <1>1, <1>2, MaxStartsAssumption DEF Counted

\* The list a request writes is one that may be stored.
LEMMA RotationFits ==
  ASSUME IInv, NEW u \in Urls, NEW k \in Keys, Listed(registered, u)
  PROVE  /\ Rekeyed(registered, u, k) \in Seq(Shard)
         /\ Fit(Rekeyed(registered, u, k), anchored, [agreed EXCEPT ![u] = NoKey])
         /\ Has(Rekeyed(registered, u, k), u, k)
<1> DEFINE keys == [agreed EXCEPT ![u] = NoKey]
<1>1. anchored \in Seq(Urls) /\ agreed \in [Urls -> Keys \cup {NoKey}]
  BY DEF IInv, TypeOK
<1>2. keys[u] = NoKey
  BY <1>1
<1>3. Fit(registered, anchored, keys)
  BY <1>1, FitLess DEF IInv, Kept
<1> HIDE DEF keys
<1>4. /\ Fit(Rekeyed(registered, u, k), anchored, keys)
      /\ Has(Rekeyed(registered, u, k), u, k)
  BY <1>1, <1>2, <1>3, RekeyedFits
<1> QED
  BY <1>4 DEF Fit, keys

LEMMA ReadFits ==
  ASSUME IInv, NEW t \in Tasks, ReadList(t)
  PROVE  LET list == WithShard(registered, job[t].url, job[t].key) IN
           Fit(list, anchored, agreed) /\ Has(list, job[t].url, job[t].key)
<1>1. /\ job[t].url \in Urls /\ job[t].key \in Keys /\ agreed[job[t].url] = NoKey
      /\ Listed(registered, job[t].url) \/ Len(registered) < MaxShards
  BY DEF ReadList, IInv, Jobs, JobOK
<1>2. anchored \in Seq(Urls) /\ Fit(registered, anchored, agreed)
  BY DEF IInv, TypeOK, Kept
<1> QED
  BY <1>1, <1>2, WithShardFits

LEMMA TypedStep ==
  ASSUME IInv, [Next]_vars
  PROVE  TypeOK'
<1>0. TypeOK /\ Counted /\ Jobs
  BY DEF IInv
<1>1. CASE PowChallenge
  BY <1>0, <1>1, MaxNoncesAssumption DEF PowChallenge, TypeOK
<1>2. ASSUME NEW t \in Tasks, NEW u \in Urls, NEW k \in Keys, NEW n \in 1 .. MaxNonces,
             Redeem(t, u, k, n)
      PROVE  TypeOK'
  <2> DEFINE j == [ NoJob EXCEPT !.url = u, !.key = k, !.nonce = n ]
  <2>1. Start(t, "burn", j)
    BY <1>2 DEF Redeem
  <2>2. j \in Job /\ j.url = u
    <3>1. n \in 0 .. MaxNonces
      BY MaxNoncesAssumption
    <3> QED
      BY <3>1, NoJobTyped DEF NoJob, Job
  <2> HIDE DEF j
  <2> QED
    BY <1>0, <2>1, <2>2, StartTyped
<1>3. ASSUME NEW t \in Tasks, NEW u \in Urls, NEW k \in Keys, RotateShardKey(t, u, k)
      PROVE  TypeOK'
  <2> DEFINE list == Rekeyed(registered, u, k)
             j == [ NoJob EXCEPT !.url = u, !.key = k, !.list = list ]
  <2>1. list \in Seq(Shard)
    BY <1>3, RotationFits DEF RotateShardKey
  <2>2. Start(t, "put", j)
    BY <1>3 DEF RotateShardKey
  <2> HIDE DEF list
  <2>3. j \in Job /\ j.url = u
    BY <2>1, NoJobTyped DEF NoJob, Job
  <2> HIDE DEF j
  <2> QED
    BY <1>0, <2>2, <2>3, StartTyped
<1>4. ASSUME NEW t \in Tasks, BurnNonce(t) PROVE TypeOK'
  BY <1>0, <1>4, OthersStay DEF BurnNonce, TypeOK
<1>5. ASSUME NEW t \in Tasks, ReadList(t) PROVE TypeOK'
  <2> DEFINE list == WithShard(registered, job[t].url, job[t].key)
  <2>1. list \in Seq(Shard)
    BY <1>5, ReadFits DEF Fit
  <2>2. job' = [job EXCEPT ![t].list = list] /\ pc' = [pc EXCEPT ![t] = "put"] /\ pc[t] = "list"
    BY <1>5 DEF ReadList
  <2> HIDE DEF list
  <2>3. job[t] \in Job /\ job[t].url # NoJob.url
    BY <1>0, <2>2, NoJobTyped DEF TypeOK, Jobs, JobOK
  <2>4. job'[t] \in Job /\ job'[t].url = job[t].url
    BY <1>0, <2>1, <2>2, <2>3, JobFields, OthersStay
  <2>5. job' \in [Tasks -> Job]
    BY <1>0, <2>2, <2>4, OthersStay DEF TypeOK
  <2>6. \A v \in Tasks : pc'[v] = "idle" <=> job'[v] = NoJob
    BY <1>0, <2>2, <2>3, <2>4, OthersStay DEF TypeOK
  <2> QED
    BY <1>0, <1>5, <2>2, <2>5, <2>6 DEF ReadList, TypeOK
<1>6. ASSUME NEW t \in Tasks, RefuseAtCapacity(t) \/ Crash(t) PROVE TypeOK'
  <2>1. End(t) /\ UNCHANGED << registered, version, nonces, issued, starts, alone,
                               anchored, agreed, announced, used >>
    BY <1>6 DEF RefuseAtCapacity, Crash
  <2> QED
    BY <1>0, <2>1, EndTyped DEF TypeOK, Pcs
<1>7. ASSUME NEW t \in Tasks, PutList(t) PROVE TypeOK'
  <2>1. job' = [job EXCEPT ![t].list = << >>] /\ pc' = [pc EXCEPT ![t] = "version"] /\ pc[t] = "put"
    BY <1>7 DEF PutList
  <2>2. job[t] \in Job /\ job[t].url # NoJob.url /\ << >> \in Seq(Shard)
    BY <1>0, <2>1, NoJobTyped DEF TypeOK, Jobs, JobOK
  <2>3. job'[t] \in Job /\ job'[t].url = job[t].url
    <3>1. job'[t] = [job[t] EXCEPT !.list = << >>]
      BY <1>0, <2>1, OthersStay
    <3> QED
      BY <2>2, <3>1 DEF Job
  <2>4. job' \in [Tasks -> Job]
    BY <1>0, <2>1, <2>3, OthersStay DEF TypeOK
  <2>5. \A v \in Tasks : pc'[v] = "idle" <=> job'[v] = NoJob
    BY <1>0, <2>1, <2>2, <2>3, OthersStay DEF TypeOK
  <2>6. registered' \in Seq(Shard) /\ used' \subseteq 1 .. issued
    <3>1. job[t].nonce \in 0 .. issued /\ issued \in Nat
      BY <1>0, <2>1 DEF TypeOK, Jobs, JobOK
    <3>2. {job[t].nonce} \ {0} \subseteq 1 .. issued
      BY <3>1
    <3> QED
      BY <1>0, <1>7, <2>2, <3>2, JobFields DEF PutList, TypeOK
  <2> QED
    BY <1>0, <1>7, <2>1, <2>4, <2>5, <2>6 DEF PutList, TypeOK
<1>8. ASSUME NEW t \in Tasks, ReadVersion(t) PROVE TypeOK'
  <2>1. job' = [job EXCEPT ![t].ver = version + 1] /\ pc' = [pc EXCEPT ![t] = "bump"] /\ pc[t] = "version"
    BY <1>8 DEF ReadVersion
  <2>2. job[t] \in Job /\ job[t].url # NoJob.url /\ version + 1 \in Nat
    BY <1>0, <2>1, NoJobTyped DEF TypeOK, Jobs, JobOK
  <2>3. job'[t] \in Job /\ job'[t].url = job[t].url
    BY <1>0, <2>1, <2>2, JobFields, OthersStay
  <2>4. job' \in [Tasks -> Job]
    BY <1>0, <2>1, <2>3, OthersStay DEF TypeOK
  <2>5. \A v \in Tasks : pc'[v] = "idle" <=> job'[v] = NoJob
    BY <1>0, <2>1, <2>2, <2>3, OthersStay DEF TypeOK
  <2> QED
    BY <1>0, <1>8, <2>1, <2>4, <2>5 DEF ReadVersion, TypeOK
<1>9. ASSUME NEW t \in Tasks, PutVersion(t) PROVE TypeOK'
  <2>1. job[t].ver \in 1 .. (1 + MaxStarts) /\ job[t].key \in Keys /\ End(t)
    BY <1>0, <1>9, CountBound DEF PutVersion, Jobs, JobOK
  <2>2. UrlsOf(registered) \in Seq(Urls)
    BY <1>0, UrlsOfTyped DEF TypeOK
  <2>3. /\ version' \in 1 .. (1 + MaxStarts)
        /\ announced' \in 0 .. (1 + MaxStarts)
        /\ anchored' \in Seq(Urls)
    BY <1>0, <1>9, <2>1, <2>2, MaxStartsAssumption DEF PutVersion, TypeOK
  <2>4. agreed' \in [Urls -> Keys \cup {NoKey}]
    BY <1>0, <1>9, <2>1 DEF PutVersion, TypeOK
  <2> QED
    BY <1>0, <1>9, <2>1, <2>3, <2>4, EndTyped DEF PutVersion, TypeOK, Pcs
<1>10. CASE UNCHANGED vars
  BY <1>0, <1>10 DEF vars, TypeOK
<1> QED
  BY <1>1, <1>2, <1>3, <1>4, <1>5, <1>6, <1>7, <1>8, <1>9, <1>10 DEF Next, Advance

-----------------------------------------------------------------------------
(* One conjunct after the other.                                           *)

LEMMA CountPending ==
  ASSUME TypeOK, Counted, NEW t \in Tasks
  PROVE  LET n == Cardinality(Pending) IN
           /\ n \in Nat
           /\ IsFiniteSet(Pending \cup {t}) /\ Cardinality(Pending \cup {t}) <= n + 1
           /\ IsFiniteSet(Pending \ {t}) /\ Cardinality(Pending \ {t}) \in Nat
           /\ Cardinality(Pending \ {t}) <= n
           /\ t \in Pending => Cardinality(Pending \ {t}) = n - 1
           /\ Cardinality(Pending \cup {t}) \in Nat
<1>1. IsFiniteSet(Pending) /\ Cardinality(Pending) \in Nat
  BY FS_CardinalityType DEF Counted
<1>2. /\ IsFiniteSet(Pending \cup {t})
      /\ Cardinality(Pending \cup {t}) =
           IF t \in Pending THEN Cardinality(Pending) ELSE Cardinality(Pending) + 1
  BY <1>1, FS_AddElement
<1>3. /\ IsFiniteSet(Pending \ {t})
      /\ Cardinality(Pending \ {t}) =
           IF t \in Pending THEN Cardinality(Pending) - 1 ELSE Cardinality(Pending)
  BY <1>1, FS_RemoveElement
<1>4. Cardinality(Pending \ {t}) \in Nat
  BY <1>3, FS_CardinalityType
<1> QED
  BY <1>1, <1>2, <1>3, <1>4

LEMMA CountedStep ==
  ASSUME IInv, [Next]_vars
  PROVE  Counted'
<1>0. /\ TypeOK /\ Counted /\ version \in Nat /\ starts \in Nat
      /\ Cardinality(Pending) \in Nat
  BY MaxStartsAssumption, CountBound DEF IInv, TypeOK
<1>c. /\ version + Cardinality(Pending) <= 1 + starts
      /\ \A t \in Tasks :
           pc[t] = "bump" => /\ job[t].ver \in Nat \ {0}
                             /\ job[t].ver + Cardinality(Pending) <= 1 + starts
  BY <1>0 DEF Counted
\* What is needed of the number of requests that read the version later.
<1>n. ASSUME NEW more \in {0, 1}, starts' = starts + more, version' = version,
             IsFiniteSet(Pending'), Cardinality(Pending') \in Nat,
             Cardinality(Pending') <= Cardinality(Pending) + more,
             \A v \in Tasks : pc'[v] = "bump" => pc[v] = "bump" /\ job'[v] = job[v]
      PROVE  Counted'
  <2>1. version' + Cardinality(Pending') <= 1 + starts'
    BY <1>0, <1>c, <1>n
  <2>2. ASSUME NEW v \in Tasks, pc'[v] = "bump"
        PROVE  /\ job'[v].ver \in Nat \ {0}
               /\ job'[v].ver + Cardinality(Pending') <= 1 + starts'
    <3>1. /\ job'[v].ver = job[v].ver /\ job[v].ver \in Nat \ {0}
          /\ job[v].ver + Cardinality(Pending) <= 1 + starts
      BY <1>c, <1>n, <2>2
    <3> QED
      BY <1>0, <1>n, <3>1
  <2> QED
    BY <1>n, <2>1, <2>2 DEF Counted
<1> DEFINE Same(t) == \A v \in Tasks \ {t} : pc'[v] = pc[v] /\ job'[v] = job[v]
<1>s. ASSUME NEW t \in Tasks, NEW at \in {"burn", "put"}, NEW j, Start(t, at, j)
      PROVE  Counted'
  <2>1. Same(t) /\ pc'[t] = at
    BY <1>0, <1>s, OthersStay DEF Start
  <2>2. Pending' = Pending \cup {t}
    BY <2>1 DEF Pending
  <2>3. starts' = starts + 1 /\ version' = version
    BY <1>s DEF Start
  <2>4. \A v \in Tasks : pc'[v] = "bump" => pc[v] = "bump" /\ job'[v] = job[v]
    BY <2>1
  <2>5. /\ IsFiniteSet(Pending') /\ Cardinality(Pending') \in Nat
        /\ Cardinality(Pending') <= Cardinality(Pending) + 1
    BY <1>0, <2>2, CountPending
  <2> QED
    BY <1>n, <2>3, <2>4, <2>5
<1>e. ASSUME NEW t \in Tasks, End(t), UNCHANGED << version, starts >>
      PROVE  Counted'
  <2>1. Same(t) /\ pc'[t] = "idle"
    BY <1>0, <1>e, OthersStay DEF End
  <2>2. Pending' = Pending \ {t}
    BY <2>1 DEF Pending
  <2>4. \A v \in Tasks : pc'[v] = "bump" => pc[v] = "bump" /\ job'[v] = job[v]
    BY <2>1
  <2>5. /\ IsFiniteSet(Pending') /\ Cardinality(Pending') \in Nat
        /\ Cardinality(Pending') <= Cardinality(Pending) + 0
    <3>1. /\ IsFiniteSet(Pending') /\ Cardinality(Pending') \in Nat
          /\ Cardinality(Pending') <= Cardinality(Pending)
      BY <1>0, <2>2, CountPending
    <3> QED
      BY <1>0, <3>1
  <2>6. starts' = starts + 0
    BY <1>0, <1>e
  <2> QED
    BY <1>e, <1>n, <2>4, <2>5, <2>6
<1>m. ASSUME NEW t \in Tasks, NEW at \in {"list", "put", "version"}, t \in Pending,
             pc' = [pc EXCEPT ![t] = at], \A v \in Tasks \ {t} : job'[v] = job[v],
             UNCHANGED << version, starts >>
      PROVE  Counted'
  <2>1. Same(t) /\ pc'[t] = at
    BY <1>0, <1>m, OthersStay
  <2>2. Pending' = Pending
    BY <1>m, <2>1 DEF Pending
  <2>4. \A v \in Tasks : pc'[v] = "bump" => pc[v] = "bump" /\ job'[v] = job[v]
    BY <2>1
  <2> QED
    BY <1>0, <1>m, <2>2, <2>4 DEF Counted
<1>1. CASE PowChallenge
  BY <1>0, <1>1 DEF PowChallenge, Counted, Pending
<1>2. ASSUME NEW t \in Tasks, NEW u \in Urls, NEW k \in Keys, NEW n \in 1 .. MaxNonces,
             Redeem(t, u, k, n)
      PROVE  Counted'
  BY <1>2, <1>s DEF Redeem
<1>3. ASSUME NEW t \in Tasks, NEW u \in Urls, NEW k \in Keys, RotateShardKey(t, u, k)
      PROVE  Counted'
  BY <1>3, <1>s DEF RotateShardKey
<1>4. ASSUME NEW t \in Tasks, BurnNonce(t) PROVE Counted'
  BY <1>4, <1>m DEF BurnNonce, Pending
<1>5. ASSUME NEW t \in Tasks, ReadList(t) PROVE Counted'
  BY <1>0, <1>5, <1>m, OthersStay DEF ReadList, Pending
<1>6. ASSUME NEW t \in Tasks, RefuseAtCapacity(t) \/ Crash(t) PROVE Counted'
  BY <1>6, <1>e DEF RefuseAtCapacity, Crash
<1>7. ASSUME NEW t \in Tasks, PutList(t) PROVE Counted'
  BY <1>0, <1>7, <1>m, OthersStay DEF PutList, Pending
<1>8. ASSUME NEW t \in Tasks, ReadVersion(t) PROVE Counted'
  <2>1. /\ pc[t] = "version" /\ UNCHANGED << version, starts >>
        /\ Same(t) /\ pc'[t] = "bump" /\ job'[t] = [job[t] EXCEPT !.ver = version + 1]
    BY <1>0, <1>8, OthersStay DEF ReadVersion
  <2>2. job'[t].ver = version + 1
    BY <1>0, <2>1 DEF TypeOK, Job
  <2>3. Pending' = Pending \ {t} /\ t \in Pending
    BY <2>1 DEF Pending
  <2>4. \A v \in Tasks \ {t} : pc'[v] = "bump" => pc[v] = "bump" /\ job'[v] = job[v]
    BY <2>1
  <2>5. Cardinality(Pending \ {t}) = Cardinality(Pending) - 1 /\ IsFiniteSet(Pending \ {t})
    BY <1>0, <2>3, CountPending
  <2> DEFINE m == Cardinality(Pending')
  <2>6. m = Cardinality(Pending) - 1 /\ m \in Nat
    BY <1>0, <2>3, <2>5, CountPending
  <2> HIDE DEF m
  <2>7. version' + m <= 1 + starts'
    BY <1>0, <1>c, <2>1, <2>6
  <2>8. ASSUME NEW v \in Tasks, pc'[v] = "bump"
        PROVE  job'[v].ver \in Nat \ {0} /\ job'[v].ver + m <= 1 + starts'
    <3>1. CASE v = t
      <4>1. job'[v].ver = version + 1
        BY <2>2, <3>1
      <4> QED
        BY <1>0, <1>c, <2>1, <2>6, <4>1
    <3>2. CASE v # t
      <4>1. /\ job'[v].ver = job[v].ver /\ job[v].ver \in Nat \ {0}
            /\ job[v].ver + Cardinality(Pending) <= 1 + starts
        BY <1>c, <2>4, <2>8, <3>2
      <4> QED
        BY <1>0, <2>1, <2>6, <4>1
    <3> QED
      BY <3>1, <3>2
  <2> QED
    BY <2>3, <2>5, <2>7, <2>8 DEF Counted, m
<1>9. ASSUME NEW t \in Tasks, PutVersion(t) PROVE Counted'
  <2>1. /\ Same(t) /\ pc[t] = "bump" /\ pc'[t] = "idle"
        /\ version' = job[t].ver /\ starts' = starts
    BY <1>0, <1>9, OthersStay DEF PutVersion, End
  <2>2. Pending' = Pending
    BY <2>1 DEF Pending
  <2>3. \A v \in Tasks : pc'[v] = "bump" => pc[v] = "bump" /\ job'[v] = job[v]
    BY <2>1
  <2> QED
    BY <1>0, <2>1, <2>2, <2>3 DEF Counted
<1>10. CASE UNCHANGED vars
  BY <1>0, <1>10 DEF vars, Counted, Pending
<1> QED
  BY <1>1, <1>2, <1>3, <1>4, <1>5, <1>6, <1>7, <1>8, <1>9, <1>10 DEF Next, Advance

\* A request that did not move knows what it knew.
LEMMA JobStays ==
  ASSUME TypeOK, NEW v \in Tasks, JobOK(v), pc'[v] = pc[v], job'[v] = job[v],
         nonces' \subseteq nonces, UNCHANGED << issued, anchored, announced >>,
         \/ agreed' = agreed
         \/ \E u \in Urls : agreed' = [agreed EXCEPT ![u] = NoKey]
  PROVE  JobOK(v)'
<1> SUFFICES ASSUME pc[v] # "idle"
             PROVE  JobOK(v)'
  BY DEF JobOK
<1>1. /\ job[v].url \in Urls /\ job[v].key \in Keys
      /\ job[v].nonce \in 0 .. issued
      /\ agreed[job[v].url] = NoKey
      /\ pc[v] # "burn" => job[v].nonce \notin nonces
      /\ pc[v] = "put" => /\ Fit(job[v].list, anchored, agreed)
                          /\ Has(job[v].list, job[v].url, job[v].key)
      /\ pc[v] = "bump" => job[v].ver >= announced
  BY DEF JobOK
<1>2. agreed \in [Urls -> Keys \cup {NoKey}]
  BY DEF TypeOK
<1>3. agreed'[job[v].url] = NoKey
  BY <1>1, <1>2
<1>4. Fit(job[v].list, anchored, agreed) => Fit(job[v].list, anchored, agreed')
  BY <1>2, FitLess
<1> QED
  BY <1>1, <1>3, <1>4 DEF JobOK, Has, Fit

LEMMA JobsStep ==
  ASSUME IInv, [Next]_vars
  PROVE  Jobs'
<1>0. TypeOK /\ Jobs /\ Kept /\ TypeOK'
  BY TypedStep DEF IInv
<1>j. \A t \in Tasks : job[t] \in Job
  BY <1>0 DEF TypeOK
\* The others stay, request t is left to show.
<1>o. ASSUME NEW t \in Tasks, \A v \in Tasks \ {t} : pc'[v] = pc[v] /\ job'[v] = job[v],
             nonces' \subseteq nonces, UNCHANGED << issued, anchored, announced >>,
             \/ agreed' = agreed
             \/ \E u \in Urls : agreed' = [agreed EXCEPT ![u] = NoKey],
             JobOK(t)'
      PROVE  Jobs'
  BY <1>0, <1>o, JobStays DEF Jobs
<1>1. CASE PowChallenge
  <2> SUFFICES ASSUME NEW v \in Tasks, pc[v] # "idle" PROVE JobOK(v)'
    BY <1>1 DEF Jobs, JobOK, PowChallenge
  <2>1. JobOK(v)
    BY <1>0 DEF Jobs
  <2>2. issued \in Nat /\ issued' = issued + 1 /\ nonces' = nonces \cup {issued + 1}
    BY <1>0, <1>1 DEF PowChallenge, TypeOK
  <2>3. job[v].nonce \in 0 .. issued
    BY <2>1 DEF JobOK
  <2>4. job[v].nonce \in 0 .. issued' /\ job[v].nonce # issued + 1
    BY <2>2, <2>3
  <2> QED
    BY <1>1, <2>1, <2>2, <2>4 DEF PowChallenge, JobOK
<1>2. ASSUME NEW t \in Tasks, NEW u \in Urls, NEW k \in Keys, NEW n \in 1 .. MaxNonces,
             Redeem(t, u, k, n)
      PROVE  Jobs'
  <2> DEFINE j == [ NoJob EXCEPT !.url = u, !.key = k, !.nonce = n ]
  <2>1. n \in nonces /\ Start(t, "burn", j)
    BY <1>2 DEF Redeem
  <2>2. j.url = u /\ j.key = k /\ j.nonce = n
    BY DEF NoJob
  <2> HIDE DEF j
  <2>3. /\ pc'[t] = "burn" /\ job'[t] = j
        /\ \A v \in Tasks \ {t} : pc'[v] = pc[v] /\ job'[v] = job[v]
    BY <1>0, <2>1, OthersStay DEF Start
  <2>4. /\ agreed' = [agreed EXCEPT ![u] = NoKey] /\ agreed'[u] = NoKey
        /\ UNCHANGED << nonces, issued, anchored, announced >>
    BY <1>0, <2>1, <2>2 DEF Start, TypeOK
  <2>5. n \in 0 .. issued
    BY <1>0, <2>1 DEF TypeOK
  <2>6. JobOK(t)'
    BY <2>2, <2>3, <2>4, <2>5 DEF JobOK
  <2> QED
    BY <1>o, <2>3, <2>4, <2>6
<1>3. ASSUME NEW t \in Tasks, NEW u \in Urls, NEW k \in Keys, RotateShardKey(t, u, k)
      PROVE  Jobs'
  <2> DEFINE list == Rekeyed(registered, u, k)
             j == [ NoJob EXCEPT !.url = u, !.key = k, !.list = list ]
  <2>1. Start(t, "put", j) /\ Listed(registered, u)
    BY <1>3 DEF RotateShardKey
  <2>2. Fit(list, anchored, [agreed EXCEPT ![u] = NoKey]) /\ Has(list, u, k)
    BY <2>1, RotationFits
  <2> HIDE DEF list
  <2>3. j.url = u /\ j.key = k /\ j.nonce = 0 /\ j.list = list
    BY DEF NoJob
  <2> HIDE DEF j
  <2>4. /\ pc'[t] = "put" /\ job'[t] = j
        /\ \A v \in Tasks \ {t} : pc'[v] = pc[v] /\ job'[v] = job[v]
    BY <1>0, <2>1, OthersStay DEF Start
  <2>5. /\ agreed' = [agreed EXCEPT ![u] = NoKey] /\ agreed'[u] = NoKey
        /\ UNCHANGED << nonces, issued, anchored, announced >>
    BY <1>0, <2>1, <2>3 DEF Start, TypeOK
  <2>6. 0 \in 0 .. issued /\ 0 \notin nonces
    BY <1>0 DEF TypeOK
  <2>7. JobOK(t)'
    BY <2>2, <2>3, <2>4, <2>5, <2>6 DEF JobOK
  <2> QED
    BY <1>o, <2>4, <2>5, <2>7
<1>4. ASSUME NEW t \in Tasks, BurnNonce(t) PROVE Jobs'
  <2>1. /\ pc[t] = "burn" /\ pc'[t] = "list" /\ job' = job
        /\ \A v \in Tasks \ {t} : pc'[v] = pc[v]
        /\ nonces' = nonces \ {job[t].nonce}
        /\ UNCHANGED << issued, anchored, announced, agreed >>
    BY <1>0, <1>4, OthersStay DEF BurnNonce
  <2>2. JobOK(t)'
    BY <1>0, <2>1 DEF Jobs, JobOK
  <2> QED
    BY <1>o, <2>1, <2>2
<1>5. ASSUME NEW t \in Tasks, ReadList(t) PROVE Jobs'
  <2> DEFINE list == WithShard(registered, job[t].url, job[t].key)
  <2>1. /\ pc[t] = "list" /\ pc'[t] = "put" /\ job'[t] = [job[t] EXCEPT !.list = list]
        /\ \A v \in Tasks \ {t} : pc'[v] = pc[v] /\ job'[v] = job[v]
        /\ UNCHANGED << nonces, issued, anchored, announced, agreed >>
    BY <1>0, <1>5, OthersStay DEF ReadList
  <2>2. Fit(list, anchored, agreed) /\ Has(list, job[t].url, job[t].key)
    BY <1>5, ReadFits
  <2> HIDE DEF list
  <2>3. /\ job'[t].url = job[t].url /\ job'[t].key = job[t].key
        /\ job'[t].nonce = job[t].nonce /\ job'[t].list = list
    BY <1>j, <2>1 DEF Job
  <2>4. JobOK(t)'
    BY <1>0, <2>1, <2>2, <2>3 DEF Jobs, JobOK
  <2> QED
    BY <1>o, <2>1, <2>4
<1>6. ASSUME NEW t \in Tasks, RefuseAtCapacity(t) \/ Crash(t) PROVE Jobs'
  <2>1. /\ pc'[t] = "idle"
        /\ \A v \in Tasks \ {t} : pc'[v] = pc[v] /\ job'[v] = job[v]
        /\ UNCHANGED << nonces, issued, anchored, announced, agreed >>
    BY <1>0, <1>6, OthersStay DEF RefuseAtCapacity, Crash, End
  <2>2. JobOK(t)'
    BY <2>1 DEF JobOK
  <2> QED
    BY <1>o, <2>1, <2>2
<1>7. ASSUME NEW t \in Tasks, PutList(t) PROVE Jobs'
  <2>1. /\ pc[t] = "put" /\ pc'[t] = "version" /\ job'[t] = [job[t] EXCEPT !.list = << >>]
        /\ \A v \in Tasks \ {t} : pc'[v] = pc[v] /\ job'[v] = job[v]
        /\ UNCHANGED << nonces, issued, anchored, announced, agreed >>
    BY <1>0, <1>7, OthersStay DEF PutList
  <2>2. /\ job'[t].url = job[t].url /\ job'[t].key = job[t].key
        /\ job'[t].nonce = job[t].nonce
    BY <1>j, <2>1 DEF Job
  <2>3. JobOK(t)'
    BY <1>0, <2>1, <2>2 DEF Jobs, JobOK
  <2> QED
    BY <1>o, <2>1, <2>3
<1>8. ASSUME NEW t \in Tasks, ReadVersion(t) PROVE Jobs'
  <2>1. /\ pc[t] = "version" /\ pc'[t] = "bump"
        /\ job'[t] = [job[t] EXCEPT !.ver = version + 1]
        /\ \A v \in Tasks \ {t} : pc'[v] = pc[v] /\ job'[v] = job[v]
        /\ UNCHANGED << nonces, issued, anchored, announced, agreed >>
    BY <1>0, <1>8, OthersStay DEF ReadVersion
  <2>2. /\ job'[t].url = job[t].url /\ job'[t].key = job[t].key
        /\ job'[t].nonce = job[t].nonce /\ job'[t].ver = version + 1
    BY <1>j, <2>1 DEF Job
  <2>3. version + 1 >= announced
    BY <1>0, MaxStartsAssumption DEF TypeOK, Kept
  <2>4. JobOK(t)'
    BY <1>0, <2>1, <2>2, <2>3 DEF Jobs, JobOK
  <2> QED
    BY <1>o, <2>1, <2>4
<1>9. ASSUME NEW t \in Tasks, PutVersion(t) PROVE Jobs'
  <2>1. /\ pc'[t] = "idle" /\ pc[t] = "bump"
        /\ \A v \in Tasks \ {t} : pc'[v] = pc[v] /\ job'[v] = job[v]
    BY <1>0, <1>9, OthersStay DEF PutVersion, End
  <2>2. CASE alone[t]
    <3>1. \A v \in Tasks : pc'[v] = "idle"
      BY <2>1, <2>2 DEF IInv, Alone, AloneOK
    <3> QED
      BY <3>1 DEF Jobs, JobOK
  <2>3. CASE ~ alone[t]
    <3>1. UNCHANGED << nonces, issued, anchored, announced, agreed >>
      BY <1>9, <2>3 DEF PutVersion
    <3>2. JobOK(t)'
      BY <2>1 DEF JobOK
    <3> QED
      BY <1>o, <2>1, <3>1, <3>2
  <2> QED
    BY <2>2, <2>3
<1>10. CASE UNCHANGED vars
  BY <1>0, <1>10 DEF vars, Jobs, JobOK, Fit, Has
<1> QED
  BY <1>1, <1>2, <1>3, <1>4, <1>5, <1>6, <1>7, <1>8, <1>9, <1>10 DEF Next, Advance

LEMMA AloneStep ==
  ASSUME IInv, [Next]_vars
  PROVE  Alone'
<1>0. TypeOK /\ Jobs /\ Alone /\ Kept
  BY DEF IInv
<1>j. \A t \in Tasks : job[t] \in Job
  BY <1>0 DEF TypeOK
\* While a request is alone, no other one takes a step.
<1>o. ASSUME NEW t \in Tasks, pc[t] # "idle", alone' = alone,
             \A v \in Tasks \ {t} : pc'[v] = pc[v], AloneOK(t)'
      PROVE  Alone'
  BY <1>0, <1>o DEF Alone, AloneOK
<1>s. ASSUME NEW t \in Tasks, NEW at \in {"burn", "put"}, NEW j, Start(t, at, j),
             j.nonce \notin used
      PROVE  Alone'
  <2>1. /\ pc'[t] = at /\ job'[t] = j /\ used' = used
        /\ \A v \in Tasks \ {t} : pc'[v] = pc[v]
    BY <1>0, <1>s, OthersStay DEF Start
  <2>2. ASSUME NEW v \in Tasks \ {t} PROVE AloneOK(v)'
    <3>1. alone'[v] => pc[v] = "idle"
      BY <1>s DEF Start, Busy
    <3> QED
      BY <2>1, <3>1 DEF AloneOK
  <2>3. AloneOK(t)'
    <3>1. alone'[t] => \A v \in Tasks : pc[v] = "idle"
      BY <1>s DEF Start, Busy
    <3> QED
      BY <1>s, <2>1, <3>1 DEF AloneOK
  <2> QED
    BY <2>2, <2>3 DEF Alone
<1>1. CASE PowChallenge
  BY <1>0, <1>1 DEF PowChallenge, Alone, AloneOK, Has
<1>2. ASSUME NEW t \in Tasks, NEW u \in Urls, NEW k \in Keys, NEW n \in 1 .. MaxNonces,
             Redeem(t, u, k, n)
      PROVE  Alone'
  <2> DEFINE j == [ NoJob EXCEPT !.url = u, !.key = k, !.nonce = n ]
  <2>1. n \in nonces /\ Start(t, "burn", j)
    BY <1>2 DEF Redeem
  <2>2. j.nonce = n
    BY DEF NoJob
  <2> HIDE DEF j
  <2>3. j.nonce \notin used
    BY <1>0, <2>1, <2>2 DEF Kept
  <2> QED
    BY <1>s, <2>1, <2>3
<1>3. ASSUME NEW t \in Tasks, NEW u \in Urls, NEW k \in Keys, RotateShardKey(t, u, k)
      PROVE  Alone'
  <2> DEFINE j == [ NoJob EXCEPT !.url = u, !.key = k, !.list = Rekeyed(registered, u, k) ]
  <2>1. Start(t, "put", j)
    BY <1>3 DEF RotateShardKey
  <2>2. j.nonce = 0
    BY DEF NoJob
  <2> HIDE DEF j
  <2>3. 0 \notin used
    BY <1>0 DEF TypeOK
  <2> QED
    BY <1>s, <2>1, <2>2, <2>3
<1>4. ASSUME NEW t \in Tasks, BurnNonce(t) PROVE Alone'
  <2>1. /\ pc[t] = "burn" /\ pc'[t] = "list"
        /\ \A v \in Tasks \ {t} : pc'[v] = pc[v]
        /\ UNCHANGED << job, alone, registered, used >>
    BY <1>0, <1>4, OthersStay DEF BurnNonce
  <2>2. AloneOK(t)'
    BY <1>0, <2>1 DEF Alone, AloneOK
  <2> QED
    BY <1>o, <2>1, <2>2
<1>5. ASSUME NEW t \in Tasks, ReadList(t) PROVE Alone'
  <2>1. /\ pc[t] = "list" /\ pc'[t] = "put"
        /\ \A v \in Tasks \ {t} : pc'[v] = pc[v]
        /\ UNCHANGED << alone, registered, used >>
    BY <1>0, <1>5, OthersStay DEF ReadList
  <2>2. job'[t].nonce = job[t].nonce
    BY <1>0, <1>5, <1>j, OthersStay DEF ReadList, Job
  <2>3. AloneOK(t)'
    BY <1>0, <2>1, <2>2 DEF Alone, AloneOK
  <2> QED
    BY <1>o, <2>1, <2>3
<1>6. ASSUME NEW t \in Tasks, RefuseAtCapacity(t) \/ Crash(t) \/ PutVersion(t) PROVE Alone'
  <2>1. /\ pc[t] # "idle" /\ pc'[t] = "idle" /\ alone' = alone
        /\ \A v \in Tasks \ {t} : pc'[v] = pc[v]
    BY <1>0, <1>6, OthersStay DEF RefuseAtCapacity, Crash, PutVersion, End
  <2>2. AloneOK(t)'
    BY <2>1 DEF AloneOK
  <2> QED
    BY <1>o, <2>1, <2>2
<1>7. ASSUME NEW t \in Tasks, PutList(t) PROVE Alone'
  <2>1. /\ pc[t] = "put" /\ pc'[t] = "version" /\ alone' = alone
        /\ \A v \in Tasks \ {t} : pc'[v] = pc[v]
        /\ registered' = job[t].list
        /\ job'[t] = [job[t] EXCEPT !.list = << >>]
    BY <1>0, <1>7, OthersStay DEF PutList
  <2>2. job'[t].url = job[t].url /\ job'[t].key = job[t].key
    BY <1>j, <2>1 DEF Job
  <2>3. Has(registered', job[t].url, job[t].key)
    BY <1>0, <2>1 DEF Jobs, JobOK
  <2>4. Has(registered, job[t].url, job[t].key)'
    BY <2>2, <2>3 DEF Has
  <2>5. AloneOK(t)'
    BY <1>0, <2>1, <2>4 DEF Alone, AloneOK
  <2> QED
    BY <1>o, <2>1, <2>5
<1>8. ASSUME NEW t \in Tasks, ReadVersion(t) PROVE Alone'
  <2>1. /\ pc[t] = "version" /\ pc'[t] = "bump"
        /\ job'[t] = [job[t] EXCEPT !.ver = version + 1]
        /\ \A v \in Tasks \ {t} : pc'[v] = pc[v]
        /\ UNCHANGED << alone, registered >>
    BY <1>0, <1>8, OthersStay DEF ReadVersion
  <2>2. job'[t].url = job[t].url /\ job'[t].key = job[t].key
    BY <1>j, <2>1 DEF Job
  <2>3. AloneOK(t)'
    BY <1>0, <2>1, <2>2 DEF Alone, AloneOK, Has
  <2> QED
    BY <1>o, <2>1, <2>3
<1>9. CASE UNCHANGED vars
  BY <1>0, <1>9 DEF vars, Alone, AloneOK, Has
<1> QED
  BY <1>1, <1>2, <1>3, <1>4, <1>5, <1>6, <1>7, <1>8, <1>9 DEF Next, Advance

LEMMA KeptStep ==
  ASSUME IInv, [Next]_vars
  PROVE  Kept'
<1>0. TypeOK /\ Jobs /\ Alone /\ Kept
  BY DEF IInv
<1>a. agreed \in [Urls -> Keys \cup {NoKey}] /\ anchored \in Seq(Urls)
  BY <1>0 DEF TypeOK
<1>k. ASSUME UNCHANGED << registered, version, anchored, agreed, announced, used >>,
             nonces' \subseteq nonces
      PROVE  Kept'
  BY <1>0, <1>k DEF Kept, Fit, Has
<1>s. ASSUME NEW t \in Tasks, NEW at, NEW j, j.url \in Urls, Start(t, at, j)
      PROVE  Kept'
  <2>1. Fit(registered, anchored, [agreed EXCEPT ![j.url] = NoKey])
    BY <1>0, <1>a, <1>s, FitLess DEF Kept
  <2> QED
    BY <1>0, <1>s, <2>1 DEF Start, Kept, Fit, Has
<1>1. CASE PowChallenge
  <2>1. issued + 1 \notin used /\ nonces' = nonces \cup {issued + 1}
    BY <1>0, <1>1 DEF PowChallenge, TypeOK
  <2> QED
    BY <1>0, <1>1, <2>1 DEF PowChallenge, Kept, Fit, Has
<1>2. ASSUME NEW t \in Tasks, NEW u \in Urls, NEW k \in Keys, NEW n \in 1 .. MaxNonces,
             Redeem(t, u, k, n)
      PROVE  Kept'
  <2> DEFINE j == [ NoJob EXCEPT !.url = u, !.key = k, !.nonce = n ]
  <2>1. Start(t, "burn", j) /\ j.url = u
    BY <1>2 DEF Redeem, NoJob
  <2> HIDE DEF j
  <2> QED
    BY <1>s, <2>1
<1>3. ASSUME NEW t \in Tasks, NEW u \in Urls, NEW k \in Keys, RotateShardKey(t, u, k)
      PROVE  Kept'
  <2> DEFINE j == [ NoJob EXCEPT !.url = u, !.key = k, !.list = Rekeyed(registered, u, k) ]
  <2>1. Start(t, "put", j)
    BY <1>3 DEF RotateShardKey
  <2>2. j.url = u
    BY DEF NoJob
  <2> HIDE DEF j
  <2> QED
    BY <1>s, <2>1, <2>2
<1>4. ASSUME NEW t \in Tasks,
             BurnNonce(t) \/ ReadList(t) \/ RefuseAtCapacity(t) \/ ReadVersion(t) \/ Crash(t)
      PROVE  Kept'
  BY <1>4, <1>k DEF BurnNonce, ReadList, RefuseAtCapacity, ReadVersion, Crash
<1>5. ASSUME NEW t \in Tasks, PutList(t) PROVE Kept'
  <2>1. /\ registered' = job[t].list
        /\ used' = used \cup ({job[t].nonce} \ {0})
        /\ UNCHANGED << version, nonces, anchored, agreed, announced >>
    BY <1>5 DEF PutList
  <2>2. Fit(job[t].list, anchored, agreed) /\ job[t].nonce \notin nonces
    BY <1>0, <1>5 DEF PutList, Jobs, JobOK
  <2>3. Fit(registered', anchored', agreed')
    BY <2>1, <2>2
  <2> QED
    BY <1>0, <2>1, <2>2, <2>3 DEF Kept, Fit, Has
<1>6. ASSUME NEW t \in Tasks, PutVersion(t) PROVE Kept'
  <2>1. /\ pc[t] = "bump" /\ version' = job[t].ver
        /\ UNCHANGED << registered, nonces, used >>
        /\ job[t].ver \in Nat /\ job[t].ver >= announced
        /\ job[t].url \in Urls /\ job[t].key \in Keys
    BY <1>0, <1>6 DEF PutVersion, Jobs, JobOK, TypeOK, Job
  <2>2. CASE alone[t]
    <3>1. /\ anchored' = UrlsOf(registered)
          /\ agreed' = [agreed EXCEPT ![job[t].url] = job[t].key]
          /\ announced' = job[t].ver
      BY <1>6, <2>2 DEF PutVersion
    <3>2. Has(registered, job[t].url, job[t].key)
      BY <1>0, <2>1, <2>2 DEF Alone, AloneOK
    <3>3. /\ registered \in Seq(Shard)
          /\ Len(anchored') = Len(registered)
          /\ \A i \in 1 .. Len(registered) : anchored'[i] = registered[i].url
      BY <1>0, <3>1, UrlsOfTyped DEF TypeOK
    <3>4. \A u \in Urls : agreed'[u] # NoKey => Has(registered, u, agreed'[u])
      BY <1>0, <1>a, <3>1, <3>2 DEF Kept, Fit
    <3>5. Fit(registered, anchored', agreed')
      BY <1>0, <3>3, <3>4 DEF Kept, Fit
    <3> QED
      BY <1>0, <2>1, <3>1, <3>5 DEF Kept, Fit, Has
  <2>3. CASE ~ alone[t]
    <3>1. UNCHANGED << anchored, agreed, announced >>
      BY <1>6, <2>3 DEF PutVersion
    <3> QED
      BY <1>0, <2>1, <3>1 DEF Kept, Fit, Has
  <2> QED
    BY <2>2, <2>3
<1>7. CASE UNCHANGED vars
  BY <1>7, <1>k DEF vars
<1> QED
  BY <1>1, <1>2, <1>3, <1>4, <1>5, <1>6, <1>7 DEF Next, Advance

-----------------------------------------------------------------------------
(* The list, its keys and the version.                                     *)

LEMMA InitIInv == Init => IInv
<1> SUFFICES ASSUME Init PROVE IInv
  OBVIOUS
<1>1. TypeOK
  <2>1. 1 \in 1 .. (1 + MaxStarts) /\ 0 \in 0 .. (1 + MaxStarts) /\ 0 \in 0 .. MaxStarts
        /\ 0 \in 0 .. MaxNonces
    BY MaxStartsAssumption, MaxNoncesAssumption
  <2>2. /\ [t \in Tasks |-> NoJob] \in [Tasks -> Job]
        /\ [t \in Tasks |-> "idle"] \in [Tasks -> Pcs]
        /\ \A t \in Tasks : [v \in Tasks |-> NoJob][t] = NoJob
    BY NoJobTyped DEF Pcs
  <2>3. << >> \in Seq(Shard) /\ << >> \in Seq(Urls)
    OBVIOUS
  <2> QED
    BY <2>1, <2>2, <2>3 DEF Init, TypeOK, Pcs
<1>2. Counted
  <2>1. Pending = {}
    BY DEF Init, Pending
  <2> QED
    BY <2>1, FS_EmptySet DEF Init, Counted
<1>3. Jobs /\ Alone
  BY DEF Init, Jobs, JobOK, Alone, AloneOK
<1>4. Fit(<< >>, << >>, [u \in Urls |-> NoKey])
  BY EmptySeq, MaxShardsAssumption DEF Fit
<1>5. Kept
  BY <1>4 DEF Init, Kept, Fit
<1> QED
  BY <1>1, <1>2, <1>3, <1>5 DEF IInv

LEMMA StepIInv == IInv /\ [Next]_vars => IInv'
  BY TypedStep, CountedStep, JobsStep, AloneStep, KeptStep DEF IInv

LEMMA SpecIInv == Spec => []IInv
  BY InitIInv, StepIInv, PTL DEF Spec

(***************************************************************************)
(* Every variable of the Router keeps its type; the version and those      *)
(* returned are never more than the number of requests allows.             *)
(***************************************************************************)
THEOREM TypeCorrect == Spec => []TypeOK
<1>1. IInv => TypeOK
  BY DEF IInv
<1> QED
  BY <1>1, SpecIInv, PTL

(***************************************************************************)
(* However registrations overlap and wherever they are cut short, the list *)
(* has no shard twice and no more than MAX_REGISTERED_SHARDS.              *)
(***************************************************************************)
THEOREM WellFormedHolds == Spec => []WellFormed
<1>1. IInv => WellFormed
  BY DEF IInv, Kept, Fit, WellFormed
<1> QED
  BY <1>1, SpecIInv, PTL

(***************************************************************************)
(* The shards listed when a change that overlapped nothing was answered    *)
(* keep their indexes (router.js:247-251), whatever follows.               *)
(***************************************************************************)
THEOREM AppendOnlyHolds == Spec => []AppendOnly
<1>1. IInv => AppendOnly
  BY FitPrefix DEF IInv, TypeOK, Kept, AppendOnly
<1> QED
  BY <1>1, SpecIInv, PTL

LEMMA KeysStick ==
  ASSUME IInv, NEW u \in Urls, agreed[u] # NoKey
  PROVE  KeyOf(registered, u) = agreed[u]
<1>1. Fit(registered, anchored, agreed) /\ Has(registered, u, agreed[u])
  BY DEF IInv, Kept, Fit
<1> QED
  BY <1>1, KeyOfHas

(***************************************************************************)
(* A key listed by a change that overlapped nothing is not overwritten by  *)
(* requests for other shards, each of which writes the whole list.         *)
(***************************************************************************)
THEOREM KeySticksHolds == Spec => []KeySticks
<1>1. IInv => KeySticks
  BY KeysStick DEF KeySticks
<1> QED
  BY <1>1, SpecIInv, PTL

(***************************************************************************)
(* Lost increments do not bring the version below one returned by a change *)
(* that overlapped nothing (SECURITY.md:209-210).                          *)
(***************************************************************************)
THEOREM VersionKeptHolds == Spec => []VersionKept
<1>1. IInv => VersionKept
  BY DEF IInv, Kept, VersionKept
<1> QED
  BY <1>1, SpecIInv, PTL

(***************************************************************************)
(* A registration that overlaps nothing is not stored with a nonce that    *)
(* one was stored with before (router.js:632).                             *)
(***************************************************************************)
THEOREM NonceSpentOnceHolds == Spec => NonceSpentOnce
<1>1. IInv => \A t \in Tasks : PutList(t) /\ alone[t] => job[t].nonce \notin used
  BY DEF IInv, Alone, AloneOK, PutList
<1> QED
  BY <1>1, SpecIInv, PTL DEF Spec, NonceSpentOnce

-----------------------------------------------------------------------------
(* Static and registered shards in one list.                               *)

All == Urls \cup Range(Static)

Begins(urls, first) ==
  /\ Len(first) <= Len(urls)
  /\ \A i \in 1 .. Len(first) : urls[i] = first[i]

\* The lists merged on the way.
Merging(f, urls) ==
  f = [n \in 0 .. Len(urls) |-> IF n = 0 THEN Static ELSE Joined(f[n - 1], urls[n])]

MergingUpto(f, urls, m) ==
  f[0] = Static /\ \A n \in 1 .. m : f[n] = Joined(f[n - 1], urls[n])

\* Induction, for a set in place of a predicate.
LEMMA Induction ==
  ASSUME NEW T, T \subseteq Nat, 0 \in T, \A n \in T : n + 1 \in T
  PROVE  \A n \in Nat : n \in T
<1> DEFINE Rest == Nat \ T
<1> SUFFICES ASSUME Rest # {} PROVE FALSE
  OBVIOUS
<1> DEFINE R == OpToRel(<, Nat)
<1>1. PICK z \in Rest : \A y \in Rest : << y, z >> \notin R
  <2> HIDE DEF Rest, R
  <2>1. IsWellFoundedOn(R, Nat)
    BY NatLessThanWellFounded DEF R
  <2>2. Rest \subseteq Nat
    BY DEF Rest
  <2> QED
    BY <2>1, <2>2, WFMin
<1> HIDE DEF R
<1>2. z \in Nat /\ z # 0 /\ z - 1 \in Nat
  OBVIOUS
<1>3. z - 1 \notin T
  <2>1. z - 1 + 1 = z
    BY <1>2
  <2> QED
    BY <2>1
<1>4. << z - 1, z >> \in R
  BY <1>2 DEF R, OpToRel
<1> QED
  BY <1>1, <1>2, <1>3, <1>4

LEMMA StaticSeq == Static \in Seq(All)
BY StaticAssumption DEF All

LEMMA JoinedFacts ==
  ASSUME NEW list \in Seq(All), NEW u \in All
  PROVE  Joined(list, u) \in Seq(All) /\ Begins(Joined(list, u), list)
<1>1. CASE u \in Range(list)
  BY <1>1 DEF Joined, Begins
<1>2. CASE u \notin Range(list)
  BY <1>2 DEF Joined, Begins
<1> QED
  BY <1>1, <1>2

LEMMA BeginsTransAll ==
  ASSUME NEW x \in Seq(All), NEW y \in Seq(All), NEW z \in Seq(All),
         Begins(y, x), Begins(z, y)
  PROVE  Begins(z, x)
<1>1. Len(x) \in Nat /\ Len(y) \in Nat /\ Len(z) \in Nat
  OBVIOUS
<1>2. Len(x) <= Len(y) /\ Len(y) <= Len(z)
  BY DEF Begins
<1>3. \A i \in 1 .. Len(x) : i \in 1 .. Len(y)
  BY <1>1, <1>2
<1> QED
  BY <1>1, <1>2, <1>3 DEF Begins

LEMMA MergingExists ==
  ASSUME NEW urls \in Seq(Urls)
  PROVE  \E f : Merging(f, urls)
<1> DEFINE Upto(m) == \E f :
             f = [n \in 0 .. m |-> IF n = 0 THEN Static ELSE Joined(f[n - 1], urls[n])]
           T == { m \in Nat : Upto(m) }
<1>1. 0 \in T
  <2> DEFINE f == [n \in 0 .. 0 |-> Static]
  <2>1. f = [n \in 0 .. 0 |-> IF n = 0 THEN Static ELSE Joined(f[n - 1], urls[n])]
    OBVIOUS
  <2> QED
    BY <2>1
<1>2. ASSUME NEW m \in T PROVE m + 1 \in T
  <2>1. m \in Nat
    OBVIOUS
  <2>2. PICK f : f = [n \in 0 .. m |-> IF n = 0 THEN Static ELSE Joined(f[n - 1], urls[n])]
    OBVIOUS
  <2> DEFINE x == Joined(f[m], urls[m + 1])
             g == [n \in 0 .. (m + 1) |-> IF n = m + 1 THEN x ELSE f[n]]
  <2>3. ASSUME NEW n \in 0 .. (m + 1)
        PROVE  g[n] = IF n = 0 THEN Static ELSE Joined(g[n - 1], urls[n])
    <3>1. CASE n = m + 1
      <4>1. g[m] = f[m] /\ n # 0 /\ n - 1 = m /\ g[n] = x
        <5> HIDE DEF x
        <5> QED
          BY <2>1, <3>1
      <4> QED
        BY <3>1, <4>1, Zenon
    <3>2. CASE n # m + 1
      <4>1. n \in 0 .. m /\ g[n] = f[n] /\ (n # 0 => g[n - 1] = f[n - 1])
        <5> HIDE DEF x
        <5> QED
          BY <2>1, <3>2
      <4>2. f[n] = IF n = 0 THEN Static ELSE Joined(f[n - 1], urls[n])
        BY <2>2, <4>1, Zenon
      <4> QED
        BY <4>1, <4>2, Zenon
    <3> QED
      BY <3>1, <3>2
  <2> HIDE DEF x
  <2>4. g = [n \in 0 .. (m + 1) |-> IF n = 0 THEN Static ELSE Joined(g[n - 1], urls[n])]
    BY <2>3
  <2>5. Upto(m + 1)
    BY <2>4
  <2> HIDE DEF Upto
  <2> QED
    BY <2>1, <2>5
<1> HIDE DEF Upto
<1>3. Len(urls) \in T
  <2> HIDE DEF T
  <2>1. T \subseteq Nat /\ Len(urls) \in Nat
    BY DEF T
  <2> QED
    BY <1>1, <1>2, <2>1, Induction
<1>4. Upto(Len(urls))
  BY <1>3
<1> QED
  BY <1>4 DEF Upto, Merging

LEMMA MergedIsLast ==
  ASSUME NEW urls \in Seq(Urls)
  PROVE  \E f : MergingUpto(f, urls, Len(urls)) /\ Merged(urls) = f[Len(urls)]
<1> DEFINE h == CHOOSE f :
             f = [n \in 0 .. Len(urls) |-> IF n = 0 THEN Static ELSE Joined(f[n - 1], urls[n])]
<1>1. Merging(h, urls)
  BY MergingExists DEF Merging
<1>2. Merged(urls) = h[Len(urls)]
  BY DEF Merged
<1> HIDE DEF h
<1>3. Len(urls) \in Nat
  OBVIOUS
<1>4. MergingUpto(h, urls, Len(urls))
  <2>1. h[0] = Static
    BY <1>1, <1>3 DEF Merging
  <2>2. ASSUME NEW n \in 1 .. Len(urls) PROVE h[n] = Joined(h[n - 1], urls[n])
    <3>1. n \in 0 .. Len(urls) /\ n # 0
      BY <1>3
    <3> QED
      BY <1>1, <3>1, Zenon DEF Merging
  <2> QED
    BY <2>1, <2>2 DEF MergingUpto
<1> QED
  BY <1>2, <1>4

\* The lists merged from a list, and from one that begins it, agree.
LEMMA MergingAgree ==
  ASSUME NEW s, NEW t, NEW m \in Nat, \A i \in 1 .. m : s[i] = t[i],
         NEW f, MergingUpto(f, s, m), NEW g, MergingUpto(g, t, m)
  PROVE  f[m] = g[m]
<1> DEFINE T == { n \in Nat : n <= m => f[n] = g[n] }
<1>1. 0 \in T
  BY DEF MergingUpto
<1>2. ASSUME NEW n \in T PROVE n + 1 \in T
  <2> SUFFICES ASSUME n + 1 <= m PROVE f[n + 1] = g[n + 1]
    OBVIOUS
  <2>1. n \in Nat /\ n + 1 \in 1 .. m /\ n + 1 - 1 = n /\ f[n] = g[n]
    OBVIOUS
  <2>2. f[n + 1] = Joined(f[n], s[n + 1]) /\ g[n + 1] = Joined(g[n], t[n + 1])
    BY <2>1 DEF MergingUpto
  <2> QED
    BY <2>1, <2>2
<1>3. m \in T
  <2> HIDE DEF T
  <2>1. T \subseteq Nat
    BY DEF T
  <2> QED
    BY <1>1, <1>2, <2>1, Induction
<1> QED
  BY <1>3

LEMMA MergingTyped ==
  ASSUME NEW urls \in Seq(Urls), NEW f, MergingUpto(f, urls, Len(urls))
  PROVE  \A n \in 0 .. Len(urls) : f[n] \in Seq(All)
<1> DEFINE m == Len(urls)
           T == { n \in Nat : n <= m => f[n] \in Seq(All) }
<1>0. m \in Nat
  OBVIOUS
<1>1. 0 \in T
  BY StaticSeq DEF MergingUpto
<1>2. ASSUME NEW n \in T PROVE n + 1 \in T
  <2> SUFFICES ASSUME n + 1 <= m PROVE f[n + 1] \in Seq(All)
    OBVIOUS
  <2>1. n \in Nat /\ n + 1 \in 1 .. m /\ n + 1 - 1 = n /\ f[n] \in Seq(All)
    BY <1>0
  <2>2. f[n + 1] = Joined(f[n], urls[n + 1]) /\ urls[n + 1] \in All
    BY <2>1 DEF MergingUpto, All
  <2> QED
    BY <2>1, <2>2, JoinedFacts
<1>3. \A n \in Nat : n \in T
  <2> HIDE DEF T
  <2>1. T \subseteq Nat
    BY DEF T
  <2> QED
    BY <1>1, <1>2, <2>1, Induction
<1> QED
  BY <1>0, <1>3

\* Merging only appends.
LEMMA MergingGrows ==
  ASSUME NEW urls \in Seq(Urls), NEW f, MergingUpto(f, urls, Len(urls)),
         NEW i \in 0 .. Len(urls)
  PROVE  Begins(f[Len(urls)], f[i])
<1> DEFINE m == Len(urls)
           T == { n \in Nat : i <= n /\ n <= m => Begins(f[n], f[i]) }
<1>0. m \in Nat /\ i \in Nat /\ i <= m /\ \A n \in 0 .. m : f[n] \in Seq(All)
  BY MergingTyped
<1>r. Begins(f[i], f[i])
  BY <1>0 DEF Begins
<1>1. 0 \in T
  <2>1. i <= 0 => i = 0
    BY <1>0
  <2> QED
    BY <1>r, <2>1
<1>2. ASSUME NEW n \in T PROVE n + 1 \in T
  <2> SUFFICES ASSUME i <= n + 1, n + 1 <= m PROVE Begins(f[n + 1], f[i])
    OBVIOUS
  <2>1. n \in Nat /\ n + 1 \in 1 .. m /\ n + 1 - 1 = n /\ (i = n + 1 \/ i <= n)
    BY <1>0
  <2>2. CASE i = n + 1
    BY <1>r, <2>2
  <2>3. CASE i <= n
    <3>1. f[i] \in Seq(All) /\ f[n] \in Seq(All) /\ f[n + 1] \in Seq(All)
      BY <1>0, <2>1, <2>3
    <3>2. Begins(f[n], f[i])
      BY <2>1, <2>3
    <3>3. f[n + 1] = Joined(f[n], urls[n + 1]) /\ urls[n + 1] \in All
      BY <2>1 DEF MergingUpto, All
    <3>4. Begins(f[n + 1], f[n])
      BY <3>1, <3>3, JoinedFacts
    <3> QED
      BY <3>1, <3>2, <3>4, BeginsTransAll
  <2> QED
    BY <2>1, <2>2, <2>3
<1>3. \A n \in Nat : n \in T
  <2> HIDE DEF T
  <2>1. T \subseteq Nat
    BY DEF T
  <2> QED
    BY <1>1, <1>2, <2>1, Induction
<1> QED
  BY <1>0, <1>3

\* getShardUrls keeps the indexes: of the static shards, and of every list
\* that begins the registered ones.
LEMMA MergedFacts ==
  ASSUME NEW urls \in Seq(Urls)
  PROVE  /\ Merged(urls) \in Seq(All) /\ Begins(Merged(urls), Static)
         /\ \A first \in Seq(Urls) : Begins(urls, first) => Begins(Merged(urls), Merged(first))
<1>1. PICK f : MergingUpto(f, urls, Len(urls)) /\ Merged(urls) = f[Len(urls)]
  BY MergedIsLast
<1>2. Len(urls) \in Nat /\ f[0] = Static
  BY <1>1 DEF MergingUpto
<1>3. Merged(urls) \in Seq(All)
  BY <1>1, <1>2, MergingTyped
<1>4. Begins(Merged(urls), Static)
  <2>1. 0 \in 0 .. Len(urls)
    BY <1>2
  <2> QED
    BY <1>1, <1>2, <2>1, MergingGrows
<1>5. ASSUME NEW first \in Seq(Urls), Begins(urls, first)
      PROVE  Begins(Merged(urls), Merged(first))
  <2> DEFINE m == Len(first)
  <2>1. PICK g : MergingUpto(g, first, m) /\ Merged(first) = g[m]
    BY MergedIsLast
  <2>2. /\ m \in Nat /\ m \in 0 .. Len(urls) /\ m <= Len(urls)
        /\ \A i \in 1 .. m : first[i] = urls[i]
    BY <1>2, <1>5 DEF Begins
  <2>3. MergingUpto(f, urls, m)
    BY <1>1, <1>2, <2>2 DEF MergingUpto
  <2> HIDE DEF m
  <2>4. g[m] = f[m]
    BY <2>1, <2>2, <2>3, MergingAgree
  <2>5. Begins(f[Len(urls)], f[m])
    BY <1>1, <2>2, MergingGrows
  <2> QED
    BY <1>1, <2>1, <2>4, <2>5
<1> QED
  BY <1>3, <1>4, <1>5

\* A list that begins another is a prefix of it.
LEMMA BeginsIsPrefix ==
  ASSUME NEW x \in Seq(All), NEW y \in Seq(All), Begins(y, x)
  PROVE  IsPrefix(x, y)
<1>1. Len(x) \in Nat /\ Len(y) \in Nat /\ Len(x) <= Len(y)
  BY DEF Begins
<1>2. /\ SubSeq(x, 1, Len(x)) \in Seq(All) /\ SubSeq(y, 1, Len(x)) \in Seq(All)
      /\ Len(SubSeq(x, 1, Len(x))) = Len(x) /\ Len(SubSeq(y, 1, Len(x))) = Len(x)
      /\ \A i \in 1 .. Len(x) : SubSeq(x, 1, Len(x))[i] = x[i] /\ SubSeq(y, 1, Len(x))[i] = y[i]
  BY <1>1, SubSeqProperties
<1>3. SubSeq(x, 1, Len(x)) = SubSeq(y, 1, Len(x))
  BY <1>1, <1>2, SeqEqual DEF Begins
<1> QED
  BY <1>1, <1>3 DEF IsPrefix

-----------------------------------------------------------------------------
(* The table built meanwhile.                                              *)

Covered(urls) == urls \in Seq(Urls) /\ Begins(urls, since.urls)

(***************************************************************************)
(* What was agreed upon when the build began still stands, and the parts   *)
(* of the table read so far have it.                                       *)
(***************************************************************************)
Built ==
  /\ since.urls \in Seq(Urls) /\ Begins(anchored, since.urls)
  /\ since.version \in Nat /\ since.version <= announced
  /\ draft = [ urls |-> draft.urls, version |-> draft.version, keys |-> draft.keys ]
  /\ bpc \in {"version", "keys"} => \E urls : Covered(urls) /\ draft.urls = Merged(urls)
  /\ bpc = "keys" => draft.version >= since.version

TableIInv == IInv /\ Built

LEMMA BeginsTrans ==
  ASSUME NEW a \in Seq(Urls), NEW b \in Seq(Urls), NEW c \in Seq(Urls),
         Begins(b, a), Begins(c, b)
  PROVE  Begins(c, a)
<1>1. Len(a) \in Nat /\ Len(b) \in Nat /\ Len(c) \in Nat
  OBVIOUS
<1>2. Len(a) <= Len(b) /\ Len(b) <= Len(c)
  BY DEF Begins
<1>3. \A i \in 1 .. Len(a) : i \in 1 .. Len(b)
  BY <1>1, <1>2
<1> QED
  BY <1>1, <1>2, <1>3 DEF Begins

LEMMA AgreementStands ==
  ASSUME IInv, [Next]_vars
  PROVE  Begins(anchored', anchored) /\ announced' >= announced
<1>0. /\ anchored \in Seq(Urls) /\ announced \in Nat /\ registered \in Seq(Shard)
      /\ Len(anchored) \in Nat
  BY MaxStartsAssumption DEF IInv, TypeOK
<1>s. ASSUME UNCHANGED << anchored, announced >>
      PROVE  Begins(anchored', anchored) /\ announced' >= announced
  BY <1>0, <1>s DEF Begins
<1>1. ASSUME NEW t \in Tasks, PutVersion(t), alone[t]
      PROVE  Begins(anchored', anchored) /\ announced' >= announced
  <2>1. announced' = job[t].ver /\ anchored' = UrlsOf(registered) /\ pc[t] = "bump"
    BY <1>1 DEF PutVersion
  <2>2. announced' >= announced
    BY <2>1 DEF IInv, Jobs, JobOK
  <2>3. /\ Len(anchored') = Len(registered)
        /\ \A i \in 1 .. Len(registered) : anchored'[i] = registered[i].url
    BY <1>0, <2>1, UrlsOfTyped
  <2>4. /\ Len(anchored) <= Len(registered)
        /\ \A i \in 1 .. Len(anchored) : anchored[i] = registered[i].url
    BY DEF IInv, Kept, Fit
  <2> QED
    BY <1>0, <2>2, <2>3, <2>4 DEF Begins
<1>2. ASSUME NEW t \in Tasks, Advance(t) \/ Crash(t), ~ (PutVersion(t) /\ alone[t])
      PROVE  UNCHANGED << anchored, announced >>
  <2>1. CASE PutVersion(t)
    BY <1>2, <2>1 DEF PutVersion
  <2>2. CASE ~ PutVersion(t)
    BY <1>2, <2>2 DEF Advance, BurnNonce, ReadList, RefuseAtCapacity, PutList, ReadVersion, Crash
  <2> QED
    BY <2>1, <2>2
<1>3. CASE PowChallenge \/ UNCHANGED vars
  BY <1>3, <1>s DEF PowChallenge, vars
<1>4. ASSUME NEW t \in Tasks, NEW u \in Urls, NEW k \in Keys,
             \/ \E n \in 1 .. MaxNonces : Redeem(t, u, k, n)
             \/ RotateShardKey(t, u, k)
      PROVE  UNCHANGED << anchored, announced >>
  BY <1>4 DEF Redeem, RotateShardKey, Start
<1> QED
  BY <1>1, <1>2, <1>3, <1>4, <1>s DEF Next

\* The list a stage of the build reads has what had to be listed.
LEMMA RegisteredCovered ==
  ASSUME TableIInv
  PROVE  Covered(UrlsOf(registered))
<1>1. /\ registered \in Seq(Shard) /\ anchored \in Seq(Urls)
      /\ since.urls \in Seq(Urls) /\ Begins(anchored, since.urls)
  BY DEF TableIInv, IInv, TypeOK, Built
<1>2. /\ UrlsOf(registered) \in Seq(Urls) /\ Len(UrlsOf(registered)) = Len(registered)
      /\ \A i \in 1 .. Len(registered) : UrlsOf(registered)[i] = registered[i].url
  BY <1>1, UrlsOfTyped
<1>3. /\ Len(anchored) <= Len(registered) /\ Len(anchored) \in Nat
      /\ \A i \in 1 .. Len(anchored) : anchored[i] = registered[i].url
  BY <1>1 DEF TableIInv, IInv, Kept, Fit
<1>4. Begins(UrlsOf(registered), anchored)
  BY <1>1, <1>2, <1>3 DEF Begins
<1> QED
  BY <1>1, <1>2, <1>4, BeginsTrans DEF Covered

LEMMA TableStep ==
  ASSUME TableIInv, [TableNext]_allVars
  PROVE  TableIInv'
<1>0. IInv /\ Built /\ announced \in Nat /\ version \in Nat /\ version >= announced
  BY MaxStartsAssumption DEF TableIInv, IInv, TypeOK, Kept
<1>u. ASSUME UNCHANGED vars PROVE IInv' /\ UNCHANGED << anchored, announced, registered, version >>
  BY <1>0, <1>u, StepIInv DEF vars
<1>a. /\ Agreement.urls = anchored /\ Agreement.version = announced
      /\ anchored \in Seq(Urls) /\ Begins(anchored, anchored)
  BY <1>0 DEF Agreement, Begins, IInv, TypeOK
<1>1. CASE Next /\ UNCHANGED tableVars
  <2>1. IInv' /\ UNCHANGED << bpc, draft, since >>
    BY <1>0, <1>1, StepIInv DEF tableVars
  <2>2. anchored' \in Seq(Urls) /\ announced' \in Nat
    BY <2>1, MaxStartsAssumption DEF IInv, TypeOK
  <2>3. Begins(anchored', anchored) /\ announced' >= announced
    BY <1>0, <1>1, AgreementStands
  <2>4. Begins(anchored', since.urls)
    BY <1>0, <1>a, <2>2, <2>3, BeginsTrans DEF Built
  <2>5. since.version <= announced'
    BY <1>0, <2>2, <2>3 DEF Built
  <2>6. Built'
    BY <1>0, <2>1, <2>4, <2>5 DEF Built, Covered, Begins
  <2> QED
    BY <2>1, <2>6 DEF TableIInv
<1>2. CASE BeginPush
  <2>1. Built'
    BY <1>0, <1>2, <1>a, <1>u DEF BeginPush, Built, Begins
  <2> QED
    BY <1>2, <1>u, <2>1 DEF BeginPush, TableIInv
<1>3. CASE ReadUrls
  <2>1. Covered(UrlsOf(registered))
    BY RegisteredCovered
  <2>2. /\ draft'.urls = Merged(UrlsOf(registered))
        /\ draft' = [ urls |-> draft'.urls, version |-> draft'.version, keys |-> draft'.keys ]
    BY <1>0, <1>3 DEF ReadUrls, ShardUrls, Built
  <2>3. /\ IInv' /\ bpc' = "version"
        /\ UNCHANGED << anchored, announced, registered, version, since >>
    BY <1>3, <1>u DEF ReadUrls
  <2>4. \E urls : Covered(urls)' /\ draft'.urls = Merged(urls)
    BY <2>1, <2>2, <2>3 DEF Covered, Begins
  <2>5. Built'
    BY <1>0, <2>2, <2>3, <2>4 DEF Built, Begins
  <2> QED
    BY <2>3, <2>5 DEF TableIInv
<1>4. CASE ReadTableVersion
  <2>1. /\ draft'.urls = draft.urls /\ draft'.version = version
        /\ draft' = [ urls |-> draft'.urls, version |-> draft'.version, keys |-> draft'.keys ]
    BY <1>0, <1>4 DEF ReadTableVersion, Built
  <2>2. /\ IInv' /\ bpc = "version" /\ bpc' = "keys"
        /\ UNCHANGED << anchored, announced, registered, version, since >>
    BY <1>4, <1>u DEF ReadTableVersion
  <2>3. version >= since.version
    BY <1>0 DEF Built
  <2>4. Built'
    BY <1>0, <2>1, <2>2, <2>3 DEF Built, Covered, Begins
  <2> QED
    BY <2>2, <2>4 DEF TableIInv
<1>5. CASE ReadKeys
  <2>1. /\ IInv' /\ bpc' = "idle" /\ since' = Agreement /\ draft' = NoTable
        /\ UNCHANGED << anchored, announced >>
    BY <1>5, <1>u DEF ReadKeys
  <2>2. draft' = [ urls |-> draft'.urls, version |-> draft'.version, keys |-> draft'.keys ]
    BY <2>1 DEF NoTable
  <2>3. Built'
    BY <1>0, <1>a, <2>1, <2>2 DEF Built, Begins
  <2> QED
    BY <2>1, <2>3 DEF TableIInv
<1>6. ASSUME NEW c \in 1 .. MaxCalls, Deliver(c) \/ Lose(c) PROVE TableIInv'
  <2>1. IInv' /\ UNCHANGED << anchored, announced, bpc, draft, since >>
    BY <1>6, <1>u DEF Deliver, Lose
  <2> QED
    BY <1>0, <2>1 DEF TableIInv, Built, Covered, Begins
<1>7. CASE UNCHANGED allVars
  <2>1. IInv' /\ UNCHANGED << anchored, announced, bpc, draft, since >>
    BY <1>7, <1>u DEF allVars, tableVars
  <2> QED
    BY <1>0, <2>1 DEF TableIInv, Built, Covered, Begins
<1> QED
  BY <1>1, <1>2, <1>3, <1>4, <1>5, <1>6, <1>7 DEF TableNext

LEMMA TableInitIInv == TableInit => TableIInv
<1> SUFFICES ASSUME TableInit PROVE TableIInv
  OBVIOUS
<1>1. IInv
  BY InitIInv DEF TableInit
<1>2. since.urls = << >> /\ since.version = 0 /\ anchored = << >> /\ announced = 0
  BY DEF TableInit, Init, Agreement
<1>3. draft = [ urls |-> draft.urls, version |-> draft.version, keys |-> draft.keys ]
  BY DEF TableInit, NoTable
<1> QED
  BY <1>1, <1>2, <1>3, EmptySeq DEF TableIInv, Built, Begins, TableInit

LEMMA SpecTableIInv == TableSpec => []TableIInv
  BY TableInitIInv, TableStep, PTL DEF TableSpec

LEMMA KeysInTable ==
  ASSUME TableIInv
  PROVE  /\ \A u \in Range(since.urls) : Pubkeys[u] # NoKey
         /\ \A u \in Urls : agreed[u] # NoKey => Pubkeys[u] = agreed[u]
<1>1. Covered(UrlsOf(registered)) /\ Fit(registered, anchored, agreed)
  BY RegisteredCovered DEF TableIInv, IInv, Kept
<1>2. /\ registered \in Seq(Shard) /\ Len(UrlsOf(registered)) = Len(registered)
      /\ \A i \in 1 .. Len(registered) : UrlsOf(registered)[i] = registered[i].url
  BY <1>1, UrlsOfTyped DEF Fit
<1>3. since.urls \in Seq(Urls)
  BY DEF TableIInv, Built
<1>4. ASSUME NEW u \in Range(since.urls) PROVE Pubkeys[u] # NoKey
  <2>1. PICK i \in 1 .. Len(since.urls) : since.urls[i] = u
    BY <1>3 DEF Range
  <2>2. u \in Urls
    BY <1>3, <2>1
  <2>3. i \in 1 .. Len(registered) /\ registered[i].url = u
    BY <1>1, <1>2, <1>3, <2>1 DEF Covered, Begins
  <2>4. registered[i] = [url |-> u, key |-> registered[i].key] /\ registered[i].key \in Keys
    BY <1>2, <2>3, ShardFields
  <2>5. KeyOf(registered, u) = registered[i].key
    BY <1>1, <2>3, <2>4, KeyOfHas DEF Has
  <2> QED
    BY <2>2, <2>4, <2>5, NoneAssumption DEF Pubkeys
<1>5. ASSUME NEW u \in Urls, agreed[u] # NoKey PROVE Pubkeys[u] = agreed[u]
  BY <1>5, KeysStick DEF TableIInv, Pubkeys
<1> QED
  BY <1>4, <1>5

(***************************************************************************)
(* The state of the list stays what it is while tables are built, pushed,  *)
(* lost and delivered.                                                     *)
(***************************************************************************)
THEOREM ListUntouched == TableSpec => [](TypeOK /\ WellFormed /\ AppendOnly /\ KeySticks)
<1>1. TableIInv => TypeOK /\ WellFormed /\ AppendOnly /\ KeySticks
  <2> SUFFICES ASSUME TableIInv PROVE TypeOK /\ WellFormed /\ AppendOnly /\ KeySticks
    OBVIOUS
  <2>1. IInv
    BY DEF TableIInv
  <2>2. WellFormed
    BY <2>1 DEF IInv, Kept, Fit, WellFormed
  <2>3. AppendOnly
    BY <2>1, FitPrefix DEF IInv, TypeOK, Kept, AppendOnly
  <2>4. KeySticks
    BY <2>1, KeysStick DEF KeySticks
  <2> QED
    BY <2>1, <2>2, <2>3, <2>4 DEF IInv
<1> QED
  BY <1>1, SpecTableIInv, PTL

\* Every table has the static shards first, in their order.
Shaped ==
  /\ TableTypeOK
  /\ bpc \in {"version", "keys"} => IsPrefix(Static, draft.urls)
  /\ \A c \in 1 .. MaxCalls : calls[c] # NoTable => IsPrefix(Static, calls[c].urls)

LEMMA PubkeysTyped ==
  ASSUME registered \in Seq(Shard)
  PROVE  Pubkeys \in [Urls -> Keys \cup {NoKey}]
<1> SUFFICES ASSUME NEW u \in Urls PROVE KeyOf(registered, u) \in Keys \cup {NoKey}
  BY DEF Pubkeys
<1>1. CASE Listed(registered, u)
  <2> DEFINE j == CHOOSE n \in DOMAIN registered : registered[n].url = u
  <2>1. j \in DOMAIN registered
    BY <1>1 DEF Listed
  <2>2. KeyOf(registered, u) = registered[j].key
    BY <1>1 DEF KeyOf
  <2> HIDE DEF j
  <2>3. registered[j] \in Shard
    BY <2>1
  <2>4. registered[j].key \in Keys
    BY <2>3 DEF Shard
  <2> QED
    BY <2>2, <2>4
<1>2. CASE ~ Listed(registered, u)
  BY <1>2 DEF KeyOf
<1> QED
  BY <1>1, <1>2

LEMMA NoTableTyped == NoTable \in Table
BY DEF NoTable, Table

LEMMA ShardUrlsTyped ==
  ASSUME registered \in Seq(Shard)
  PROVE  ShardUrls \in Seq(Urls \cup Range(Static)) /\ IsPrefix(Static, ShardUrls)
<1>1. UrlsOf(registered) \in Seq(Urls)
  BY UrlsOfTyped
<1>2. ShardUrls \in Seq(All) /\ Begins(ShardUrls, Static)
  BY <1>1, MergedFacts DEF ShardUrls
<1>3. IsPrefix(Static, ShardUrls)
  BY <1>2, StaticSeq, BeginsIsPrefix
<1> QED
  BY <1>2, <1>3 DEF All

LEMMA ShapedInit == TableInit => Shaped
<1> SUFFICES ASSUME TableInit PROVE Shaped
  OBVIOUS
<1>1. TypeOK
  BY InitIInv DEF TableInit, IInv
<1> QED
  BY <1>1, NoTableTyped DEF TableInit, Shaped, TableTypeOK

LEMMA ShapedStep ==
  ASSUME TypeOK, TypeOK', Shaped, [TableNext]_allVars
  PROVE  Shaped'
<1>0. /\ bpc \in {"idle", "urls", "version", "keys"}
      /\ draft \in Table /\ calls \in [1 .. MaxCalls -> Table] /\ cache \in Table
      /\ registered \in Seq(Shard) /\ version \in Nat
      /\ cache # NoTable => IsPrefix(Static, cache.urls)
      /\ bpc \in {"version", "keys"} => IsPrefix(Static, draft.urls)
      /\ \A c \in 1 .. MaxCalls : calls[c] # NoTable => IsPrefix(Static, calls[c].urls)
  BY MaxStartsAssumption DEF Shaped, TableTypeOK, TypeOK
<1>1. CASE Next /\ UNCHANGED tableVars
  BY <1>0, <1>1 DEF tableVars, Shaped, TableTypeOK, NoTable, Table
<1>2. CASE BeginPush
  BY <1>0, <1>2 DEF BeginPush, Shaped, TableTypeOK
<1>3. CASE ReadUrls
  <2>1. ShardUrls \in Seq(Urls \cup Range(Static)) /\ IsPrefix(Static, ShardUrls)
    BY <1>0, ShardUrlsTyped
  <2>2. draft' = [draft EXCEPT !.urls = ShardUrls]
    BY <1>3 DEF ReadUrls
  <2> HIDE DEF ShardUrls
  <2>3. draft' \in Table /\ draft'.urls = ShardUrls
    BY <1>0, <2>1, <2>2 DEF Table
  <2> QED
    BY <1>0, <1>3, <2>1, <2>3 DEF ReadUrls, Shaped, TableTypeOK
<1>4. CASE ReadTableVersion
  <2>1. draft' \in Table /\ draft'.urls = draft.urls
    BY <1>0, <1>4 DEF ReadTableVersion, Table
  <2> QED
    BY <1>0, <1>4, <2>1 DEF ReadTableVersion, Shaped, TableTypeOK
<1>5. CASE ReadKeys
  <2>1. Pubkeys \in [Urls -> Keys \cup {NoKey}]
    BY <1>0, PubkeysTyped
  <2>2. Signed \in Table /\ Signed.urls = draft.urls
    BY <1>0, <2>1 DEF Signed, Table
  <2>3. PICK c \in 1 .. MaxCalls : calls' = [calls EXCEPT ![c] = Signed]
    BY <1>5 DEF ReadKeys
  <2>4. /\ calls' \in [1 .. MaxCalls -> Table]
        /\ \A b \in 1 .. MaxCalls : calls'[b] # NoTable => IsPrefix(Static, calls'[b].urls)
    <3>1. bpc = "keys" /\ IsPrefix(Static, Signed.urls)
      BY <1>0, <1>5, <2>2 DEF ReadKeys
    <3> QED
      BY <1>0, <2>2, <2>3, <3>1
  <2>5. bpc' = "idle" /\ draft' = NoTable /\ cache' = cache
    BY <1>5 DEF ReadKeys
  <2> QED
    BY <1>0, <2>4, <2>5, NoTableTyped DEF Shaped, TableTypeOK
<1>6. ASSUME NEW c \in 1 .. MaxCalls, Deliver(c) \/ Lose(c) PROVE Shaped'
  <2>1. calls' = [calls EXCEPT ![c] = NoTable] /\ calls[c] # NoTable
    BY <1>6 DEF Deliver, Lose
  <2>2. /\ calls' \in [1 .. MaxCalls -> Table]
        /\ \A b \in 1 .. MaxCalls : calls'[b] # NoTable => IsPrefix(Static, calls'[b].urls)
    BY <1>0, <2>1, NoTableTyped
  <2>3. UNCHANGED << bpc, draft >> /\ (cache' = cache \/ cache' = calls[c])
    BY <1>6 DEF Deliver, Lose
  <2> QED
    BY <1>0, <2>1, <2>2, <2>3 DEF Shaped, TableTypeOK
<1>7. CASE UNCHANGED allVars
  BY <1>0, <1>7 DEF allVars, tableVars, Shaped, TableTypeOK, NoTable, Table
<1> QED
  BY <1>1, <1>2, <1>3, <1>4, <1>5, <1>6, <1>7 DEF TableNext

(***************************************************************************)
(* Every table that is built, under way or cached has the static shards    *)
(* at the low indexes (router.js:247-251) and is otherwise well formed.    *)
(***************************************************************************)
THEOREM TableTypeCorrect == TableSpec => []TableTypeOK
<1>1. TableIInv => TypeOK
  BY DEF TableIInv, IInv
<1>2. TypeOK /\ TypeOK' /\ Shaped /\ [TableNext]_allVars => Shaped'
  BY ShapedStep
<1>3. Shaped => TableTypeOK
  BY DEF Shaped
<1> QED
  BY <1>1, <1>2, <1>3, SpecTableIInv, ShapedInit, PTL DEF TableSpec

(***************************************************************************)
(* A signed table, whose urls, version and keys were read at three times   *)
(* with changes in between, has the version, the keys and the indexes that *)
(* were agreed upon when its build began (router.js 252-288, 353-384).     *)
(***************************************************************************)
THEOREM TableCoversHolds == TableSpec => TableCovers
<1>1. TableIInv /\ ReadKeys => VersionCovered /\ UrlsCovered /\ KeysCovered
  <2> SUFFICES ASSUME TableIInv, ReadKeys
               PROVE  VersionCovered /\ UrlsCovered /\ KeysCovered
    OBVIOUS
  <2>1. Built /\ bpc = "keys"
    BY DEF TableIInv, ReadKeys
  <2>2. /\ Signed.urls = draft.urls /\ Signed.version = draft.version
        /\ Signed.keys = Pubkeys
    BY <2>1 DEF Built, Signed
  <2>3. VersionCovered /\ KeysCovered
    BY <2>1, <2>2, KeysInTable DEF Built, VersionCovered, KeysCovered
  <2>4. PICK urls : Covered(urls) /\ draft.urls = Merged(urls)
    BY <2>1 DEF Built
  <2>5. /\ urls \in Seq(Urls) /\ since.urls \in Seq(Urls) /\ Begins(urls, since.urls)
    BY <2>1, <2>4 DEF Built, Covered
  <2>6. /\ Merged(urls) \in Seq(All) /\ Merged(since.urls) \in Seq(All)
        /\ Begins(Merged(urls), Merged(since.urls))
    BY <2>5, MergedFacts
  <2>7. UrlsCovered
    BY <2>2, <2>4, <2>6, BeginsIsPrefix DEF UrlsCovered
  <2> QED
    BY <2>3, <2>7
<1> QED
  BY <1>1, SpecTableIInv, PTL DEF TableSpec, TableCovers

=============================================================================
