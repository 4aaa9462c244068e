------------------------ MODULE CombinedMailboxProofs ------------------------
(***************************************************************************)
(* What ShardMailbox guarantees, for any shards, requests, limits and      *)
(* clock; and that the Combined Worker is a shard: every step of its       *)
(* handlers is a step of ShardMailbox, so that all of this holds of a mesh *)
(* with a Combined Worker too.                                             *)
(***************************************************************************)
EXTENDS CombinedMailbox, FiniteSetTheorems, TLAPS

-----------------------------------------------------------------------------
(* What the functions on mailbox records return, preserve and bound.       *)

(***************************************************************************)
(* The backlog clock of a record runs exactly while it queues something.   *)
(***************************************************************************)
ClockRuns(rec, now) ==
  /\ rec.since = Never <=> rec.msgs = << >>
  /\ rec.since # Never => rec.since <= now

Distinct(msgs) == \A i, j \in 1 .. Len(msgs) : msgs[i] = msgs[j] => i = j

LEMMA EmptyQueue == Len(<< >>) = 0 /\ (\A e : ~ InQueue(<< >>, e)) /\ Distinct(<< >>)
  BY DEF InQueue, Distinct

LEMMA QueuedIdsInQueue ==
  ASSUME NEW msgs, NEW e
  PROVE  e \in QueuedIds(msgs) <=> InQueue(msgs, e)
  BY DEF QueuedIds, InQueue

(***************************************************************************)
(* Appending an entry adds that entry and no other.                        *)
(***************************************************************************)
LEMMA AppendQueue ==
  ASSUME NEW Ids, NEW msgs \in Seq(Ids), NEW x \in Ids
  PROVE  /\ Append(msgs, x) \in Seq(Ids)
         /\ Append(msgs, x) # << >>
         /\ Len(Append(msgs, x)) = Len(msgs) + 1
         /\ \A e : InQueue(Append(msgs, x), e) <=> InQueue(msgs, e) \/ e = x
         /\ Distinct(msgs) /\ ~ InQueue(msgs, x) => Distinct(Append(msgs, x))
<1> DEFINE long == Append(msgs, x)
<1>1. /\ long \in Seq(Ids) /\ Len(long) = Len(msgs) + 1 /\ Len(msgs) \in Nat
      /\ \A i \in 1 .. Len(msgs) : long[i] = msgs[i]
      /\ long[Len(msgs) + 1] = x
  OBVIOUS
<1> HIDE DEF long
<1>2. long # << >>
  BY <1>1
<1>3. ASSUME NEW e PROVE InQueue(long, e) <=> InQueue(msgs, e) \/ e = x
  <2>1. ASSUME InQueue(long, e) PROVE InQueue(msgs, e) \/ e = x
    <3>1. PICK i \in 1 .. Len(long) : long[i] = e
      BY <2>1 DEF InQueue
    <3>2. CASE i = Len(msgs) + 1
      BY <1>1, <3>1, <3>2
    <3>3. CASE i \in 1 .. Len(msgs)
      BY <1>1, <3>1, <3>3 DEF InQueue
    <3> QED
      BY <1>1, <3>2, <3>3
  <2>2. ASSUME InQueue(msgs, e) PROVE InQueue(long, e)
    BY <1>1, <2>2 DEF InQueue
  <2>3. ASSUME e = x PROVE InQueue(long, e)
    <3>1. Len(msgs) + 1 \in 1 .. Len(long)
      BY <1>1
    <3> QED
      BY <1>1, <2>3, <3>1 DEF InQueue
  <2> QED
    BY <2>1, <2>2, <2>3
<1>4. ASSUME Distinct(msgs), ~ InQueue(msgs, x) PROVE Distinct(long)
  BY <1>1, <1>4 DEF Distinct, InQueue
<1> QED
  BY <1>1, <1>2, <1>3, <1>4 DEF long

-----------------------------------------------------------------------------

(***************************************************************************)
(* Creation, emptying, the staleness test and a push keep records records, *)
(* and the clock of a record running exactly while it queues something.    *)
(***************************************************************************)
LEMMA FreshRecord ==
  ASSUME NEW Ids, NEW Hashes, NEW Urls, NEW now \in Nat,
         NEW secret \in Hashes \cup {NoSecret}, NEW replicas \in SUBSET Urls
  PROVE  LET rec == Fresh(secret, replicas) IN
         /\ rec \in RecordOver(Ids, Hashes, Urls)
         /\ rec.secret = secret /\ rec.msgs = << >> /\ rec.replicas = replicas
         /\ ClockRuns(rec, now)
  BY DEF Fresh, RecordOver, ClockRuns

LEMMA ReregisteredRecord ==
  ASSUME NEW Ids, NEW Hashes, NEW Urls, NEW rec \in RecordOver(Ids, Hashes, Urls),
         NEW secret \in Hashes, NEW replicas \in SUBSET Urls
  PROVE  LET new == Reregistered(rec, secret, replicas) IN
         /\ new \in RecordOver(Ids, Hashes, Urls)
         /\ new.secret = secret /\ new.msgs = rec.msgs /\ new.since = rec.since
         /\ new.replicas \in {replicas, rec.replicas}
  BY DEF Reregistered, RecordOver

LEMMA EmptiedRecord ==
  ASSUME NEW Ids, NEW Hashes, NEW Urls, NEW now \in Nat,
         NEW rec \in RecordOver(Ids, Hashes, Urls)
  PROVE  LET new == Emptied(rec) IN
         /\ new \in RecordOver(Ids, Hashes, Urls)
         /\ new.secret = rec.secret /\ new.replicas = rec.replicas
         /\ new.msgs = << >>
         /\ ClockRuns(new, now)
<1> DEFINE new == Emptied(rec)
<1>1. << >> \in Seq(Ids)
  OBVIOUS
<1>2. /\ new \in RecordOver(Ids, Hashes, Urls)
      /\ new.secret = rec.secret /\ new.replicas = rec.replicas
      /\ new.msgs = << >> /\ new.since = Never
  BY <1>1 DEF Emptied, RecordOver
<1> QED
  BY <1>2 DEF ClockRuns

LEMMA UnstaleRecord ==
  ASSUME NEW Ids, NEW Hashes, NEW Urls, NEW now \in Nat,
         NEW rec \in RecordOver(Ids, Hashes, Urls)
  PROVE  LET new == Unstale(rec, now) IN
         /\ new \in RecordOver(Ids, Hashes, Urls)
         /\ new.secret = rec.secret /\ new.replicas = rec.replicas
         /\ IsBacklogStale(rec.since, now) => new.msgs = << >>
         /\ ~ IsBacklogStale(rec.since, now) => new.msgs = rec.msgs
         /\ ClockRuns(rec, now) => ClockRuns(new, now)
  BY EmptiedRecord DEF Unstale

LEMMA PushRecord ==
  ASSUME NEW Ids, NEW Hashes, NEW Urls, NEW now \in Nat, NEW id \in Ids,
         NEW rec \in RecordOver(Ids, Hashes, Urls)
  PROVE  LET new == Push(rec, id, now) IN
         /\ new \in RecordOver(Ids, Hashes, Urls)
         /\ new.secret = rec.secret /\ new.replicas = rec.replicas
         /\ new.msgs = Append(rec.msgs, id)
         /\ ClockRuns(rec, now) => ClockRuns(new, now)
<1> DEFINE new == Push(rec, id, now)
<1>0. Append(rec.msgs, id) \in Seq(Ids)
  BY AppendQueue DEF RecordOver
<1>1. /\ new \in RecordOver(Ids, Hashes, Urls)
      /\ new.secret = rec.secret /\ new.replicas = rec.replicas
      /\ new.msgs = Append(rec.msgs, id)
      /\ new.since = IF rec.since = Never THEN now ELSE rec.since
  BY <1>0 DEF Push, RecordOver
<1>2. new.msgs # << >>
  BY <1>1, AppendQueue DEF RecordOver
<1>3. ASSUME ClockRuns(rec, now) PROVE ClockRuns(new, now)
  BY <1>1, <1>2, <1>3, NeverAssumption DEF ClockRuns
<1> QED
  BY <1>1, <1>3

-----------------------------------------------------------------------------
(* The inductive invariant, part by part.  A property of the stored        *)
(* records must also hold of the records about to be written, which were   *)
(* computed from an earlier state of the mailbox.                          *)

Pending(r, s) == pc[r] = "got" /\ job[r].shard = s

JobOK ==
  \A r \in Requests :
    /\ pc[r] \in {"got", "done"} => job[r] \in Job
    /\ pc[r] = "got" => job[r].write \in Record
    /\ pc[r] \notin {"got", "done"} => job[r] = NoJob

ClockInv ==
  /\ \A s \in Shards : mailbox[s] # NoRecord => ClockRuns(mailbox[s], clock)
  /\ \A r \in Requests : pc[r] = "got" => ClockRuns(job[r].write, clock)

(***************************************************************************)
(* Two requests in flight at a shard know of each other.                   *)
(***************************************************************************)
AloneInv ==
  \A s \in Shards : \A r, q \in Requests :
    Pending(r, s) /\ Pending(q, s) /\ r # q => ~ alone[r]

(***************************************************************************)
(* While a promised secret stands, no request but a /create holds a        *)
(* snapshot with another one.                                              *)
(***************************************************************************)
SecretInv ==
  \A s \in Shards :
    promised[s].alone /\ promised[s].secret # NoSecret =>
      /\ mailbox[s] # NoRecord
      /\ mailbox[s].secret = promised[s].secret
      /\ \A r \in Requests : Pending(r, s) /\ job[r].op # "create"
           => job[r].write.secret = promised[s].secret

(***************************************************************************)
(* Wherever an entry is found, its /send has completed; a fan-out call     *)
(* does not go back to the shard the entry was sent to.                    *)
(***************************************************************************)
Sent(e) == pc[e] = "done" /\ job[e].op = "send"

SentInv ==
  /\ \A s \in Shards : \A e \in Requests : Holds(s, e) => Sent(e)
  /\ \A r, e \in Requests :
       pc[r] = "got" /\ InQueue(job[r].write.msgs, e)
         => Sent(e) \/ (e = r /\ job[r].op = "send")
  /\ \A r, e \in Requests :
       pc[r] \in {"got", "done"} /\ InQueue(job[r].out, e) => Sent(e)
  /\ \A c \in calls : Sent(c.entry) /\ job[c.entry].shard # c.to

DistinctInv ==
  /\ \A s \in Shards : mailbox[s] # NoRecord => Distinct(mailbox[s].msgs)
  /\ \A r \in Requests : pc[r] = "got" => Distinct(job[r].write.msgs)

(***************************************************************************)
(* What a handler writes when it is a /send or a consuming /read.          *)
(***************************************************************************)
WriteInv ==
  \A r \in Requests : pc[r] = "got" =>
    /\ job[r].op = "send" => InQueue(job[r].write.msgs, r)
    /\ job[r].op = "read" => job[r].write.msgs = << >>

(***************************************************************************)
(* An entry burned by a read that was alone is in no snapshot either.      *)
(***************************************************************************)
BurnInv ==
  \A q, e \in Requests : \A s \in Shards :
    ( /\ Completed(q, "read", s) /\ alone[q]
      /\ InQueue(job[q].out, e) /\ Completed(e, "send", s) )
    => /\ ~ Holds(s, e)
       /\ \A r \in Requests : Pending(r, s) => ~ InQueue(job[r].write.msgs, e)

(***************************************************************************)
(* An entry stored by a /send that was alone is in every snapshot taken    *)
(* since, unless the request that holds it returns it or found it stale.   *)
(***************************************************************************)
Accounted(r, e) ==
  \/ InQueue(job[r].write.msgs, e)
  \/ e \in job[r].drop
  \/ job[r].op = "read" /\ InQueue(job[r].out, e)

KeptInv ==
  \A e \in Requests : \A s \in Shards :
    Completed(e, "send", s) /\ alone[e] =>
      \/ e \in discarded
      \/ Returned(e, s)
      \/ /\ Holds(s, e)
         /\ \A r \in Requests : Pending(r, s) => Accounted(r, e)

-----------------------------------------------------------------------------
(* What the five kinds of get have in common.                              *)

(***************************************************************************)
(* The record, the answer and the stale entries a handler derives from the *)
(* record it got.                                                          *)
(***************************************************************************)
Derived(r, op, s, write, out, drop) ==
  /\ pc[r] = "idle"
  /\ (mailbox[s] # NoRecord => ClockRuns(mailbox[s], clock)) => ClockRuns(write, clock)
  /\ op # "create" /\ mailbox[s] # NoRecord => write.secret = mailbox[s].secret
  /\ \A e \in Requests : InQueue(write.msgs, e) =>
       \/ Holds(s, e)
       \/ op = "send" /\ e = r
       \/ \E c \in calls : c.to = s /\ c.entry = e
  /\ \A e \in Requests : InQueue(out, e) => Holds(s, e)
  /\ \A e \in Requests : Holds(s, e) =>
       InQueue(write.msgs, e) \/ e \in drop \/ (op = "read" /\ InQueue(out, e))
  /\ \A e \in drop : Holds(s, e)
  /\ op = "send" => InQueue(write.msgs, r)
  /\ op = "read" => write.msgs = << >>
  /\ /\ mailbox[s] # NoRecord => Distinct(mailbox[s].msgs)
     /\ op = "send" => ~ Holds(s, r)
     => Distinct(write.msgs)
  /\ /\ op # "replicate"
     /\ mailbox[s] # NoRecord => Len(mailbox[s].msgs) <= MaxMessages
     => Len(write.msgs) <= MaxMessages
  /\ \/ write.replicas \in Placements
     \/ mailbox[s] # NoRecord /\ write.replicas = mailbox[s].replicas
     \/ op = "replicate"
  /\ op = "replicate" => calls # {}

GotStep(r) ==
  \E op \in Ops, s \in Shards, write \in Record, out \in Seq(Requests),
     drop \in SUBSET Requests :
    Derived(r, op, s, write, out, drop) /\ Got(r, op, s, write, out, drop)

LEMMA CreateStep ==
  ASSUME TypeOK, NEW r \in Requests, NEW s \in Shards, NEW secret \in Secrets,
         NEW replicas \in Placements, CreateGet(r, s, secret, replicas)
  PROVE  GotStep(r)
<1> DEFINE write == IF mailbox[s] = NoRecord
                    THEN Fresh(secret, replicas)
                    ELSE Reregistered(mailbox[s], secret, replicas)
<1>1. /\ pc[r] = "idle" /\ clock \in Nat /\ replicas \in SUBSET Shards
      /\ mailbox[s] \in Record \cup {NoRecord}
  BY PlacementsAssumption DEF CreateGet, CanStart, TypeOK
<1>2. Got(r, "create", s, write, << >>, {})
  BY DEF CreateGet
<1>3. ASSUME mailbox[s] = NoRecord
      PROVE  write \in Record /\ Derived(r, "create", s, write, << >>, {})
  <2>1. write = Fresh(secret, replicas)
    BY <1>3
  <2>2. /\ write \in Record /\ write.msgs = << >> /\ write.replicas = replicas
        /\ ClockRuns(write, clock)
    BY <1>1, <2>1, FreshRecord DEF Record
  <2> QED
    BY <1>1, <1>3, <2>2, EmptyQueue, MaxMessagesAssumption DEF Derived, Holds
<1>4. ASSUME mailbox[s] # NoRecord
      PROVE  write \in Record /\ Derived(r, "create", s, write, << >>, {})
  <2>1. write = Reregistered(mailbox[s], secret, replicas)
    BY <1>4
  <2>2. /\ write \in Record /\ write.msgs = mailbox[s].msgs
        /\ write.since = mailbox[s].since
        /\ write.replicas \in {replicas, mailbox[s].replicas}
    BY <1>1, <1>4, <2>1, ReregisteredRecord DEF Record
  <2> QED
    BY <1>1, <1>4, <2>2, EmptyQueue DEF Derived, Holds, ClockRuns
<1>5. write \in Record /\ Derived(r, "create", s, write, << >>, {})
  BY <1>3, <1>4
<1>6. "create" \in Ops /\ << >> \in Seq(Requests) /\ {} \in SUBSET Requests
  BY DEF Ops
<1> HIDE DEF write
<1> QED
  BY <1>2, <1>5, <1>6 DEF GotStep

LEMMA SendStep ==
  ASSUME TypeOK, NEW r \in Requests, NEW s \in Shards, SendGet(r, s)
  PROVE  GotStep(r)
<1> DEFINE rec   == Unstale(mailbox[s], clock)
           write == Push(rec, r, clock)
           drop  == Dropped(mailbox[s])
<1>1. /\ pc[r] = "idle" /\ clock \in Nat
      /\ mailbox[s] # NoRecord /\ mailbox[s] \in Record
      /\ Len(rec.msgs) < MaxMessages
  BY DEF SendGet, CanStart, TypeOK
<1>2. Got(r, "send", s, write, << >>, drop)
  BY DEF SendGet
<1>3. /\ rec \in Record /\ rec.secret = mailbox[s].secret
      /\ rec.replicas = mailbox[s].replicas
      /\ IsBacklogStale(mailbox[s].since, clock) => rec.msgs = << >>
      /\ ~ IsBacklogStale(mailbox[s].since, clock) => rec.msgs = mailbox[s].msgs
      /\ ClockRuns(mailbox[s], clock) => ClockRuns(rec, clock)
  <2>1. mailbox[s] \in RecordOver(Requests, Secrets, Shards)
    BY <1>1 DEF Record
  <2>2. rec \in RecordOver(Requests, Secrets, Shards)
    BY <1>1, <2>1, UnstaleRecord
  <2>3. rec.secret = mailbox[s].secret /\ rec.replicas = mailbox[s].replicas
    BY <2>1 DEF Unstale, Emptied, RecordOver
  <2>4. /\ IsBacklogStale(mailbox[s].since, clock) => rec.msgs = << >>
        /\ ~ IsBacklogStale(mailbox[s].since, clock) => rec.msgs = mailbox[s].msgs
    BY <2>1 DEF Unstale, Emptied, RecordOver
  <2>5. ClockRuns(mailbox[s], clock) => ClockRuns(rec, clock)
    BY <1>1, <2>1, UnstaleRecord
  <2> QED
    BY <2>2, <2>3, <2>4, <2>5 DEF Record
<1> HIDE DEF rec
<1>4. /\ write \in Record /\ write.secret = rec.secret
      /\ write.replicas = rec.replicas /\ write.msgs = Append(rec.msgs, r)
      /\ ClockRuns(rec, clock) => ClockRuns(write, clock)
  BY <1>1, <1>3, PushRecord DEF Record
<1> HIDE DEF write
<1>5. rec.msgs \in Seq(Requests) /\ mailbox[s].msgs \in Seq(Requests)
  BY <1>1, <1>3 DEF Record, RecordOver
<1>6. /\ Len(write.msgs) = Len(rec.msgs) + 1
      /\ \A e : InQueue(write.msgs, e) <=> InQueue(rec.msgs, e) \/ e = r
      /\ Distinct(rec.msgs) /\ ~ InQueue(rec.msgs, r) => Distinct(write.msgs)
  BY <1>4, <1>5, AppendQueue
<1>7. /\ drop \in SUBSET Requests
      /\ IsBacklogStale(mailbox[s].since, clock)
           => \A e : InQueue(mailbox[s].msgs, e) <=> e \in drop
      /\ \A e \in drop : InQueue(mailbox[s].msgs, e)
  <2>1. drop = IF IsBacklogStale(mailbox[s].since, clock)
               THEN QueuedIds(mailbox[s].msgs) ELSE {}
    BY DEF Dropped
  <2>2. QueuedIds(mailbox[s].msgs) \in SUBSET Requests
    BY <1>5 DEF QueuedIds
  <2> QED
    BY <2>1, <2>2, QueuedIdsInQueue
<1> HIDE DEF drop
<1>8. Derived(r, "send", s, write, << >>, drop)
  <2>1. \A e \in Requests : InQueue(rec.msgs, e) => InQueue(mailbox[s].msgs, e)
    BY <1>3, EmptyQueue
  <2>2. \A e \in Requests :
          InQueue(mailbox[s].msgs, e) => InQueue(rec.msgs, e) \/ e \in drop
    BY <1>3, <1>7
  <2>3. Distinct(mailbox[s].msgs) => Distinct(rec.msgs)
    BY <1>3, EmptyQueue
  <2>4. Len(write.msgs) <= MaxMessages
    BY <1>1, <1>5, <1>6, MaxMessagesAssumption
  <2>5. \A e \in drop : Holds(s, e)
    BY <1>1, <1>7 DEF Holds
  <2> QED
    BY <1>1, <1>3, <1>4, <1>6, <2>1, <2>2, <2>3, <2>4, <2>5, EmptyQueue DEF Derived, Holds
<1>9. "send" \in Ops /\ << >> \in Seq(Requests)
  BY DEF Ops
<1> QED
  BY <1>2, <1>4, <1>7, <1>8, <1>9 DEF GotStep

LEMMA ReadStep ==
  ASSUME TypeOK, NEW r \in Requests, NEW s \in Shards, NEW secret \in Secrets,
         NEW peek \in BOOLEAN, ReadGet(r, s, secret, peek)
  PROVE  GotStep(r)
<1> DEFINE rec   == Unstale(mailbox[s], clock)
           op    == IF peek THEN "peek" ELSE "read"
           write == IF peek THEN rec ELSE Emptied(rec)
           drop  == Dropped(mailbox[s])
<1>1. /\ pc[r] = "idle" /\ clock \in Nat
      /\ mailbox[s] # NoRecord /\ mailbox[s] \in Record
  BY DEF ReadGet, CanStart, TypeOK
<1>2. Got(r, op, s, write, rec.msgs, drop)
  BY DEF ReadGet
<1>3. /\ rec \in Record /\ rec.secret = mailbox[s].secret
      /\ rec.replicas = mailbox[s].replicas
      /\ IsBacklogStale(mailbox[s].since, clock) => rec.msgs = << >>
      /\ ~ IsBacklogStale(mailbox[s].since, clock) => rec.msgs = mailbox[s].msgs
      /\ ClockRuns(mailbox[s], clock) => ClockRuns(rec, clock)
  <2>1. mailbox[s] \in RecordOver(Requests, Secrets, Shards)
    BY <1>1 DEF Record
  <2>2. rec \in RecordOver(Requests, Secrets, Shards)
    BY <1>1, <2>1, UnstaleRecord
  <2>3. rec.secret = mailbox[s].secret /\ rec.replicas = mailbox[s].replicas
    BY <2>1 DEF Unstale, Emptied, RecordOver
  <2>4. /\ IsBacklogStale(mailbox[s].since, clock) => rec.msgs = << >>
        /\ ~ IsBacklogStale(mailbox[s].since, clock) => rec.msgs = mailbox[s].msgs
    BY <2>1 DEF Unstale, Emptied, RecordOver
  <2>5. ClockRuns(mailbox[s], clock) => ClockRuns(rec, clock)
    BY <1>1, <2>1, UnstaleRecord
  <2> QED
    BY <2>2, <2>3, <2>4, <2>5 DEF Record
<1> HIDE DEF rec
<1>4. /\ write \in Record /\ write.secret = rec.secret
      /\ write.replicas = rec.replicas
      /\ peek => write.msgs = rec.msgs
      /\ ~ peek => write.msgs = << >>
      /\ ClockRuns(rec, clock) => ClockRuns(write, clock)
  BY <1>1, <1>3, EmptiedRecord DEF Record
<1> HIDE DEF write
<1>5. rec.msgs \in Seq(Requests) /\ mailbox[s].msgs \in Seq(Requests)
  BY <1>1, <1>3 DEF Record, RecordOver
<1>6. /\ drop \in SUBSET Requests
      /\ IsBacklogStale(mailbox[s].since, clock)
           => \A e : InQueue(mailbox[s].msgs, e) <=> e \in drop
      /\ \A e \in drop : InQueue(mailbox[s].msgs, e)
  <2>1. drop = IF IsBacklogStale(mailbox[s].since, clock)
               THEN QueuedIds(mailbox[s].msgs) ELSE {}
    BY DEF Dropped
  <2>2. QueuedIds(mailbox[s].msgs) \in SUBSET Requests
    BY <1>5 DEF QueuedIds
  <2> QED
    BY <2>1, <2>2, QueuedIdsInQueue
<1> HIDE DEF drop
<1>7. op \in Ops /\ op \in {"peek", "read"} /\ (op = "read" <=> ~ peek)
  BY DEF Ops
<1> HIDE DEF op
<1>8. Derived(r, op, s, write, rec.msgs, drop)
  <2>1. \A e \in Requests : InQueue(rec.msgs, e) => InQueue(mailbox[s].msgs, e)
    BY <1>3, EmptyQueue
  <2>2. \A e \in Requests :
          InQueue(mailbox[s].msgs, e) => InQueue(rec.msgs, e) \/ e \in drop
    BY <1>3, <1>6
  <2>3. \A e \in Requests : InQueue(write.msgs, e) => InQueue(rec.msgs, e)
    BY <1>4, EmptyQueue
  <2>4. Distinct(mailbox[s].msgs) => Distinct(write.msgs)
    BY <1>3, <1>4, EmptyQueue
  <2>5. Len(mailbox[s].msgs) <= MaxMessages => Len(write.msgs) <= MaxMessages
    BY <1>3, <1>4, EmptyQueue, MaxMessagesAssumption
  <2>6. \A e \in drop : Holds(s, e)
    BY <1>1, <1>6 DEF Holds
  <2> QED
    BY <1>1, <1>3, <1>4, <1>7, <2>1, <2>2, <2>3, <2>4, <2>5, <2>6 DEF Derived, Holds
<1> QED
  BY <1>2, <1>4, <1>5, <1>6, <1>7, <1>8 DEF GotStep

LEMMA ReplicateStep ==
  ASSUME TypeOK, NEW r \in Requests, NEW c \in calls, ReplicateGet(r, c)
  PROVE  GotStep(r)
<1> DEFINE s     == c.to
           rec   == IF mailbox[s] = NoRecord
                    THEN Fresh(NoSecret, c.replicas)
                    ELSE mailbox[s]
           write == Push(rec, c.entry, clock)
<1>1. /\ pc[r] = "idle" /\ clock \in Nat /\ s \in Shards
      /\ c.entry \in Requests /\ c.replicas \in SUBSET Shards
      /\ mailbox[s] \in Record \cup {NoRecord}
      /\ ~ InQueue(rec.msgs, c.entry)
  BY DEF ReplicateGet, CanStart, TypeOK, Call
<1>2. Got(r, "replicate", s, write, << >>, {})
  BY DEF ReplicateGet
<1>3. /\ rec \in Record
      /\ mailbox[s] # NoRecord => rec = mailbox[s]
      /\ mailbox[s] = NoRecord => rec.msgs = << >> /\ ClockRuns(rec, clock)
  <2>1. CASE mailbox[s] = NoRecord
    <3>1. rec = Fresh(NoSecret, c.replicas)
      BY <2>1
    <3>2. rec.msgs = << >> /\ rec.since = Never /\ << >> \in Seq(Requests)
      BY <3>1 DEF Fresh
    <3>3. rec \in Record
      BY <1>1, <3>1, <3>2 DEF Fresh, Record, RecordOver
    <3> QED
      BY <2>1, <3>2, <3>3 DEF ClockRuns
  <2>2. CASE mailbox[s] # NoRecord
    BY <1>1, <2>2
  <2> QED
    BY <2>1, <2>2
<1> HIDE DEF rec
<1>4. /\ write \in Record /\ write.secret = rec.secret
      /\ write.msgs = Append(rec.msgs, c.entry)
      /\ ClockRuns(rec, clock) => ClockRuns(write, clock)
  BY <1>1, <1>3, PushRecord DEF Record
<1> HIDE DEF write
<1>5. rec.msgs \in Seq(Requests)
  BY <1>3 DEF Record, RecordOver
<1>6. /\ \A e : InQueue(write.msgs, e) <=> InQueue(rec.msgs, e) \/ e = c.entry
      /\ Distinct(rec.msgs) => Distinct(write.msgs)
  BY <1>1, <1>4, <1>5, AppendQueue
<1>7. Derived(r, "replicate", s, write, << >>, {})
  <2>1. \A e \in Requests : InQueue(rec.msgs, e) <=> Holds(s, e)
    BY <1>3, EmptyQueue DEF Holds
  <2>2. (mailbox[s] # NoRecord => Distinct(mailbox[s].msgs)) => Distinct(rec.msgs)
    BY <1>3, EmptyQueue
  <2> QED
    BY <1>1, <1>3, <1>4, <1>6, <2>1, <2>2, EmptyQueue DEF Derived
<1>8. "replicate" \in Ops /\ << >> \in Seq(Requests) /\ {} \in SUBSET Requests
  BY DEF Ops
<1> QED
  BY <1>1, <1>2, <1>4, <1>7, <1>8 DEF GotStep

LEMMA StartStep ==
  ASSUME TypeOK, NEW r \in Requests, NEW s \in Shards, StartAt(r, s)
  PROVE  GotStep(r) \/ Refuse(r, s)
  BY CreateStep, SendStep, ReadStep, ReplicateStep DEF StartAt

-----------------------------------------------------------------------------
(* What the steps do to the variables the invariants read.                 *)

After(r, op, s, write, out, drop) ==
  /\ pc'[r] = "got" /\ job'[r] \in Job
  /\ job'[r].op = op /\ job'[r].shard = s /\ job'[r].write = write
  /\ job'[r].out = out /\ job'[r].drop = drop
  /\ \A q \in Requests : q # r => pc'[q] = pc[q] /\ job'[q] = job[q]
  /\ \A q \in Requests : alone'[r] => ~ Pending(q, s)
  /\ \A q \in Requests : q # r /\ alone'[q] => alone[q] /\ ~ Pending(q, s)
  /\ UNCHANGED << mailbox, expiry, clock, calls, promised, discarded >>

(***************************************************************************)
(* A step that at most ends requests, without touching the mailbox.        *)
(***************************************************************************)
Quiet ==
  /\ \A q \in Requests :
       \/ pc'[q] = pc[q] /\ job'[q] = job[q]
       \/ pc[q] \in {"idle", "got"} /\ pc'[q] \in {"refused", "failed"}
  /\ UNCHANGED << mailbox, clock, calls, alone, promised, discarded >>


AfterPut(r, j) ==
  /\ pc[r] = "got" /\ pc'[r] = "done"
  /\ j \in Job /\ j.shard \in Shards /\ j.write \in Record
  /\ job'[r] \in Job /\ job'[r].op = j.op /\ job'[r].shard = j.shard
  /\ job'[r].out = j.out
  /\ \A q \in Requests : q # r => pc'[q] = pc[q] /\ job'[q] = job[q]
  /\ mailbox'[j.shard] = j.write
  /\ \A s \in Shards : s # j.shard => mailbox'[s] = mailbox[s]
  /\ j.op # "create" => promised' = promised
  /\ j.op = "create" =>
       /\ promised'[j.shard].secret = j.write.secret
       /\ promised'[j.shard].alone = alone[r]
  /\ \A s \in Shards : s # j.shard => promised'[s] = promised[s]
  /\ discarded' = discarded \cup j.drop
  /\ calls' \subseteq calls \cup FanOut(r, j.shard, j.write.replicas)
  /\ j.op # "send" => calls' = calls
  /\ UNCHANGED << clock, alone >>

LEMMA GotEffect ==
  ASSUME TypeOK, NEW r \in Requests, GotStep(r)
  PROVE  \E op \in Ops, s \in Shards, write \in Record, out \in Seq(Requests),
            drop \in SUBSET Requests :
           /\ Derived(r, op, s, write, out, drop)
           /\ After(r, op, s, write, out, drop)
<1>1. PICK op \in Ops, s \in Shards, write \in Record, out \in Seq(Requests),
           drop \in SUBSET Requests :
             Derived(r, op, s, write, out, drop) /\ Got(r, op, s, write, out, drop)
  BY DEF GotStep
<1> DEFINE new == [op |-> op, shard |-> s, write |-> write, out |-> out, drop |-> drop]
<1>2. /\ new \in Job /\ new.op = op /\ new.shard = s /\ new.write = write
      /\ new.out = out /\ new.drop = drop
  BY DEF Job
<1>3. job' = [job EXCEPT ![r] = new] /\ pc' = [pc EXCEPT ![r] = "got"]
  BY <1>1 DEF Got
<1> HIDE DEF new
<1>4. /\ pc'[r] = "got" /\ job'[r] = new
      /\ \A q \in Requests : q # r => pc'[q] = pc[q] /\ job'[q] = job[q]
  BY <1>3 DEF TypeOK
<1>5. /\ \A q \in Requests : alone'[r] => ~ Pending(q, s)
      /\ \A q \in Requests : q # r /\ alone'[q] => alone[q] /\ ~ Pending(q, s)
  BY <1>1 DEF Got, InFlight, Pending
<1>6. UNCHANGED << mailbox, expiry, clock, calls, promised, discarded >>
  BY <1>1 DEF Got
<1>7. After(r, op, s, write, out, drop)
  BY <1>2, <1>4, <1>5, <1>6 DEF After
<1> QED
  BY <1>1, <1>7

LEMMA PutEffect ==
  ASSUME TypeOK, JobOK, NEW r \in Requests, Put(r)
  PROVE  AfterPut(r, job[r])
<1> DEFINE j == job[r]
<1>1. /\ pc[r] = "got" /\ pc' = [pc EXCEPT ![r] = "done"]
      /\ job' = [job EXCEPT ![r].write = NoRecord, ![r].drop = {}]
      /\ mailbox' = [mailbox EXCEPT ![j.shard] = j.write]
      /\ promised' = IF j.op = "create"
                     THEN [promised EXCEPT ![j.shard] =
                             [secret |-> j.write.secret, alone |-> alone[r]]]
                     ELSE promised
      /\ discarded' = discarded \cup j.drop
      /\ calls' = IF j.op = "send"
                  THEN calls \cup FanOut(r, j.shard, j.write.replicas)
                  ELSE calls
      /\ UNCHANGED << clock, alone >>
  BY DEF Put
<1>2. j \in Job /\ j.shard \in Shards /\ j.write \in Record
  BY <1>1 DEF JobOK, Job
<1>3. /\ job'[r] \in Job /\ job'[r].op = j.op /\ job'[r].shard = j.shard
      /\ job'[r].out = j.out
      /\ \A q \in Requests : q # r => job'[q] = job[q]
  BY <1>1, <1>2 DEF TypeOK, Job
<1>4. pc'[r] = "done" /\ \A q \in Requests : q # r => pc'[q] = pc[q]
  BY <1>1 DEF TypeOK
<1>5. /\ mailbox'[j.shard] = j.write
      /\ \A s \in Shards : s # j.shard => mailbox'[s] = mailbox[s]
  BY <1>1, <1>2 DEF TypeOK
<1>6. /\ j.op # "create" => promised' = promised
      /\ j.op = "create" =>
           /\ promised'[j.shard].secret = j.write.secret
           /\ promised'[j.shard].alone = alone[r]
      /\ \A s \in Shards : s # j.shard => promised'[s] = promised[s]
  BY <1>1, <1>2 DEF TypeOK
<1> HIDE DEF j
<1>7. AfterPut(r, j)
  BY <1>1, <1>2, <1>3, <1>4, <1>5, <1>6 DEF AfterPut
<1> QED
  BY <1>7 DEF j

LEMMA QuietStep ==
  ASSUME TypeOK
  PROVE  /\ \A r \in Requests, s \in Shards : Refuse(r, s) => Quiet
         /\ \A r \in Requests : Crash(r) => Quiet
         /\ UNCHANGED vars => Quiet
  BY DEF Refuse, CanStart, Crash, TypeOK, vars, Quiet

LEMMA TickEffect ==
  ASSUME TypeOK, Tick
  PROVE  /\ clock' = clock + 1
         /\ \A s \in Shards :
              \/ mailbox'[s] = mailbox[s] /\ promised'[s] = promised[s]
              \/ /\ mailbox'[s] = NoRecord /\ promised'[s] = NoPromise
                 /\ \A e \in Requests : Holds(s, e) => e \in discarded'
         /\ \A e \in Requests : e \in discarded => e \in discarded'
         /\ UNCHANGED << expiry, calls, pc, job, alone >>
<1>1. ASSUME NEW s \in Overdue, NEW e, Holds(s, e) PROVE e \in discarded'
  BY <1>1, QueuedIdsInQueue DEF Tick, Holds
<1> QED
  BY <1>1 DEF Tick, TypeOK, Overdue

LEMMA StepCases ==
  ASSUME TypeOK, [Next]_vars
  PROVE  \/ \E r \in Requests : GotStep(r)
         \/ \E r \in Requests : Put(r)
         \/ Tick
         \/ Quiet
  BY StartStep, QuietStep DEF Next

-----------------------------------------------------------------------------
(* Type correctness.                                                       *)

LEMMA InitTyped == Init => TypeOK /\ JobOK
  BY DEF Init, TypeOK, JobOK, NoPromise, Promise

LEMMA NextTyped == TypeOK /\ JobOK /\ [Next]_vars => TypeOK' /\ JobOK'
<1> SUFFICES ASSUME TypeOK, JobOK, [Next]_vars PROVE TypeOK' /\ JobOK'
  OBVIOUS
<1>1. ASSUME NEW r \in Requests, GotStep(r) PROVE TypeOK' /\ JobOK'
  <2>1. PICK op \in Ops, s \in Shards, write \in Record, out \in Seq(Requests),
             drop \in SUBSET Requests :
               /\ pc[r] = "idle"
               /\ Got(r, op, s, write, out, drop)
    BY <1>1 DEF GotStep, Derived
  <2>2. [op |-> op, shard |-> s, write |-> write, out |-> out, drop |-> drop] \in Job
    BY DEF Job
  <2>3. TypeOK'
    BY <2>1, <2>2 DEF Got, TypeOK
  <2>4. /\ pc'[r] = "got" /\ job'[r] \in Job /\ job'[r].write \in Record
        /\ \A q \in Requests : q # r => pc'[q] = pc[q] /\ job'[q] = job[q]
    BY <2>1, <2>2 DEF Got, TypeOK
  <2>5. JobOK'
    BY <2>4 DEF JobOK
  <2> QED
    BY <2>3, <2>5
<1>2. ASSUME NEW r \in Requests, NEW s \in Shards, Refuse(r, s)
      PROVE  TypeOK' /\ JobOK'
  BY <1>2 DEF Refuse, CanStart, TypeOK, JobOK
<1>3. ASSUME NEW r \in Requests, Put(r) PROVE TypeOK' /\ JobOK'
  <2> DEFINE j == job[r]
  <2>1. /\ j \in Job /\ j.shard \in Shards /\ j.write \in Record
        /\ j.drop \in SUBSET Requests /\ job'[r] \in Job /\ pc'[r] = "done"
        /\ \A q \in Requests : q # r => pc'[q] = pc[q] /\ job'[q] = job[q]
    BY <1>3, PutEffect DEF AfterPut, Job
  <2>2. clock + MailboxTTL \in Nat
    BY MailboxTTLAssumption DEF TypeOK
  <2>3. FanOut(r, j.shard, j.write.replicas) \in SUBSET Call
    BY <2>1 DEF FanOut, Call, TypeOK, Record, RecordOver
  <2>4. [secret |-> j.write.secret, alone |-> alone[r]] \in Promise
    BY <2>1 DEF Promise, TypeOK, Record, RecordOver
  <2>5. job' \in [Requests -> Job \cup {NoJob}] /\ pc' \in [Requests -> {"idle", "got", "done", "refused", "failed"}]
    BY <1>3, <2>1 DEF Put, TypeOK
  <2>6. TypeOK'
    BY <1>3, <2>1, <2>2, <2>3, <2>4, <2>5 DEF Put, TypeOK
  <2>7. JobOK'
    BY <2>1 DEF JobOK
  <2> QED
    BY <2>6, <2>7
<1>4. ASSUME NEW r \in Requests, Crash(r) PROVE TypeOK' /\ JobOK'
  BY <1>4 DEF Crash, TypeOK, JobOK
<1>5. CASE Tick
  <2>1. clock' \in Nat /\ discarded' \in SUBSET Requests
    BY <1>5 DEF Tick, TypeOK, Overdue, QueuedIds, Record, RecordOver
  <2>2. mailbox' \in [Shards -> Record \cup {NoRecord}]
    BY <1>5 DEF Tick, TypeOK
  <2>3. promised' \in [Shards -> Promise]
    BY <1>5 DEF Tick, TypeOK, NoPromise, Promise
  <2> QED
    BY <1>5, <2>1, <2>2, <2>3 DEF Tick, TypeOK, JobOK
<1>6. CASE UNCHANGED vars
  BY <1>6 DEF vars, TypeOK, JobOK
<1> QED
  BY <1>1, <1>2, <1>3, <1>4, <1>5, <1>6, StartStep DEF Next

(***************************************************************************)
(* Every state the shards reach is well typed.                             *)
(***************************************************************************)
THEOREM TypeCorrect == Spec => [](TypeOK /\ JobOK)
  BY InitTyped, NextTyped, PTL DEF Spec

-----------------------------------------------------------------------------
(* The backlog clock.                                                      *)

LEMMA ClockStep == TypeOK /\ JobOK /\ ClockInv /\ [Next]_vars => ClockInv'
<1> SUFFICES ASSUME TypeOK, JobOK, ClockInv, [Next]_vars PROVE ClockInv'
  OBVIOUS
<1>1. ASSUME NEW r \in Requests, GotStep(r) PROVE ClockInv'
  BY <1>1, GotEffect DEF Derived, After, ClockInv, ClockRuns
<1>2. ASSUME NEW r \in Requests, Put(r) PROVE ClockInv'
  BY <1>2, PutEffect DEF AfterPut, ClockInv, ClockRuns
<1>3. CASE Tick
  <2>1. ASSUME NEW rec \in Record, ClockRuns(rec, clock) PROVE ClockRuns(rec, clock + 1)
    BY <2>1 DEF ClockRuns, Record, RecordOver, TypeOK
  <2> QED
    BY <1>3, <2>1, TickEffect DEF ClockInv, TypeOK, JobOK
<1>4. CASE Quiet
  BY <1>4 DEF Quiet, ClockInv, ClockRuns
<1> QED
  BY <1>1, <1>2, <1>3, <1>4, StepCases

(***************************************************************************)
(* However the gets and puts of requests interleave and time passes, a     *)
(* stored queue has its TTL running and an empty one has not.              *)
(***************************************************************************)
THEOREM BacklogClockHolds == Spec => []BacklogClock
<1>1. Init => ClockInv
  BY DEF Init, ClockInv
<1>2. ClockInv => BacklogClock
  BY DEF ClockInv, ClockRuns, BacklogClock
<1> QED
  BY <1>1, <1>2, ClockStep, TypeCorrect, PTL DEF Spec

-----------------------------------------------------------------------------
(* The read secret.                                                        *)

LEMMA AloneStep == TypeOK /\ JobOK /\ AloneInv /\ [Next]_vars => AloneInv'
<1> SUFFICES ASSUME TypeOK, JobOK, AloneInv, [Next]_vars PROVE AloneInv'
  OBVIOUS
<1>1. ASSUME NEW r \in Requests, GotStep(r) PROVE AloneInv'
  BY <1>1, GotEffect DEF After, AloneInv, Pending
<1>2. ASSUME NEW r \in Requests, Put(r) PROVE AloneInv'
  BY <1>2, PutEffect DEF AfterPut, AloneInv, Pending
<1>3. CASE Tick
  BY <1>3, TickEffect DEF AloneInv, Pending
<1>4. CASE Quiet
  BY <1>4 DEF Quiet, AloneInv, Pending
<1> QED
  BY <1>1, <1>2, <1>3, <1>4, StepCases

LEMMA SecretStep ==
  TypeOK /\ JobOK /\ AloneInv /\ SecretInv /\ [Next]_vars => SecretInv'
<1> SUFFICES ASSUME TypeOK, JobOK, AloneInv, SecretInv, [Next]_vars PROVE SecretInv'
  OBVIOUS
<1>1. ASSUME NEW r \in Requests, GotStep(r) PROVE SecretInv'
  BY <1>1, GotEffect DEF Derived, After, SecretInv, Pending
<1>2. ASSUME NEW r \in Requests, Put(r) PROVE SecretInv'
  BY <1>2, PutEffect, NoRecordAssumption DEF AfterPut, AloneInv, SecretInv, Pending
<1>3. CASE Tick
  BY <1>3, TickEffect DEF SecretInv, Pending, NoPromise
<1>4. CASE Quiet
  BY <1>4 DEF Quiet, SecretInv, Pending
<1> QED
  BY <1>1, <1>2, <1>3, <1>4, StepCases

(***************************************************************************)
(* Once a /create that overlapped no other request has completed, its      *)
(* secret opens the mailbox until another /create completes or the record  *)
(* expires: no overtaken put brings a former secret back.                  *)
(***************************************************************************)
THEOREM SecretSticksHolds == Spec => []SecretSticks
<1>1. Init => AloneInv /\ SecretInv
  BY DEF Init, AloneInv, SecretInv, NoPromise, Pending
<1>2. SecretInv => SecretSticks
  BY DEF SecretInv, SecretSticks
<1> QED
  BY <1>1, <1>2, AloneStep, SecretStep, TypeCorrect, PTL DEF Spec

-----------------------------------------------------------------------------
(* Entries come from completed sends.                                      *)

LEMMA SentStep ==
  TypeOK /\ JobOK /\ SentInv /\ [Next]_vars => SentInv'
<1> SUFFICES ASSUME TypeOK, JobOK, SentInv, [Next]_vars PROVE SentInv'
  OBVIOUS
<1>1. ASSUME NEW r \in Requests, GotStep(r) PROVE SentInv'
  <2>1. PICK op \in Ops, s \in Shards, write \in Record, out \in Seq(Requests),
             drop \in SUBSET Requests :
               /\ Derived(r, op, s, write, out, drop)
               /\ After(r, op, s, write, out, drop)
    BY <1>1, GotEffect
  <2>2. \A e \in Requests : Sent(e) => e # r /\ Sent(e)' /\ job'[e] = job[e]
    BY <2>1 DEF Derived, After, Sent
  <2>3. \A c \in calls : c.entry \in Requests
    BY DEF TypeOK, Call
  <2> QED
    BY <2>1, <2>2, <2>3 DEF Derived, After, SentInv, Holds
<1>2. ASSUME NEW r \in Requests, Put(r) PROVE SentInv'
  <2> DEFINE j == job[r]
  <2>1. AfterPut(r, j)
    BY <1>2, PutEffect
  <2>2. \A e \in Requests : Sent(e) => e # r /\ Sent(e)' /\ job'[e] = job[e]
    BY <2>1 DEF AfterPut, Sent
  <2>3. j.op = "send" => Sent(r)'
    BY <2>1 DEF AfterPut, Sent
  <2>4. \A c \in calls : c.entry \in Requests
    BY DEF TypeOK, Call
  <2>5. \A c \in FanOut(r, j.shard, j.write.replicas) :
          c.entry = r /\ c.to # j.shard
    BY DEF FanOut
  <2>6. \A c \in calls' : Sent(c.entry)' /\ job'[c.entry].shard # c.to
    BY <2>1, <2>2, <2>3, <2>4, <2>5 DEF AfterPut, SentInv
  <2>7. \A s \in Shards, e \in Requests : Holds(s, e)' => Sent(e)'
    BY <2>1, <2>2, <2>3 DEF AfterPut, SentInv, Holds
  <2>8. \A q, e \in Requests :
          pc'[q] = "got" /\ InQueue(job'[q].write.msgs, e)
            => Sent(e)' \/ (e = q /\ job'[q].op = "send")
    BY <2>1, <2>2 DEF AfterPut, SentInv
  <2>9. \A q, e \in Requests :
          pc'[q] \in {"got", "done"} /\ InQueue(job'[q].out, e) => Sent(e)'
    BY <2>1, <2>2 DEF AfterPut, SentInv
  <2> QED
    BY <2>6, <2>7, <2>8, <2>9 DEF SentInv
<1>3. CASE Tick
  BY <1>3, TickEffect DEF SentInv, Sent, Holds
<1>4. CASE Quiet
  <2>1. \A e \in Requests : Sent(e) => Sent(e)' /\ job'[e] = job[e]
    BY <1>4 DEF Quiet, Sent
  <2>2. \A c \in calls : c.entry \in Requests
    BY DEF TypeOK, Call
  <2> QED
    BY <1>4, <2>1, <2>2 DEF Quiet, SentInv, Holds
<1> QED
  BY <1>1, <1>2, <1>3, <1>4, StepCases

(***************************************************************************)
(* An entry is stored, fanned out and returned only once its /send has     *)
(* completed, whichever Workers die between their get and their put.       *)
(***************************************************************************)
THEOREM SeenOnlyIfSentHolds == Spec => []SeenOnlyIfSent
<1>1. Init => SentInv
  BY DEF Init, SentInv, Holds
<1>2. SentInv => SeenOnlyIfSent
  BY DEF SentInv, SeenOnlyIfSent, Sent, Returned, Completed
<1> QED
  BY <1>1, <1>2, SentStep, TypeCorrect, PTL DEF Spec

LEMMA DistinctStep ==
  TypeOK /\ JobOK /\ SentInv /\ DistinctInv /\ [Next]_vars => DistinctInv'
<1> SUFFICES ASSUME TypeOK, JobOK, SentInv, DistinctInv, [Next]_vars
             PROVE  DistinctInv'
  OBVIOUS
<1>1. ASSUME NEW r \in Requests, GotStep(r) PROVE DistinctInv'
  <2>1. \A s \in Shards : pc[r] = "idle" => ~ Holds(s, r)
    BY DEF SentInv, Sent
  <2> QED
    BY <1>1, <2>1, GotEffect DEF Derived, After, DistinctInv
<1>2. ASSUME NEW r \in Requests, Put(r) PROVE DistinctInv'
  BY <1>2, PutEffect DEF AfterPut, DistinctInv
<1>3. CASE Tick
  BY <1>3, TickEffect DEF DistinctInv
<1>4. CASE Quiet
  BY <1>4 DEF Quiet, DistinctInv
<1> QED
  BY <1>1, <1>2, <1>3, <1>4, StepCases

(***************************************************************************)
(* An entry is queued at most once in a mailbox, although its fan-out may  *)
(* be delivered twice and races the test that looks for it.                *)
(***************************************************************************)
THEOREM QueuedOnceHolds == Spec => []QueuedOnce
<1>1. Init => SentInv /\ DistinctInv
  BY DEF Init, SentInv, DistinctInv, Holds
<1>2. DistinctInv => QueuedOnce
  BY DEF DistinctInv, QueuedOnce, Distinct
<1> QED
  BY <1>1, <1>2, SentStep, DistinctStep, TypeCorrect, PTL DEF Spec

-----------------------------------------------------------------------------
(* Burn-after-read, and the sends that are kept.                           *)

LEMMA WriteStep == TypeOK /\ JobOK /\ WriteInv /\ [Next]_vars => WriteInv'
<1> SUFFICES ASSUME TypeOK, JobOK, WriteInv, [Next]_vars PROVE WriteInv'
  OBVIOUS
<1>1. ASSUME NEW r \in Requests, GotStep(r) PROVE WriteInv'
  BY <1>1, GotEffect DEF Derived, After, WriteInv
<1>2. ASSUME NEW r \in Requests, Put(r) PROVE WriteInv'
  BY <1>2, PutEffect DEF AfterPut, WriteInv
<1>3. CASE Tick
  BY <1>3, TickEffect DEF WriteInv
<1>4. CASE Quiet
  BY <1>4 DEF Quiet, WriteInv
<1> QED
  BY <1>1, <1>2, <1>3, <1>4, StepCases

Burned(q, e, s) ==
  /\ Completed(q, "read", s) /\ alone[q]
  /\ InQueue(job[q].out, e) /\ Completed(e, "send", s)

LEMMA BurnStep ==
  TypeOK /\ JobOK /\ AloneInv /\ SentInv /\ WriteInv /\ BurnInv /\ [Next]_vars
    => BurnInv'
<1> SUFFICES ASSUME TypeOK, JobOK, AloneInv, SentInv, WriteInv, BurnInv, [Next]_vars,
                    NEW q \in Requests, NEW e \in Requests, NEW s \in Shards,
                    Burned(q, e, s)'
             PROVE  /\ ~ Holds(s, e)'
                    /\ \A r \in Requests :
                         Pending(r, s)' => ~ InQueue(job'[r].write.msgs, e)
  BY DEF BurnInv, Burned
<1> DEFINE Goal == /\ ~ Holds(s, e)'
                   /\ \A r \in Requests :
                        Pending(r, s)' => ~ InQueue(job'[r].write.msgs, e)
<1>1. Burned(q, e, s) =>
        /\ ~ Holds(s, e)
        /\ \A r \in Requests : Pending(r, s) => ~ InQueue(job[r].write.msgs, e)
  BY DEF BurnInv, Burned
<1>2. ASSUME NEW r \in Requests, GotStep(r) PROVE Goal
  <2>1. PICK op \in Ops, t \in Shards, write \in Record, out \in Seq(Requests),
             drop \in SUBSET Requests :
               /\ Derived(r, op, t, write, out, drop)
               /\ After(r, op, t, write, out, drop)
    BY <1>2, GotEffect
  <2>2. r # q /\ r # e /\ Burned(q, e, s)
    BY <2>1 DEF After, Burned, Completed
  <2>3. ~ Holds(s, e) /\ ~ Holds(s, e)'
    BY <1>1, <2>1, <2>2 DEF After, Holds
  <2>4. t = s => ~ InQueue(write.msgs, e)
    BY <2>1, <2>2, <2>3 DEF Derived, SentInv, Burned, Completed
  <2> QED
    BY <1>1, <2>1, <2>2, <2>3, <2>4 DEF After, Pending
<1>3. ASSUME NEW r \in Requests, Put(r) PROVE Goal
  <2>1. AfterPut(r, job[r])
    BY <1>3, PutEffect
  <2>2. CASE r = q
    <3>1. /\ job[r].op = "read" /\ job[r].shard = s /\ alone[r] /\ Pending(r, s)
          /\ job[r].write.msgs = << >>
      BY <2>1, <2>2 DEF AfterPut, Burned, Completed, Pending, WriteInv
    <3>2. ~ Holds(s, e)'
      BY <2>1, <3>1, EmptyQueue DEF AfterPut, Holds
    <3>3. \A p \in Requests : ~ Pending(p, s)'
      BY <2>1, <3>1 DEF AfterPut, Pending, AloneInv
    <3> QED
      BY <3>2, <3>3
  <2>3. CASE r # q
    <3>1. r # e
      BY <2>1, <2>3 DEF AfterPut, Burned, Completed, SentInv, Sent
    <3>2. Burned(q, e, s)
      BY <2>1, <2>3, <3>1 DEF AfterPut, Burned, Completed
    <3> QED
      BY <1>1, <2>1, <3>2 DEF AfterPut, Holds, Pending
  <2> QED
    BY <2>2, <2>3
<1>4. CASE Tick
  BY <1>1, <1>4, TickEffect DEF Burned, Completed, Holds, Pending
<1>5. CASE Quiet
  BY <1>1, <1>5 DEF Quiet, Burned, Completed, Holds, Pending
<1> QED
  BY <1>2, <1>3, <1>4, <1>5, StepCases

(***************************************************************************)
(* What a consuming read that overlapped no request of its shard returned, *)
(* of the entries sent to that shard, never comes back to the mailbox.     *)
(***************************************************************************)
THEOREM BurnedStaysBurnedHolds == Spec => []BurnedStaysBurned
<1>1. Init => AloneInv /\ SentInv /\ WriteInv /\ BurnInv
  BY DEF Init, AloneInv, SentInv, WriteInv, BurnInv, Holds, Pending, Completed
<1>2. BurnInv => BurnedStaysBurned
  BY DEF BurnInv, BurnedStaysBurned
<1> QED
  BY <1>1, <1>2, AloneStep, SentStep, WriteStep, BurnStep, TypeCorrect, PTL DEF Spec

LEMMA KeptStep ==
  TypeOK /\ JobOK /\ AloneInv /\ WriteInv /\ KeptInv /\ [Next]_vars => KeptInv'
<1> SUFFICES ASSUME TypeOK, JobOK, AloneInv, WriteInv, KeptInv, [Next]_vars,
                    NEW e \in Requests, NEW s \in Shards,
                    Completed(e, "send", s)', alone'[e]
             PROVE  \/ e \in discarded'
                    \/ Returned(e, s)'
                    \/ /\ Holds(s, e)'
                       /\ \A r \in Requests : Pending(r, s)' => Accounted(r, e)'
  BY DEF KeptInv
<1> DEFINE Goal == \/ e \in discarded'
                   \/ Returned(e, s)'
                   \/ /\ Holds(s, e)'
                      /\ \A r \in Requests : Pending(r, s)' => Accounted(r, e)'
<1>1. Completed(e, "send", s) /\ alone[e] =>
        \/ e \in discarded
        \/ Returned(e, s)
        \/ /\ Holds(s, e)
           /\ \A r \in Requests : Pending(r, s) => Accounted(r, e)
  BY DEF KeptInv
<1>2. ASSUME NEW r \in Requests, GotStep(r) PROVE Goal
  <2>1. PICK op \in Ops, t \in Shards, write \in Record, out \in Seq(Requests),
             drop \in SUBSET Requests :
               /\ Derived(r, op, t, write, out, drop)
               /\ After(r, op, t, write, out, drop)
    BY <1>2, GotEffect
  <2>2. Completed(e, "send", s) /\ alone[e]
    BY <2>1 DEF After, Completed
  <2>3. Returned(e, s) => Returned(e, s)'
    BY <2>1 DEF Derived, After, Returned, Completed
  <2>4. Holds(s, e) => Holds(s, e)' /\ (t = s => Accounted(r, e)')
    BY <2>1 DEF Derived, After, Holds, Accounted
  <2>5. \A p \in Requests :
          p # r => (Pending(p, s)' <=> Pending(p, s)) /\ (Accounted(p, e)' <=> Accounted(p, e))
    BY <2>1 DEF After, Pending, Accounted
  <2>6. Pending(r, s)' => t = s
    BY <2>1 DEF After, Pending
  <2>7. e \in discarded => e \in discarded'
    BY <2>1 DEF After
  <2> QED
    BY <1>1, <2>2, <2>3, <2>4, <2>5, <2>6, <2>7
<1>3. ASSUME NEW r \in Requests, Put(r) PROVE Goal
  <2>1. AfterPut(r, job[r])
    BY <1>3, PutEffect
  <2>2. CASE r = e
    <3>1. /\ job[r].shard = s /\ alone[r] /\ Pending(r, s)
          /\ InQueue(job[r].write.msgs, e)
      BY <2>1, <2>2 DEF AfterPut, Completed, Pending, WriteInv
    <3>2. Holds(s, e)'
      BY <2>1, <3>1, NoRecordAssumption DEF AfterPut, Holds
    <3>3. \A p \in Requests : ~ Pending(p, s)'
      BY <2>1, <3>1 DEF AfterPut, Pending, AloneInv
    <3> QED
      BY <3>2, <3>3
  <2>3. CASE r # e
    <3>1. Completed(e, "send", s) /\ alone[e]
      BY <2>1, <2>3 DEF AfterPut, Completed
    <3>2. Returned(e, s) => Returned(e, s)'
      BY <2>1 DEF AfterPut, Returned, Completed
    <3>3. \A p \in Requests :
            p # r => (Pending(p, s)' <=> Pending(p, s)) /\ (Accounted(p, e)' <=> Accounted(p, e))
      BY <2>1 DEF AfterPut, Pending, Accounted
    <3>4. ~ Pending(r, s)'
      BY <2>1 DEF AfterPut, Pending
    <3>5. ASSUME job[r].shard = s, Accounted(r, e)
          PROVE  Holds(s, e)' \/ e \in discarded' \/ Returned(e, s)'
      BY <2>1, <3>5, NoRecordAssumption
         DEF AfterPut, Accounted, Holds, Returned, Completed
    <3>6. job[r].shard # s => (Holds(s, e) => Holds(s, e)')
      BY <2>1 DEF AfterPut, Holds
    <3>7. job[r].shard = s => Pending(r, s)
      BY <2>1 DEF AfterPut, Pending
    <3>8. e \in discarded => e \in discarded'
      BY <2>1 DEF AfterPut
    <3> QED
      BY <1>1, <3>1, <3>2, <3>3, <3>4, <3>5, <3>6, <3>7, <3>8
  <2> QED
    BY <2>2, <2>3
<1>4. CASE Tick
  <2>1. Completed(e, "send", s) /\ alone[e]
    BY <1>4, TickEffect DEF Completed
  <2>2. /\ Returned(e, s) => Returned(e, s)'
        /\ \A r \in Requests : (Pending(r, s)' <=> Pending(r, s))
                             /\ (Accounted(r, e)' <=> Accounted(r, e))
    BY <1>4, TickEffect DEF Returned, Completed, Pending, Accounted
  <2>3. Holds(s, e) => Holds(s, e)' \/ e \in discarded'
    BY <1>4, TickEffect DEF Holds
  <2>4. e \in discarded => e \in discarded'
    BY <1>4, TickEffect
  <2> QED
    BY <1>1, <2>1, <2>2, <2>3, <2>4
<1>5. CASE Quiet
  <2>1. Completed(e, "send", s) /\ alone[e]
    BY <1>5 DEF Quiet, Completed
  <2>2. Returned(e, s) => Returned(e, s)'
    BY <1>5 DEF Quiet, Returned, Completed
  <2>3. \A r \in Requests : Pending(r, s)' => Pending(r, s) /\ job'[r] = job[r]
    BY <1>5 DEF Quiet, Pending
  <2>4. (Holds(s, e)' <=> Holds(s, e)) /\ discarded' = discarded
    BY <1>5 DEF Quiet, Holds
  <2> QED
    BY <1>1, <2>1, <2>2, <2>3, <2>4 DEF Accounted
<1> QED
  BY <1>2, <1>3, <1>4, <1>5, StepCases

(***************************************************************************)
(* The entry of a /send that overlapped no request of its shard is queued  *)
(* until a read returns it or it expires, whatever overlaps afterwards.    *)
(***************************************************************************)
THEOREM AcceptedKeptHolds == Spec => []AcceptedKept
<1>1. Init => AloneInv /\ WriteInv /\ KeptInv
  BY DEF Init, AloneInv, WriteInv, KeptInv, Pending, Completed
<1>2. KeptInv => AcceptedKept
  BY DEF KeptInv, AcceptedKept
<1> QED
  BY <1>1, <1>2, AloneStep, WriteStep, KeptStep, TypeCorrect, PTL DEF Spec

-----------------------------------------------------------------------------
(* The limit on the queue of a mailbox without siblings.                   *)

Solo(rec) == Cardinality(rec.replicas) <= 1 /\ Len(rec.msgs) <= MaxMessages

SoloInv ==
  /\ calls = {}
  /\ \A s \in Shards : mailbox[s] # NoRecord => Solo(mailbox[s])
  /\ \A r \in Requests : pc[r] = "got" => Solo(job[r].write)

LEMMA SoloStep ==
  ASSUME \A replicas \in Placements : Cardinality(replicas) <= 1
  PROVE  TypeOK /\ JobOK /\ SoloInv /\ [Next]_vars => SoloInv'
<1> SUFFICES ASSUME TypeOK, JobOK, SoloInv, [Next]_vars PROVE SoloInv'
  OBVIOUS
<1>1. ASSUME NEW r \in Requests, GotStep(r) PROVE SoloInv'
  <2>1. PICK op \in Ops, s \in Shards, write \in Record, out \in Seq(Requests),
             drop \in SUBSET Requests :
               /\ Derived(r, op, s, write, out, drop)
               /\ After(r, op, s, write, out, drop)
    BY <1>1, GotEffect
  <2>2. op # "replicate"
    BY <2>1 DEF Derived, SoloInv
  <2>3. Solo(write)
    BY <2>1, <2>2 DEF Derived, SoloInv, Solo
  <2> QED
    BY <2>1, <2>3 DEF After, SoloInv
<1>2. ASSUME NEW r \in Requests, Put(r) PROVE SoloInv'
  <2>1. AfterPut(r, job[r]) /\ Solo(job[r].write)
    BY <1>2, PutEffect DEF AfterPut, SoloInv
  <2>2. FanOut(r, job[r].shard, job[r].write.replicas) = {}
    BY <2>1 DEF Solo, FanOut
  <2> QED
    BY <2>1, <2>2 DEF AfterPut, SoloInv
<1>3. CASE Tick
  BY <1>3, TickEffect DEF SoloInv
<1>4. CASE Quiet
  BY <1>4 DEF Quiet, SoloInv
<1> QED
  BY <1>1, <1>2, <1>3, <1>4, StepCases

(***************************************************************************)
(* Where the router places every mailbox on one shard, no interleaving of  *)
(* sends, reads and re-registrations overfills a mailbox, although each    *)
(* send tests the length of a snapshot.                                    *)
(***************************************************************************)
THEOREM CapacityHolds ==
  ASSUME \A replicas \in Placements : Cardinality(replicas) <= 1
  PROVE  Spec => []Capacity
<1>1. Init => SoloInv
  BY DEF Init, SoloInv
<1>2. SoloInv => Capacity
  BY DEF SoloInv, Solo, Capacity
<1>3. TypeOK /\ JobOK /\ SoloInv /\ [Next]_vars => SoloInv'
  BY SoloStep
<1> QED
  BY <1>1, <1>2, <1>3, TypeCorrect, PTL DEF Spec

-----------------------------------------------------------------------------
(* A request that overlaps no other is one step of Mailbox.                *)

(***************************************************************************)
(* What request r, holding j, is about to make of a queue msgs, of which a *)
(* stale backlog is dropped first.                                         *)
(***************************************************************************)
Does(r, j, msgs) ==
  \E kept \in {msgs, << >>} :
    /\ j.drop = IF kept = msgs THEN {} ELSE QueuedIds(msgs)
    /\ \/ j.op = "create" /\ kept = msgs /\ j.write.msgs = msgs
       \/ j.op = "send" /\ Len(kept) < MaxMessages /\ j.write.msgs = Append(kept, r)
       \/ j.op = "read" /\ j.write.msgs = << >> /\ j.out = kept
       \/ j.op = "peek" /\ j.write.msgs = kept

(***************************************************************************)
(* A request that is alone still holds what the record it read makes due,  *)
(* as long as the record is there.                                         *)
(***************************************************************************)
DoesInv ==
  \A r \in Requests : pc[r] = "got" =>
    /\ job[r].op # "replicate"
    /\ job[r].op = "create" => job[r].drop = {}
    /\ alone[r] /\ mailbox[job[r].shard] # NoRecord
         => Does(r, job[r], mailbox[job[r].shard].msgs)

\* Only entries of completed sends are dropped.
DropInv ==
  /\ \A e \in discarded : Sent(e)
  /\ \A r \in Requests : pc[r] = "got" => \A e \in job[r].drop : Sent(e)

LEMMA DropStep ==
  TypeOK /\ JobOK /\ SentInv /\ DropInv /\ [Next]_vars => DropInv'
<1> SUFFICES ASSUME TypeOK, JobOK, SentInv, DropInv, [Next]_vars PROVE DropInv'
  OBVIOUS
<1>0. discarded \subseteq Requests /\ discarded' \subseteq Requests
  BY NextTyped DEF TypeOK
<1>1. ASSUME NEW r \in Requests, GotStep(r) PROVE DropInv'
  <2>1. PICK op \in Ops, s \in Shards, write \in Record, out \in Seq(Requests),
             drop \in SUBSET Requests :
               /\ Derived(r, op, s, write, out, drop)
               /\ After(r, op, s, write, out, drop)
    BY <1>1, GotEffect
  <2>2. \A e \in Requests : Sent(e) => Sent(e)'
    BY <2>1 DEF Derived, After, Sent
  <2>3. \A e \in drop : Sent(e)
    BY <2>1 DEF Derived, SentInv
  <2>4. \A q \in Requests : pc[q] = "got" => job[q].drop \subseteq Requests
    BY DEF JobOK, Job
  <2> QED
    BY <1>0, <2>1, <2>2, <2>3, <2>4 DEF After, DropInv
<1>2. ASSUME NEW r \in Requests, Put(r) PROVE DropInv'
  <2>1. AfterPut(r, job[r])
    BY <1>2, PutEffect
  <2>2. \A e \in Requests : Sent(e) => Sent(e)'
    BY <2>1 DEF AfterPut, Sent
  <2>3. \A q \in Requests : pc[q] = "got" => job[q].drop \subseteq Requests
    BY DEF JobOK, Job
  <2> QED
    BY <1>0, <2>1, <2>2, <2>3 DEF AfterPut, DropInv
<1>3. CASE Tick
  <2>1. UNCHANGED << pc, job >>
    BY <1>3, TickEffect
  <2>2. \A e \in discarded' : e \in discarded \/ \E s \in Shards : Holds(s, e)
    BY <1>3, QueuedIdsInQueue DEF Tick, Overdue, Holds
  <2> QED
    BY <1>0, <2>1, <2>2 DEF DropInv, SentInv, Sent
<1>4. CASE Quiet
  <2>1. \A e \in Requests : Sent(e) => Sent(e)'
    BY <1>4 DEF Quiet, Sent
  <2>2. \A q \in Requests : pc[q] = "got" => job[q].drop \subseteq Requests
    BY DEF JobOK, Job
  <2> QED
    BY <1>0, <1>4, <2>1, <2>2 DEF Quiet, DropInv
<1> QED
  BY <1>1, <1>2, <1>3, <1>4, StepCases

LEMMA Remains ==
  ASSUME TypeOK, NEW s \in Shards, mailbox[s] # NoRecord
  PROVE  LET kept == Unstale(mailbox[s], clock).msgs
             msgs == mailbox[s].msgs
         IN  /\ kept \in {msgs, << >>}
             /\ Dropped(mailbox[s]) = IF kept = msgs THEN {} ELSE QueuedIds(msgs)
<1>1. mailbox[s] \in RecordOver(Requests, Secrets, Shards)
  BY DEF TypeOK, Record
<1>2. CASE IsBacklogStale(mailbox[s].since, clock)
  <2>1. Unstale(mailbox[s], clock).msgs = << >>
    BY <1>1, <1>2 DEF Unstale, Emptied, RecordOver
  <2>2. Dropped(mailbox[s]) = QueuedIds(mailbox[s].msgs)
    BY <1>2 DEF Dropped
  <2>3. mailbox[s].msgs = << >> => QueuedIds(mailbox[s].msgs) = {}
    BY DEF QueuedIds
  <2> QED
    BY <2>1, <2>2, <2>3
<1>3. CASE ~ IsBacklogStale(mailbox[s].since, clock)
  BY <1>3 DEF Unstale, Dropped
<1> QED
  BY <1>2, <1>3

LEMMA GotJob ==
  ASSUME TypeOK, NEW r \in Requests, NEW op, NEW s, NEW write, NEW out, NEW drop,
         Got(r, op, s, write, out, drop)
  PROVE  /\ pc'[r] = "got"
         /\ job'[r] = [op |-> op, shard |-> s, write |-> write, out |-> out, drop |-> drop]
         /\ \A q \in Requests : q # r =>
              /\ pc'[q] = pc[q] /\ job'[q] = job[q]
              /\ alone'[q] => alone[q] /\ ~ Pending(q, s)
         /\ UNCHANGED << mailbox, clock, calls, discarded >>
BY DEF Got, TypeOK, InFlight, Pending

\* What a get makes due.
Due(r, s) ==
  /\ pc[r] = "idle" /\ pc'[r] = "got" /\ job'[r].shard = s
  /\ job'[r].op # "replicate"
  /\ job'[r].op = "create" => job'[r].drop = {}
  /\ mailbox[s] # NoRecord => Does(r, job'[r], mailbox[s].msgs)
  /\ \A q \in Requests : q # r =>
       /\ pc'[q] = pc[q] /\ job'[q] = job[q]
       /\ alone'[q] => alone[q] /\ ~ Pending(q, s)
  /\ UNCHANGED << mailbox, clock, calls, discarded >>

LEMMA StartDue ==
  ASSUME TypeOK, calls = {}, NEW r \in Requests, NEW s \in Shards, StartAt(r, s)
  PROVE  Due(r, s) \/ Refuse(r, s)
<1> DEFINE rec == Unstale(mailbox[s], clock)
<1>1. ASSUME NEW secret \in Secrets, NEW replicas \in Placements,
             CreateGet(r, s, secret, replicas)
      PROVE  Due(r, s)
  <2> DEFINE write == IF mailbox[s] = NoRecord
                      THEN Fresh(secret, replicas)
                      ELSE Reregistered(mailbox[s], secret, replicas)
             drop  == {}
  <2>1. pc[r] = "idle" /\ Got(r, "create", s, write, << >>, drop) /\ drop = {}
    BY <1>1 DEF CreateGet, CanStart
  <2>2. mailbox[s] # NoRecord => write.msgs = mailbox[s].msgs
    BY DEF TypeOK, Record, RecordOver, Reregistered
  <2> HIDE DEF write, drop
  <2>3. /\ pc'[r] = "got"
        /\ job'[r] = [op |-> "create", shard |-> s, write |-> write, out |-> << >>, drop |-> drop]
        /\ \A q \in Requests : q # r =>
             /\ pc'[q] = pc[q] /\ job'[q] = job[q]
             /\ alone'[q] => alone[q] /\ ~ Pending(q, s)
        /\ UNCHANGED << mailbox, clock, calls, discarded >>
    <3>1. Got(r, "create", s, write, << >>, drop)
      BY <2>1
    <3> QED
      BY ONLY TypeOK, <3>1, GotJob
  <2>4. mailbox[s] # NoRecord => Does(r, job'[r], mailbox[s].msgs)
    BY <2>1, <2>2, <2>3 DEF Does
  <2> QED
    BY <2>1, <2>3, <2>4 DEF Due
<1>2. ASSUME SendGet(r, s) PROVE Due(r, s)
  <2> DEFINE write == Push(rec, r, clock)
             drop  == Dropped(mailbox[s])
             msgs  == mailbox[s].msgs
             kept  == rec.msgs
  <2>1. /\ pc[r] = "idle" /\ mailbox[s] # NoRecord /\ Len(kept) < MaxMessages
        /\ Got(r, "send", s, write, << >>, drop)
    BY <1>2 DEF SendGet, CanStart
  <2>2. kept \in {msgs, << >>} /\ drop = IF kept = msgs THEN {} ELSE QueuedIds(msgs)
    BY <2>1, Remains
  <2>3. write.msgs = Append(kept, r)
    <3>1. mailbox[s] \in RecordOver(Requests, Secrets, Shards)
      BY <2>1 DEF TypeOK, Record
    <3>2. rec \in RecordOver(Requests, Secrets, Shards)
      BY <3>1, UnstaleRecord DEF TypeOK
    <3> HIDE DEF rec
    <3> QED
      BY <3>2 DEF Push, RecordOver
  <2> HIDE DEF write, drop, msgs, kept
  <2>4. job'[r] = [op |-> "send", shard |-> s, write |-> write, out |-> << >>, drop |-> drop]
    BY <2>1, GotJob
  <2>5. Does(r, job'[r], msgs)
    BY <2>1, <2>2, <2>3, <2>4 DEF Does
  <2> QED
    BY <2>1, <2>4, <2>5, GotJob DEF Due, msgs
<1>3. ASSUME NEW secret \in Secrets, NEW peek \in BOOLEAN, ReadGet(r, s, secret, peek)
      PROVE  Due(r, s)
  <2> DEFINE op    == IF peek THEN "peek" ELSE "read"
             write == IF peek THEN rec ELSE Emptied(rec)
             drop  == Dropped(mailbox[s])
             msgs  == mailbox[s].msgs
             kept  == rec.msgs
  <2>1. /\ pc[r] = "idle" /\ mailbox[s] # NoRecord
        /\ Got(r, op, s, write, kept, drop)
    BY <1>3 DEF ReadGet, CanStart
  <2>2. kept \in {msgs, << >>} /\ drop = IF kept = msgs THEN {} ELSE QueuedIds(msgs)
    BY <2>1, Remains
  <2>3. IF peek THEN op = "peek" /\ write.msgs = kept ELSE op = "read" /\ write.msgs = << >>
    <3>1. mailbox[s] \in RecordOver(Requests, Secrets, Shards)
      BY <2>1 DEF TypeOK, Record
    <3>2. rec \in RecordOver(Requests, Secrets, Shards)
      BY <3>1, UnstaleRecord DEF TypeOK
    <3> HIDE DEF rec
    <3> QED
      BY <3>2 DEF Emptied, RecordOver
  <2> HIDE DEF write, drop, msgs, kept, op
  <2>4. job'[r] = [op |-> op, shard |-> s, write |-> write, out |-> kept, drop |-> drop]
    BY <2>1, GotJob
  <2>5. Does(r, job'[r], msgs)
    BY <2>2, <2>3, <2>4 DEF Does
  <2> QED
    BY <2>1, <2>3, <2>4, <2>5, GotJob DEF Due, msgs
<1> QED
  BY <1>1, <1>2, <1>3 DEF StartAt

LEMMA DoesStep ==
  TypeOK /\ JobOK /\ AloneInv /\ calls = {} /\ DoesInv /\ [Next]_vars => DoesInv'
<1> SUFFICES ASSUME TypeOK, JobOK, AloneInv, calls = {}, DoesInv, [Next]_vars
             PROVE  DoesInv'
  OBVIOUS
<1>0. \A q \in Requests : pc[q] = "got" => job[q].shard \in Shards
  BY DEF JobOK, Job
<1>1. ASSUME NEW r \in Requests, NEW s \in Shards, Due(r, s) PROVE DoesInv'
  BY <1>1 DEF Due, DoesInv
<1>2. ASSUME NEW r \in Requests, Put(r) PROVE DoesInv'
  <2>1. AfterPut(r, job[r])
    BY <1>2, PutEffect
  <2>2. ASSUME NEW q \in Requests, pc'[q] = "got", alone'[q]
        PROVE  /\ q # r /\ pc[q] = "got" /\ job'[q] = job[q] /\ alone[q]
               /\ mailbox'[job[q].shard] = mailbox[job[q].shard]
    <3>1. q # r /\ pc[q] = "got" /\ job'[q] = job[q] /\ alone[q]
      BY <2>1, <2>2 DEF AfterPut
    <3>2. job[q].shard # job[r].shard
      BY <2>1, <3>1 DEF AfterPut, AloneInv, Pending
    <3> QED
      BY <1>0, <2>1, <3>1, <3>2 DEF AfterPut
  <2>3. \A q \in Requests : pc'[q] = "got" => pc[q] = "got" /\ job'[q] = job[q]
    BY <2>1 DEF AfterPut
  <2> QED
    BY <2>2, <2>3 DEF DoesInv
<1>3. CASE Tick
  BY <1>0, <1>3, TickEffect DEF DoesInv
<1>4. CASE Quiet
  BY <1>4 DEF Quiet, DoesInv
<1> QED
  BY <1>1, <1>2, <1>3, <1>4, StartDue, QuietStep DEF Next

-----------------------------------------------------------------------------
(* The abstract mailbox, where there is one shard.                         *)

OneShard == Shards = {TheShard}

LEMMA OnlyShard ==
  ASSUME NEW s0, Shards = {s0}
  PROVE  OneShard /\ \A replicas \in Placements : Cardinality(replicas) <= 1
<1>1. TheShard = s0
  BY DEF TheShard
<1>2. ASSUME NEW replicas \in Placements PROVE Cardinality(replicas) <= 1
  <2>1. replicas = {} \/ replicas = {s0}
    BY PlacementsAssumption
  <2> QED
    BY <2>1, FS_EmptySet, FS_Singleton
<1> QED
  BY <1>1, <1>2 DEF OneShard

\* What is invariant where requests reach one shard and none replicates.
AlonePart ==
  TypeOK /\ JobOK /\ AloneInv /\ SentInv /\ DropInv /\ SoloInv /\ DoesInv

\* A step that completes no request and leaves the mailbox alone.
LEMMA UnseenStep ==
  ASSUME mailbox' = mailbox, discarded' = discarded,
         \A q \in Requests :
           \/ pc'[q] = pc[q] /\ job'[q] = job[q]
           \/ pc[q] # "done" /\ pc'[q] # "done"
  PROVE  UNCHANGED Abstract!vars
<1>1. \A e \in Requests : Returned(e, TheShard)' <=> Returned(e, TheShard)
  BY DEF Returned, Completed
<1>2. Delivered' = Delivered
  BY <1>1 DEF Delivered
<1> QED
  BY <1>2 DEF Abstract!vars, Queue

LEMMA PutDelivered ==
  ASSUME NEW r \in Requests, AfterPut(r, job[r]), job[r].shard = TheShard
  PROVE  Delivered' = Delivered \cup
           (IF job[r].op = "read" THEN {e \in Requests : InQueue(job[r].out, e)} ELSE {})
<1>1. ASSUME NEW e \in Requests
      PROVE  Returned(e, TheShard)' <=>
               \/ Returned(e, TheShard)
               \/ job[r].op = "read" /\ InQueue(job[r].out, e)
  BY DEF AfterPut, Returned, Completed
<1> QED
  BY <1>1 DEF Delivered

LEMMA NewEntry ==
  ASSUME AlonePart, OneShard, NEW r \in Requests, pc[r] = "got"
  PROVE  r \notin Abstract!Known
<1>1. ~ Sent(r)
  BY DEF Sent
<1>2. r \notin discarded
  BY <1>1 DEF AlonePart, DropInv
<1>3. r \notin Delivered
  BY <1>1 DEF AlonePart, SentInv, Delivered, Returned, Completed
<1>4. r \notin Abstract!Ids(Queue)
  <2>1. TheShard \in Shards
    BY DEF OneShard
  <2>2. CASE mailbox[TheShard] = NoRecord
    BY <2>2 DEF Queue, Abstract!Ids
  <2>3. CASE mailbox[TheShard] # NoRecord
    <3>1. ~ InQueue(mailbox[TheShard].msgs, r)
      BY <1>1, <2>1, <2>3 DEF AlonePart, SentInv, Holds
    <3> QED
      BY <2>3, <3>1 DEF Queue, Abstract!Ids, InQueue
  <2> QED
    BY <2>2, <2>3
<1> QED
  BY <1>2, <1>3, <1>4 DEF Abstract!Known

(***************************************************************************)
(* The put of a request that overlapped no other.                          *)
(***************************************************************************)
LEMMA PutImplements ==
  ASSUME AlonePart, OneShard, NEW r \in Requests, Put(r), Undisturbed(r)
  PROVE  Abstract!Next
<1> DEFINE j == job[r]
<1>1. AfterPut(r, j) /\ j \in Job /\ j.out \in Seq(Requests) /\ pc[r] = "got"
  BY PutEffect DEF AlonePart, AfterPut, Job
<1>2. j.shard = TheShard
  BY <1>1 DEF AfterPut, OneShard
<1>3. mailbox'[TheShard] = j.write /\ j.write # NoRecord
  BY <1>1, <1>2, NoRecordAssumption DEF AfterPut
<1>4. Queue' = j.write.msgs /\ discarded' = discarded \cup j.drop
  BY <1>1, <1>3 DEF Queue, AfterPut
<1>5. Delivered' = Delivered \cup
        (IF j.op = "read" THEN {e \in Requests : InQueue(j.out, e)} ELSE {})
  BY <1>1, <1>2, PutDelivered
<1>6. alone[r]
  BY DEF Undisturbed
<1>7. CASE mailbox[TheShard] = NoRecord
  <2>1. j.op = "create" /\ j.write.msgs = << >>
    BY <1>2, <1>7 DEF Undisturbed
  <2>2. j.drop = {}
    BY <1>1, <2>1 DEF AlonePart, DoesInv
  <2>3. Queue = << >>
    BY <1>7 DEF Queue
  <2>4. Queue' = Queue /\ Delivered' = Delivered /\ discarded' = discarded
    BY <1>4, <1>5, <2>1, <2>2, <2>3
  <2> QED
    BY <1>3, <2>4 DEF Abstract!Next, Abstract!Create
<1>8. CASE mailbox[TheShard] # NoRecord
  <2>1. Does(r, j, Queue)
    BY <1>1, <1>2, <1>6, <1>8 DEF AlonePart, DoesInv, Queue
  <2>2. PICK kept \in {Queue, << >>} :
          /\ j.drop = IF kept = Queue THEN {} ELSE QueuedIds(Queue)
          /\ \/ j.op = "create" /\ kept = Queue /\ j.write.msgs = Queue
             \/ j.op = "send" /\ Len(kept) < MaxMessages /\ j.write.msgs = Append(kept, r)
             \/ j.op = "read" /\ j.write.msgs = << >> /\ j.out = kept
             \/ j.op = "peek" /\ j.write.msgs = kept
    BY <2>1 DEF Does
  <2>3. Abstract!Remaining(kept)
    BY <1>4, <2>2 DEF Abstract!Remaining, Abstract!Ids, QueuedIds
  <2>4. CASE j.op = "create" /\ kept = Queue /\ j.write.msgs = Queue
    <3>1. Queue' = Queue /\ Delivered' = Delivered /\ discarded' = discarded
      BY <1>4, <1>5, <2>2, <2>4
    <3> QED
      BY <1>3, <3>1 DEF Abstract!Next, Abstract!Create
  <2>5. CASE j.op = "send" /\ Len(kept) < MaxMessages /\ j.write.msgs = Append(kept, r)
    <3>1. Queue' = Append(kept, r) /\ Delivered' = Delivered
      BY <1>4, <1>5, <2>5
    <3>2. r \notin Abstract!Known
      BY <1>1, NewEntry
    <3>3. Abstract!Accept(r)
      BY <1>3, <1>8, <2>3, <2>5, <3>1, <3>2 DEF Abstract!Accept
    <3> QED
      BY <3>3 DEF Abstract!Next
  <2>6. CASE j.op = "read" /\ j.write.msgs = << >> /\ j.out = kept
    <3>1. {e \in Requests : InQueue(j.out, e)} = Abstract!Ids(kept)
      BY <1>1, <2>6 DEF InQueue, Abstract!Ids
    <3>2. Delivered' = Delivered \cup Abstract!Ids(kept) /\ Queue' = << >>
      BY <1>4, <1>5, <2>6, <3>1
    <3>3. Abstract!Deliver
      BY <1>3, <1>8, <2>3, <3>2 DEF Abstract!Deliver
    <3> QED
      BY <3>3 DEF Abstract!Next
  <2>7. CASE j.op = "peek" /\ j.write.msgs = kept
    <3>1. Queue' = kept /\ Delivered' = Delivered
      BY <1>4, <1>5, <2>7
    <3>2. Abstract!Look
      BY <1>3, <1>8, <2>3, <3>1 DEF Abstract!Look
    <3> QED
      BY <3>2 DEF Abstract!Next
  <2> QED
    BY <2>2, <2>4, <2>5, <2>6, <2>7
<1> QED
  BY <1>7, <1>8

LEMMA TickImplements ==
  ASSUME AlonePart, OneShard, Tick
  PROVE  [Abstract!Next]_(Abstract!vars)
<1>1. TheShard \in Shards
  BY DEF OneShard
<1>2. UNCHANGED << pc, job >>
  BY DEF Tick
<1>3. Delivered' = Delivered
  BY <1>2 DEF Delivered, Returned, Completed
<1>4. CASE TheShard \in Overdue
  <2>1. mailbox[TheShard] # NoRecord /\ mailbox'[TheShard] = NoRecord
    BY <1>1, <1>4 DEF Tick, Overdue
  <2>2. Overdue = {TheShard}
    BY <1>4 DEF Overdue, OneShard
  <2>3. discarded' = discarded \cup QueuedIds(mailbox[TheShard].msgs)
    BY <2>2 DEF Tick
  <2>4. Queue = mailbox[TheShard].msgs /\ Queue' = << >>
    BY <2>1 DEF Queue
  <2>5. Abstract!Expire
    BY <1>3, <2>1, <2>3, <2>4 DEF Abstract!Expire, Abstract!Ids, QueuedIds
  <2> QED
    BY <2>5 DEF Abstract!Next
<1>5. CASE TheShard \notin Overdue
  <2>1. Overdue = {}
    BY <1>5 DEF Overdue, OneShard
  <2>2. mailbox'[TheShard] = mailbox[TheShard] /\ discarded' = discarded
    BY <1>1, <2>1 DEF Tick
  <2> QED
    BY <1>3, <2>2 DEF Abstract!vars, Queue
<1> QED
  BY <1>4, <1>5

(***************************************************************************)
(* Every step but an overlapping request's put is a step of the abstract   *)
(* mailbox, or none.                                                       *)
(***************************************************************************)
LEMMA SoloStepImplements ==
  ASSUME AlonePart, OneShard, [Next]_vars,
         \A r \in Requests : pc'[r] = "done" /\ pc[r] # "done" => Undisturbed(r)
  PROVE  [Abstract!Next]_(Abstract!vars)
<1>1. ASSUME NEW r \in Requests, NEW s \in Shards, StartAt(r, s), ~ Refuse(r, s)
      PROVE  UNCHANGED Abstract!vars
  <2>1. Due(r, s)
    BY <1>1, StartDue DEF AlonePart, SoloInv
  <2>2. \A q \in Requests :
           \/ pc'[q] = pc[q] /\ job'[q] = job[q]
           \/ pc[q] # "done" /\ pc'[q] # "done"
    BY <2>1 DEF Due
  <2> QED
    BY <2>1, <2>2, UnseenStep DEF Due
<1>2. ASSUME NEW r \in Requests, Put(r) PROVE Abstract!Next
  <2>1. pc'[r] = "done" /\ pc[r] # "done"
    BY <1>2, PutEffect DEF AlonePart, AfterPut
  <2> QED
    BY <1>2, <2>1, PutImplements
<1>3. CASE Tick
  BY <1>3, TickImplements
<1>4. CASE Quiet
  <2>1. \A q \in Requests :
           \/ pc'[q] = pc[q] /\ job'[q] = job[q]
           \/ pc[q] # "done" /\ pc'[q] # "done"
    BY <1>4 DEF Quiet
  <2> QED
    BY <1>4, <2>1, UnseenStep DEF Quiet
<1> QED
  BY <1>1, <1>2, <1>3, <1>4, QuietStep DEF AlonePart, Next

LEMMA InitImplements == ASSUME OneShard PROVE Init => Abstract!Init
<1> SUFFICES ASSUME Init PROVE Abstract!Init
  OBVIOUS
<1>1. TheShard \in Shards
  BY DEF OneShard
<1>2. Queue = << >> /\ mailbox[TheShard] = NoRecord
  BY <1>1 DEF Init, Queue
<1>3. Delivered = {}
  BY DEF Init, Delivered, Returned, Completed
<1> QED
  BY <1>2, <1>3 DEF Init, Abstract!Init

(***************************************************************************)
(* On one shard, whatever the interleaving before it, a request that       *)
(* overlaps no other is a step of the abstract mailbox: it stores one new  *)
(* entry behind what is left, hands out everything, looks or creates; and  *)
(* without requests the mailbox only expires.                              *)
(***************************************************************************)
THEOREM SoloStepsHold ==
  ASSUME NEW s0, Shards = {s0}
  PROVE  Spec => SoloStepsImplementMailbox
<1> DEFINE Solely == \A r \in Requests : pc'[r] = "done" /\ pc[r] # "done" => Undisturbed(r)
<1>1. OneShard /\ \A replicas \in Placements : Cardinality(replicas) <= 1
  BY OnlyShard
<1>2. Init => Abstract!Init
  BY <1>1, InitImplements
<1>3. Init => AlonePart
  BY InitTyped DEF Init, AlonePart, AloneInv, SentInv, DropInv, SoloInv, DoesInv,
                   Pending, Holds
<1>4. AlonePart /\ [Next]_vars => AlonePart'
  BY <1>1, NextTyped, AloneStep, SentStep, DropStep, SoloStep, DoesStep
  DEF AlonePart, SoloInv
<1>5. AlonePart /\ [Next]_vars => (Solely => [Abstract!Next]_(Abstract!vars))
  BY <1>1, SoloStepImplements
<1> QED
  BY <1>2, <1>3, <1>4, <1>5, PTL DEF Spec, SoloStepsImplementMailbox

-----------------------------------------------------------------------------
(* A mesh with a Combined Worker.                                          *)

-----------------------------------------------------------------------------
(* An early return of a Combined handler is one of shard Self.             *)

LEMMA AnsweredRefused ==
  ASSUME NEW r, Answered(r),
         \/ Stored = NoRecord
         \/ Stored # NoRecord /\ Len(Cleared.msgs) >= MaxMessages
         \/ Stored # NoRecord /\ \E secret \in Secrets : secret # Stored.secret
         \/ Stored # NoRecord /\ \E c \in calls :
              c.to = Self /\ CallFresh(c) /\ InQueue(Stored.msgs, c.entry)
  PROVE  Refuse(r, Self)
BY DEF Answered, Refuse, Stored, Cleared, Stale, Unstale, Emptied

LEMMA LocalCreateStep ==
  ASSUME NEW r, NEW secret, NEW replicas, LocalCreate(r, secret, replicas)
  PROVE  CreateGet(r, Self, secret, replicas)
BY DEF LocalCreate, CreateGet, Stored, Reregistered

\* The Combined Worker's view of its record is that of a shard.
LEMMA ClearedUnstale == Cleared = Unstale(mailbox[Self], clock)
BY DEF Cleared, Stale, Stored, Unstale, Emptied

LEMMA LostDropped == Lost = Dropped(mailbox[Self])
BY DEF Lost, Stale, Stored, Dropped

LEMMA PushedPush ==
  ASSUME NEW rec, NEW entry
  PROVE  Pushed(rec, entry) = Push(rec, entry, clock)
BY DEF Pushed, Push

LEMMA HandleSendStep ==
  ASSUME NEW r, HandleSend(r)
  PROVE  SendGet(r, Self) \/ Refuse(r, Self)
<1>1. CASE (Stored # NoRecord => Len(Cleared.msgs) >= MaxMessages) /\ Answered(r)
  BY <1>1, AnsweredRefused
<1>2. CASE /\ CanStart(r, Self) /\ Stored # NoRecord
           /\ Len(Cleared.msgs) < MaxMessages
           /\ Got(r, "send", Self, Pushed(Cleared, r), << >>, Lost)
  BY <1>2, ClearedUnstale, LostDropped, PushedPush DEF SendGet, Stored
<1> QED BY <1>1, <1>2 DEF HandleSend

LEMMA HandleReadStep ==
  ASSUME NEW r, NEW secret \in Secrets, NEW peek \in BOOLEAN,
         HandleRead(r, secret, peek)
  PROVE  ReadGet(r, Self, secret, peek) \/ Refuse(r, Self)
<1>1. CASE (Stored # NoRecord => Stored.secret # secret) /\ Answered(r)
  BY <1>1, AnsweredRefused
<1>2. CASE ~ ((Stored # NoRecord => Stored.secret # secret) /\ Answered(r))
  BY <1>2, ClearedUnstale, LostDropped DEF HandleRead, ReadGet, Stored, Emptied
<1> QED BY <1>1, <1>2

LEMMA HandleReplicateStep ==
  ASSUME NEW r, NEW c \in calls, HandleReplicate(r, c)
  PROVE  ReplicateGet(r, c) \/ Refuse(r, Self)
<1> DEFINE rec == IF Stored = NoRecord THEN Fresh(NoSecret, c.replicas) ELSE Stored
<1>0. c.to = Self /\ CallFresh(c)
  BY DEF HandleReplicate
<1>1. CASE InQueue(rec.msgs, c.entry) /\ Answered(r)
  BY <1>0, <1>1, AnsweredRefused
<1>2. CASE /\ ~ InQueue(rec.msgs, c.entry)
           /\ CanStart(r, Self)
           /\ Got(r, "replicate", Self, Pushed(rec, c.entry), << >>, {})
  BY <1>0, <1>2, PushedPush DEF ReplicateGet, Stored
<1> QED BY <1>1, <1>2 DEF HandleReplicate

-----------------------------------------------------------------------------
(* The put.                                                                *)

LEMMA SiblingCalls ==
  ASSUME NEW r, NEW replicas, ~ (Cardinality(replicas) <= 1)
  PROVE  ReplicateToSiblings(r, replicas) = FanOut(r, Self, replicas)
<1> DEFINE full == [ entry : {r}, to : replicas \ {Self},
                     replicas : {replicas}, at : {clock} ]
<1>1. ReplicateToSiblings(r, replicas) \subseteq full
  BY DEF ReplicateToSiblings
<1>2. full \subseteq ReplicateToSiblings(r, replicas)
  <2> SUFFICES ASSUME NEW c \in full PROVE c \in ReplicateToSiblings(r, replicas)
    OBVIOUS
  <2>1. c = [ entry |-> r, to |-> c.to, replicas |-> replicas, at |-> clock ]
    OBVIOUS
  <2> QED BY <2>1 DEF ReplicateToSiblings
<1> QED BY <1>1, <1>2 DEF FanOut

LEMMA PutStoredStep ==
  ASSUME NEW r, PutStored(r)
  PROVE  Put(r)
<1> DEFINE siblings == job[r].write.replicas
<1>1. calls' = IF job[r].op = "send" THEN calls \cup FanOut(r, Self, siblings) ELSE calls
  <2>1. CASE job[r].op # "send"
    BY <2>1 DEF PutStored
  <2>2. CASE job[r].op = "send" /\ Cardinality(siblings) <= 1
    BY <2>2 DEF PutStored, FanOut
  <2>3. CASE job[r].op = "send" /\ ~ (Cardinality(siblings) <= 1)
    BY <2>3, SiblingCalls DEF PutStored
  <2> QED BY <2>1, <2>2, <2>3
<1> QED BY <1>1 DEF PutStored, Put

-----------------------------------------------------------------------------

LEMMA CombinedStartStep ==
  ASSUME NEW r \in Requests, CombinedStart(r)
  PROVE  StartAt(r, Self)
<1>1. CASE \E secret \in Secrets, replicas \in Placements : LocalCreate(r, secret, replicas)
  BY <1>1, LocalCreateStep, SelfAssumption DEF StartAt
<1>2. CASE HandleSend(r)
  BY <1>2, HandleSendStep, SelfAssumption DEF StartAt
<1>3. CASE \E secret \in Secrets, peek \in BOOLEAN : HandleRead(r, secret, peek)
  BY <1>3, HandleReadStep, SelfAssumption DEF StartAt
<1>4. CASE \E c \in calls : HandleReplicate(r, c)
  BY <1>4, HandleReplicateStep DEF HandleReplicate, StartAt
<1> QED BY <1>1, <1>2, <1>3, <1>4 DEF CombinedStart

(***************************************************************************)
(* A mesh in which one shard is a Combined Worker behaves as one of        *)
(* shards: the handlers of combined/worker.js (295-332, 670-905) implement *)
(* those of shard/worker.js.                                               *)
(***************************************************************************)
THEOREM MeshImplementsShards == MeshSpec => Spec
<1>1. MeshNext => Next
  <2>1. ASSUME NEW r \in Requests,
               \/ CombinedStart(r) \/ PutStored(r)
               \/ \E s \in Shards \ {Self} : StartAt(r, s)
               \/ Put(r) /\ job[r].shard # Self
               \/ Crash(r)
        PROVE  Next
    BY <2>1, CombinedStartStep, PutStoredStep, SelfAssumption DEF Next
  <2> QED BY <2>1 DEF MeshNext, Next
<1> QED BY <1>1, PTL DEF MeshSpec, Spec

(***************************************************************************)
(* An entry is queued at most once, on the Combined Worker and on its      *)
(* siblings (the id test of combined/worker.js:843 is made on a snapshot). *)
(***************************************************************************)
THEOREM MeshQueuedOnce == MeshSpec => []QueuedOnce
BY MeshImplementsShards, QueuedOnceHolds, PTL

(***************************************************************************)
(* Only entries of completed sends are stored, replicated or returned.     *)
(***************************************************************************)
THEOREM MeshSeenOnlyIfSent == MeshSpec => []SeenOnlyIfSent
BY MeshImplementsShards, SeenOnlyIfSentHolds, PTL

(***************************************************************************)
(* Burn-after-read of an undisturbed read, on either kind of shard.        *)
(***************************************************************************)
THEOREM MeshBurnedStaysBurned == MeshSpec => []BurnedStaysBurned
BY MeshImplementsShards, BurnedStaysBurnedHolds, PTL

(***************************************************************************)
(* The entry of an undisturbed send is kept until read or expired, on      *)
(* either kind of shard.                                                   *)
(***************************************************************************)
THEOREM MeshAcceptedKept == MeshSpec => []AcceptedKept
BY MeshImplementsShards, AcceptedKeptHolds, PTL

(***************************************************************************)
(* A read secret that the Combined Worker's own /register installed sticks *)
(* as one that came by /create does.                                       *)
(***************************************************************************)
THEOREM MeshSecretSticks == MeshSpec => []SecretSticks
BY MeshImplementsShards, SecretSticksHolds, PTL

(***************************************************************************)
(* Nor does a shell that a replicate call makes on the Combined Worker     *)
(* leave a queue without a backlog clock (combined/worker.js:846).         *)
(***************************************************************************)
THEOREM MeshBacklogClock == MeshSpec => []BacklogClock
BY MeshImplementsShards, BacklogClockHolds, PTL

(***************************************************************************)
(* A Combined Worker alone: its handlers, undisturbed, are steps of the    *)
(* abstract mailbox too.                                                   *)
(***************************************************************************)
THEOREM MeshSoloSteps ==
  ASSUME Shards = {Self} PROVE MeshSpec => SoloStepsImplementMailbox
<1>1. Spec => SoloStepsImplementMailbox
  BY SelfAssumption, SoloStepsHold
<1> QED
  BY <1>1, MeshImplementsShards, PTL

=============================================================================
