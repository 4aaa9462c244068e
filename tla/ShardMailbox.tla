---------------------------- MODULE ShardMailbox ----------------------------
(***************************************************************************)
(* One mailbox on the shards that hold it (shard/worker.js).               *)
(*                                                                         *)
(* A shard is a stateless Worker over a KV namespace.  Every handler that  *)
(* touches a mailbox awaits one KV get of its record, computes a new       *)
(* record, and awaits one KV put of the WHOLE record: there is no lock,    *)
(* version or compare-and-swap, so requests to the same mailbox interleave *)
(* at those two awaits.  A handler is therefore two actions here: the get  *)
(* with the synchronous code after it, and the put with the response.      *)
(*                                                                         *)
(* A request is used once.  The id of the entry a /send stores is the      *)
(* request itself (the code draws a fresh random id).  The checks before   *)
(* the get (format, signature, rate limit) refuse a request before it can  *)
(* touch the mailbox and have modules of their own.                        *)
(***************************************************************************)
EXTENDS MailboxRecord, FiniteSets

CONSTANTS
  Shards,         \* the shards' URLs
  Requests,       \* requests the model may issue (bounds its behaviours)
  Secrets,        \* hashes of the read secrets the router hands out
  Placements,     \* the replica lists the router puts in /create
  MailboxTTL,     \* cfg.MAILBOX_TTL_SECONDS, in ticks
  CallTTL,        \* age, in ticks, up to which a replicate call is accepted
  MaxInFlight,    \* bound on the requests a shard is handling at once
  MaxClock,       \* bound on the clock
  NoRecord,       \* KV has no such key
  NoJob           \* the request is not being handled

ASSUME PlacementsAssumption  == Placements \subseteq SUBSET Shards
ASSUME MailboxTTLAssumption  == MailboxTTL \in Nat \ {0}
ASSUME MaxClockAssumption    == MaxClock \in Nat
ASSUME SecretAssumption      == NoSecret \notin Secrets

VARIABLES
  mailbox,    \* mailbox[s]: the KV record, or NoRecord
  expiry,     \* expiry[s]: when KV drops the record (expirationTtl of the put)
  clock,      \* Date.now(), in ticks
  calls,      \* /internal/replicate calls sent by replicateToSiblings
  pc,         \* pc[r]: where request r is
  job,        \* job[r]: the handler's local state between its get and its put,
              \*         and what it answered
  (* history, read by the properties only *)
  alone,      \* alone[r]: no other request of its shard was in flight with r
  promised,   \* promised[s]: the last /create that completed at s
  discarded   \* entries dropped with a stale backlog or an expired record

vars == << mailbox, expiry, clock, calls, pc, job, alone, promised, discarded >>

-----------------------------------------------------------------------------

Record == RecordOver(Requests, Secrets, Shards)

Ops == {"create", "send", "read", "peek", "replicate"}

Job == [ op    : Ops,
         shard : Shards,
         write : Record \cup {NoRecord},  \* what it is about to put
         out   : Seq(Requests),           \* messagesToReturn of a read
         drop  : SUBSET Requests ]        \* stale entries the put removes

Call == [ entry : Requests, to : Shards, replicas : SUBSET Shards, at : Nat ]

Promise == [ secret : Secrets \cup {NoSecret}, alone : BOOLEAN ]

ASSUME NoRecordAssumption == NoRecord \notin Record
ASSUME NoJobAssumption    == NoJob \notin Job

TypeOK ==
  /\ mailbox \in [Shards -> Record \cup {NoRecord}]
  /\ expiry \in [Shards -> Nat]
  /\ clock \in Nat
  /\ calls \in SUBSET Call
  /\ pc \in [Requests -> {"idle", "got", "done", "refused", "failed"}]
  /\ job \in [Requests -> Job \cup {NoJob}]
  /\ alone \in [Requests -> BOOLEAN]
  /\ promised \in [Shards -> Promise]
  /\ discarded \in SUBSET Requests

NoPromise == [ secret |-> NoSecret, alone |-> TRUE ]

Init ==
  /\ mailbox = [s \in Shards |-> NoRecord]
  /\ expiry = [s \in Shards |-> 0]
  /\ clock = 0
  /\ calls = {}
  /\ pc = [r \in Requests |-> "idle"]
  /\ job = [r \in Requests |-> NoJob]
  /\ alone = [r \in Requests |-> TRUE]
  /\ promised = [s \in Shards |-> NoPromise]
  /\ discarded = {}

-----------------------------------------------------------------------------
(* The KV get, and the code up to the put.                                 *)

InFlight(s) == { r \in Requests : pc[r] = "got" /\ job[r].shard = s }

CanStart(r, s) ==
  /\ pc[r] = "idle"
  /\ Cardinality(InFlight(s)) < MaxInFlight

(***************************************************************************)
(* Request r has read the record of shard s and holds the record it will   *)
(* write; it and the requests it meets in flight are no longer alone.      *)
(***************************************************************************)
Got(r, op, s, write, out, drop) ==
  /\ pc' = [pc EXCEPT ![r] = "got"]
  /\ job' = [job EXCEPT ![r] = [ op |-> op, shard |-> s, write |-> write,
                                 out |-> out, drop |-> drop ]]
  /\ alone' = [q \in Requests |->
                 IF q = r THEN InFlight(s) = {}
                          ELSE alone[q] /\ q \notin InFlight(s)]
  /\ UNCHANGED << mailbox, expiry, clock, calls, promised, discarded >>

Dropped(rec) ==
  IF IsBacklogStale(rec.since, clock) THEN QueuedIds(rec.msgs) ELSE {}

CreateGet(r, s, secret, replicas) ==
  /\ CanStart(r, s)
  /\ LET write == IF mailbox[s] = NoRecord
                  THEN Fresh(secret, replicas)
                  ELSE Reregistered(mailbox[s], secret, replicas)
     IN  Got(r, "create", s, write, << >>, {})

\* Mutated SendGet: the limit tested with <= instead of <.
SendGetOffByOne(r, s) ==
  /\ CanStart(r, s)
  /\ mailbox[s] # NoRecord
  /\ LET rec == Unstale(mailbox[s], clock)
     IN  /\ Len(rec.msgs) <= MaxMessages
         /\ Got(r, "send", s, Push(rec, r, clock), << >>, Dropped(mailbox[s]))

SendGet(r, s) ==
  /\ CanStart(r, s)
  /\ mailbox[s] # NoRecord
  /\ LET rec == Unstale(mailbox[s], clock)
     IN  /\ Len(rec.msgs) < MaxMessages
         /\ Got(r, "send", s, Push(rec, r, clock), << >>, Dropped(mailbox[s]))

\* Mutated ReadGet: a consuming read writes the queue back.
ReadGetKeeping(r, s, secret, peek) ==
  /\ CanStart(r, s)
  /\ mailbox[s] # NoRecord
  /\ secret = mailbox[s].secret
  /\ LET rec == Unstale(mailbox[s], clock)
     IN  Got(r, IF peek THEN "peek" ELSE "read", s,
             rec, rec.msgs, Dropped(mailbox[s]))

ReadGet(r, s, secret, peek) ==
  /\ CanStart(r, s)
  /\ mailbox[s] # NoRecord
  /\ secret = mailbox[s].secret
  /\ LET rec == Unstale(mailbox[s], clock)
     IN  Got(r, IF peek THEN "peek" ELSE "read", s,
             IF peek THEN rec ELSE Emptied(rec), rec.msgs, Dropped(mailbox[s]))

(***************************************************************************)
(* A call is taken while its timestamp is within the allowed skew; the     *)
(* network may lose it, delay it, or deliver it more than once.            *)
(***************************************************************************)
CallFresh(c) == clock - c.at <= CallTTL

ReplicateGet(r, c) ==
  /\ CanStart(r, c.to)
  /\ CallFresh(c)
  /\ LET rec == IF mailbox[c.to] = NoRecord
                THEN Fresh(NoSecret, c.replicas)
                ELSE mailbox[c.to]
     IN  /\ ~ InQueue(rec.msgs, c.entry)
         /\ Got(r, "replicate", c.to, Push(rec, c.entry, clock), << >>, {})

(***************************************************************************)
(* The early returns after the get: 404, a full mailbox, a wrong           *)
(* read_secret, an entry already queued.  None of them writes.             *)
(***************************************************************************)
Refuse(r, s) ==
  /\ CanStart(r, s)
  /\ \/ mailbox[s] = NoRecord
     \/ /\ mailbox[s] # NoRecord
        /\ \/ Len(Unstale(mailbox[s], clock).msgs) >= MaxMessages
           \/ \E secret \in Secrets : secret # mailbox[s].secret
           \/ \E c \in calls : /\ c.to = s
                               /\ CallFresh(c)
                               /\ InQueue(mailbox[s].msgs, c.entry)
  /\ pc' = [pc EXCEPT ![r] = "refused"]
  /\ UNCHANGED << mailbox, expiry, clock, calls, job, alone, promised, discarded >>

-----------------------------------------------------------------------------
(* The KV put, or the Worker's death before it.  A request is "done" once  *)
(* its put is in KV: whether the client receives the response does not     *)
(* change the shard.                                                       *)

(***************************************************************************)
(* replicateToSiblings: one call to every other shard of the list, unless  *)
(* the list names a single shard.                                          *)
(***************************************************************************)
FanOut(r, s, replicas) ==
  IF Cardinality(replicas) <= 1
  THEN {}
  ELSE [ entry : {r}, to : replicas \ {s}, replicas : {replicas}, at : {clock} ]

Put(r) ==
  /\ pc[r] = "got"
  /\ LET j == job[r]
     IN  /\ mailbox' = [mailbox EXCEPT ![j.shard] = j.write]
         /\ expiry' = [expiry EXCEPT ![j.shard] = clock + MailboxTTL]
         /\ calls' = IF j.op = "send"
                     THEN calls \cup FanOut(r, j.shard, j.write.replicas)
                     ELSE calls
         /\ promised' = IF j.op = "create"
                        THEN [promised EXCEPT ![j.shard] =
                                [secret |-> j.write.secret, alone |-> alone[r]]]
                        ELSE promised
         /\ discarded' = discarded \cup j.drop
         /\ job' = [job EXCEPT ![r].write = NoRecord, ![r].drop = {}]
  /\ pc' = [pc EXCEPT ![r] = "done"]
  /\ UNCHANGED << clock, alone >>

\* Mutated Crash: the fan-out started before the put was known to succeed.
CrashAfterFanOut(r) ==
  /\ pc[r] = "got"
  /\ pc' = [pc EXCEPT ![r] = "failed"]
  /\ job' = [job EXCEPT ![r] = NoJob]
  /\ calls' = IF job[r].op = "send"
              THEN calls \cup FanOut(r, job[r].shard, job[r].write.replicas)
              ELSE calls
  /\ UNCHANGED << mailbox, expiry, clock, alone, promised, discarded >>

Crash(r) ==
  /\ pc[r] = "got"
  /\ pc' = [pc EXCEPT ![r] = "failed"]
  /\ job' = [job EXCEPT ![r] = NoJob]
  /\ UNCHANGED << mailbox, expiry, clock, calls, alone, promised, discarded >>

(***************************************************************************)
(* Time passes; KV drops the records whose expirationTtl is over.  A tick  *)
(* may fall between the get and the put of a request.                      *)
(***************************************************************************)
Overdue == { s \in Shards : mailbox[s] # NoRecord /\ expiry[s] <= clock + 1 }

Tick ==
  /\ clock < MaxClock
  /\ clock' = clock + 1
  /\ mailbox' = [s \in Shards |-> IF s \in Overdue THEN NoRecord ELSE mailbox[s]]
  /\ promised' = [s \in Shards |-> IF s \in Overdue THEN NoPromise ELSE promised[s]]
  /\ discarded' = discarded \cup UNION { QueuedIds(mailbox[s].msgs) : s \in Overdue }
  /\ UNCHANGED << expiry, calls, pc, job, alone >>

-----------------------------------------------------------------------------

\* The request begins as one of shard s.
StartAt(r, s) ==
  \/ \E secret \in Secrets, replicas \in Placements :
       CreateGet(r, s, secret, replicas)
  \/ SendGet(r, s)
  \/ \E secret \in Secrets, peek \in BOOLEAN : ReadGet(r, s, secret, peek)
  \/ \E c \in calls : c.to = s /\ ReplicateGet(r, c)
  \/ Refuse(r, s)

Next ==
  \/ \E r \in Requests : (\E s \in Shards : StartAt(r, s)) \/ Put(r) \/ Crash(r)
  \/ Tick

Spec == Init /\ [][Next]_vars

-----------------------------------------------------------------------------
(* Properties.                                                             *)

Completed(r, op, s) == pc[r] = "done" /\ job[r].op = op /\ job[r].shard = s

Holds(s, e) == mailbox[s] # NoRecord /\ InQueue(mailbox[s].msgs, e)

Returned(e, s) ==
  \E q \in Requests : Completed(q, "read", s) /\ InQueue(job[q].out, e)

(***************************************************************************)
(* handleSend's limit holds at every put of a mailbox without siblings,    *)
(* although the length it tests is that of a snapshot other requests may   *)
(* have overtaken (worker.js:510 tests, :518 writes).                      *)
(***************************************************************************)
Capacity ==
  \A s \in Shards : mailbox[s] # NoRecord => Len(mailbox[s].msgs) <= MaxMessages

(***************************************************************************)
(* The backlog clock runs exactly while something is queued: whichever     *)
(* snapshot is written last, a queue never waits without a TTL and an      *)
(* empty one is never cleared (messagesEnqueuedAt, worker.js:506-516).     *)
(***************************************************************************)
BacklogClock ==
  \A s \in Shards : mailbox[s] # NoRecord =>
    /\ mailbox[s].since = Never <=> mailbox[s].msgs = << >>
    /\ mailbox[s].since # Never => mailbox[s].since <= clock

(***************************************************************************)
(* An entry is queued at most once in a mailbox, however its replicate     *)
(* calls are repeated and raced (the id test of worker.js:745 is made on a *)
(* snapshot).                                                              *)
(***************************************************************************)
QueuedOnce ==
  \A s \in Shards : mailbox[s] # NoRecord =>
    \A i, j \in 1 .. Len(mailbox[s].msgs) :
      mailbox[s].msgs[i] = mailbox[s].msgs[j] => i = j

(***************************************************************************)
(* No mailbox holds, and no read returns, an entry whose /send did not     *)
(* complete: an entry is fanned out only after its own put, and a Worker   *)
(* that dies before the put leaves nothing behind (worker.js:518-525).     *)
(***************************************************************************)
SeenOnlyIfSent ==
  \A e \in Requests :
    (\E s \in Shards : Holds(s, e) \/ Returned(e, s))
      => pc[e] = "done" /\ job[e].op = "send"

(***************************************************************************)
(* Burn-after-read, for a read that overlapped no other request of its     *)
(* shard: what it returned is not in that mailbox again, whatever requests *)
(* follow and however those overlap.  (Entries sent to this shard: one     *)
(* that a sibling replicates may be delivered again.)                      *)
(***************************************************************************)
BurnedStaysBurned ==
  \A q, e \in Requests : \A s \in Shards :
    ( /\ Completed(q, "read", s) /\ alone[q]
      /\ InQueue(job[q].out, e) /\ Completed(e, "send", s) )
    => ~ Holds(s, e)

(***************************************************************************)
(* A /send that completed and overlapped no other request of its shard is  *)
(* not lost: the entry is queued until a read returns it or its backlog or *)
(* the mailbox expires, however later requests overlap.                    *)
(***************************************************************************)
AcceptedKept ==
  \A e \in Requests : \A s \in Shards :
    Completed(e, "send", s) /\ alone[e]
      => Holds(s, e) \/ Returned(e, s) \/ e \in discarded

(***************************************************************************)
(* The read secret of the last /create that completed, when it overlapped  *)
(* no other request of its shard, opens the mailbox: no later put of an    *)
(* older snapshot brings a former secret back.                             *)
(***************************************************************************)
SecretSticks ==
  \A s \in Shards :
    promised[s].alone /\ promised[s].secret # NoSecret
      => mailbox[s] # NoRecord /\ mailbox[s].secret = promised[s].secret

-----------------------------------------------------------------------------
(* What a request that overlaps no other does, as one step of Mailbox.     *)

(***************************************************************************)
(* The mailbox of a shard, seen as the abstract mailbox.                   *)
(***************************************************************************)
TheShard == CHOOSE s \in Shards : TRUE

Queue == IF mailbox[TheShard] = NoRecord THEN << >> ELSE mailbox[TheShard].msgs

Delivered == { e \in Requests : Returned(e, TheShard) }

Abstract == INSTANCE Mailbox WITH
  Entries   <- Requests,
  Capacity  <- MaxMessages,
  open      <- mailbox[TheShard] # NoRecord,
  queue     <- Queue,
  delivered <- Delivered,
  expired   <- discarded

(***************************************************************************)
(* The put of a request that overlapped no other request of the shard, and *)
(* no expiry of the record it read.                                        *)
(***************************************************************************)
Undisturbed(r) ==
  /\ alone[r]
  /\ \/ mailbox[job[r].shard] # NoRecord
     \/ job[r].op = "create" /\ job[r].write.msgs = << >>

(***************************************************************************)
(* Whatever has happened to the mailbox before, overlapping requests       *)
(* included, a request that overlaps none is a step of the abstract        *)
(* mailbox: it accepts one new entry at the end, delivers the whole queue, *)
(* looks, or creates; and between requests the mailbox only ever expires   *)
(* (the handlers of shard/worker.js, from their get to their put).         *)
(***************************************************************************)
SoloStepsImplementMailbox ==
  /\ Abstract!Init
  /\ [][ (\A r \in Requests : pc'[r] = "done" /\ pc[r] # "done" => Undisturbed(r))
           => [Abstract!Next]_(Abstract!vars) ]_vars

-----------------------------------------------------------------------------
(* What the documentation says without the proviso that requests do not    *)
(* overlap.  It is refuted.                                                *)

(***************************************************************************)
(* README.md:149: messages disappear because "they are burn-after-read, or *)
(* the backlog TTL expired", and for no other reason.                      *)
(***************************************************************************)
DisappearsOnlyWhenReadOrExpired ==
  \A e \in Requests : \A s \in Shards :
    Completed(e, "send", s) => Holds(s, e) \/ Returned(e, s) \/ e \in discarded

=============================================================================
