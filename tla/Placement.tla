----------------------------- MODULE Placement -----------------------------
(***************************************************************************)
(* Where the mailbox of one owner lives, and where the Router looks for it *)
(* (router/router.js 156-168, 205-218, 432-535, 551-596).                  *)
(*                                                                         *)
(* Shards are numbered by their index in SHARD_URLS, which is append-only; *)
(* the mailbox of a key belongs to the shards at hashPoint % N and after.  *)
(* /register creates it, with a new read secret, on the shards of the      *)
(* present N by parallel calls that fail, answer too late, or are served   *)
(* after the Router gave up on them.  /resolve asks the primaries of all   *)
(* known N, from the largest down.  The mesh grows meanwhile, by the       *)
(* operator or by shards that register themselves, and the former N is     *)
(* recorded in PRIOR_SHARD_COUNTS, later or never.                         *)
(*                                                                         *)
(* What a mailbox holds is the business of ShardMailbox; here a record is  *)
(* the secret that opens it and the siblings its messages are copied to.   *)
(* Records do not expire here.                                             *)
(***************************************************************************)
EXTENDS Naturals, Sequences, FiniteSets, FiniteSetsExt, Functions

CONSTANTS
  Points,      \* values of hashPoint(pubkey)
  FirstCount,  \* shards at the beginning
  MaxCount,    \* bound on the shards
  Factor,      \* REPLICATION_FACTOR
  Requests,    \* calls of /register under way at once (bound)
  MaxSecrets   \* bound on the calls of /register

ASSUME PointsAssumption == Points \subseteq Nat
ASSUME CountAssumption  == FirstCount \in 1 .. MaxCount /\ MaxCount \in Nat
ASSUME FactorAssumption == Factor \in Nat
ASSUME SecretsAssumption == MaxSecrets \in Nat

VARIABLES
  point,     \* hashPoint of the owner's key
  count,     \* length of the merged SHARD_URLS
  prior,     \* PRIOR_SHARD_COUNTS
  record,    \* record[s]: [secret, replicas] of the mailbox on shard s, or NoRecord
  creates,   \* calls of /create no shard has served yet
  req,       \* req[q]: a call of /register under way, or NoReq
  secrets,   \* read secrets minted so far
  cap,       \* the capability the owner holds, or NoCap
  walk,      \* a call of /resolve under way, or NoWalk
  (* history *)
  sole,      \* cap is of a /register that overlapped no other and no late /create
  tried      \* the N under which /register was ever called

vars == << point, count, prior, record, creates, req, secrets, cap, walk, sole, tried >>

Shards  == 0 .. (MaxCount - 1)
Counts  == 1 .. MaxCount
Secrets == 1 .. MaxSecrets
Shell   == 0     \* of a mailbox that a replicate call made: nothing opens it

NoRecord == [ secret |-> Shell, replicas |-> << >> ]
NoReq    == [ secret |-> 0, era |-> 0, waiting |-> {}, ok |-> {}, clean |-> FALSE ]
NoCap    == [ secret |-> 0, shard |-> 0, era |-> 0 ]
NoWalk   == [ eras |-> {}, known |-> 0, sound |-> FALSE ]

-----------------------------------------------------------------------------
(* Placement                                                               *)

ReplicationFactor(n) == Max({1, Min({Factor, n})})

\* Mutated Ring: it does not wrap around.
RingCut(n) ==
  [ i \in 1 .. ReplicationFactor(n) |-> Min({(point % n) + i - 1, n - 1}) ]

Ring(n) == [ i \in 1 .. ReplicationFactor(n) |-> ((point % n) + i - 1) % n ]

Primary(n) == Ring(n)[1]

\* Mutated EraCounts: the present N only.
EraCountsNow(n) == {n}

EraCounts(n) == {n} \cup { m \in prior : 0 < m /\ m <= n }

-----------------------------------------------------------------------------

TypeOK ==
  /\ point \in Points
  /\ count \in FirstCount .. MaxCount
  /\ prior \subseteq Counts
  /\ \A s \in Shards :
       /\ record[s].secret \in Secrets \cup {Shell}
       /\ record[s] # NoRecord =>
            s \in Range(record[s].replicas) /\ IsInjective(record[s].replicas)
  /\ creates \subseteq [to : Shards, secret : Secrets, era : Counts]
  /\ \A q \in Requests :
       req[q] # NoReq => /\ req[q].secret \in 1 .. secrets
                         /\ req[q].era \in tried
                         /\ req[q].waiting \cap req[q].ok = {}
                         /\ req[q].waiting \cup req[q].ok \subseteq Range(Ring(req[q].era))
  /\ secrets \in 0 .. MaxSecrets
  /\ cap = NoCap \/ (cap.secret \in 1 .. secrets /\ cap.shard = Primary(cap.era))
  /\ walk.eras \subseteq Counts
  /\ sole \in BOOLEAN
  /\ tried \subseteq FirstCount .. count

Init ==
  /\ point \in Points
  /\ count = FirstCount
  /\ prior = {}
  /\ record = [s \in Shards |-> NoRecord]
  /\ creates = {}
  /\ req = [q \in Requests |-> NoReq]
  /\ secrets = 0
  /\ cap = NoCap
  /\ walk = NoWalk
  /\ sole = FALSE
  /\ tried = {}

-----------------------------------------------------------------------------
(* The mesh                                                                *)

\* The operator appends to SHARD_URLS, or a shard registers itself.
AddShard ==
  /\ count < MaxCount
  /\ count' = count + 1
  /\ UNCHANGED << point, prior, record, creates, req, secrets, cap, walk, sole, tried >>

\* Only the operator does this, in a step of his own.
RecordPriorCount(n) ==
  /\ n \in FirstCount .. (count - 1)
  /\ prior' = prior \cup {n}
  /\ UNCHANGED << point, count, record, creates, req, secrets, cap, walk, sole, tried >>

-----------------------------------------------------------------------------
(* /register                                                               *)

Register(q) ==
  /\ req[q] = NoReq
  /\ secrets < MaxSecrets
  /\ secrets' = secrets + 1
  /\ creates' = creates \cup
       { [to |-> s, secret |-> secrets', era |-> count] : s \in Range(Ring(count)) }
  /\ req' = [ r \in Requests |->
       IF r = q
         THEN [ secret  |-> secrets', era |-> count, waiting |-> Range(Ring(count)),
                ok      |-> {},
                clean   |-> creates = {} /\ \A o \in Requests : req[o] = NoReq ]
         ELSE IF req[r] = NoReq THEN NoReq ELSE [req[r] EXCEPT !.clean = FALSE] ]
  /\ sole' = FALSE
  /\ tried' = tried \cup {count}
  /\ UNCHANGED << point, count, prior, record, cap, walk >>

Waits(q, c) == req[q].secret = c.secret /\ c.to \in req[q].waiting

\* The Router's call c has ended, well or not.
Answer(c, well) ==
  req' = [ q \in Requests |->
    IF Waits(q, c)
      THEN [ req[q] EXCEPT !.waiting = @ \ {c.to},
                           !.ok = IF well THEN @ \cup {c.to} ELSE @ ]
      ELSE req[q] ]

(***************************************************************************)
(* handleCreate of a shard.  An answer that gets lost is a call that is    *)
(* served after the Router gave up.                                        *)
(***************************************************************************)
Create(c) ==
  /\ c \in creates
  /\ creates' = creates \ {c}
  /\ record' = [record EXCEPT ![c.to] = [ secret |-> c.secret, replicas |-> Ring(c.era) ]]
  /\ Answer(c, TRUE)
  /\ UNCHANGED << point, count, prior, secrets, cap, walk, sole, tried >>

\* The shard cannot be reached, or refuses.
FailCreate(c) ==
  /\ c \in creates
  /\ creates' = creates \ {c}
  /\ Answer(c, FALSE)
  /\ UNCHANGED << point, count, prior, record, secrets, cap, walk, sole, tried >>

\* The Router gives up after ten seconds; the call goes on.
TimeOut(c) ==
  /\ c \in creates
  /\ \E q \in Requests : Waits(q, c)
  /\ Answer(c, FALSE)
  /\ UNCHANGED << point, count, prior, record, creates, secrets, cap, walk, sole, tried >>

(***************************************************************************)
(* All calls have ended and the primary's ended well: the owner gets the   *)
(* secret, and keeps it in place of the former one.                        *)
(***************************************************************************)
Grant(q) ==
  /\ req[q] # NoReq
  /\ req[q].waiting = {}
  /\ Primary(req[q].era) \in req[q].ok
  /\ cap' = [ secret |-> req[q].secret, shard |-> Primary(req[q].era), era |-> req[q].era ]
  /\ sole' = req[q].clean
  /\ req' = [req EXCEPT ![q] = NoReq]
  /\ UNCHANGED << point, count, prior, record, creates, secrets, walk, tried >>

\* 502, or an answer that never reaches the owner, or a Router that dies.
Deny(q) ==
  /\ req[q] # NoReq
  /\ req' = [req EXCEPT ![q] = NoReq]
  /\ UNCHANGED << point, count, prior, record, creates, secrets, cap, walk, sole, tried >>

\* Mutated Replicate: the shell does not learn its siblings.
ReplicateAlone(s, to) ==
  /\ record[s] # NoRecord
  /\ to \in Range(record[s].replicas)
  /\ record[to] = NoRecord
  /\ record' = [record EXCEPT ![to] = [ secret |-> Shell, replicas |-> << to >> ]]
  /\ UNCHANGED << point, count, prior, creates, req, secrets, cap, walk, sole, tried >>

(***************************************************************************)
(* A message reaches shard s, and the copy sent to its sibling to finds    *)
(* no mailbox there and makes a shell of one (handleReplicate).            *)
(***************************************************************************)
Replicate(s, to) ==
  /\ record[s] # NoRecord
  /\ to \in Range(record[s].replicas)
  /\ record[to] = NoRecord
  /\ record' = [record EXCEPT ![to] = [ secret |-> Shell, replicas |-> record[s].replicas ]]
  /\ UNCHANGED << point, count, prior, creates, req, secrets, cap, walk, sole, tried >>

-----------------------------------------------------------------------------
(* /resolve                                                                *)

(***************************************************************************)
(* known (history): the secret the owner holds, if the N of its capability *)
(* is among the eras to be asked for.                                      *)
(***************************************************************************)
BeginResolve ==
  /\ walk = NoWalk
  /\ walk' = [ eras |-> EraCounts(count), sound |-> TRUE,
               known |-> IF cap # NoCap /\ cap.era \in prior \cup {count} THEN cap.secret ELSE 0 ]
  /\ UNCHANGED << point, count, prior, record, creates, req, secrets, cap, sole, tried >>

Probed == Primary(Max(walk.eras))

FindMailbox ==
  /\ walk.eras # {}
  /\ record[Probed] # NoRecord
  /\ walk' = NoWalk
  /\ UNCHANGED << point, count, prior, record, creates, req, secrets, cap, sole, tried >>

\* /exists answers 404.
NextEra ==
  /\ walk.eras # {}
  /\ record[Probed] = NoRecord
  /\ walk' = [walk EXCEPT !.eras = @ \ {Max(@)}]
  /\ UNCHANGED << point, count, prior, record, creates, req, secrets, cap, sole, tried >>

\* The shard is down or too slow, or refuses the probe.
FailProbe ==
  /\ walk.eras # {}
  /\ walk' = [walk EXCEPT !.eras = @ \ {Max(@)}, !.sound = FALSE]
  /\ UNCHANGED << point, count, prior, record, creates, req, secrets, cap, sole, tried >>

\* "mailbox not confirmed to exist yet on any known era"
NoteMissing ==
  /\ walk # NoWalk
  /\ walk.eras = {}
  /\ walk' = NoWalk
  /\ UNCHANGED << point, count, prior, record, creates, req, secrets, cap, sole, tried >>

-----------------------------------------------------------------------------

Next ==
  \/ AddShard
  \/ \E n \in Counts : RecordPriorCount(n)
  \/ \E q \in Requests : Register(q) \/ Grant(q) \/ Deny(q)
  \/ \E c \in creates : Create(c) \/ FailCreate(c) \/ TimeOut(c)
  \/ \E s, to \in Shards : Replicate(s, to)
  \/ BeginResolve \/ FindMailbox \/ NextEra \/ FailProbe \/ NoteMissing

Spec == Init /\ [][Next]_vars

-----------------------------------------------------------------------------

(***************************************************************************)
(* README.md:227, "Safe to repeat": the capability of a /register that     *)
(* overlapped no other, and that no /create of an earlier one was still    *)
(* out for, opens the mailbox on the shard it names until the owner        *)
(* registers again: late calls, shells and growth do not change that.      *)
(***************************************************************************)
OwnerOpens == sole => record[cap.shard].secret = cap.secret

(***************************************************************************)
(* README.md:260: once the former shard counts are recorded, a /resolve    *)
(* that no failed probe misled does not tell the sender that a registered  *)
(* owner is not registered, however often the mesh has grown.              *)
(***************************************************************************)
Findable == [][ NoteMissing /\ walk.sound => walk.known = 0 ]_vars

(***************************************************************************)
(* If the owner never registered under two different shard counts, any     *)
(* shard /resolve finds for a sender, a failed probe or a shell included,  *)
(* is the owner's shard or copies to it.                                   *)
(***************************************************************************)
ReachesOwner ==
  [][ FindMailbox /\ cap # NoCap /\ tried = {cap.era}
        => cap.shard \in Range(record[Probed].replicas) ]_vars

(***************************************************************************)
(* README.md:260, "Set PRIOR_SHARD_COUNTS on the router so it can still    *)
(* find mailboxes created under the old shard count": with every former    *)
(* count recorded and no probe failing, /resolve finds a shard that is the *)
(* owner's or copies to it.                                                *)
(***************************************************************************)
FindsLatest ==
  [][ FindMailbox /\ walk.sound /\ sole /\ walk.known = cap.secret
        /\ tried \subseteq prior \cup {count}
        => cap.shard \in Range(record[Probed].replicas) ]_vars

=============================================================================
