------------------------- MODULE CombinedPlacement -------------------------
(***************************************************************************)
(* /register and /resolve of a Router that may be a shard of its own mesh  *)
(* (combined/worker.js 293-470), on top of Placement.                      *)
(*                                                                         *)
(* The Combined Worker does not fetch its own URL.  The mailbox on the     *)
(* shard it is itself is created, and looked for, by calls of a function   *)
(* within the request (localCreate, existsOnReplica), which take no time   *)
(* limit, meet no rate limit, and do not catch what KV throws: then the    *)
(* whole request answers 500, while the calls of /create it has sent to    *)
(* other shards go on.                                                     *)
(*                                                                         *)
(* Its URL is one of SHARD_URLS here, or it is a Router alone (NoHome),    *)
(* whose calls then all are of Placement.                                  *)
(***************************************************************************)
EXTENDS Placement

CONSTANTS
  Homes,    \* which shard the Worker may itself be
  NoHome    \* none: a Router alone

ASSUME HomesAssumption ==
  Homes \subseteq Shards \cup {NoHome} /\ NoHome \notin Shards

VARIABLES
  home,     \* index of SELF_URL in SHARD_URLS
  (* history *)
  mine      \* when the walk began, the mailbox was on an asked-for shard: home

combinedVars == << vars, home, mine >>

CombinedTypeOK == TypeOK /\ home \in Homes /\ mine \in BOOLEAN

CombinedInit ==
  /\ Init
  /\ home \in Homes
  /\ mine = FALSE

-----------------------------------------------------------------------------
(* createOnReplica                                                         *)

(***************************************************************************)
(* Another shard: as a Router alone.                                       *)
(***************************************************************************)
CreateOnReplica(c) ==
  /\ c.to # home
  /\ Create(c) \/ FailCreate(c) \/ TimeOut(c)

(***************************************************************************)
(* A new record, or the secret and the siblings of an existing one         *)
(* replaced.  The capability has just been signed with the Worker's own    *)
(* key, so localCreate does not refuse.                                    *)
(***************************************************************************)
LocalCreate(c) ==
  /\ c.to = home
  /\ Create(c)

\* Mutated LocalCreateThrows: caught, like a fetch that fails, and granted.
LocalCreateCaught(c) ==
  /\ c \in creates
  /\ c.to = home
  /\ creates' = creates \ {c}
  /\ Answer(c, TRUE)
  /\ UNCHANGED << point, count, prior, record, secrets, cap, walk, sole,
                  tried >>

(***************************************************************************)
(* KV throws before the record is stored, or the Worker dies with its      *)
(* request: Promise.all rejects, the owner gets a 500, and nobody waits    *)
(* for the other calls any more.                                           *)
(***************************************************************************)
LocalCreateThrows(c) ==
  /\ c \in creates
  /\ c.to = home
  /\ creates' = creates \ {c}
  /\ req' = [ q \in Requests |-> IF Waits(q, c) THEN NoReq ELSE req[q] ]
  /\ UNCHANGED << point, count, prior, record, secrets, cap, walk, sole,
                  tried >>

HandleRegister(q) == Register(q) \/ Grant(q) \/ Deny(q)

-----------------------------------------------------------------------------
(* /resolve                                                                *)

HandleResolve ==
  /\ BeginResolve
  /\ mine' = \E n \in EraCounts(count) :
                Primary(n) = home /\ record[home] # NoRecord

\* Mutated ExistsOnReplica: a KV error at home taken for "no mailbox".
ExistsOnReplicaCaught == FindMailbox \/ NextEra \/ FailProbe

\* The outcomes of asking the primary of the largest era left.
ExistsOnReplica == FindMailbox \/ NextEra \/ (FailProbe /\ Probed # home)

\* The get of the own record throws: 500.
LocalProbeThrows ==
  /\ walk.eras # {}
  /\ Probed = home
  /\ walk' = NoWalk
  /\ UNCHANGED << point, count, prior, record, creates, req, secrets, cap,
                  sole, tried >>

-----------------------------------------------------------------------------

CombinedNext ==
  \/ /\ \/ AddShard
        \/ \E n \in Counts : RecordPriorCount(n)
        \/ \E q \in Requests : HandleRegister(q)
        \/ \E c \in creates :
             CreateOnReplica(c) \/ LocalCreate(c) \/ LocalCreateThrows(c)
        \/ \E s, to \in Shards : Replicate(s, to)
        \/ ExistsOnReplica
        \/ LocalProbeThrows
        \/ NoteMissing
     /\ UNCHANGED << home, mine >>
  \/ /\ HandleResolve
     /\ UNCHANGED home

CombinedSpec == CombinedInit /\ [][CombinedNext]_combinedVars

-----------------------------------------------------------------------------

(***************************************************************************)
(* A mailbox that the Worker itself holds, as the primary of an era that   *)
(* /resolve walks through, is never reported missing, whatever happens to  *)
(* the probes of other shards meanwhile: existsOnReplica of the own URL    *)
(* answers from KV or fails the request (combined/worker.js:423-425).      *)
(***************************************************************************)
LocalFound == [][ NoteMissing => ~ mine ]_combinedVars

=============================================================================
