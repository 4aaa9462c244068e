--------------------------- MODULE ShardIdentity ---------------------------
(***************************************************************************)
(* The identity key of one shard and the key the Router lists for it       *)
(* (shard/worker.js 191-204, 244-291, 577-642 and 981-1056; router.js      *)
(* 644-715 and 798-870 as the shard sees them).                            *)
(*                                                                         *)
(* The key lives in the shard's KV and is generated by the first Worker    *)
(* that misses it.  Every request starts ensureSelfRegistered, which lists *)
(* the key with the Router unless a marker in KV says that this was done   *)
(* in the last twelve hours.  /admin/rotate_key replaces the key, removes  *)
(* the marker and tells the Router.  All of it is a sequence of awaits, so *)
(* tasks overlap; any of them may die, and calls to the Router may fail or *)
(* lose their answer.  Siblings take replicate calls only from the listed  *)
(* key.                                                                    *)
(*                                                                         *)
(* Keys are numbered in the order they are generated.  A task is under way  *)
(* as long as the shard or, for a call, the Router still works at it.       *)
(***************************************************************************)
EXTENDS Naturals

CONSTANTS
  Tasks,         \* Worker invocations under way at once (bound)
  MaxRotations,  \* bound on the calls of /admin/rotate_key
  MaxFailures    \* bound on the deaths of Workers and the lost calls

ASSUME MaxRotationsAssumption == MaxRotations \in Nat
ASSUME MaxFailuresAssumption  == MaxFailures \in Nat

VARIABLES
  identity,   \* KV "shard_identity": a key, or NoKey
  marker,     \* KV "shard_self_registration" is less than twelve hours old
  listed,     \* the pubkey of this shard in the Router's registered_shards
  made,       \* keys generated so far
  pc,         \* pc[t]: the await task t is at
  kind,       \* kind[t]: what task t is doing
  held,       \* held[t]: the key task t got from ensureShardIdentity
  fresh,      \* fresh[t]: the key a rotation generated
  rotations, failures,
  (* history *)
  alone,      \* alone[t]: no other task was under way together with t
  synced,     \* a task that was alone listed the key, none replaced it since
  retired     \* keys a rotation that was alone took off the Router's list

vars == << identity, marker, listed, made, pc, kind, held, fresh,
           rotations, failures, alone, synced, retired >>

NoKey == 0

Kinds == {"use", "register", "rotate"}

TypeOK ==
  /\ made \in Nat
  /\ identity \in 0 .. made
  /\ marker \in BOOLEAN
  /\ listed \in 0 .. made
  /\ pc \in [Tasks -> {"idle", "load", "store", "replace", "unmark",
                       "call", "permitted", "answered"}]
  /\ kind \in [Tasks -> Kinds]
  /\ held \in [Tasks -> 0 .. made]
  /\ fresh \in [Tasks -> 0 .. made]
  /\ rotations \in 0 .. MaxRotations
  /\ failures \in 0 .. MaxFailures
  /\ alone \in [Tasks -> BOOLEAN]
  /\ synced \in BOOLEAN
  /\ retired \in SUBSET (1 .. made)

Init ==
  /\ identity = NoKey
  /\ marker = FALSE
  /\ listed = NoKey
  /\ made = 0
  /\ pc = [t \in Tasks |-> "idle"]
  /\ kind = [t \in Tasks |-> "use"]
  /\ held = [t \in Tasks |-> NoKey]
  /\ fresh = [t \in Tasks |-> NoKey]
  /\ rotations = 0
  /\ failures = 0
  /\ alone = [t \in Tasks |-> TRUE]
  /\ synced = FALSE
  /\ retired = {}

-----------------------------------------------------------------------------

Busy == { t \in Tasks : pc[t] # "idle" }

Begin(t, what) ==
  /\ pc[t] = "idle"
  /\ pc' = [pc EXCEPT ![t] = "load"]
  /\ kind' = [kind EXCEPT ![t] = what]
  /\ alone' = [u \in Tasks |-> IF u = t THEN Busy = {}
                                        ELSE alone[u] /\ u \notin Busy]
  /\ UNCHANGED << identity, marker, listed, made, held, fresh, failures,
                  synced, retired >>

(***************************************************************************)
(* /server_hello, /admin/shard_info, a signed response or a fan-out needs  *)
(* the key.                                                                *)
(***************************************************************************)
BeginUse(t) == Begin(t, "use") /\ UNCHANGED rotations

EnsureSelfRegistered(t) ==
  /\ ~ marker
  /\ Begin(t, "register")
  /\ UNCHANGED rotations

\* /admin/register does not look at the marker.
AdminRegister(t) == Begin(t, "register") /\ UNCHANGED rotations

AdminRotateKey(t) ==
  /\ rotations < MaxRotations
  /\ Begin(t, "rotate")
  /\ rotations' = rotations + 1

-----------------------------------------------------------------------------
(* ensureShardIdentity                                                     *)

AfterIdentity(t) ==
  CASE kind[t] = "use"      -> "idle"
    [] kind[t] = "register" -> "call"
    [] kind[t] = "rotate"   -> "replace"

\* Mutated LoadIdentity: a Worker keeps the key it once loaded.
LoadMemoized(t) ==
  /\ pc[t] = "load"
  /\ identity # NoKey
  /\ held' = [held EXCEPT ![t] = IF @ = NoKey THEN identity ELSE @]
  /\ pc' = [pc EXCEPT ![t] = AfterIdentity(t)]
  /\ UNCHANGED << identity, marker, listed, made, kind, fresh, rotations,
                  failures, alone, synced, retired >>

LoadIdentity(t) ==
  /\ pc[t] = "load"
  /\ identity # NoKey
  /\ held' = [held EXCEPT ![t] = identity]
  /\ pc' = [pc EXCEPT ![t] = AfterIdentity(t)]
  /\ UNCHANGED << identity, marker, listed, made, kind, fresh, rotations,
                  failures, alone, synced, retired >>

\* Mutated GenerateIdentity: the key already in KV is not looked at.
GenerateAlways(t) ==
  /\ pc[t] = "load"
  /\ made' = made + 1
  /\ held' = [held EXCEPT ![t] = made + 1]
  /\ pc' = [pc EXCEPT ![t] = "store"]
  /\ UNCHANGED << identity, marker, listed, kind, fresh, rotations,
                  failures, alone, synced, retired >>

GenerateIdentity(t) ==
  /\ pc[t] = "load"
  /\ identity = NoKey
  /\ made' = made + 1
  /\ held' = [held EXCEPT ![t] = made + 1]
  /\ pc' = [pc EXCEPT ![t] = "store"]
  /\ UNCHANGED << identity, marker, listed, kind, fresh, rotations,
                  failures, alone, synced, retired >>

\* Mutated StoreIdentity: a number of the keypair other than the one made.
StoreNext(t) ==
  /\ pc[t] = "store"
  /\ identity' = held[t] + 1
  /\ pc' = [pc EXCEPT ![t] = AfterIdentity(t)]
  /\ UNCHANGED << marker, listed, made, kind, held, fresh, rotations,
                  failures, alone, synced, retired >>

StoreIdentity(t) ==
  /\ pc[t] = "store"
  /\ identity' = held[t]
  /\ pc' = [pc EXCEPT ![t] = AfterIdentity(t)]
  /\ UNCHANGED << marker, listed, made, kind, held, fresh, rotations,
                  failures, alone, synced, retired >>

-----------------------------------------------------------------------------
(* Registration: /register_shard, then the marker.                         *)

RegisterShard(t) ==
  /\ pc[t] = "call"
  /\ kind[t] = "register"
  /\ listed' = held[t]
  /\ pc' = [pc EXCEPT ![t] = "answered"]
  /\ UNCHANGED << identity, marker, made, kind, held, fresh, rotations,
                  failures, alone, synced, retired >>

Mark(t) ==
  /\ pc[t] = "answered"
  /\ marker' = TRUE
  /\ pc' = [pc EXCEPT ![t] = "idle"]
  /\ synced' = (synced \/ alone[t])
  /\ UNCHANGED << identity, listed, made, kind, held, fresh, rotations,
                  failures, alone, retired >>

\* SELF_REGISTER_MIN_INTERVAL_MS passes.
Lapse ==
  /\ marker
  /\ marker' = FALSE
  /\ UNCHANGED << identity, listed, made, pc, kind, held, fresh, rotations,
                  failures, alone, synced, retired >>

-----------------------------------------------------------------------------
(* Rotation: the new key is stored, the marker deleted, the Router told.   *)

ReplaceIdentity(t) ==
  /\ pc[t] = "replace"
  /\ made' = made + 1
  /\ fresh' = [fresh EXCEPT ![t] = made + 1]
  /\ identity' = made + 1
  /\ pc' = [pc EXCEPT ![t] = "unmark"]
  /\ synced' = FALSE
  /\ UNCHANGED << marker, listed, kind, held, rotations, failures, alone, retired >>

DeleteMarker(t) ==
  /\ pc[t] = "unmark"
  /\ marker' = FALSE
  /\ pc' = [pc EXCEPT ![t] = "call"]
  /\ UNCHANGED << identity, listed, made, kind, held, fresh, rotations,
                  failures, alone, synced, retired >>

(***************************************************************************)
(* /rotate_shard_key takes the rotation only from the key it lists.  The   *)
(* shard reports either answer and starts nothing over.                    *)
(***************************************************************************)
CheckRotation(t) ==
  /\ pc[t] = "call"
  /\ kind[t] = "rotate"
  /\ pc' = [pc EXCEPT ![t] = IF listed = held[t] THEN "permitted" ELSE "idle"]
  /\ UNCHANGED << identity, marker, listed, made, kind, held, fresh, rotations,
                  failures, alone, synced, retired >>

\* Mutated RotateShardKey: the record keeps the old key.
RotateToOldKey(t) ==
  /\ pc[t] = "permitted"
  /\ listed' = held[t]
  /\ pc' = [pc EXCEPT ![t] = "idle"]
  /\ synced' = (synced \/ alone[t])
  /\ retired' = IF alone[t] THEN retired \cup {held[t]} ELSE retired
  /\ UNCHANGED << identity, marker, made, kind, held, fresh, rotations,
                  failures, alone >>

RotateShardKey(t) ==
  /\ pc[t] = "permitted"
  /\ listed' = fresh[t]
  /\ pc' = [pc EXCEPT ![t] = "idle"]
  /\ synced' = (synced \/ alone[t])
  /\ retired' = IF alone[t] THEN retired \cup {held[t]} ELSE retired
  /\ UNCHANGED << identity, marker, made, kind, held, fresh, rotations,
                  failures, alone >>

-----------------------------------------------------------------------------
(* Failures.                                                               *)

Fail(t) ==
  /\ failures < MaxFailures
  /\ failures' = failures + 1
  /\ pc' = [pc EXCEPT ![t] = "idle"]
  /\ UNCHANGED << identity, marker, made, kind, held, fresh, rotations, alone,
                  synced, retired >>

(***************************************************************************)
(* A Worker dies at any await, or the Router cannot be reached or refuses. *)
(***************************************************************************)
Crash(t) ==
  /\ pc[t] # "idle"
  /\ Fail(t)
  /\ UNCHANGED listed

\* The Router lists the key, and its answer comes too late or never.
LoseAnswer(t) ==
  /\ pc[t] = "call"
  /\ kind[t] = "register"
  /\ Fail(t)
  /\ listed' = held[t]

-----------------------------------------------------------------------------

Advance(t) ==
  \/ LoadIdentity(t)
  \/ GenerateIdentity(t)
  \/ StoreIdentity(t)
  \/ RegisterShard(t)
  \/ Mark(t)
  \/ ReplaceIdentity(t)
  \/ DeleteMarker(t)
  \/ CheckRotation(t)
  \/ RotateShardKey(t)

Next ==
  \/ \E t \in Tasks :
       \/ BeginUse(t)
       \/ EnsureSelfRegistered(t)
       \/ AdminRegister(t)
       \/ AdminRotateKey(t)
       \/ Advance(t)
       \/ Crash(t)
       \/ LoseAnswer(t)
  \/ Lapse

(***************************************************************************)
(* A task under way goes on; the marker ages; and as every request and     *)
(* every cron tick starts ensureSelfRegistered, it is started again and    *)
(* again even if other tasks keep the slots of this model busy in between. *)
(***************************************************************************)
Fairness ==
  /\ \A t \in Tasks : WF_vars(Advance(t)) /\ SF_vars(EnsureSelfRegistered(t))
  /\ WF_vars(Lapse)

Spec == Init /\ [][Next]_vars /\ Fairness

-----------------------------------------------------------------------------

(***************************************************************************)
(* Once a registration or rotation that overlapped no other task has been  *)
(* taken by the Router, the key listed there is the key of the shard until *)
(* the next rotation, whatever overlaps, dies or is repeated meanwhile.    *)
(***************************************************************************)
SyncedSticks == synced => identity # NoKey /\ listed = identity

(***************************************************************************)
(* A key that a rotation which overlapped nothing took off the list is     *)
(* neither listed nor used again (worker.js:978, "the old key is retired").*)
(***************************************************************************)
RetiredForGood == listed \notin retired /\ identity \notin retired

(***************************************************************************)
(* However the first tasks race, rotations overlap registrations, Workers  *)
(* die and answers are lost: after the last failure and the last rotation, *)
(* the Router comes to list the key of the shard, and keeps it.            *)
(***************************************************************************)
Converges == <>[](identity # NoKey /\ listed = identity)

=============================================================================
