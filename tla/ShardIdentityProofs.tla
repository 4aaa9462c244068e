------------------------ MODULE ShardIdentityProofs ------------------------
(***************************************************************************)
(* SyncedSticks and RetiredForGood for any number of tasks, rotations and  *)
(* failures.                                                               *)
(*                                                                         *)
(* A task carries the key it loaded, and a rotation the key it made, while *)
(* others replace the one in KV.  The invariant says which keys a task may *)
(* still write, and that a task which is alone carries the current one.    *)
(***************************************************************************)
EXTENDS ShardIdentity, TLAPS

(***************************************************************************)
(* A rotation that has replaced the key and not finished.                  *)
(***************************************************************************)
Rotating(t) ==
  pc[t] \in {"unmark", "permitted"} \/ (pc[t] = "call" /\ kind[t] = "rotate")

(***************************************************************************)
(* Past ensureShardIdentity a task has a key, and KV holds one.            *)
(***************************************************************************)
KeyInv ==
  \A t \in Tasks :
    /\ pc[t] \notin {"idle", "load"} => held[t] # NoKey
    /\ pc[t] \notin {"idle", "load", "store"} => identity # NoKey
    /\ Rotating(t) => fresh[t] # NoKey
    /\ pc[t] \in {"replace", "unmark"} => kind[t] = "rotate"

(***************************************************************************)
(* A task that is alone knows of no other.                                 *)
(***************************************************************************)
AloneInv ==
  \A t, u \in Tasks : alone[t] /\ pc[t] # "idle" /\ u # t => pc[u] = "idle"

(***************************************************************************)
(* A registration that is alone carries the key in KV, and has it listed   *)
(* when it is answered; a rotation that is alone made the key in KV.       *)
(***************************************************************************)
SoloInv ==
  \A t \in Tasks : alone[t] =>
    /\ pc[t] = "call" /\ ~ Rotating(t) => identity = held[t]
    /\ pc[t] = "answered" => identity = held[t] /\ listed = held[t]
    /\ Rotating(t) => identity = fresh[t] /\ held[t] # fresh[t]

(***************************************************************************)
(* While the listed key is that of the shard, no task is about to list or  *)
(* store another one.                                                      *)
(***************************************************************************)
SyncedInv ==
  synced =>
    /\ identity # NoKey
    /\ listed = identity
    /\ \A t \in Tasks :
         /\ pc[t] # "store"
         /\ ~ Rotating(t)
         /\ pc[t] = "call" => held[t] = identity

(***************************************************************************)
(* No task carries a retired key.                                          *)
(***************************************************************************)
RetiredInv ==
  /\ identity \notin retired
  /\ listed \notin retired
  /\ \A t \in Tasks :
       /\ pc[t] \notin {"idle", "load"} => held[t] \notin retired
       /\ Rotating(t) => fresh[t] \notin retired

-----------------------------------------------------------------------------
(***************************************************************************)
(* The steps, the ways of beginning a task taken together.                 *)
(***************************************************************************)
LEMMA StepCases ==
  ASSUME [Next]_vars
  PROVE  \/ \E t \in Tasks :
              \/ \E what \in Kinds : Begin(t, what)
              \/ LoadIdentity(t) \/ GenerateIdentity(t) \/ StoreIdentity(t)
              \/ RegisterShard(t) \/ Mark(t)
              \/ ReplaceIdentity(t) \/ DeleteMarker(t)
              \/ CheckRotation(t) \/ RotateShardKey(t)
              \/ Crash(t) \/ LoseAnswer(t)
         \/ Lapse
         \/ UNCHANGED vars
  BY DEF Next, Advance, BeginUse, EnsureSelfRegistered, AdminRegister,
         AdminRotateKey, Kinds

LEMMA AfterIdentityCases ==
  ASSUME TypeOK, NEW t \in Tasks
  PROVE  AfterIdentity(t) = IF kind[t] = "use" THEN "idle"
                            ELSE IF kind[t] = "register" THEN "call" ELSE "replace"
  BY DEF TypeOK, Kinds, AfterIdentity

(***************************************************************************)
(* Every key in use was generated before.                                  *)
(***************************************************************************)
LEMMA InitTypeOK == Init => TypeOK
<1> SUFFICES ASSUME Init PROVE TypeOK
  OBVIOUS
<1>1. 0 \in 0 .. MaxRotations /\ 0 \in 0 .. MaxFailures
  BY MaxRotationsAssumption, MaxFailuresAssumption
<1>2. 0 \in 0 .. made /\ {} \in SUBSET (1 .. made) /\ made \in Nat
  BY DEF Init
<1> QED
  BY <1>1, <1>2 DEF Init, TypeOK, NoKey, Kinds

LEMMA RotationsBounded ==
  TypeOK /\ [Next]_vars => rotations' \in 0 .. MaxRotations /\ failures' \in 0 .. MaxFailures
<1> SUFFICES ASSUME TypeOK, [Next]_vars
             PROVE  rotations' \in 0 .. MaxRotations /\ failures' \in 0 .. MaxFailures
  OBVIOUS
<1> USE MaxRotationsAssumption, MaxFailuresAssumption DEF TypeOK
<1>1. CASE UNCHANGED vars
  BY <1>1 DEF vars
<1>2. CASE Lapse
  BY <1>2 DEF Lapse
<1>3. ASSUME NEW t \in Tasks, Crash(t) \/ LoseAnswer(t)
      PROVE  rotations' \in 0 .. MaxRotations /\ failures' \in 0 .. MaxFailures
  BY <1>3 DEF Crash, LoseAnswer, Fail
<1>4. ASSUME NEW t \in Tasks, AdminRotateKey(t)
      PROVE  rotations' \in 0 .. MaxRotations /\ failures' \in 0 .. MaxFailures
  BY <1>4 DEF AdminRotateKey, Begin
<1>5. ASSUME NEW t \in Tasks,
             BeginUse(t) \/ EnsureSelfRegistered(t) \/ AdminRegister(t) \/ Advance(t)
      PROVE  rotations' \in 0 .. MaxRotations /\ failures' \in 0 .. MaxFailures
  BY <1>5 DEF BeginUse, EnsureSelfRegistered, AdminRegister, Begin, Advance,
     LoadIdentity, GenerateIdentity, StoreIdentity, RegisterShard, Mark,
     ReplaceIdentity, DeleteMarker, CheckRotation, RotateShardKey
<1> QED
  BY <1>1, <1>2, <1>3, <1>4, <1>5 DEF Next

(***************************************************************************)
(* A step keeps the types.                                                 *)
(***************************************************************************)
LEMMA NextTypeOK ==
  TypeOK /\ KeyInv /\ [Next]_vars => TypeOK'
<1> SUFFICES ASSUME TypeOK, KeyInv, [Next]_vars PROVE TypeOK'
  OBVIOUS
<1> USE RotationsBounded DEF TypeOK, KeyInv, Rotating, NoKey, Kinds
<1>1. ASSUME NEW t \in Tasks, NEW what \in Kinds, Begin(t, what) PROVE TypeOK'
  BY <1>1 DEF Begin, Busy
<1>2. ASSUME NEW t \in Tasks, LoadIdentity(t) PROVE TypeOK'
  BY <1>2, AfterIdentityCases DEF LoadIdentity
<1>3. ASSUME NEW t \in Tasks, GenerateIdentity(t) PROVE TypeOK'
  BY <1>3 DEF GenerateIdentity
<1>4. ASSUME NEW t \in Tasks, StoreIdentity(t) PROVE TypeOK'
  BY <1>4, AfterIdentityCases DEF StoreIdentity
<1>5. ASSUME NEW t \in Tasks, RegisterShard(t) PROVE TypeOK'
  BY <1>5 DEF RegisterShard
<1>6. ASSUME NEW t \in Tasks, Mark(t) PROVE TypeOK'
  BY <1>6 DEF Mark
<1>7. CASE Lapse
  BY <1>7 DEF Lapse
<1>8. ASSUME NEW t \in Tasks, ReplaceIdentity(t) PROVE TypeOK'
  <2>1. made' = made + 1 /\ made' \in Nat
    BY <1>8 DEF ReplaceIdentity
  <2>2. 0 .. made \subseteq 0 .. made' /\ made' \in 0 .. made'
    BY <2>1
  <2>3. retired' \in SUBSET (1 .. made')
    BY <1>8, <2>1 DEF ReplaceIdentity
  <2>4. /\ identity' \in 0 .. made'
        /\ listed' \in 0 .. made'
        /\ held' \in [Tasks -> 0 .. made']
        /\ fresh' \in [Tasks -> 0 .. made']
    BY <1>8, <2>1, <2>2 DEF ReplaceIdentity
  <2> QED
    BY <1>8, <2>1, <2>3, <2>4 DEF ReplaceIdentity
<1>9. ASSUME NEW t \in Tasks, DeleteMarker(t) PROVE TypeOK'
  BY <1>9 DEF DeleteMarker
<1>10. ASSUME NEW t \in Tasks, CheckRotation(t) PROVE TypeOK'
  BY <1>10 DEF CheckRotation
<1>11. ASSUME NEW t \in Tasks, RotateShardKey(t) PROVE TypeOK'
  <2>1. pc[t] = "permitted" /\ made' = made
    BY <1>11 DEF RotateShardKey
  <2>2. held[t] \in 0 .. made /\ held[t] # 0
    BY <2>1
  <2>3. held[t] \in 1 .. made
    BY <2>2
  <2>4. retired' \in SUBSET (1 .. made')
    BY <1>11, <2>1, <2>3 DEF RotateShardKey
  <2> QED
    BY <1>11, <2>1, <2>4 DEF RotateShardKey
<1>12. ASSUME NEW t \in Tasks, Crash(t) PROVE TypeOK'
  BY <1>12 DEF Crash, Fail
<1>13. ASSUME NEW t \in Tasks, LoseAnswer(t) PROVE TypeOK'
  BY <1>13 DEF LoseAnswer, Fail
<1>14. CASE UNCHANGED vars
  BY <1>14 DEF vars
<1> QED
  BY <1>1, <1>2, <1>3, <1>4, <1>5, <1>6, <1>7, <1>8, <1>9, <1>10, <1>11, <1>12, <1>13, <1>14,
     StepCases

(***************************************************************************)
(* What a task carries past ensureShardIdentity is a key.                  *)
(***************************************************************************)
LEMMA KeyStep ==
  TypeOK /\ KeyInv /\ [Next]_vars => KeyInv'
<1> SUFFICES ASSUME TypeOK, KeyInv, [Next]_vars PROVE KeyInv'
  OBVIOUS
<1> USE DEF TypeOK, KeyInv, Rotating, NoKey, Kinds
<1>1. ASSUME NEW t \in Tasks, NEW what \in Kinds, Begin(t, what) PROVE KeyInv'
  BY <1>1 DEF Begin, Busy
<1>2. ASSUME NEW t \in Tasks, LoadIdentity(t) PROVE KeyInv'
  <2>1. AfterIdentity(t) \in {"idle", "call", "replace"}
        /\ (AfterIdentity(t) = "replace" => kind[t] = "rotate")
        /\ (AfterIdentity(t) = "call" => kind[t] # "rotate")
    BY AfterIdentityCases
  <2> QED
    BY <1>2, <2>1 DEF LoadIdentity
<1>3. ASSUME NEW t \in Tasks, GenerateIdentity(t) PROVE KeyInv'
  BY <1>3 DEF GenerateIdentity
<1>4. ASSUME NEW t \in Tasks, StoreIdentity(t) PROVE KeyInv'
  <2>1. AfterIdentity(t) \in {"idle", "call", "replace"}
        /\ (AfterIdentity(t) = "replace" => kind[t] = "rotate")
        /\ (AfterIdentity(t) = "call" => kind[t] # "rotate")
    BY AfterIdentityCases
  <2> QED
    BY <1>4, <2>1 DEF StoreIdentity
<1>5. ASSUME NEW t \in Tasks, RegisterShard(t) PROVE KeyInv'
  BY <1>5 DEF RegisterShard
<1>6. ASSUME NEW t \in Tasks, Mark(t) PROVE KeyInv'
  BY <1>6 DEF Mark
<1>7. CASE Lapse
  BY <1>7 DEF Lapse
<1>8. ASSUME NEW t \in Tasks, ReplaceIdentity(t) PROVE KeyInv'
  BY <1>8 DEF ReplaceIdentity
<1>9. ASSUME NEW t \in Tasks, DeleteMarker(t) PROVE KeyInv'
  BY <1>9 DEF DeleteMarker
<1>10. ASSUME NEW t \in Tasks, CheckRotation(t) PROVE KeyInv'
  BY <1>10 DEF CheckRotation
<1>11. ASSUME NEW t \in Tasks, RotateShardKey(t) PROVE KeyInv'
  BY <1>11 DEF RotateShardKey
<1>12. ASSUME NEW t \in Tasks, Crash(t) PROVE KeyInv'
  BY <1>12 DEF Crash, Fail
<1>13. ASSUME NEW t \in Tasks, LoseAnswer(t) PROVE KeyInv'
  BY <1>13 DEF LoseAnswer, Fail
<1>14. CASE UNCHANGED vars
  BY <1>14 DEF vars
<1> QED
  BY <1>1, <1>2, <1>3, <1>4, <1>5, <1>6, <1>7, <1>8, <1>9, <1>10, <1>11, <1>12, <1>13, <1>14,
     StepCases

(***************************************************************************)
(* Type correctness of the shard's identity and of every task's state.     *)
(***************************************************************************)
THEOREM TypeCorrect == Spec => []TypeOK
<1>1. Init => TypeOK /\ KeyInv
  BY InitTypeOK DEF Init, KeyInv, Rotating
<1>2. TypeOK /\ KeyInv /\ [Next]_vars => (TypeOK /\ KeyInv)'
  BY NextTypeOK, KeyStep
<1> QED
  BY <1>1, <1>2, PTL DEF Spec

(***************************************************************************)
(* Of two tasks under way neither is alone.                                *)
(***************************************************************************)
LEMMA AloneStep ==
  TypeOK /\ AloneInv /\ [Next]_vars => AloneInv'
<1> SUFFICES ASSUME TypeOK, AloneInv, [Next]_vars PROVE AloneInv'
  OBVIOUS
<1> USE DEF TypeOK, AloneInv
<1>1. ASSUME NEW t \in Tasks, NEW what \in Kinds, Begin(t, what) PROVE AloneInv'
  BY <1>1 DEF Begin, Busy
<1>2. ASSUME NEW t \in Tasks, LoadIdentity(t) PROVE AloneInv'
  BY <1>2, AfterIdentityCases DEF LoadIdentity
<1>3. ASSUME NEW t \in Tasks, GenerateIdentity(t) PROVE AloneInv'
  BY <1>3 DEF GenerateIdentity
<1>4. ASSUME NEW t \in Tasks, StoreIdentity(t) PROVE AloneInv'
  BY <1>4, AfterIdentityCases DEF StoreIdentity
<1>5. ASSUME NEW t \in Tasks, RegisterShard(t) PROVE AloneInv'
  BY <1>5 DEF RegisterShard
<1>6. ASSUME NEW t \in Tasks, Mark(t) PROVE AloneInv'
  BY <1>6 DEF Mark
<1>7. CASE Lapse
  BY <1>7 DEF Lapse
<1>8. ASSUME NEW t \in Tasks, ReplaceIdentity(t) PROVE AloneInv'
  BY <1>8 DEF ReplaceIdentity
<1>9. ASSUME NEW t \in Tasks, DeleteMarker(t) PROVE AloneInv'
  BY <1>9 DEF DeleteMarker
<1>10. ASSUME NEW t \in Tasks, CheckRotation(t) PROVE AloneInv'
  BY <1>10 DEF CheckRotation
<1>11. ASSUME NEW t \in Tasks, RotateShardKey(t) PROVE AloneInv'
  BY <1>11 DEF RotateShardKey
<1>12. ASSUME NEW t \in Tasks, Crash(t) PROVE AloneInv'
  BY <1>12 DEF Crash, Fail
<1>13. ASSUME NEW t \in Tasks, LoseAnswer(t) PROVE AloneInv'
  BY <1>13 DEF LoseAnswer, Fail
<1>14. CASE UNCHANGED vars
  BY <1>14 DEF vars
<1> QED
  BY <1>1, <1>2, <1>3, <1>4, <1>5, <1>6, <1>7, <1>8, <1>9, <1>10, <1>11, <1>12, <1>13, <1>14,
     StepCases

(***************************************************************************)
(* While a task is alone, nobody else changes the keys.                    *)
(***************************************************************************)
LEMMA SoloStep ==
  TypeOK /\ KeyInv /\ AloneInv /\ SoloInv /\ [Next]_vars => SoloInv'
<1> SUFFICES ASSUME TypeOK, KeyInv, AloneInv, SoloInv, [Next]_vars PROVE SoloInv'
  OBVIOUS
<1> USE DEF TypeOK, KeyInv, AloneInv, SoloInv, Rotating
<1>1. ASSUME NEW t \in Tasks, NEW what \in Kinds, Begin(t, what) PROVE SoloInv'
  BY <1>1 DEF Begin, Busy
<1>2. ASSUME NEW t \in Tasks, LoadIdentity(t) PROVE SoloInv'
  BY <1>2, AfterIdentityCases DEF LoadIdentity
<1>3. ASSUME NEW t \in Tasks, GenerateIdentity(t) PROVE SoloInv'
  BY <1>3 DEF GenerateIdentity
<1>4. ASSUME NEW t \in Tasks, StoreIdentity(t) PROVE SoloInv'
  BY <1>4, AfterIdentityCases DEF StoreIdentity
<1>5. ASSUME NEW t \in Tasks, RegisterShard(t) PROVE SoloInv'
  BY <1>5 DEF RegisterShard
<1>6. ASSUME NEW t \in Tasks, Mark(t) PROVE SoloInv'
  BY <1>6 DEF Mark
<1>7. CASE Lapse
  BY <1>7 DEF Lapse
<1>8. ASSUME NEW t \in Tasks, ReplaceIdentity(t) PROVE SoloInv'
  BY <1>8 DEF ReplaceIdentity
<1>9. ASSUME NEW t \in Tasks, DeleteMarker(t) PROVE SoloInv'
  BY <1>9 DEF DeleteMarker
<1>10. ASSUME NEW t \in Tasks, CheckRotation(t) PROVE SoloInv'
  BY <1>10 DEF CheckRotation
<1>11. ASSUME NEW t \in Tasks, RotateShardKey(t) PROVE SoloInv'
  BY <1>11 DEF RotateShardKey
<1>12. ASSUME NEW t \in Tasks, Crash(t) PROVE SoloInv'
  BY <1>12 DEF Crash, Fail
<1>13. ASSUME NEW t \in Tasks, LoseAnswer(t) PROVE SoloInv'
  BY <1>13 DEF LoseAnswer, Fail
<1>14. CASE UNCHANGED vars
  BY <1>14 DEF vars
<1> QED
  BY <1>1, <1>2, <1>3, <1>4, <1>5, <1>6, <1>7, <1>8, <1>9, <1>10, <1>11, <1>12, <1>13, <1>14,
     StepCases

(***************************************************************************)
(* Only a rotation ends the agreement with the Router's list.              *)
(***************************************************************************)
LEMMA SyncedStep ==
  TypeOK /\ KeyInv /\ AloneInv /\ SoloInv /\ SyncedInv /\ [Next]_vars => SyncedInv'
<1> SUFFICES ASSUME TypeOK, KeyInv, AloneInv, SoloInv, SyncedInv, [Next]_vars PROVE SyncedInv'
  OBVIOUS
<1> USE DEF TypeOK, KeyInv, AloneInv, SoloInv, SyncedInv, Rotating
<1>1. ASSUME NEW t \in Tasks, NEW what \in Kinds, Begin(t, what) PROVE SyncedInv'
  BY <1>1 DEF Begin, Busy
<1>2. ASSUME NEW t \in Tasks, LoadIdentity(t) PROVE SyncedInv'
  BY <1>2, AfterIdentityCases DEF LoadIdentity
<1>3. ASSUME NEW t \in Tasks, GenerateIdentity(t) PROVE SyncedInv'
  BY <1>3 DEF GenerateIdentity
<1>4. ASSUME NEW t \in Tasks, StoreIdentity(t) PROVE SyncedInv'
  BY <1>4, AfterIdentityCases DEF StoreIdentity
<1>5. ASSUME NEW t \in Tasks, RegisterShard(t) PROVE SyncedInv'
  BY <1>5 DEF RegisterShard
<1>6. ASSUME NEW t \in Tasks, Mark(t) PROVE SyncedInv'
  BY <1>6 DEF Mark
<1>7. CASE Lapse
  BY <1>7 DEF Lapse
<1>8. ASSUME NEW t \in Tasks, ReplaceIdentity(t) PROVE SyncedInv'
  BY <1>8 DEF ReplaceIdentity
<1>9. ASSUME NEW t \in Tasks, DeleteMarker(t) PROVE SyncedInv'
  BY <1>9 DEF DeleteMarker
<1>10. ASSUME NEW t \in Tasks, CheckRotation(t) PROVE SyncedInv'
  BY <1>10 DEF CheckRotation
<1>11. ASSUME NEW t \in Tasks, RotateShardKey(t) PROVE SyncedInv'
  BY <1>11 DEF RotateShardKey
<1>12. ASSUME NEW t \in Tasks, Crash(t) PROVE SyncedInv'
  BY <1>12 DEF Crash, Fail
<1>13. ASSUME NEW t \in Tasks, LoseAnswer(t) PROVE SyncedInv'
  BY <1>13 DEF LoseAnswer, Fail
<1>14. CASE UNCHANGED vars
  BY <1>14 DEF vars
<1> QED
  BY <1>1, <1>2, <1>3, <1>4, <1>5, <1>6, <1>7, <1>8, <1>9, <1>10, <1>11, <1>12, <1>13, <1>14,
     StepCases

(***************************************************************************)
(* A retired key is not written anywhere again.                            *)
(***************************************************************************)
LEMMA RetiredStep ==
  TypeOK /\ KeyInv /\ AloneInv /\ SoloInv /\ RetiredInv /\ [Next]_vars => RetiredInv'
<1> SUFFICES ASSUME TypeOK, KeyInv, AloneInv, SoloInv, RetiredInv, [Next]_vars PROVE RetiredInv'
  OBVIOUS
<1> USE DEF TypeOK, KeyInv, AloneInv, SoloInv, RetiredInv, Rotating
<1>1. ASSUME NEW t \in Tasks, NEW what \in Kinds, Begin(t, what) PROVE RetiredInv'
  BY <1>1 DEF Begin, Busy
<1>2. ASSUME NEW t \in Tasks, LoadIdentity(t) PROVE RetiredInv'
  BY <1>2, AfterIdentityCases DEF LoadIdentity
<1>3. ASSUME NEW t \in Tasks, GenerateIdentity(t) PROVE RetiredInv'
  BY <1>3 DEF GenerateIdentity
<1>4. ASSUME NEW t \in Tasks, StoreIdentity(t) PROVE RetiredInv'
  BY <1>4, AfterIdentityCases DEF StoreIdentity
<1>5. ASSUME NEW t \in Tasks, RegisterShard(t) PROVE RetiredInv'
  BY <1>5 DEF RegisterShard
<1>6. ASSUME NEW t \in Tasks, Mark(t) PROVE RetiredInv'
  BY <1>6 DEF Mark
<1>7. CASE Lapse
  BY <1>7 DEF Lapse
<1>8. ASSUME NEW t \in Tasks, ReplaceIdentity(t) PROVE RetiredInv'
  BY <1>8 DEF ReplaceIdentity
<1>9. ASSUME NEW t \in Tasks, DeleteMarker(t) PROVE RetiredInv'
  BY <1>9 DEF DeleteMarker
<1>10. ASSUME NEW t \in Tasks, CheckRotation(t) PROVE RetiredInv'
  BY <1>10 DEF CheckRotation
<1>11. ASSUME NEW t \in Tasks, RotateShardKey(t) PROVE RetiredInv'
  BY <1>11 DEF RotateShardKey
<1>12. ASSUME NEW t \in Tasks, Crash(t) PROVE RetiredInv'
  BY <1>12 DEF Crash, Fail
<1>13. ASSUME NEW t \in Tasks, LoseAnswer(t) PROVE RetiredInv'
  BY <1>13 DEF LoseAnswer, Fail
<1>14. CASE UNCHANGED vars
  BY <1>14 DEF vars
<1> QED
  BY <1>1, <1>2, <1>3, <1>4, <1>5, <1>6, <1>7, <1>8, <1>9, <1>10, <1>11, <1>12, <1>13, <1>14,
     StepCases

-----------------------------------------------------------------------------

IInv == TypeOK /\ KeyInv /\ AloneInv /\ SoloInv /\ SyncedInv /\ RetiredInv

LEMMA InitIInv == Init => IInv
<1> SUFFICES ASSUME Init PROVE IInv
  OBVIOUS
<1>1. TypeOK
  BY InitTypeOK
<1>2. KeyInv /\ AloneInv /\ SoloInv /\ SyncedInv /\ RetiredInv
  BY DEF Init, KeyInv, AloneInv, SoloInv, SyncedInv, RetiredInv, Rotating
<1> QED
  BY <1>1, <1>2 DEF IInv

LEMMA NextIInv == IInv /\ [Next]_vars => IInv'
  BY NextTypeOK, KeyStep, AloneStep, SoloStep, SyncedStep, RetiredStep DEF IInv

(***************************************************************************)
(* After a registration or rotation that overlapped nothing, the listed    *)
(* key is the one in KV until the next rotation.                           *)
(***************************************************************************)
THEOREM SyncedSticksHolds == Spec => []SyncedSticks
<1>1. IInv => SyncedSticks
  BY DEF IInv, SyncedInv, SyncedSticks
<1> QED
  BY <1>1, InitIInv, NextIInv, PTL DEF Spec

(***************************************************************************)
(* A key taken off the list by a rotation that overlapped nothing is       *)
(* neither listed nor used again.                                          *)
(***************************************************************************)
THEOREM RetiredForGoodHolds == Spec => []RetiredForGood
<1>1. IInv => RetiredForGood
  BY DEF IInv, RetiredInv, RetiredForGood
<1> QED
  BY <1>1, InitIInv, NextIInv, PTL DEF Spec

=============================================================================
