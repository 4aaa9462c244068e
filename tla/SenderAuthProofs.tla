-------------------------- MODULE SenderAuthProofs --------------------------
(***************************************************************************)
(* For any number of attempts and signatures, any clock and any configured *)
(* skew: whoever is refused was accepted before, and whoever is accepted   *)
(* again carries a timestamp that was ahead of the first acceptance.       *)
(***************************************************************************)
EXTENDS SenderAuth, TLAPS

LEMMA ReplayTTLNat == ReplayTTL \in Nat
  BY SkewAssumption, MinTTLAssumption DEF ReplayTTL

(***************************************************************************)
(* Every state of verifySenderAuth's model is well typed.                  *)
(***************************************************************************)
LEMMA InitTypeOK == Init => TypeOK
  BY MaxNowAssumption DEF Init, TypeOK

LEMMA NextTypeOK == TypeOK /\ [Next]_vars => TypeOK'
<1> SUFFICES ASSUME TypeOK, [Next]_vars PROVE TypeOK'
  OBVIOUS
<1> USE DEF TypeOK
<1>1. ASSUME NEW a \in Attempts, NEW g \in Signatures, Check(a, g) PROVE TypeOK'
  BY <1>1 DEF Check, Accepted
<1>2. ASSUME NEW a \in Attempts, NEW g \in Signatures, Reject(a, g) PROVE TypeOK'
  BY <1>2 DEF Reject
<1>3. ASSUME NEW a \in Attempts, Accept(a) PROVE TypeOK'
  <2>1. carries[a] \in Signatures
    BY <1>3, GenuineAssumption DEF Accept
  <2>2. now + ReplayTTL \in Nat
    BY ReplayTTLNat, MaxNowAssumption
  <2> QED
    BY <1>3, <2>1, <2>2 DEF Accept
<1>4. ASSUME NEW a \in Attempts, RejectForged(a) PROVE TypeOK'
  BY <1>4 DEF RejectForged
<1>5. ASSUME NEW a \in Attempts, Fail(a) PROVE TypeOK'
  BY <1>5 DEF Fail
<1>6. CASE Tick
  BY <1>6, MaxNowAssumption DEF Tick
<1>7. CASE UNCHANGED vars
  BY <1>7 DEF vars
<1> QED
  BY <1>1, <1>2, <1>3, <1>4, <1>5, <1>6, <1>7 DEF Next

(***************************************************************************)
(* Time, replay keys and the state of every attempt keep their types,      *)
(* however calls of verifySenderAuth interleave or die.                    *)
(***************************************************************************)
THEOREM TypeCorrect == Spec => []TypeOK
  BY InitTypeOK, NextTypeOK, PTL DEF Spec

-----------------------------------------------------------------------------

LEMMA NextRefusedForCause ==
  TypeOK /\ RefusedForCause /\ [Next]_vars => RefusedForCause'
<1> SUFFICES ASSUME TypeOK, RefusedForCause, [Next]_vars,
                    NEW g \in Signatures, Seen(g)'
             PROVE  \E a \in Attempts : pc'[a] = "accepted" /\ carries'[a] = g
  BY DEF RefusedForCause
<1>1. ASSUME Seen(g), UNCHANGED carries,
             \A a \in Attempts : pc[a] = "accepted" => pc'[a] = "accepted"
      PROVE  \E a \in Attempts : pc'[a] = "accepted" /\ carries'[a] = g
  BY <1>1 DEF RefusedForCause
<1>2. ASSUME NEW b \in Attempts, NEW h \in Signatures, Check(b, h) \/ Reject(b, h)
      PROVE  \E a \in Attempts : pc'[a] = "accepted" /\ carries'[a] = g
  <2>1. Seen(g) /\ pc[b] = "new"
    BY <1>2 DEF Check, Reject, Seen
  <2>2. PICK a \in Attempts : pc[a] = "accepted" /\ carries[a] = g
    BY <2>1 DEF RefusedForCause
  <2> QED
    BY <1>2, <2>1, <2>2 DEF Check, Reject, TypeOK
<1>3. ASSUME NEW b \in Attempts, Accept(b)
      PROVE  \E a \in Attempts : pc'[a] = "accepted" /\ carries'[a] = g
  <2>1. CASE carries[b] = g
    BY <1>3, <2>1 DEF Accept, TypeOK
  <2>2. CASE carries[b] # g
    BY <1>1, <1>3, <2>2 DEF Accept, Seen, TypeOK
  <2> QED
    BY <2>1, <2>2
<1>4. ASSUME NEW b \in Attempts, RejectForged(b) \/ Fail(b)
      PROVE  \E a \in Attempts : pc'[a] = "accepted" /\ carries'[a] = g
  BY <1>1, <1>4 DEF RejectForged, Fail, Seen, TypeOK
<1>5. CASE Tick
  BY <1>1, <1>5 DEF Tick, Seen, TypeOK
<1>6. CASE UNCHANGED vars
  BY <1>1, <1>6 DEF vars, Seen
<1> QED
  BY <1>2, <1>3, <1>4, <1>5, <1>6 DEF Next

(***************************************************************************)
(* Whatever attempts interleave or die, a replay key is found only where   *)
(* its signature was accepted (verifySenderAuth writes it last).           *)
(***************************************************************************)
THEOREM RefusedForCauseHolds == Spec => []RefusedForCause
<1>1. Init => RefusedForCause
  BY MaxNowAssumption DEF Init, RefusedForCause, Seen
<1> QED
  BY <1>1, TypeCorrect, NextRefusedForCause, PTL DEF Spec

-----------------------------------------------------------------------------

(***************************************************************************)
(* An attempt past its lookup carries a signature.                         *)
(***************************************************************************)
Carrying ==
  \A a \in Attempts :
    pc[a] \in {"checked", "accepted"} => carries[a] \in Signatures

(***************************************************************************)
(* Later acceptances only prolong the key an acceptance wrote.             *)
(***************************************************************************)
KeyKept ==
  \A a \in Attempts :
    pc[a] = "accepted" =>
      at[a] <= now /\ at[a] + ReplayTTL <= seen[carries[a]]
                   /\ seen[carries[a]] <= now + ReplayTTL

EarlierAccepted ==
  \A b \in Attempts : \A a \in earlier[b] : pc[a] = "accepted"

(***************************************************************************)
(* AcceptedAgainOnlyIfAhead does not speak of an attempt between its       *)
(* lookup and its write; the invariant must.                               *)
(***************************************************************************)
PassedOnlyIfAhead ==
  \A b \in Attempts : pc[b] \in {"checked", "accepted"} =>
    \A a \in earlier[b] :
      carries[a] = carries[b] => stamp[carries[a]] - at[a] >= ReplayTTL - Skew

IInv ==
  /\ TypeOK
  /\ Carrying
  /\ KeyKept
  /\ EarlierAccepted
  /\ PassedOnlyIfAhead

LEMMA InitIInv == Init => IInv
  BY InitTypeOK
     DEF Init, IInv, Carrying, KeyKept, EarlierAccepted, PassedOnlyIfAhead

(***************************************************************************)
(* Every step keeps the invariant.  A lookup that finds no key of an       *)
(* accepted signature comes ReplayTTL after it, and no later than Skew     *)
(* after its timestamp.                                                    *)
(***************************************************************************)
LEMMA NextIInv == IInv /\ [Next]_vars => IInv'
<1> SUFFICES ASSUME IInv, [Next]_vars PROVE IInv'
  OBVIOUS
<1>0. TypeOK'
  BY NextTypeOK DEF IInv
<1> USE SkewAssumption, MaxNowAssumption, GenuineAssumption, ReplayTTLNat
<1>1. ASSUME NEW b \in Attempts, NEW g \in Signatures, Check(b, g) PROVE IInv'
  <2>1. Carrying'
    BY <1>1 DEF Check, IInv, TypeOK, Carrying
  <2>2. KeyKept'
    BY <1>1 DEF Check, IInv, TypeOK, KeyKept
  <2>3. EarlierAccepted'
    BY <1>1 DEF Check, Accepted, IInv, TypeOK, EarlierAccepted
  <2>4. ASSUME NEW a \in Accepted, carries[a] = g
        PROVE  stamp[g] - at[a] >= ReplayTTL - Skew
    <3>1. at[a] + ReplayTTL <= now
      BY <1>1, <2>4 DEF Check, Seen, Accepted, IInv, TypeOK, KeyKept
    <3>2. now - stamp[g] <= Skew
      BY <1>1 DEF Check, InWindow
    <3> QED
      BY <3>1, <3>2, <2>4 DEF Accepted, IInv, TypeOK
  <2>5. PassedOnlyIfAhead'
    BY <1>1, <2>4 DEF Check, Accepted, IInv, TypeOK, EarlierAccepted, PassedOnlyIfAhead
  <2> QED
    BY <1>0, <2>1, <2>2, <2>3, <2>5 DEF IInv
<1>2. ASSUME NEW b \in Attempts, NEW g \in Signatures, Reject(b, g) PROVE IInv'
  BY <1>0, <1>2 DEF Reject, IInv, TypeOK, Carrying, KeyKept,
                    EarlierAccepted, PassedOnlyIfAhead
<1>3. ASSUME NEW b \in Attempts, Accept(b) PROVE IInv'
  <2>1. carries[b] \in Signatures
    BY <1>3 DEF Accept, IInv, Carrying
  <2>2. Carrying'
    BY <1>3 DEF Accept, IInv, TypeOK, Carrying
  <2>3. KeyKept'
    BY <1>3, <2>1 DEF Accept, IInv, TypeOK, KeyKept
  <2>4. EarlierAccepted' /\ PassedOnlyIfAhead'
    BY <1>3 DEF Accept, IInv, TypeOK, EarlierAccepted, PassedOnlyIfAhead
  <2> QED
    BY <1>0, <2>2, <2>3, <2>4 DEF IInv
<1>4. ASSUME NEW b \in Attempts, RejectForged(b) PROVE IInv'
  BY <1>0, <1>4 DEF RejectForged, IInv, TypeOK, Carrying, KeyKept,
                    EarlierAccepted, PassedOnlyIfAhead
<1>5. ASSUME NEW b \in Attempts, Fail(b) PROVE IInv'
  BY <1>0, <1>5 DEF Fail, IInv, TypeOK, Carrying, KeyKept,
                    EarlierAccepted, PassedOnlyIfAhead
<1>6. CASE Tick
  BY <1>0, <1>6 DEF Tick, IInv, TypeOK, Carrying, KeyKept,
                    EarlierAccepted, PassedOnlyIfAhead
<1>7. CASE UNCHANGED vars
  BY <1>0, <1>7 DEF vars, IInv, TypeOK, Carrying, KeyKept,
                    EarlierAccepted, PassedOnlyIfAhead
<1> QED
  BY <1>1, <1>2, <1>3, <1>4, <1>5, <1>6, <1>7 DEF Next

(***************************************************************************)
(* For every configured skew, the default included: a signature passes a   *)
(* second time, once the first acceptance is written, only if its          *)
(* timestamp was at least ReplayTTL - Skew ahead of that acceptance.       *)
(***************************************************************************)
THEOREM AcceptedAgainOnlyIfAheadHolds == Spec => []AcceptedAgainOnlyIfAhead
<1>1. IInv => AcceptedAgainOnlyIfAhead
  BY DEF IInv, PassedOnlyIfAhead, AcceptedAgainOnlyIfAhead
<1> QED
  BY InitIInv, NextIInv, <1>1, PTL DEF Spec

=============================================================================
