----------------------------- MODULE SenderAuth -----------------------------
(***************************************************************************)
(* verifySenderAuth of shard/worker.js: the check that lets a /send in.    *)
(*                                                                         *)
(* A sender signs its request together with a timestamp.  The shard takes  *)
(* a timestamp at most Skew away from its own clock, looks up the          *)
(* "replay:<hash of pubkey, timestamp, signature>" key in KV, verifies the *)
(* signature and writes that key, to expire after ReplayTTL.  The lookup   *)
(* and the write are separate awaits, so attempts that carry the same      *)
(* signature (a retry, a duplicated delivery) interleave between them.     *)
(***************************************************************************)
EXTENDS Integers

CONSTANTS
  Attempts,    \* /send requests reaching the shard (bounds the behaviours)
  Signatures,  \* the signatures they carry
  Genuine,     \* those that verify
  Skew,        \* cfg.MAX_CLOCK_SKEW, in ticks
  MinTTL,      \* the 60 seconds of worker.js:175, in ticks
  MaxNow,      \* bound on the clock
  None         \* an attempt that carries no signature yet

ASSUME GenuineAssumption == Genuine \subseteq Signatures
ASSUME SkewAssumption    == Skew \in Nat
ASSUME MinTTLAssumption  == MinTTL \in Nat \ {0}
ASSUME MaxNowAssumption  == MaxNow \in Nat
ASSUME NoneAssumption    == None \notin Signatures

VARIABLES
  now,      \* Date.now() of the shard
  stamp,    \* stamp[g]: the timestamp signature g was made with
  seen,     \* seen[g]: when the replay key of g expires; 0 if never written
  pc,       \* pc[a]: where attempt a is
  carries,  \* carries[a]: the signature attempt a carries
  (* history *)
  earlier,  \* earlier[a]: attempts accepted before a looked its key up
  at        \* at[a]: when a was accepted, its key written; 0 before

vars == << now, stamp, seen, pc, carries, earlier, at >>

(***************************************************************************)
(* Math.max(60, Math.ceil(maxSkewMs / 1000)).                              *)
(***************************************************************************)
ReplayTTL == IF Skew > MinTTL THEN Skew ELSE MinTTL

TypeOK ==
  /\ now \in 0 .. MaxNow
  /\ stamp \in [Signatures -> Nat]
  /\ seen \in [Signatures -> Nat]
  /\ pc \in [Attempts -> {"new", "checked", "accepted", "rejected", "failed"}]
  /\ carries \in [Attempts -> Signatures \cup {None}]
  /\ earlier \in [Attempts -> SUBSET Attempts]
  /\ at \in [Attempts -> 0 .. MaxNow]

Init ==
  /\ now = 0
  /\ stamp \in [Signatures -> 0 .. MaxNow]
  /\ seen = [g \in Signatures |-> 0]
  /\ pc = [a \in Attempts |-> "new"]
  /\ carries = [a \in Attempts |-> None]
  /\ earlier = [a \in Attempts |-> {}]
  /\ at = [a \in Attempts |-> 0]

-----------------------------------------------------------------------------

InWindow(g) == now - stamp[g] <= Skew /\ stamp[g] - now <= Skew

Seen(g) == now < seen[g]

Accepted == { a \in Attempts : pc[a] = "accepted" }

\* Mutated Check: the replay key written as soon as it is found missing.
CheckClaiming(a, g) ==
  /\ pc[a] = "new"
  /\ InWindow(g)
  /\ ~ Seen(g)
  /\ seen' = [seen EXCEPT ![g] = now + ReplayTTL]
  /\ pc' = [pc EXCEPT ![a] = "checked"]
  /\ carries' = [carries EXCEPT ![a] = g]
  /\ earlier' = [earlier EXCEPT ![a] = Accepted]
  /\ UNCHANGED << now, stamp, at >>

Check(a, g) ==
  /\ pc[a] = "new"
  /\ InWindow(g)
  /\ ~ Seen(g)
  /\ pc' = [pc EXCEPT ![a] = "checked"]
  /\ carries' = [carries EXCEPT ![a] = g]
  /\ earlier' = [earlier EXCEPT ![a] = Accepted]
  /\ UNCHANGED << now, stamp, seen, at >>

Reject(a, g) ==
  /\ pc[a] = "new"
  /\ ~ InWindow(g) \/ Seen(g)
  /\ pc' = [pc EXCEPT ![a] = "rejected"]
  /\ carries' = [carries EXCEPT ![a] = g]
  /\ UNCHANGED << now, stamp, seen, earlier, at >>

\* Mutated Accept: the key made to expire with the start of the window.
AcceptWindowStart(a) ==
  /\ pc[a] = "checked"
  /\ carries[a] \in Genuine
  /\ seen' = [seen EXCEPT ![carries[a]] = stamp[carries[a]] - Skew]
  /\ pc' = [pc EXCEPT ![a] = "accepted"]
  /\ at' = [at EXCEPT ![a] = now]
  /\ UNCHANGED << now, stamp, carries, earlier >>

\* Mutated Accept: the key kept for the skew, without the floor of 60 seconds.
AcceptWithoutFloor(a) ==
  /\ pc[a] = "checked"
  /\ carries[a] \in Genuine
  /\ seen' = [seen EXCEPT ![carries[a]] = now + Skew]
  /\ pc' = [pc EXCEPT ![a] = "accepted"]
  /\ at' = [at EXCEPT ![a] = now]
  /\ UNCHANGED << now, stamp, carries, earlier >>

(***************************************************************************)
(* The signature verifies: the key is written, then the attempt goes on.   *)
(***************************************************************************)
Accept(a) ==
  /\ pc[a] = "checked"
  /\ carries[a] \in Genuine
  /\ seen' = [seen EXCEPT ![carries[a]] = now + ReplayTTL]
  /\ pc' = [pc EXCEPT ![a] = "accepted"]
  /\ at' = [at EXCEPT ![a] = now]
  /\ UNCHANGED << now, stamp, carries, earlier >>

RejectForged(a) ==
  /\ pc[a] = "checked"
  /\ carries[a] \notin Genuine
  /\ pc' = [pc EXCEPT ![a] = "rejected"]
  /\ UNCHANGED << now, stamp, seen, carries, earlier, at >>

(***************************************************************************)
(* The Worker dies, or the verification or the put throws, before the key  *)
(* is written.                                                             *)
(***************************************************************************)
Fail(a) ==
  /\ pc[a] = "checked"
  /\ pc' = [pc EXCEPT ![a] = "failed"]
  /\ UNCHANGED << now, stamp, seen, carries, earlier, at >>

Tick ==
  /\ now < MaxNow
  /\ now' = now + 1
  /\ UNCHANGED << stamp, seen, pc, carries, earlier, at >>

Next ==
  \/ \E a \in Attempts :
       \/ \E g \in Signatures : Check(a, g) \/ Reject(a, g)
       \/ Accept(a)
       \/ RejectForged(a)
       \/ Fail(a)
  \/ Tick

Spec == Init /\ [][Next]_vars

-----------------------------------------------------------------------------

(***************************************************************************)
(* What the replay key is worth (worker.js:161, :175).  An attempt that    *)
(* looks its key up after one with the same signature was accepted passes  *)
(* only if the first was accepted before its own timestamp, by at least    *)
(* ReplayTTL - Skew: the key has then expired while the timestamp is still *)
(* good.  The default skew of 30 seconds leaves that to a sender whose     *)
(* clock is the full 30 seconds ahead; one of 60 or more, to any sender    *)
(* whose clock is not behind.                                              *)
(***************************************************************************)
AcceptedAgainOnlyIfAhead ==
  \A b \in Attempts : pc[b] = "accepted" =>
    \A a \in earlier[b] :
      carries[a] = carries[b] => stamp[carries[a]] - at[a] >= ReplayTTL - Skew

(***************************************************************************)
(* What it costs to be refused: an attempt with a genuine signature and a  *)
(* good timestamp finds its key written only because that signature was    *)
(* already accepted, never because of an attempt that was itself refused   *)
(* or of one with another signature.                                       *)
(***************************************************************************)
RefusedForCause ==
  \A g \in Signatures :
    Seen(g) => \E a \in Attempts : pc[a] = "accepted" /\ carries[a] = g

=============================================================================
