-------------------------- MODULE PlacementProofs --------------------------
(***************************************************************************)
(* What /register and /resolve promise an owner and a sender, for any hash *)
(* point, any number of shards, secrets and requests, any replication      *)
(* factor, and whichever shard the Worker is itself, or none.              *)
(***************************************************************************)
EXTENDS CombinedPlacement, FiniteSetTheorems, TLAPS

ReqType ==
  [ secret : Nat, era : Nat, waiting : SUBSET Shards, ok : SUBSET Shards, clean : BOOLEAN ]

WalkType == [ eras : SUBSET Counts, known : Nat, sound : BOOLEAN ]

(***************************************************************************)
(* What TypeOK leaves out.                                                 *)
(***************************************************************************)
Shapes ==
  /\ record = [ s \in Shards |-> record[s] ]
  /\ req \in [Requests -> ReqType]
  /\ walk \in WalkType

(***************************************************************************)
(* Every record, call and capability comes of a /register, and the shards  *)
(* that answered well have a record.                                       *)
(***************************************************************************)
Origins ==
  /\ \A s \in Shards :
       record[s] # NoRecord => \E e \in tried : record[s].replicas = Ring(e)
  /\ \A c \in creates : c.era \in tried /\ c.to \in Range(Ring(c.era))
  /\ \A q \in Requests : \A s \in req[q].ok : record[s] # NoRecord
  /\ cap # NoCap => /\ cap.era \in tried
                    /\ cap.shard = Primary(cap.era)
                    /\ record[cap.shard] # NoRecord

(***************************************************************************)
(* A /register that overlaps nothing has the only calls under way.         *)
(***************************************************************************)
Clean ==
  \A q \in Requests : req[q] # NoReq /\ req[q].clean =>
    /\ \A o \in Requests \ {q} : req[o] = NoReq
    /\ \A c \in creates : c.secret = req[q].secret
    /\ \A s \in req[q].ok : record[s].secret = req[q].secret

Sole ==
  sole =>
    /\ \A q \in Requests : req[q] = NoReq
    /\ \A c \in creates : c.secret = cap.secret
    /\ cap.shard \in Shards
    /\ record[cap.shard].secret = cap.secret

(***************************************************************************)
(* A walk that no probe misled still has the owner's primary before it.    *)
(***************************************************************************)
Walk ==
  walk.sound /\ walk.known # 0 =>
    \E n \in walk.eras : record[Primary(n)] # NoRecord

IInv == TypeOK /\ Shapes /\ Origins /\ Clean /\ Sole /\ Walk

(***************************************************************************)
(* Nor can a failed probe make it pass by the Worker's own mailbox.        *)
(***************************************************************************)
HomeAhead ==
  walk # NoWalk /\ mine =>
    \E n \in walk.eras : Primary(n) = home /\ record[home] # NoRecord

-----------------------------------------------------------------------------
(* Placement.                                                              *)

LEMMA MinOfTwo ==
  ASSUME NEW a \in Int, NEW b \in Int
  PROVE  Min({a, b}) = IF a <= b THEN a ELSE b
<1>1. \E x \in {a, b} : \A y \in {a, b} : x <= y
  BY SMT
<1>2. Min({a, b}) \in {a, b} /\ \A y \in {a, b} : Min({a, b}) <= y
  BY <1>1 DEF Min
<1> QED
  BY <1>2

LEMMA MaxOfTwo ==
  ASSUME NEW a \in Int, NEW b \in Int
  PROVE  Max({a, b}) = IF a <= b THEN b ELSE a
<1>1. \E x \in {a, b} : \A y \in {a, b} : x >= y
  BY SMT
<1>2. Max({a, b}) \in {a, b} /\ \A y \in {a, b} : Max({a, b}) >= y
  BY <1>1 DEF Max
<1> QED
  BY <1>2

LEMMA ReplicationFactorRange ==
  ASSUME NEW n \in Nat \ {0}
  PROVE  ReplicationFactor(n) \in 1 .. n
BY FactorAssumption, MinOfTwo, MaxOfTwo DEF ReplicationFactor

(***************************************************************************)
(* Division with remainder, for a numerator below twice the divisor.       *)
(***************************************************************************)
LEMMA OnceAround ==
  ASSUME NEW n \in Nat \ {0}, NEW x \in 0 .. (2 * n - 1)
  PROVE  x % n = IF x < n THEN x ELSE x - n
BY SMTT(30)

LEMMA RingProperties ==
  ASSUME NEW n \in Nat \ {0}, point \in Nat
  PROVE  /\ DOMAIN Ring(n) = 1 .. ReplicationFactor(n)
         /\ 1 \in DOMAIN Ring(n)
         /\ Range(Ring(n)) \subseteq 0 .. (n - 1)
         /\ IsInjective(Ring(n))
         /\ Primary(n) \in Range(Ring(n))
<1> DEFINE a == point % n
           ring == Ring(n)
<1>1. ReplicationFactor(n) \in 1 .. n
  BY ReplicationFactorRange
<1>2. a \in 0 .. (n - 1)
  BY SMTT(30)
<1>3. DOMAIN ring = 1 .. ReplicationFactor(n)
  BY DEF Ring
<1>4. \A i \in DOMAIN ring :
        LET x == a + i - 1 IN ring[i] = IF x < n THEN x ELSE x - n
  <2> TAKE i \in DOMAIN ring
  <2> DEFINE x == a + i - 1
  <2>1. x \in 0 .. (2 * n - 1)
    BY <1>1, <1>2, <1>3
  <2>2. ring[i] = x % n
    BY <1>3 DEF Ring
  <2>3. x % n = IF x < n THEN x ELSE x - n
    <3> HIDE DEF x
    <3> QED
      BY <2>1, OnceAround
  <2> HIDE DEF x, ring
  <2>4. ring[i] = IF x < n THEN x ELSE x - n
    BY <2>2, <2>3
  <2> QED
    BY <2>4, Zenon DEF x
<1> HIDE DEF ring, a
<1>5. \A i \in DOMAIN ring : ring[i] \in 0 .. (n - 1)
  BY <1>1, <1>2, <1>3, <1>4
<1>6. IsInjective(ring)
  BY <1>1, <1>2, <1>3, <1>4 DEF IsInjective
<1>7. 1 \in DOMAIN ring
  BY <1>1, <1>3
<1> QED
  BY <1>3, <1>5, <1>6, <1>7 DEF ring, Range, Primary

LEMMA MaxMember ==
  ASSUME NEW n \in Nat, NEW S \in SUBSET (1 .. n), S # {}
  PROVE  Max(S) \in S
<1> DEFINE T == { n - x : x \in S }
<1>1. T \subseteq Nat /\ T # {}
  <2>1. \A x \in S : n - x \in Nat
    OBVIOUS
  <2>2. PICK x \in S : TRUE
    OBVIOUS
  <2>3. n - x \in T
    OBVIOUS
  <2> QED
    BY <2>1, <2>3
<1> DEFINE R == OpToRel(<, Nat)
<1>2. PICK z \in T : \A y \in T : << y, z >> \notin R
  <2> HIDE DEF T, R
  <2>1. IsWellFoundedOn(R, Nat)
    BY NatLessThanWellFounded DEF R
  <2> QED
    BY <1>1, <2>1, WFMin
<1>3. PICK x \in S : z = n - x
  <2> HIDE DEF R
  <2> QED
    BY <1>2
<1> HIDE DEF R
<1>4. \A y \in S : x >= y
  <2> SUFFICES ASSUME NEW y \in S, y > x PROVE FALSE
    OBVIOUS
  <2>1. n - y \in T /\ n - y \in Nat /\ z \in Nat /\ n - y < z
    BY <1>3
  <2>2. << n - y, z >> \in R
    BY <2>1 DEF R, OpToRel
  <2> QED
    BY <1>2, <2>1, <2>2
<1> QED
  BY <1>4 DEF Max

-----------------------------------------------------------------------------
(* The invariant.                                                          *)

(***************************************************************************)
(* No step moves the hash point, so the ring of a count stays what it is.  *)
(***************************************************************************)
LEMMA Unmoved ==
  ASSUME point' = point
  PROVE  \A n : Ring(n)' = Ring(n) /\ Primary(n)' = Primary(n)
BY DEF Ring, Primary

RingOK(n) ==
  /\ Range(Ring(n)) \subseteq Shards
  /\ IsInjective(Ring(n))
  /\ Primary(n) \in Range(Ring(n))

LEMMA Basics ==
  ASSUME TypeOK
  PROVE  /\ count \in Counts
         /\ tried \subseteq Counts
         /\ \A n \in Counts : n \in Nat \ {0} /\ RingOK(n)
<1>1. point \in Nat /\ count \in Counts /\ tried \subseteq Counts
  BY PointsAssumption, CountAssumption DEF TypeOK, Counts
<1>2. ASSUME NEW n \in Counts PROVE n \in Nat \ {0} /\ RingOK(n)
  <2>1. n \in Nat \ {0} /\ 0 .. (n - 1) \subseteq Shards
    BY CountAssumption DEF Counts, Shards
  <2> QED
    BY <1>1, <2>1, RingProperties DEF RingOK
<1> QED
  BY <1>1, <1>2

LEMMA InitParts == Init => TypeOK /\ Shapes /\ Origins /\ Clean /\ Sole /\ Walk
<1> SUFFICES ASSUME Init PROVE TypeOK /\ Shapes /\ Origins /\ Clean /\ Sole /\ Walk
  OBVIOUS
<1> USE DEF Init
<1>1. TypeOK
  <2>1. \A s \in Shards : record[s] = NoRecord /\ record[s].secret = Shell
    BY DEF NoRecord
  <2>2. \A q \in Requests : req[q] = NoReq
    OBVIOUS
  <2>3. count \in FirstCount .. MaxCount /\ secrets \in 0 .. MaxSecrets
    BY CountAssumption, SecretsAssumption
  <2>4. walk.eras \subseteq Counts
    BY DEF NoWalk
  <2> QED
    BY <2>1, <2>2, <2>3, <2>4 DEF TypeOK
<1>2. Shapes
  BY DEF Shapes, ReqType, WalkType, NoReq, NoWalk
<1>3. Origins /\ Clean /\ Sole /\ Walk
  BY DEF Origins, Clean, Sole, Walk, NoReq, NoWalk
<1> QED
  BY <1>1, <1>2, <1>3

LEMMA InitInvariant == CombinedInit => IInv /\ HomeAhead
BY InitParts DEF CombinedInit, IInv, HomeAhead

(***************************************************************************)
(* Steps that touch nothing but the shard counts and the walk.             *)
(***************************************************************************)
LEMMA MeshAndWalk ==
  ASSUME IInv,
         UNCHANGED << point, record, creates, req, secrets, cap, sole, tried >>,
         count' \in count .. MaxCount, prior' \subseteq Counts,
         walk' \in WalkType, Walk'
  PROVE  IInv'
<1>1. TypeOK'
  BY Unmoved, CountAssumption DEF IInv, TypeOK, WalkType
<1>2. Shapes' /\ Clean' /\ Sole'
  BY DEF IInv, Shapes, Clean, Sole
<1>3. Origins'
  BY Unmoved DEF IInv, Origins
<1> QED
  BY <1>1, <1>2, <1>3 DEF IInv

LEMMA Idle ==
  ASSUME IInv,
         UNCHANGED << point, count, prior, record, creates, req, secrets, cap, walk, sole, tried >>
  PROVE  IInv'
<1>1. count' \in count .. MaxCount /\ prior' \subseteq Counts
  BY CountAssumption DEF IInv, TypeOK
<1>2. walk' \in WalkType /\ Walk'
  BY Unmoved DEF IInv, Shapes, Walk
<1> QED
  BY <1>1, <1>2, MeshAndWalk

LEMMA MeshSteps ==
  ASSUME IInv, AddShard \/ \E n \in Counts : RecordPriorCount(n)
  PROVE  IInv'
<1>1. UNCHANGED << point, record, creates, req, secrets, cap, walk, sole, tried >>
  BY DEF AddShard, RecordPriorCount
<1>2. count \in Counts /\ count \in Nat /\ prior \subseteq Counts
  BY Basics DEF IInv, TypeOK
<1>3. count' \in count .. MaxCount
  BY <1>2, CountAssumption DEF AddShard, RecordPriorCount, Counts
<1>4. prior' \subseteq Counts
  BY <1>2 DEF AddShard, RecordPriorCount
<1>5. walk' \in WalkType /\ Walk'
  BY <1>1, Unmoved DEF IInv, Shapes, Walk
<1> QED
  BY <1>1, <1>3, <1>4, <1>5, MeshAndWalk

(***************************************************************************)
(* /resolve: a walk begins with the owner's primary before it, and passes  *)
(* by none that has a record unless a probe failed.                        *)
(***************************************************************************)
WalkStep == BeginResolve \/ FindMailbox \/ NextEra \/ FailProbe \/ NoteMissing \/ LocalProbeThrows

LEMMA WalkSteps ==
  ASSUME IInv, WalkStep
  PROVE  IInv'
<1>1. UNCHANGED << point, count, prior, record, creates, req, secrets, cap, sole, tried >>
  BY DEF WalkStep, BeginResolve, FindMailbox, NextEra, FailProbe, NoteMissing, LocalProbeThrows
<1>2. /\ point \in Nat /\ count \in Counts /\ count \in Nat /\ MaxCount \in Nat
      /\ prior \subseteq Counts /\ walk \in WalkType
  BY Basics, CountAssumption, PointsAssumption DEF IInv, TypeOK, Shapes, Counts
<1>3. walk' = NoWalk => walk' \in WalkType /\ Walk'
  BY DEF WalkType, Walk, NoWalk
<1>4. walk' \in WalkType /\ Walk'
  <2>1. CASE BeginResolve
    <3>1. EraCounts(count) \subseteq Counts
      BY <1>2 DEF EraCounts
    <3>2. ASSUME cap # NoCap PROVE cap.secret \in Nat
      <4>1. cap.secret \in 1 .. secrets
        BY <3>2 DEF IInv, TypeOK
      <4> QED
        BY <4>1
    <3>3. walk' \in WalkType
      BY <2>1, <3>1, <3>2 DEF BeginResolve, WalkType
    <3>4. ASSUME walk'.known # 0 PROVE \E n \in walk'.eras : record[Primary(n)] # NoRecord
      <4>1. /\ cap # NoCap /\ cap.era \in prior \cup {count}
            /\ walk'.eras = EraCounts(count)
        BY <2>1, <3>4 DEF BeginResolve
      <4>2. cap.era \in tried /\ record[Primary(cap.era)] # NoRecord
        BY <4>1 DEF IInv, Origins
      <4>3. cap.era \in FirstCount .. count
        BY <4>2 DEF IInv, TypeOK
      <4>4. cap.era \in EraCounts(count)
        BY <1>2, <4>1, <4>3, CountAssumption DEF EraCounts
      <4> QED
        BY <4>1, <4>2, <4>4
    <3> QED
      BY <1>1, <3>3, <3>4, Unmoved DEF Walk
  <2>2. CASE FindMailbox \/ NoteMissing \/ LocalProbeThrows
    BY <1>3, <2>2 DEF FindMailbox, NoteMissing, LocalProbeThrows
  <2>3. CASE NextEra
    <3>1. /\ walk' = [walk EXCEPT !.eras = walk.eras \ {Max(walk.eras)}]
          /\ record[Primary(Max(walk.eras))] = NoRecord
      BY <2>3 DEF NextEra, Probed
    <3>2. /\ walk' \in WalkType /\ walk'.known = walk.known /\ walk'.sound = walk.sound
          /\ walk'.eras = walk.eras \ {Max(walk.eras)}
      BY <1>2, <3>1 DEF WalkType
    <3> QED
      BY <1>1, <3>1, <3>2, Unmoved DEF IInv, Walk
  <2>4. CASE FailProbe
    <3>1. walk' \in WalkType /\ walk'.sound = FALSE
      BY <1>2, <2>4 DEF FailProbe, WalkType
    <3> QED
      BY <3>1 DEF Walk
  <2> QED
    BY <2>1, <2>2, <2>3, <2>4 DEF WalkStep
<1>5. count' \in count .. MaxCount /\ prior' \subseteq Counts
  BY <1>1, <1>2 DEF Counts
<1> QED
  BY <1>1, <1>4, <1>5, MeshAndWalk

(***************************************************************************)
(* Records are replaced, never removed: then a walk has what it had.       *)
(***************************************************************************)
Grows == \A s \in Shards : record[s] # NoRecord => record'[s] # NoRecord

LEMMA WalkGrows ==
  ASSUME IInv, UNCHANGED << point, walk >>, Grows
  PROVE  Walk'
<1>1. \A n \in walk.eras : Primary(n) \in Shards
  BY Basics DEF IInv, TypeOK, RingOK
<1> QED
  BY <1>1, Unmoved DEF IInv, Walk, Grows

(***************************************************************************)
(* What the state says of a call of /create that is still out.             *)
(***************************************************************************)
LEMMA CallFacts ==
  ASSUME IInv, NEW c \in creates
  PROVE  /\ c.to \in Shards /\ c.secret \in Secrets /\ c.secret # 0
         /\ c.era \in tried /\ c.era \in Counts /\ c.to \in Range(Ring(c.era))
         /\ \A q \in Requests : Waits(q, c) => req[q] # NoReq
<1>1. c.to \in Shards /\ c.secret \in Secrets /\ c.era \in Counts
  BY DEF IInv, TypeOK
<1>2. c.secret # 0
  BY <1>1 DEF Secrets
<1> QED
  BY <1>1, <1>2 DEF IInv, Origins, Waits, NoReq

LEMMA AnswerFacts ==
  ASSUME IInv, NEW c \in creates, NEW well \in BOOLEAN, Answer(c, well)
  PROVE  /\ req' \in [Requests -> ReqType]
         /\ \A q \in Requests :
              /\ req'[q] = NoReq <=> req[q] = NoReq
              /\ req'[q].secret = req[q].secret /\ req'[q].era = req[q].era
              /\ req'[q].clean = req[q].clean
              /\ req'[q].waiting \subseteq req[q].waiting
              /\ req'[q].ok \subseteq req[q].ok \cup (IF well THEN {c.to} ELSE {})
              /\ req'[q].waiting \cup req'[q].ok \subseteq req[q].waiting \cup req[q].ok
              /\ req[q].waiting \cap req[q].ok = {} => req'[q].waiting \cap req'[q].ok = {}
<1>1. c.to \in Shards /\ c.secret # 0 /\ \A q \in Requests : Waits(q, c) => req[q] # NoReq
  BY CallFacts
<1>2. \A q \in Requests : req[q] \in ReqType
  BY DEF IInv, Shapes
<1>3. req' = [ q \in Requests |->
         IF Waits(q, c)
           THEN [ req[q] EXCEPT !.waiting = req[q].waiting \ {c.to},
                                !.ok = IF well THEN req[q].ok \cup {c.to} ELSE req[q].ok ]
           ELSE req[q] ]
  BY DEF Answer
<1>4. ASSUME NEW q \in Requests, Waits(q, c)
      PROVE  /\ req'[q] \in ReqType /\ req'[q] # NoReq
             /\ req'[q].secret = req[q].secret /\ req'[q].era = req[q].era
             /\ req'[q].clean = req[q].clean
             /\ req'[q].waiting = req[q].waiting \ {c.to}
             /\ req'[q].ok = IF well THEN req[q].ok \cup {c.to} ELSE req[q].ok
             /\ c.to \in req[q].waiting
  <2>1. /\ req'[q] \in ReqType
        /\ req'[q].secret = req[q].secret /\ req'[q].era = req[q].era
        /\ req'[q].clean = req[q].clean
        /\ req'[q].waiting = req[q].waiting \ {c.to}
        /\ req'[q].ok = IF well THEN req[q].ok \cup {c.to} ELSE req[q].ok
    BY <1>1, <1>2, <1>3, <1>4 DEF ReqType
  <2> QED
    BY <1>1, <1>4, <2>1 DEF Waits, NoReq
<1>5. \A q \in Requests : ~ Waits(q, c) => req'[q] = req[q]
  BY <1>3
<1>6. req' \in [Requests -> ReqType]
  <2>1. \A q \in Requests : req'[q] \in ReqType
    BY <1>2, <1>4, <1>5
  <2> QED
    BY <1>3, <2>1
<1> QED
  <2> SUFFICES ASSUME NEW q \in Requests
               PROVE  /\ req'[q] = NoReq <=> req[q] = NoReq
                      /\ req'[q].secret = req[q].secret /\ req'[q].era = req[q].era
                      /\ req'[q].clean = req[q].clean
                      /\ req'[q].waiting \subseteq req[q].waiting
                              /\ req'[q].ok \subseteq req[q].ok \cup (IF well THEN {c.to} ELSE {})
                      /\ req'[q].waiting \cup req'[q].ok \subseteq req[q].waiting \cup req[q].ok
                      /\ req[q].waiting \cap req[q].ok = {} => req'[q].waiting \cap req'[q].ok = {}
    BY <1>6
  <2>1. CASE Waits(q, c)
    BY <1>1, <1>4, <2>1
  <2>2. CASE ~ Waits(q, c)
    BY <1>5, <2>2
  <2> QED
    BY <2>1, <2>2

(***************************************************************************)
(* A call that ends, well (Create) or not (FailCreate, TimeOut).           *)
(***************************************************************************)
LEMMA CallEnds ==
  ASSUME IInv, NEW c \in creates, NEW well \in BOOLEAN, Answer(c, well),
         creates' \subseteq creates,
         record' = IF well
                     THEN [record EXCEPT ![c.to] = [secret |-> c.secret, replicas |-> Ring(c.era)]]
                     ELSE record,
         UNCHANGED << point, count, prior, secrets, cap, walk, sole, tried >>
  PROVE  IInv'
<1>1. /\ c.to \in Shards /\ c.secret \in Secrets /\ c.secret # 0
      /\ c.era \in tried /\ c.to \in Range(Ring(c.era)) /\ IsInjective(Ring(c.era))
  BY CallFacts, Basics DEF IInv, RingOK
<1>2. /\ record' = [s \in Shards |-> record'[s]]
      /\ well => record'[c.to] = [secret |-> c.secret, replicas |-> Ring(c.era)]
      /\ \A s \in Shards : record'[s] = record[s] \/ (s = c.to /\ well)
  BY <1>1 DEF IInv, Shapes
<1>3. well => /\ record'[c.to] # NoRecord /\ record'[c.to].secret = c.secret
              /\ record'[c.to].replicas = Ring(c.era)
  BY <1>1, <1>2 DEF NoRecord, Shell
<1>4. Grows
  BY <1>2, <1>3 DEF Grows
<1>5. TypeOK'
  <2>1. \A s \in Shards :
          /\ record'[s].secret \in Secrets \cup {Shell}
          /\ record'[s] # NoRecord =>
               s \in Range(record'[s].replicas) /\ IsInjective(record'[s].replicas)
    BY <1>1, <1>2, <1>3 DEF IInv, TypeOK
  <2>2. \A q \in Requests :
          req'[q] # NoReq => /\ req'[q].secret \in 1 .. secrets
                             /\ req'[q].era \in tried
                             /\ req'[q].waiting \cap req'[q].ok = {}
                             /\ req'[q].waiting \cup req'[q].ok \subseteq Range(Ring(req'[q].era))
    BY AnswerFacts DEF IInv, TypeOK
  <2> QED
    BY <2>1, <2>2, Unmoved DEF IInv, TypeOK
<1>6. Shapes'
  BY <1>2, AnswerFacts DEF IInv, Shapes
<1>7. Origins'
  <2>1. \A s \in Shards :
          record'[s] # NoRecord => \E e \in tried : record'[s].replicas = Ring(e)
    BY <1>1, <1>2, <1>3 DEF IInv, Origins
  <2>2. \A q \in Requests : \A s \in req'[q].ok : record'[s] # NoRecord
    <3> TAKE q \in Requests
    <3> TAKE s \in req'[q].ok
    <3>1. s \in Shards
      BY AnswerFacts DEF ReqType
    <3>2. CASE s \in req[q].ok
      BY <1>4, <3>1, <3>2 DEF IInv, Origins, Grows
    <3>3. CASE s \notin req[q].ok
      BY <1>3, <3>3, AnswerFacts
    <3> QED
      BY <3>2, <3>3
  <2>3. cap # NoCap => cap.shard \in Shards
    BY Basics DEF IInv, Origins, RingOK
  <2> QED
    BY <1>4, <2>1, <2>2, <2>3, Unmoved DEF IInv, Origins, Grows
<1>8. Clean'
  <2> SUFFICES ASSUME NEW q \in Requests, req'[q] # NoReq, req'[q].clean
               PROVE  /\ \A o \in Requests \ {q} : req'[o] = NoReq
                      /\ \A d \in creates' : d.secret = req'[q].secret
                      /\ \A s \in req'[q].ok : record'[s].secret = req'[q].secret
    BY DEF Clean
  <2>1. /\ \A o \in Requests \ {q} : req[o] = NoReq
        /\ \A d \in creates : d.secret = req[q].secret
        /\ \A s \in req[q].ok : record[s].secret = req[q].secret
        /\ req'[q].secret = req[q].secret
    BY AnswerFacts DEF IInv, Clean
  <2>2. \A s \in req'[q].ok : s \in Shards /\ (s \in req[q].ok \/ (well /\ s = c.to))
    BY AnswerFacts DEF ReqType
  <2>3. \A s \in req'[q].ok : record'[s].secret = req'[q].secret
    BY <1>2, <1>3, <2>1, <2>2
  <2> QED
    BY <2>1, <2>3, AnswerFacts
<1>9. Sole'
  BY <1>2, <1>3, AnswerFacts DEF IInv, Sole
<1>10. Walk'
  BY <1>4, WalkGrows
<1> QED
  BY <1>5, <1>6, <1>7, <1>8, <1>9, <1>10 DEF IInv

LEMMA CallSteps ==
  ASSUME IInv, NEW c \in creates, Create(c) \/ FailCreate(c) \/ TimeOut(c)
  PROVE  IInv'
<1>1. CASE Create(c)
  BY <1>1, CallEnds DEF Create
<1>2. CASE FailCreate(c) \/ TimeOut(c)
  BY <1>2, CallEnds DEF FailCreate, TimeOut
<1> QED
  BY <1>1, <1>2

(***************************************************************************)
(* A copied message makes a shell, where there was nothing.                *)
(***************************************************************************)
LEMMA ReplicateStep ==
  ASSUME IInv, NEW s \in Shards, NEW to \in Shards, Replicate(s, to)
  PROVE  IInv'
<1> USE DEF Replicate
<1>1. /\ record' = [t \in Shards |-> record'[t]]
      /\ record'[to] = [secret |-> Shell, replicas |-> record[s].replicas]
      /\ \A t \in Shards : record'[t] = record[t] \/ t = to
  BY DEF IInv, Shapes
<1>2. PICK e \in tried : record[s].replicas = Ring(e)
  BY DEF IInv, Origins
<1>3. /\ record'[to].secret = Shell /\ record'[to].replicas = Ring(e)
      /\ to \in Range(Ring(e)) /\ IsInjective(Ring(e))
  BY <1>1, <1>2, Basics DEF IInv, RingOK
<1>4. record'[to] # NoRecord
  <2>1. Range(NoRecord.replicas) = {}
    BY DEF NoRecord, Range
  <2> QED
    BY <1>3, <2>1
<1>5. Grows
  BY <1>1, <1>4 DEF Grows
<1>6. TypeOK'
  <2>1. \A t \in Shards :
          /\ record'[t].secret \in Secrets \cup {Shell}
          /\ record'[t] # NoRecord =>
               t \in Range(record'[t].replicas) /\ IsInjective(record'[t].replicas)
    BY <1>1, <1>3 DEF IInv, TypeOK
  <2> QED
    BY <2>1, Unmoved DEF IInv, TypeOK
<1>7. Shapes'
  BY <1>1 DEF IInv, Shapes
<1>8. Origins'
  <2>1. \A t \in Shards :
          record'[t] # NoRecord => \E f \in tried : record'[t].replicas = Ring(f)
    BY <1>1, <1>3 DEF IInv, Origins
  <2>2. \A q \in Requests : \A t \in req[q].ok : t \in Shards
    BY DEF IInv, Shapes, ReqType
  <2>3. cap # NoCap => cap.shard \in Shards
    BY Basics DEF IInv, Origins, RingOK
  <2> QED
    BY <1>5, <2>1, <2>2, <2>3, Unmoved DEF IInv, Origins, Grows
<1>9. Clean'
  <2>1. \A q \in Requests : \A t \in req[q].ok : t \in Shards /\ t # to
    BY DEF IInv, Shapes, ReqType, Origins
  <2> QED
    BY <1>1, <2>1 DEF IInv, Clean
<1>10. Sole'
  BY <1>1, <1>3 DEF IInv, Sole, NoRecord
<1>11. Walk'
  BY <1>5, WalkGrows
<1> QED
  BY <1>6, <1>7, <1>8, <1>9, <1>10, <1>11 DEF IInv

(***************************************************************************)
(* Calls of /register that come to nothing: Deny, and a Worker whose own   *)
(* KV throws.                                                              *)
(***************************************************************************)
LEMMA Forgotten ==
  ASSUME IInv, req' = [q \in Requests |-> req'[q]],
         \A q \in Requests : req'[q] = NoReq \/ req'[q] = req[q],
         creates' \subseteq creates,
         UNCHANGED << point, count, prior, record, secrets, cap, walk, sole, tried >>
  PROVE  IInv'
<1>1. NoReq \in ReqType /\ NoReq.ok = {}
  BY DEF NoReq, ReqType
<1>2. \A q \in Requests : req'[q] \in ReqType
  BY <1>1 DEF IInv, Shapes
<1>3. TypeOK'
  BY Unmoved DEF IInv, TypeOK
<1>4. Shapes'
  BY <1>2 DEF IInv, Shapes
<1>5. Origins'
  BY <1>1, Unmoved DEF IInv, Origins
<1>6. Clean' /\ Sole'
  BY DEF IInv, Clean, Sole
<1>7. Walk'
  BY Unmoved DEF IInv, Walk
<1> QED
  BY <1>3, <1>4, <1>5, <1>6, <1>7 DEF IInv

LEMMA ForgetSteps ==
  ASSUME IInv, (\E q \in Requests : Deny(q)) \/ \E c \in creates : LocalCreateThrows(c)
  PROVE  IInv'
<1>0. req \in [Requests -> ReqType]
  BY DEF IInv, Shapes
<1>1. ASSUME NEW q \in Requests, Deny(q) PROVE IInv'
  BY <1>0, <1>1, Forgotten DEF Deny
<1>2. ASSUME NEW c \in creates, LocalCreateThrows(c) PROVE IInv'
  BY <1>2, Forgotten DEF LocalCreateThrows
<1> QED
  BY <1>1, <1>2

(***************************************************************************)
(* The calls a /register sends are the only ones of its secret, and it is  *)
(* alone only if nothing else was under way.                               *)
(***************************************************************************)
LEMMA RegisterStep ==
  ASSUME IInv, NEW q \in Requests, Register(q)
  PROVE  IInv'
<1> DEFINE ring == Range(Ring(count))
           quiet == creates = {} /\ \A o \in Requests : req[o] = NoReq
<1>1. /\ UNCHANGED << point, count, prior, record, cap, walk >>
      /\ sole' = FALSE /\ tried' = tried \cup {count} /\ secrets' = secrets + 1
      /\ creates' = creates \cup { [to |-> s, secret |-> secrets', era |-> count] : s \in ring }
  BY DEF Register
<1>2. /\ count \in Counts /\ ring \subseteq Shards /\ count \in FirstCount .. count
      /\ secrets \in Nat /\ secrets' \in Secrets /\ secrets' # 0
  <2>1. count \in FirstCount .. count
    BY CountAssumption DEF IInv, TypeOK
  <2>2. secrets \in 0 .. MaxSecrets /\ secrets < MaxSecrets
    BY DEF IInv, TypeOK, Register
  <2>3. secrets \in Nat /\ secrets' \in Secrets /\ secrets' # 0
    BY <1>1, <2>2, SecretsAssumption DEF Secrets
  <2> QED
    BY <2>1, <2>3, Basics DEF IInv, RingOK
<1>3. /\ req' = [ r \in Requests |-> req'[r] ]
      /\ req'[q] = [secret |-> secrets', era |-> count, waiting |-> ring, ok |-> {}, clean |-> quiet]
      /\ \A r \in Requests \ {q} :
           req'[r] = IF req[r] = NoReq THEN NoReq ELSE [req[r] EXCEPT !.clean = FALSE]
  BY DEF Register
<1>4. \A r \in Requests : req[r] \in ReqType
  BY DEF IInv, Shapes
<1> HIDE DEF ring, quiet
<1>5. ASSUME NEW r \in Requests \ {q}
      PROVE  /\ req'[r] \in ReqType /\ req'[r].secret = req[r].secret /\ req'[r].era = req[r].era
             /\ req'[r].waiting = req[r].waiting /\ req'[r].ok = req[r].ok
             /\ ~ req'[r].clean
             /\ req[r] = NoReq => req'[r] = NoReq
  <2>1. CASE req[r] = NoReq
    <3>1. req'[r] = NoReq
      BY <1>3, <2>1
    <3>2. ~ NoReq.clean
      BY DEF NoReq
    <3> QED
      BY <1>4, <2>1, <3>1, <3>2
  <2>2. CASE req[r] # NoReq
    BY <1>3, <1>4, <2>2 DEF ReqType
  <2> QED
    BY <2>1, <2>2
<1>6. /\ req'[q] \in ReqType /\ req'[q].secret = secrets' /\ req'[q].era = count
      /\ req'[q].waiting = ring /\ req'[q].ok = {} /\ (req'[q].clean => quiet)
  <2>1. quiet \in BOOLEAN
    BY DEF quiet
  <2>2. count \in Nat /\ secrets' \in Nat
    BY <1>1, <1>2, Basics DEF IInv
  <2> QED
    BY <1>2, <1>3, <2>1, <2>2 DEF ReqType
<1>7. ASSUME NEW c \in creates'
      PROVE  c \in creates \/ \E s \in ring : c = [to |-> s, secret |-> secrets', era |-> count]
  BY <1>1, <1>7
<1>8. ASSUME NEW c \in creates'
      PROVE  /\ c \in [to : Shards, secret : Secrets, era : Counts]
             /\ c.era \in tried' /\ c.to \in Range(Ring(c.era))
  <2>1. CASE c \in creates
    BY <1>1, <2>1 DEF IInv, TypeOK, Origins
  <2>2. ASSUME NEW s \in ring, c = [to |-> s, secret |-> secrets', era |-> count]
        PROVE  /\ c \in [to : Shards, secret : Secrets, era : Counts]
               /\ c.era \in tried' /\ c.to \in Range(Ring(c.era))
    BY <1>1, <1>2, <2>2 DEF ring
  <2> QED
    BY <1>7, <2>1, <2>2
<1>9. TypeOK'
  <2>1. ASSUME NEW r \in Requests, req'[r] # NoReq
        PROVE  /\ req'[r].secret \in 1 .. secrets' /\ req'[r].era \in tried'
               /\ req'[r].waiting \cap req'[r].ok = {}
               /\ req'[r].waiting \cup req'[r].ok \subseteq Range(Ring(req'[r].era))
    <3>1. CASE r = q
      BY <1>1, <1>2, <1>6, <3>1 DEF ring
    <3>2. CASE r # q
      <4>1. /\ req[r].secret \in 1 .. secrets /\ req[r].era \in tried
            /\ req[r].waiting \cap req[r].ok = {}
            /\ req[r].waiting \cup req[r].ok \subseteq Range(Ring(req[r].era))
        BY <1>5, <2>1, <3>2 DEF IInv, TypeOK
      <4> QED
        BY <1>1, <1>2, <1>5, <3>2, <4>1
    <3> QED
      BY <3>1, <3>2
  <2>2. secrets' \in 0 .. MaxSecrets
    BY <1>2, SecretsAssumption DEF Secrets
  <2>3. cap = NoCap \/ (cap.secret \in 1 .. secrets' /\ cap.shard = Primary(cap.era))
    BY <1>1, <1>2 DEF IInv, TypeOK
  <2>4. creates' \subseteq [to : Shards, secret : Secrets, era : Counts]
    BY <1>8
  <2>5. tried' \subseteq FirstCount .. count
    BY <1>1, <1>2 DEF IInv, TypeOK
  <2> QED
    BY <1>1, <2>1, <2>2, <2>3, <2>4, <2>5, Unmoved DEF IInv, TypeOK
<1>10. Shapes'
  BY <1>1, <1>3, <1>5, <1>6 DEF IInv, Shapes
<1>11. Origins'
  <2>1. \A r \in Requests : \A s \in req'[r].ok : record[s] # NoRecord
    BY <1>5, <1>6 DEF IInv, Origins
  <2>2. tried \subseteq tried'
    BY <1>1
  <2> QED
    BY <1>1, <1>8, <2>1, <2>2, Unmoved DEF IInv, Origins
<1>12. Clean'
  <2> SUFFICES ASSUME NEW r \in Requests, req'[r] # NoReq, req'[r].clean
               PROVE  /\ \A o \in Requests \ {r} : req'[o] = NoReq
                      /\ \A c \in creates' : c.secret = req'[r].secret
                      /\ \A s \in req'[r].ok : record'[s].secret = req'[r].secret
    BY DEF Clean
  <2>1. r = q /\ quiet
    BY <1>5, <1>6
  <2>2. \A c \in creates' : c.secret = secrets'
    BY <1>7, <2>1 DEF quiet
  <2> QED
    BY <1>5, <1>6, <2>1, <2>2 DEF quiet
<1>13. Sole' /\ Walk'
  BY <1>1, Unmoved DEF IInv, Sole, Walk
<1> QED
  BY <1>9, <1>10, <1>11, <1>12, <1>13 DEF IInv

(***************************************************************************)
(* A capability is handed out for a primary that has answered well.        *)
(***************************************************************************)
LEMMA GrantStep ==
  ASSUME IInv, NEW q \in Requests, Grant(q)
  PROVE  IInv'
<1> DEFINE era == req[q].era
<1>1. /\ UNCHANGED << point, count, prior, record, creates, secrets, walk, tried >>
      /\ req' = [req EXCEPT ![q] = NoReq] /\ sole' = req[q].clean
      /\ cap' = [secret |-> req[q].secret, shard |-> Primary(era), era |-> era]
      /\ req[q] # NoReq /\ Primary(era) \in req[q].ok
  BY DEF Grant
<1>2. /\ req \in [Requests -> ReqType] /\ era \in tried /\ req[q].secret \in 1 .. secrets
      /\ record[Primary(era)] # NoRecord /\ Primary(era) \in Shards
  BY <1>1 DEF IInv, TypeOK, Shapes, Origins, ReqType
<1>3. /\ cap'.secret = req[q].secret /\ cap'.shard = Primary(era) /\ cap'.era = era
  BY <1>1
<1>4. req'[q] = NoReq /\ \A r \in Requests \ {q} : req'[r] = req[r]
  BY <1>1, <1>2
<1>5. NoReq \in ReqType /\ NoReq.ok = {}
  BY DEF NoReq, ReqType
<1> HIDE DEF era
<1>6. TypeOK'
  BY <1>1, <1>2, <1>3, <1>4, Unmoved DEF IInv, TypeOK, ReqType
<1>7. Shapes'
  BY <1>1, <1>2, <1>5 DEF IInv, Shapes
<1>8. Origins'
  BY <1>1, <1>2, <1>3, <1>4, <1>5, Unmoved DEF IInv, Origins
<1>9. Clean'
  BY <1>1, <1>4 DEF IInv, Clean
<1>10. Sole'
  <2> SUFFICES ASSUME req[q].clean
               PROVE  /\ \A r \in Requests : req'[r] = NoReq
                      /\ \A c \in creates : c.secret = cap'.secret
                      /\ cap'.shard \in Shards
                      /\ record[cap'.shard].secret = cap'.secret
    BY <1>1 DEF Sole
  <2>1. /\ \A o \in Requests \ {q} : req[o] = NoReq
        /\ \A c \in creates : c.secret = req[q].secret
        /\ record[Primary(era)].secret = req[q].secret
    BY <1>1 DEF IInv, Clean
  <2> QED
    BY <1>2, <1>3, <1>4, <2>1
<1>11. Walk'
  BY <1>1, Unmoved DEF IInv, Walk
<1> QED
  BY <1>6, <1>7, <1>8, <1>9, <1>10, <1>11 DEF IInv

LEMMA Inductive ==
  ASSUME IInv, [CombinedNext]_combinedVars
  PROVE  IInv'
<1>1. CASE CombinedNext
  <2>1. CASE AddShard \/ \E n \in Counts : RecordPriorCount(n)
    BY <2>1, MeshSteps
  <2>2. CASE \E q \in Requests : HandleRegister(q)
    BY <2>2, RegisterStep, GrantStep, ForgetSteps DEF HandleRegister
  <2>3. CASE \E c \in creates : CreateOnReplica(c) \/ LocalCreate(c)
    BY <2>3, CallSteps DEF CreateOnReplica, LocalCreate
  <2>4. CASE \E c \in creates : LocalCreateThrows(c)
    BY <2>4, ForgetSteps
  <2>5. CASE \E s, to \in Shards : Replicate(s, to)
    BY <2>5, ReplicateStep
  <2>6. CASE ExistsOnReplica \/ LocalProbeThrows \/ NoteMissing \/ HandleResolve
    BY <2>6, WalkSteps DEF WalkStep, ExistsOnReplica, HandleResolve
  <2> QED
    BY <1>1, <2>1, <2>2, <2>3, <2>4, <2>5, <2>6 DEF CombinedNext
<1>2. CASE UNCHANGED combinedVars
  BY <1>2, Idle DEF combinedVars, vars
<1> QED
  BY <1>1, <1>2

LEMMA Invariant == CombinedSpec => []IInv
<1>1. CombinedInit => IInv
  BY InitInvariant
<1>2. IInv /\ [CombinedNext]_combinedVars => IInv'
  BY Inductive
<1> QED
  BY <1>1, <1>2, PTL DEF CombinedSpec

(***************************************************************************)
(* A Router alone takes no step the Combined Worker does not.              *)
(***************************************************************************)
LEMMA RouterInvariant == Spec => []IInv
<1>1. Init => IInv
  <2>1. Init => TypeOK /\ Shapes /\ Origins /\ Clean /\ Sole /\ Walk
    BY InitParts
  <2> QED
    BY <2>1 DEF IInv
<1>2. IInv /\ [Next]_vars => IInv'
  <2> SUFFICES ASSUME IInv, [Next]_vars PROVE IInv'
    OBVIOUS
  <2>1. CASE AddShard \/ \E n \in Counts : RecordPriorCount(n)
    BY <2>1, MeshSteps
  <2>2. CASE \E q \in Requests : Register(q) \/ Grant(q) \/ Deny(q)
    BY <2>2, RegisterStep, GrantStep, ForgetSteps
  <2>3. CASE \E c \in creates : Create(c) \/ FailCreate(c) \/ TimeOut(c)
    BY <2>3, CallSteps
  <2>4. CASE \E s, to \in Shards : Replicate(s, to)
    BY <2>4, ReplicateStep
  <2>5. CASE BeginResolve \/ FindMailbox \/ NextEra \/ FailProbe \/ NoteMissing
    BY <2>5, WalkSteps DEF WalkStep
  <2>6. CASE UNCHANGED vars
    BY <2>6, Idle DEF vars
  <2> QED
    BY <2>1, <2>2, <2>3, <2>4, <2>5, <2>6 DEF Next
<1> QED
  BY <1>1, <1>2, PTL DEF Spec

-----------------------------------------------------------------------------
(* The Worker's own mailbox.                                               *)

LEMMA RecordsGrow ==
  ASSUME IInv, [CombinedNext]_combinedVars
  PROVE  Grows
<1>1. CASE record' = record
  BY <1>1 DEF Grows
<1>2. ASSUME NEW c \in creates, Create(c) PROVE Grows
  <2>1. /\ c.to \in Shards /\ c.secret # 0
        /\ record' = [record EXCEPT ![c.to] = [secret |-> c.secret, replicas |-> Ring(c.era)]]
    BY <1>2, CallFacts DEF Create
  <2> QED
    BY <2>1 DEF IInv, Shapes, Grows, NoRecord, Shell
<1>3. ASSUME NEW s \in Shards, NEW to \in Shards, Replicate(s, to) PROVE Grows
  BY <1>3 DEF IInv, Shapes, Grows, Replicate
<1>4. CASE CombinedNext
  <2>1. CASE \E c \in creates : CreateOnReplica(c) \/ LocalCreate(c)
    BY <1>1, <1>2, <2>1 DEF CreateOnReplica, LocalCreate, FailCreate, TimeOut
  <2>2. CASE \E s, to \in Shards : Replicate(s, to)
    BY <1>3, <2>2
  <2>3. CASE ~ (\E c \in creates : CreateOnReplica(c) \/ LocalCreate(c))
             /\ ~ (\E s, to \in Shards : Replicate(s, to))
    BY <1>1, <1>4, <2>3
       DEF CombinedNext, AddShard, RecordPriorCount, HandleRegister, Register, Grant, Deny,
           LocalCreateThrows, ExistsOnReplica, FindMailbox, NextEra, FailProbe,
           LocalProbeThrows, NoteMissing, HandleResolve, BeginResolve
  <2> QED
    BY <2>1, <2>2, <2>3
<1> QED
  BY <1>1, <1>4 DEF combinedVars, vars

LEMMA HomeAheadStep ==
  ASSUME IInv, HomeAhead, [CombinedNext]_combinedVars
  PROVE  HomeAhead'
<1>1. point' = point /\ Grows /\ home' = home
  BY RecordsGrow
     DEF CombinedNext, combinedVars, vars, AddShard, RecordPriorCount, HandleRegister, Register,
         Grant, Deny, CreateOnReplica, LocalCreate, Create, FailCreate, TimeOut, Replicate,
         LocalCreateThrows, ExistsOnReplica, FindMailbox, NextEra, FailProbe,
         LocalProbeThrows, NoteMissing, HandleResolve, BeginResolve
<1>2. \A n \in walk.eras : Primary(n) \in Shards
  BY Basics DEF IInv, TypeOK, RingOK
<1>3. CASE UNCHANGED << walk, mine >>
  BY <1>1, <1>2, <1>3, Unmoved DEF HomeAhead, Grows
<1>4. CASE walk' = NoWalk
  BY <1>4 DEF HomeAhead
<1>5. CASE HandleResolve
  <2>1. /\ walk'.eras = EraCounts(count) /\ record' = record
        /\ mine' = \E n \in EraCounts(count) : Primary(n) = home /\ record[home] # NoRecord
    BY <1>5 DEF HandleResolve, BeginResolve
  <2> QED
    BY <1>1, <2>1, Unmoved DEF HomeAhead
<1>6. CASE mine' = mine /\ NextEra
  <2>1. /\ walk'.eras = walk.eras \ {Max(walk.eras)} /\ record' = record /\ walk # NoWalk
        /\ record[Primary(Max(walk.eras))] = NoRecord
    BY <1>6 DEF NextEra, Probed, IInv, Shapes, WalkType, NoWalk
  <2> QED
    BY <1>1, <1>6, <2>1, Unmoved DEF HomeAhead
<1>7. CASE mine' = mine /\ FailProbe /\ Probed # home
  <2>1. /\ walk'.eras = walk.eras \ {Max(walk.eras)} /\ record' = record /\ walk # NoWalk
        /\ Primary(Max(walk.eras)) # home
    BY <1>7 DEF FailProbe, Probed, IInv, Shapes, WalkType, NoWalk
  <2> QED
    BY <1>1, <1>7, <2>1, Unmoved DEF HomeAhead
<1> QED
  BY <1>3, <1>4, <1>5, <1>6, <1>7
     DEF CombinedNext, combinedVars, vars, AddShard, RecordPriorCount, HandleRegister, Register,
         Grant, Deny, CreateOnReplica, LocalCreate, Create, FailCreate, TimeOut, Replicate,
         LocalCreateThrows, ExistsOnReplica, FindMailbox, LocalProbeThrows, NoteMissing

LEMMA HomeInvariant == CombinedSpec => []HomeAhead
<1>1. CombinedInit => HomeAhead
  BY InitInvariant
<1>2. IInv /\ HomeAhead /\ [CombinedNext]_combinedVars => HomeAhead'
  BY HomeAheadStep
<1> QED
  BY <1>1, <1>2, Invariant, PTL DEF CombinedSpec

-----------------------------------------------------------------------------

(***************************************************************************)
(* The shapes of the state of /register, /resolve and the shards' records. *)
(***************************************************************************)
THEOREM TypeCorrect == CombinedSpec => []CombinedTypeOK
<1> DEFINE Own == home \in Homes /\ mine \in BOOLEAN
<1>1. CombinedInit => Own
  BY DEF CombinedInit
<1>2. Own /\ [CombinedNext]_combinedVars => Own'
  BY DEF CombinedNext, combinedVars, HandleResolve
<1>3. IInv /\ Own => CombinedTypeOK
  BY DEF IInv, CombinedTypeOK
<1> HIDE DEF Own
<1> QED
  BY <1>1, <1>2, <1>3, Invariant, PTL DEF CombinedSpec

(***************************************************************************)
(* The owner's capability opens its mailbox, whatever late calls of        *)
(* /create, copies and growth of the mesh there are.                       *)
(***************************************************************************)
THEOREM OwnerOpensHolds == CombinedSpec => []OwnerOpens
<1>1. IInv => OwnerOpens
  BY DEF IInv, Sole, OwnerOpens
<1> QED
  BY <1>1, Invariant, PTL

LEMMA MissingIsUnknown ==
  ASSUME IInv
  PROVE  NoteMissing /\ walk.sound => walk.known = 0
BY DEF IInv, Walk, NoteMissing

(***************************************************************************)
(* Whatever /resolve finds has the siblings of the owner's shard, if the   *)
(* owner registered under one shard count only.                            *)
(***************************************************************************)
LEMMA FoundCopies ==
  ASSUME IInv
  PROVE  FindMailbox /\ cap # NoCap /\ tried = {cap.era}
           => cap.shard \in Range(record[Probed].replicas)
<1> SUFFICES ASSUME FindMailbox, cap # NoCap, tried = {cap.era}
             PROVE  cap.shard \in Range(record[Probed].replicas)
  OBVIOUS
<1>1. Max(walk.eras) \in walk.eras
  <2>1. MaxCount \in Nat /\ walk.eras \in SUBSET (1 .. MaxCount) /\ walk.eras # {}
    BY CountAssumption DEF IInv, TypeOK, Counts, FindMailbox
  <2> QED
    BY <2>1, MaxMember
<1>2. Probed \in Shards
  BY <1>1, Basics DEF IInv, TypeOK, RingOK, Probed
<1>3. PICK e \in tried : record[Probed].replicas = Ring(e)
  BY <1>2 DEF IInv, Origins, FindMailbox
<1>4. record[Probed].replicas = Ring(cap.era) /\ cap.shard = Primary(cap.era) /\ cap.era \in Counts
  BY <1>3, Basics DEF IInv, Origins
<1> QED
  BY <1>4, Basics DEF IInv, RingOK

(***************************************************************************)
(* A /resolve that no failed probe misled does not tell a sender that a    *)
(* registered owner is not registered.                                     *)
(***************************************************************************)
THEOREM FindableHolds == CombinedSpec => Findable
<1>1. IInv => [NoteMissing /\ walk.sound => walk.known = 0]_vars
  BY MissingIsUnknown
<1> QED
  BY <1>1, Invariant, PTL DEF Findable

(***************************************************************************)
(* What /resolve finds for a sender is the owner's shard or copies to it.  *)
(***************************************************************************)
THEOREM ReachesOwnerHolds == CombinedSpec => ReachesOwner
<1>1. IInv => [ FindMailbox /\ cap # NoCap /\ tried = {cap.era}
                  => cap.shard \in Range(record[Probed].replicas) ]_vars
  BY FoundCopies
<1> QED
  BY <1>1, Invariant, PTL DEF ReachesOwner

(***************************************************************************)
(* A mailbox the Worker holds itself is never reported missing, whichever  *)
(* probes of other shards fail.                                            *)
(***************************************************************************)
THEOREM LocalFoundHolds == CombinedSpec => LocalFound
<1>1. HomeAhead => [NoteMissing => ~ mine]_combinedVars
  BY DEF HomeAhead, NoteMissing
<1> QED
  BY <1>1, HomeInvariant, PTL DEF LocalFound

(***************************************************************************)
(* The same of a Router that is no shard (router/router.js).               *)
(***************************************************************************)
THEOREM RouterHolds == Spec => [](TypeOK /\ OwnerOpens) /\ Findable /\ ReachesOwner
<1>1. IInv => TypeOK /\ OwnerOpens
  BY DEF IInv, Sole, OwnerOpens
<1>2. IInv => [NoteMissing /\ walk.sound => walk.known = 0]_vars
  BY MissingIsUnknown
<1>3. IInv => [ FindMailbox /\ cap # NoCap /\ tried = {cap.era}
                  => cap.shard \in Range(record[Probed].replicas) ]_vars
  BY FoundCopies
<1> QED
  BY <1>1, <1>2, <1>3, RouterInvariant, PTL DEF Findable, ReachesOwner

=============================================================================
