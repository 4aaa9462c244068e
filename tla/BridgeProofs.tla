---------------------------- MODULE BridgeProofs ----------------------------
(***************************************************************************)
(* What the bridge promises core, for any mailboxes, frames, shards and    *)
(* Routers and any number of failures, deaths and restarts.                *)
(***************************************************************************)
EXTENDS Bridge, FiniteSetTheorems, SequenceTheorems, TLAPS

Names == {"none", "register", "send", "attach", "poll"}

OpType ==
  [ pc      : {"idle", "ask", "save", "write", "try", "read"},
    name    : Names,
    mailbox : Mailboxes \cup {None},
    frame   : Frames \cup {None},
    router  : Routers \cup {None},
    left    : Seq(Shards),
    targets : SUBSET Mailboxes,
    got     : SUBSET Copies ]

(***************************************************************************)
(* What TypeOK leaves out: the request being served has the fields that    *)
(* its next step reads.                                                    *)
(***************************************************************************)
OpOK ==
  /\ op \in OpType
  /\ op.pc = "idle" => op = Idle
  /\ op.pc \in {"ask", "save", "write", "try"} =>
       op.mailbox \in Mailboxes /\ op.got = {} /\ op.name \in {"register", "send", "attach"}
  /\ op.pc = "ask" => op.router \in Routers /\ op.name # "attach"
  /\ op.pc = "try" => op.name = "send"
  /\ op.pc = "read" => op.name = "poll"
  /\ op.name = "send" => op.frame \in Frames
  /\ ~ up => op = Idle

HistoryOK ==
  /\ box \subseteq Copies /\ inbox \subseteq Copies /\ lost \subseteq Copies
  /\ confirmed \subseteq Copies
  /\ sent \subseteq Frames
  /\ told \subseteq Mailboxes
  /\ routed \in BOOLEAN

Typed == TypeOK /\ OpOK /\ HistoryOK

-----------------------------------------------------------------------------
(* The rest of the inductive invariant.                                    *)

(***************************************************************************)
(* A copy is in one place.                                                 *)
(***************************************************************************)
Apart ==
  /\ accepted = box \cup op.got \cup inbox \cup lost
  /\ box \cap op.got = {} /\ box \cap inbox = {} /\ box \cap lost = {}
  /\ op.got \cap inbox = {} /\ op.got \cap lost = {}
  /\ inbox \cap lost = {}

(***************************************************************************)
(* The frame being sent is at none of the shards not tried yet.            *)
(***************************************************************************)
Untried ==
  op.name = "send" =>
    /\ op.frame \in sent \ acked
    /\ \A i \in 1 .. Len(op.left) : << op.frame, op.left[i] >> \notin accepted
    /\ \A i, j \in 1 .. Len(op.left) : op.left[i] = op.left[j] => i = j
    /\ op.pc = "ask" => \A s \in Shards : << op.frame, s >> \notin accepted

Confirmation ==
  /\ \A c \in accepted : c[1] \in sent
  /\ \A c \in confirmed : c[1] \in acked
  /\ \A f \in acked : \E s \in Shards : << f, s >> \in confirmed
  /\ \A c, d \in confirmed : c[1] = d[1] => c = d

(***************************************************************************)
(* The map about to be saved has the alias of the request, with its Router.*)
(***************************************************************************)
Saving ==
  /\ op.pc \in {"save", "write"} =>
       /\ aliases[op.mailbox] # None
       /\ aliases[op.mailbox].router = op.router
  /\ op.pc = "write" => torn

(***************************************************************************)
(* A Router known to the alias map, in memory and on disk.                 *)
(***************************************************************************)
RouterSaved ==
  routed => /\ up => Named(aliases) # {}
            /\ ~ torn => Named(disk) # {}

IInv ==
  /\ Typed
  /\ Apart
  /\ Untried
  /\ Confirmation
  /\ Saving
  /\ AliasesKept
  /\ RouterSaved

Pcs == {"idle", "ask", "save", "write", "try", "read"}

LEMMA IdleTyped == Idle \in OpType
  BY DEF Idle, OpType, Names

LEMMA TailTyped ==
  ASSUME NEW left \in Seq(Shards), left # << >>
  PROVE  /\ Head(left) \in Shards /\ Tail(left) \in Seq(Shards)
         /\ Head(left) = left[1]
         /\ Len(left) \in Nat /\ Len(left) > 0
         /\ Len(Tail(left)) = Len(left) - 1
         /\ \A i \in 1 .. Len(Tail(left)) : Tail(left)[i] = left[i + 1]
<1>1. Len(left) \in Nat /\ Len(left) # 0
  BY EmptySeq
<1>2. Head(left) = left[1]
  BY <1>1
<1> QED
  BY <1>1, <1>2, HeadTailProperties

LEMMA InitIInv == Init => IInv
<1> SUFFICES ASSUME Init PROVE IInv
  OBVIOUS
<1>1. TypeOK
  <2>1. Unknown \in Map
    BY DEF Unknown, Map
  <2>2. 0 \in 0 .. MaxFailures
    BY MaxFailuresAssumption
  <2> QED
    BY <2>1, <2>2 DEF Init, TypeOK, Idle
<1>2. OpOK /\ HistoryOK
  BY IdleTyped DEF Init, OpOK, HistoryOK, Idle
<1>3. Apart /\ Untried /\ Confirmation /\ Saving /\ AliasesKept /\ RouterSaved
  BY DEF Init, Apart, Untried, Confirmation, Saving, AliasesKept, RouterSaved, Idle
<1> QED
  BY <1>1, <1>2, <1>3 DEF IInv, Typed

-----------------------------------------------------------------------------
(* Typing.                                                                 *)

LEMMA NamedTyped ==
  ASSUME NEW map \in Map
  PROVE  Named(map) \subseteq Routers
<1> SUFFICES ASSUME NEW r \in Named(map) PROVE r \in Routers
  OBVIOUS
<1>1. PICK m \in Mailboxes : map[m] # None /\ r = map[m].router /\ r # None
  BY DEF Named
<1>2. map[m] \in Binding
  BY <1>1 DEF Map
<1> QED
  BY <1>1, <1>2 DEF Binding

LEMMA EffectiveRoutersTyped == TypeOK => EffectiveRouters \subseteq Routers
<1> SUFFICES ASSUME TypeOK PROVE EffectiveRouters \subseteq Routers
  OBVIOUS
<1>1. Named(attached) \subseteq Routers /\ Named(aliases) \subseteq Routers
  BY NamedTyped DEF TypeOK
<1>2. router # None => {router} \subseteq Routers
  BY DEF TypeOK
<1> QED
  BY <1>1, <1>2 DEF EffectiveRouters

LEMMA HomeHead ==
  ASSUME NEW m \in Mailboxes
  PROVE  Home[m] \in Seq(Shards) /\ Home[m] # << >> /\ Head(Home[m]) \in Shards
  BY HomeAssumption

LEMMA QueuedBox ==
  ASSUME NEW m \in Mailboxes
  PROVE  Queued(m) \subseteq box
  BY DEF Queued

LEMMA OpFields ==
  ASSUME op \in OpType
  PROVE  /\ op.pc \in Pcs /\ op.name \in Names
         /\ op.mailbox \in Mailboxes \cup {None} /\ op.frame \in Frames \cup {None}
         /\ op.router \in Routers \cup {None} /\ op.left \in Seq(Shards)
         /\ op.targets \in SUBSET Mailboxes /\ op.got \in SUBSET Copies
  BY DEF OpType, Pcs

LEMMA BindingIn ==
  ASSUME NEW map \in Map, NEW m \in Mailboxes, NEW r \in Routers \cup {None},
         NEW s \in Shards
  PROVE  [map EXCEPT ![m] = [shard |-> s, router |-> r]] \in Map
  BY DEF Map, Binding

LEMMA NextTyped ==
  ASSUME IInv, [Next]_vars
  PROVE  Typed'
<1>0. TypeOK /\ OpOK /\ HistoryOK
  BY DEF IInv, Typed
<1>f. /\ op.pc \in Pcs /\ op.name \in Names
      /\ op.mailbox \in Mailboxes \cup {None} /\ op.frame \in Frames \cup {None}
      /\ op.router \in Routers \cup {None} /\ op.left \in Seq(Shards)
      /\ op.targets \in SUBSET Mailboxes /\ op.got \in SUBSET Copies
  BY <1>0, OpFields DEF OpOK
<1> USE <1>0, IdleTyped DEF Typed, TypeOK, HistoryOK, OpOK, memory, file, mail
<1>1. ASSUME NEW r \in Routers \cup {None}, Initialize(r)
      PROVE  Typed'
  BY <1>1 DEF Initialize, Ready
<1>2. ASSUME NEW r \in Routers \cup {None}, NEW m \in Mailboxes, RegisterOrResolve(m, r)
      PROVE  Typed'
  <2>1. r \in Routers
    BY <1>2, EffectiveRoutersTyped DEF RegisterOrResolve
  <2>2. op' \in OpType
    BY <1>2, <2>1 DEF RegisterOrResolve, Ask, Idle, OpType, Names
  <2> QED
    BY <1>2, <2>1, <2>2 DEF RegisterOrResolve, Ask, Ready, Idle
<1>3. ASSUME NEW r \in Routers \cup {None}, NEW m \in Mailboxes, Attach(m, r)
      PROVE  Typed'
  <2>1. op' \in OpType
    BY <1>3 DEF Attach, Idle, OpType, Names
  <2>2. aliases' \in Map /\ attached' \in Map
    BY <1>3, HomeHead, BindingIn DEF Attach
  <2> QED
    BY <1>3, <2>1, <2>2 DEF Attach, Ready, Idle
<1>4. ASSUME NEW r \in Routers \cup {None}, NEW f \in Frames, SendToPeer(f, r)
      PROVE  Typed'
  <2>1. r \in Routers /\ Dest[f] \in Mailboxes
    BY <1>4, EffectiveRoutersTyped, DestAssumption DEF SendToPeer
  <2>2. op' \in OpType
    BY <1>4, <2>1 DEF SendToPeer, Ask, Idle, OpType, Names
  <2> QED
    BY <1>4, <2>1, <2>2 DEF SendToPeer, Ask, Ready, Idle
<1>5. ASSUME NEW start \in BOOLEAN, StartStop(start) PROVE Typed'
  BY <1>5 DEF StartStop, Ready
<1>6. ASSUME NEW f \in Frames, NEW s \in Shards, SendToShard(f, s)
      PROVE  Typed'
  <2>1. Dest[f] \in Mailboxes /\ << s >> \in Seq(Shards)
    BY DestAssumption
  <2>2. op' \in OpType
    BY <1>6, <2>1 DEF SendToShard, Idle, OpType, Names
  <2> QED
    BY <1>6, <2>1, <2>2 DEF SendToShard, Ready, Idle
<1>7. CASE AskFails
  BY <1>7 DEF AskFails, Idle
<1>8. CASE AskSucceeds
  <2>1. op.mailbox \in Mailboxes /\ op.router \in Routers
    BY <1>8 DEF AskSucceeds
  <2>2. op' \in OpType
    BY <1>8, <2>1, HomeHead DEF AskSucceeds, OpType
  <2>3. aliases' \in Map
    BY <1>8, <2>1, HomeHead, BindingIn DEF AskSucceeds
  <2> QED
    BY <1>8, <1>f, <2>1, <2>2, <2>3 DEF AskSucceeds, OpType, Idle
<1>9. CASE Truncate
  <2>1. op' \in OpType
    BY <1>9 DEF Truncate, OpType
  <2> QED
    BY <1>9, <1>f, <2>1 DEF Truncate, OpType, Idle
<1>s. ASSUME Served, op.pc \in {"save", "write"}, UNCHANGED << up, accepted >>, sent' = sent
      PROVE  OpOK' /\ op'.pc \in Pcs /\ op'.got = {} /\ op'.targets \subseteq Mailboxes
  <2>1. op' \in OpType
    BY <1>s DEF Served, OpType, Idle, Names
  <2> QED
    BY <1>s, <1>f, <2>1 DEF Served, OpType, Pcs, Idle
<1>10. CASE OpenFails
  BY <1>10, <1>s, MaxFailuresAssumption DEF OpenFails, Fail, Pcs
<1>11. CASE WriteFile
  BY <1>11, <1>f, <1>s DEF WriteFile, Saved, Pcs
<1>12. CASE WriteFails
  <2>1. OpOK' /\ op'.pc \in Pcs /\ op'.got = {} /\ op'.targets \subseteq Mailboxes
    BY <1>12, <1>s DEF WriteFails, Saved
  <2>2. failures' \in 0 .. MaxFailures
    BY <1>12, MaxFailuresAssumption DEF WriteFails, Fail
  <2>3. HistoryOK'
    BY <1>12, <1>f DEF WriteFails, Saved
  <2> QED
    BY <1>12, <2>1, <2>2, <2>3 DEF WriteFails, Pcs
<1>13. CASE ShardTakes
  <2>1. op.frame \in Frames /\ op.frame \in sent /\ Head(op.left) \in Shards
    BY <1>13, <1>f, TailTyped DEF ShardTakes, IInv, Untried
  <2> QED
    BY <1>13, <2>1 DEF ShardTakes, Idle, Copies
<1>14. CASE ShardRefuses
  <2>1. op' \in OpType
    BY <1>14, <1>f, TailTyped DEF ShardRefuses, OpType
  <2> QED
    BY <1>14, <1>f, <2>1 DEF ShardRefuses, OpType, Idle
<1>15. CASE SendAnswerLost
  <2>1. op' \in OpType /\ op.frame \in Frames /\ Head(op.left) \in Shards
    BY <1>15, <1>f, TailTyped DEF SendAnswerLost, OpType
  <2>2. OpOK'
    BY <1>15, <1>f, <2>1 DEF SendAnswerLost, OpType, Idle
  <2>3. failures' \in 0 .. MaxFailures
    BY <1>15, MaxFailuresAssumption DEF SendAnswerLost, Fail
  <2>4. box' \subseteq Copies /\ accepted' \subseteq Copies
    BY <1>15, <2>1 DEF SendAnswerLost, Copies
  <2> QED
    BY <1>15, <1>f, <2>1, <2>2, <2>3, <2>4 DEF SendAnswerLost, OpType
<1>16. CASE SendFails
  BY <1>16 DEF SendFails, Idle
<1>17. ASSUME NEW m \in Mailboxes, Detach(m) PROVE Typed'
  BY <1>17 DEF Detach, Ready, Map
<1>18. ASSUME NEW asked \in SUBSET Mailboxes, Poll(asked)
      PROVE  Typed'
  <2> DEFINE T == { m \in asked : attached[m] # None }
  <2>1. T \in SUBSET Mailboxes
    OBVIOUS
  <2>2. op' \in OpType
    <3>1. op' = [Idle EXCEPT !.pc = "read", !.name = "poll", !.targets = T]
      BY <1>18 DEF Poll
    <3> HIDE DEF T
    <3> QED
      BY <2>1, <3>1 DEF Idle, OpType, Names
  <2> QED
    BY <1>18, <2>1, <2>2 DEF Poll, Ready, Idle
<1>19. ASSUME NEW m \in Mailboxes, Read(m) PROVE Typed'
  <2>1. op' \in OpType
    BY <1>19, <1>f, QueuedBox DEF Read, OpType
  <2> QED
    BY <1>19, <1>f, QueuedBox, <2>1 DEF Read, OpType, Idle
<1>20. ASSUME NEW m \in Mailboxes, ReadFails(m) PROVE Typed'
  <2>1. op' \in OpType
    BY <1>20, <1>f DEF ReadFails, OpType
  <2> QED
    BY <1>20, <1>f, <2>1 DEF ReadFails, OpType, Idle
<1>21. ASSUME NEW m \in Mailboxes, ReadAnswerLost(m) PROVE Typed'
  <2>1. op' \in OpType
    BY <1>21, <1>f, QueuedBox DEF ReadAnswerLost, OpType
  <2> QED
    BY <1>21, <1>f, QueuedBox, <2>1, MaxFailuresAssumption DEF ReadAnswerLost, Fail, OpType, Idle
<1>22. CASE ReturnFrames
  BY <1>22, <1>f DEF ReturnFrames, Idle
<1>23. CASE Crash
  <2>1. failures' \in 0 .. MaxFailures
    BY <1>23, MaxFailuresAssumption DEF Crash, Fail
  <2>2. OpOK' /\ op'.pc \in Pcs /\ op'.got = {} /\ op'.targets \subseteq Mailboxes
    BY <1>23 DEF Crash, Idle, Pcs
  <2>3. HistoryOK'
    BY <1>23, <1>f DEF Crash
  <2> QED
    BY <1>23, <2>1, <2>2, <2>3 DEF Crash, Pcs
<1>24. CASE Restart
  BY <1>24 DEF Restart, Unknown, Map
<1>25. CASE UNCHANGED vars
  BY <1>25 DEF vars
<1> QED
  BY <1>1, <1>2, <1>3, <1>4, <1>5, <1>6, <1>7, <1>8, <1>9, <1>10, <1>11, <1>12,
     <1>13, <1>14, <1>15, <1>16, <1>17, <1>18, <1>19, <1>20, <1>21, <1>22, <1>23,
     <1>24, <1>25 DEF Next

-----------------------------------------------------------------------------
(* One conjunct after the other.                                           *)

\* A request before its first read holds no copies, nor does its answer.
LEMMA NoneHeld ==
  ASSUME OpOK, op.pc # "read"
  PROVE  op.got = {}
<1>1. op.pc \in Pcs
  BY OpFields DEF OpOK
<1> QED
  BY <1>1 DEF OpOK, Idle, Pcs

LEMMA ApartStep ==
  ASSUME IInv, [Next]_vars
  PROVE  Apart'
<1>0. OpOK /\ op \in OpType /\ Apart
  BY DEF IInv, Typed, OpOK
<1>s. ASSUME op'.got = op.got, UNCHANGED mail PROVE Apart'
  BY <1>0, <1>s DEF Apart, mail
<1>n. Idle.got = {}
  BY DEF Idle
<1>1. ASSUME NEW r \in Routers \cup {None}, Initialize(r) PROVE Apart'
  BY <1>1, <1>s DEF Initialize
<1>2. ASSUME NEW r \in Routers \cup {None}, NEW m \in Mailboxes,
             RegisterOrResolve(m, r) \/ Attach(m, r)
      PROVE  Apart'
  BY <1>2, <1>s DEF RegisterOrResolve, Attach, Ask, Ready, Idle
<1>3. ASSUME NEW r \in Routers \cup {None}, NEW f \in Frames, SendToPeer(f, r)
      PROVE  Apart'
  BY <1>3, <1>s DEF SendToPeer, Ask, Ready, Idle
<1>4. ASSUME NEW start \in BOOLEAN, StartStop(start) PROVE Apart'
  BY <1>4, <1>s DEF StartStop
<1>5. ASSUME NEW f \in Frames, NEW s \in Shards, SendToShard(f, s) PROVE Apart'
  BY <1>5, <1>s DEF SendToShard, Ready, Idle
<1>6. CASE AskFails \/ SendFails
  BY <1>0, <1>6, <1>s, <1>n, NoneHeld DEF AskFails, SendFails
<1>7. CASE AskSucceeds \/ Truncate \/ ShardRefuses
  BY <1>0, <1>7, <1>s DEF AskSucceeds, Truncate, ShardRefuses, OpType
<1>8. CASE OpenFails \/ WriteFile \/ WriteFails
  <2>1. op.pc # "read" /\ UNCHANGED mail /\ Served
    BY <1>8 DEF OpenFails, WriteFile, WriteFails, Saved
  <2>2. op'.got = op.got
    BY <1>0, <1>n, <2>1, NoneHeld DEF Served, OpType
  <2> QED
    BY <1>s, <2>1, <2>2
<1>9. CASE ShardTakes \/ SendAnswerLost
  <2> DEFINE c == << op.frame, Head(op.left) >>
  <2>1. /\ op.pc = "try" /\ op.left # << >>
        /\ box' = box \cup {c} /\ accepted' = accepted \cup {c}
        /\ UNCHANGED << inbox, lost >>
    BY <1>9 DEF ShardTakes, SendAnswerLost
  <2>2. op.got = {} /\ op'.got = {}
    BY <1>0, <1>9, <1>n, <2>1, NoneHeld DEF ShardTakes, SendAnswerLost, OpType
  <2>3. op.name = "send" /\ op.left \in Seq(Shards)
    BY <1>0, <2>1 DEF OpOK, OpType
  <2>4. c \notin accepted
    BY <2>1, <2>3, TailTyped DEF IInv, Untried
  <2> QED
    BY <1>0, <2>1, <2>2, <2>4 DEF Apart
<1>10. ASSUME NEW m \in Mailboxes, Detach(m) PROVE Apart'
  BY <1>10, <1>s DEF Detach
<1>11. ASSUME NEW asked \in SUBSET Mailboxes, Poll(asked) PROVE Apart'
  <2>1. op = Idle /\ UNCHANGED mail
    BY <1>11 DEF Poll, Ready
  <2>2. op'.got = {}
    BY <1>11 DEF Poll, Idle
  <2> QED
    BY <1>n, <1>s, <2>1, <2>2
<1>12. ASSUME NEW m \in Mailboxes, Read(m) PROVE Apart'
  <2>1. op'.got = op.got \cup Queued(m)
    BY <1>0, <1>12 DEF Read, OpType
  <2> QED
    BY <1>0, <1>12, <2>1, QueuedBox DEF Read, Apart
<1>13. ASSUME NEW m \in Mailboxes, ReadFails(m) PROVE Apart'
  BY <1>0, <1>13, <1>s DEF ReadFails, OpType
<1>14. ASSUME NEW m \in Mailboxes, ReadAnswerLost(m) PROVE Apart'
  <2>1. op'.got = op.got
    BY <1>0, <1>14 DEF ReadAnswerLost, OpType
  <2> QED
    BY <1>0, <1>14, <2>1, QueuedBox DEF ReadAnswerLost, Apart
<1>15. CASE ReturnFrames
  BY <1>0, <1>15, <1>n DEF ReturnFrames, Apart
<1>16. CASE Crash
  BY <1>0, <1>16, <1>n DEF Crash, Apart
<1>17. CASE Restart
  BY <1>17, <1>s DEF Restart
<1>18. CASE UNCHANGED vars
  BY <1>18, <1>s DEF vars
<1> QED
  BY <1>1, <1>2, <1>3, <1>4, <1>5, <1>6, <1>7, <1>8, <1>9, <1>10, <1>11, <1>12,
     <1>13, <1>14, <1>15, <1>16, <1>17, <1>18 DEF Next

LEMMA HomeDistinct ==
  ASSUME NEW m \in Mailboxes
  PROVE  \A i, j \in 1 .. Len(Home[m]) : Home[m][i] = Home[m][j] => i = j
<1>1. Home[m] \in Seq(Shards) /\ IsInjective(Home[m])
  BY HomeAssumption
<1> QED
  BY <1>1 DEF IsInjective

LEMMA TailUntried ==
  ASSUME OpOK, Untried, op.name = "send", op.left # << >>, NEW c,
         c = << op.frame, Head(op.left) >>
  PROVE  /\ c \notin accepted
         /\ \A i \in 1 .. Len(Tail(op.left)) :
              << op.frame, Tail(op.left)[i] >> \notin accepted \cup {c}
         /\ \A i, j \in 1 .. Len(Tail(op.left)) :
              Tail(op.left)[i] = Tail(op.left)[j] => i = j
<1> DEFINE left == op.left
<1>1. left \in Seq(Shards)
  BY DEF OpOK, OpType
<1>2. /\ Head(left) = left[1]
      /\ Len(left) \in Nat /\ Len(left) > 0
      /\ Len(Tail(left)) = Len(left) - 1
      /\ \A i \in 1 .. Len(Tail(left)) : Tail(left)[i] = left[i + 1]
  BY <1>1, TailTyped
<1>3. /\ \A i \in 1 .. Len(left) : << op.frame, left[i] >> \notin accepted
      /\ \A i, j \in 1 .. Len(left) : left[i] = left[j] => i = j
  BY DEF Untried
<1>4. ASSUME NEW i \in 1 .. Len(Tail(left))
      PROVE  /\ i + 1 \in 1 .. Len(left) /\ i + 1 # 1 /\ 1 \in 1 .. Len(left)
             /\ Tail(left)[i] = left[i + 1]
  BY <1>2
<1> HIDE DEF left
<1>5. << op.frame, left[1] >> \notin accepted
  BY <1>2, <1>3
<1>6. ASSUME NEW i \in 1 .. Len(Tail(left))
      PROVE  << op.frame, Tail(left)[i] >> \notin accepted \cup { << op.frame, left[1] >> }
  BY <1>3, <1>4
<1>7. ASSUME NEW i \in 1 .. Len(Tail(left)), NEW j \in 1 .. Len(Tail(left)),
             Tail(left)[i] = Tail(left)[j]
      PROVE  i = j
  <2>1. i + 1 = j + 1
    BY <1>3, <1>4, <1>7
  <2> QED
    BY <1>2, <2>1
<1> QED
  BY <1>2, <1>5, <1>6, <1>7 DEF left

LEMMA UntriedStep ==
  ASSUME IInv, [Next]_vars
  PROVE  Untried'
<1>0. OpOK /\ op \in OpType /\ Untried /\ Confirmation /\ TypeOK
  BY DEF IInv, Typed, OpOK
<1>i. ASSUME op'.name # "send" PROVE Untried'
  BY <1>i DEF Untried
<1>n. Idle.name # "send"
  BY DEF Idle
<1>s. ASSUME op' = op, UNCHANGED << sent, acked, accepted >> PROVE Untried'
  BY <1>0, <1>s DEF Untried
<1>k. ASSUME NEW pc \in Pcs \ {"ask"}, op' = [op EXCEPT !.pc = pc],
             UNCHANGED << sent, acked, accepted >>
      PROVE  Untried'
  <2>1. op'.name = op.name /\ op'.frame = op.frame /\ op'.left = op.left /\ op'.pc # "ask"
    BY <1>0, <1>k DEF OpType, Pcs
  <2> QED
    BY <1>0, <1>k, <2>1 DEF Untried
\* A frame core did not ask to send before was taken nowhere.
<1>new. ASSUME NEW f \in Frames, f \notin sent
        PROVE  f \notin acked /\ \A s \in Shards : << f, s >> \notin accepted
  <2>1. f \notin acked
    BY <1>0, <1>new DEF TypeOK
  <2>2. \A c \in accepted : c[1] \in sent
    BY <1>0 DEF Confirmation
  <2>3. ASSUME NEW s \in Shards, << f, s >> \in accepted PROVE FALSE
    <3>1. << f, s >>[1] = f
      OBVIOUS
    <3> QED
      BY <1>new, <2>2, <2>3, <3>1
  <2> QED
    BY <2>1, <2>3
<1>1. ASSUME NEW r \in Routers \cup {None}, Initialize(r) PROVE Untried'
  BY <1>1, <1>s DEF Initialize, mail
<1>2. ASSUME NEW r \in Routers \cup {None}, NEW m \in Mailboxes,
             RegisterOrResolve(m, r) \/ Attach(m, r)
      PROVE  Untried'
  BY <1>2, <1>i DEF RegisterOrResolve, Attach, Ask, Idle
<1>3. ASSUME NEW r \in Routers \cup {None}, NEW f \in Frames, SendToPeer(f, r)
      PROVE  Untried'
  <2>1. op'.frame = f /\ op'.left = << >> /\ UNCHANGED accepted
    BY <1>3 DEF SendToPeer, Ask, Idle, mail
  <2>2. sent' = sent \cup {f} /\ acked' = acked /\ f \notin sent
    BY <1>3 DEF SendToPeer, Ask
  <2> QED
    BY <1>new, <2>1, <2>2 DEF Untried
<1>4. ASSUME NEW start \in BOOLEAN, StartStop(start) PROVE Untried'
  BY <1>4, <1>s DEF StartStop, mail
<1>5. ASSUME NEW f \in Frames, NEW s \in Shards, SendToShard(f, s) PROVE Untried'
  <2>1. op'.frame = f /\ op'.left = << s >> /\ op'.pc # "ask" /\ UNCHANGED accepted
    BY <1>5 DEF SendToShard, Idle, mail
  <2>2. sent' = sent \cup {f} /\ acked' = acked /\ f \notin sent
    BY <1>5 DEF SendToShard
  <2>3. Len(<< s >>) = 1 /\ << s >>[1] = s
    OBVIOUS
  <2> QED
    BY <1>new, <2>1, <2>2, <2>3 DEF Untried
<1>6. CASE AskFails \/ SendFails
  BY <1>6, <1>i, <1>n DEF AskFails, SendFails
<1>7. CASE AskSucceeds
  <2>1. /\ op'.name = op.name /\ op'.frame = op.frame
        /\ op'.left = Home[op.mailbox] /\ op'.pc # "ask"
        /\ UNCHANGED << sent, acked, accepted >>
    BY <1>0, <1>7 DEF AskSucceeds, OpType, mail
  <2>2. op.pc = "ask" /\ op.mailbox \in Mailboxes
    BY <1>0, <1>7 DEF AskSucceeds, OpOK
  <2>3. Home[op.mailbox] \in Seq(Shards)
    BY <2>2, HomeHead
  <2>4. \A i \in 1 .. Len(Home[op.mailbox]) : Home[op.mailbox][i] \in Shards
    BY <2>3
  <2> QED
    BY <1>0, <2>1, <2>2, <2>4, HomeDistinct DEF Untried
<1>8. CASE Truncate
  BY <1>8, <1>k DEF Truncate, Pcs, mail
<1>9. CASE OpenFails \/ WriteFile \/ WriteFails
  <2>1. Served /\ UNCHANGED << sent, acked, accepted >>
    BY <1>9 DEF OpenFails, WriteFile, WriteFails, Saved, mail
  <2> QED
    BY <1>i, <1>k, <1>n, <2>1 DEF Served, Pcs
<1>10. CASE ShardTakes
  BY <1>10, <1>i, <1>n DEF ShardTakes
<1>11. CASE ShardRefuses \/ SendAnswerLost
  <2> DEFINE c == << op.frame, Head(op.left) >>
  <2>1. /\ op.pc = "try" /\ op.left # << >>
        /\ op' = [op EXCEPT !.left = Tail(@)]
        /\ accepted' \subseteq accepted \cup {c}
        /\ UNCHANGED << sent, acked >>
    BY <1>11 DEF ShardRefuses, SendAnswerLost, mail
  <2>2. op.name = "send"
    BY <1>0, <2>1 DEF OpOK
  <2>3. /\ op'.frame = op.frame /\ op'.left = Tail(op.left)
        /\ op'.pc # "ask"
    BY <1>0, <2>1 DEF OpType
  <2>4. /\ \A i \in 1 .. Len(Tail(op.left)) :
             << op.frame, Tail(op.left)[i] >> \notin accepted \cup {c}
        /\ \A i, j \in 1 .. Len(Tail(op.left)) :
             Tail(op.left)[i] = Tail(op.left)[j] => i = j
    BY <1>0, <2>1, <2>2, TailUntried
  <2>5. op.frame \in sent \ acked
    BY <1>0, <2>2 DEF Untried
  <2> HIDE DEF c
  <2> QED
    BY <2>1, <2>3, <2>4, <2>5 DEF Untried
<1>12. ASSUME NEW m \in Mailboxes, Detach(m) PROVE Untried'
  BY <1>12, <1>s DEF Detach, mail
<1>13. ASSUME NEW asked \in SUBSET Mailboxes, Poll(asked) PROVE Untried'
  BY <1>13, <1>i DEF Poll, Idle
<1>14. ASSUME NEW m \in Mailboxes, Read(m) \/ ReadFails(m) \/ ReadAnswerLost(m)
       PROVE  Untried'
  <2>1. op'.name = op.name /\ op.pc = "read"
    BY <1>0, <1>14 DEF Read, ReadFails, ReadAnswerLost, OpType
  <2> QED
    BY <1>0, <1>i, <2>1 DEF OpOK
<1>15. CASE ReturnFrames \/ Crash
  BY <1>15, <1>i, <1>n DEF ReturnFrames, Crash
<1>16. CASE Restart
  BY <1>16, <1>s DEF Restart, mail
<1>17. CASE UNCHANGED vars
  BY <1>17, <1>s DEF vars, mail
<1> QED
  BY <1>1, <1>2, <1>3, <1>4, <1>5, <1>6, <1>7, <1>8, <1>9, <1>10, <1>11, <1>12,
     <1>13, <1>14, <1>15, <1>16, <1>17 DEF Next

LEMMA ConfirmationStep ==
  ASSUME IInv, [Next]_vars
  PROVE  Confirmation'
<1>0. OpOK /\ op \in OpType /\ Untried /\ Confirmation
  BY DEF IInv, Typed, OpOK
<1>s. ASSUME sent \subseteq sent', UNCHANGED << accepted, confirmed, acked >>
      PROVE  Confirmation'
  BY <1>0, <1>s DEF Confirmation
<1>t. ASSUME op.pc = "try", op.left # << >>
      PROVE  op.frame \in sent \ acked /\ Head(op.left) \in Shards
  <2>1. op.name = "send" /\ op.left \in Seq(Shards)
    BY <1>0, <1>t DEF OpOK, OpType
  <2> QED
    BY <1>0, <1>t, <2>1, TailTyped DEF Untried
<1>1. CASE ShardTakes
  <2> DEFINE f == op.frame
             s == Head(op.left)
  <2>1. /\ f \in sent \ acked /\ s \in Shards
        /\ accepted' = accepted \cup {<< f, s >>}
        /\ confirmed' = confirmed \cup {<< f, s >>}
        /\ acked' = acked \cup {f}
        /\ sent' = sent
    BY <1>1, <1>t DEF ShardTakes
  <2> HIDE DEF f, s
  <2>2. << f, s >>[1] = f
    OBVIOUS
  <2>3. \A c \in confirmed : c[1] # f
    BY <1>0, <2>1 DEF Confirmation
  <2>4. \A c \in accepted' : c[1] \in sent'
    BY <1>0, <2>1, <2>2 DEF Confirmation
  <2>5. \A c \in confirmed' : c[1] \in acked'
    BY <1>0, <2>1, <2>2 DEF Confirmation
  <2>6. \A g \in acked' : \E t \in Shards : << g, t >> \in confirmed'
    BY <1>0, <2>1 DEF Confirmation
  <2>7. \A c, d \in confirmed' : c[1] = d[1] => c = d
    BY <1>0, <2>1, <2>2, <2>3 DEF Confirmation
  <2> QED
    BY <2>4, <2>5, <2>6, <2>7 DEF Confirmation
<1>2. CASE SendAnswerLost
  <2>1. /\ op.frame \in sent
        /\ accepted' = accepted \cup {<< op.frame, Head(op.left) >>}
        /\ UNCHANGED << sent, confirmed, acked >>
    BY <1>2, <1>t DEF SendAnswerLost
  <2>2. << op.frame, Head(op.left) >>[1] = op.frame
    OBVIOUS
  <2> QED
    BY <1>0, <2>1, <2>2 DEF Confirmation
<1>3. ASSUME NEW r \in Routers \cup {None}, NEW f \in Frames, SendToPeer(f, r)
      PROVE  Confirmation'
  BY <1>3, <1>s DEF SendToPeer, Ask, mail
<1>4. ASSUME NEW f \in Frames, NEW s \in Shards, SendToShard(f, s)
      PROVE  Confirmation'
  BY <1>4, <1>s DEF SendToShard, mail
<1>5. ASSUME NEW r \in Routers \cup {None}, NEW m \in Mailboxes,
             RegisterOrResolve(m, r) \/ Attach(m, r)
      PROVE  Confirmation'
  BY <1>5, <1>s DEF RegisterOrResolve, Attach, Ask, mail
<1>6. ASSUME NEW r \in Routers \cup {None}, Initialize(r) PROVE Confirmation'
  BY <1>6, <1>s DEF Initialize, mail
<1>7. ASSUME NEW start \in BOOLEAN, StartStop(start) PROVE Confirmation'
  BY <1>7, <1>s DEF StartStop, mail
<1>8. CASE AskFails \/ AskSucceeds \/ Truncate
  BY <1>8, <1>s DEF AskFails, AskSucceeds, Truncate, mail
<1>9. CASE OpenFails \/ WriteFile \/ WriteFails
  BY <1>9, <1>s DEF OpenFails, WriteFile, WriteFails, mail
<1>10. CASE ShardRefuses \/ SendFails
  BY <1>10, <1>s DEF ShardRefuses, SendFails, mail
<1>11. ASSUME NEW m \in Mailboxes, Detach(m) \/ ReadFails(m) \/ Read(m) \/ ReadAnswerLost(m)
       PROVE  Confirmation'
  BY <1>11, <1>s DEF Detach, ReadFails, Read, ReadAnswerLost, mail
<1>12. ASSUME NEW asked \in SUBSET Mailboxes, Poll(asked) PROVE Confirmation'
  BY <1>12, <1>s DEF Poll, mail
<1>13. CASE ReturnFrames \/ Crash \/ Restart
  BY <1>13, <1>s DEF ReturnFrames, Crash, Restart, mail
<1>14. CASE UNCHANGED vars
  BY <1>14, <1>s DEF vars, mail
<1> QED
  BY <1>1, <1>2, <1>3, <1>4, <1>5, <1>6, <1>7, <1>8, <1>9, <1>10, <1>11, <1>12,
     <1>13, <1>14 DEF Next

LEMMA SavingStep ==
  ASSUME IInv, [Next]_vars
  PROVE  Saving'
<1>0. OpOK /\ op \in OpType /\ Saving /\ TypeOK /\ Typed'
  BY NextTyped DEF IInv, Typed, OpOK
<1>i. ASSUME op'.pc \notin {"save", "write"} PROVE Saving'
  BY <1>i DEF Saving
<1>n. Idle.pc \notin {"save", "write"}
  BY DEF Idle
<1>s. ASSUME op' = op, op.pc \notin {"save", "write"} PROVE Saving'
  BY <1>i, <1>s
<1>b. ASSUME NEW m \in Mailboxes, NEW r \in Routers \cup {None}, NEW s \in Shards,
             aliases' = [aliases EXCEPT ![m] = [ shard |-> s, router |-> r ]],
             op'.mailbox = m, op'.router = r, op'.pc = "save"
      PROVE  Saving'
  <2>1. aliases'[m] = [ shard |-> s, router |-> r ]
    BY <1>0, <1>b DEF TypeOK, Map
  <2>2. aliases'[m] # None /\ aliases'[m].router = r
    BY <2>1, NoneAssumption DEF Binding
  <2> QED
    BY <1>b, <2>2 DEF Saving
<1>1. ASSUME NEW r \in Routers \cup {None}, Initialize(r) PROVE Saving'
  BY <1>1, <1>n, <1>s DEF Initialize, Ready
<1>2. ASSUME NEW r \in Routers \cup {None}, NEW m \in Mailboxes, RegisterOrResolve(m, r)
      PROVE  Saving'
  BY <1>2, <1>i DEF RegisterOrResolve, Ask, Idle
<1>3. ASSUME NEW r \in Routers \cup {None}, NEW m \in Mailboxes, Attach(m, r)
      PROVE  Saving'
  <2>1. op'.mailbox = m /\ op'.router = r /\ op'.pc = "save"
    BY <1>3 DEF Attach, Idle
  <2>2. aliases' = [aliases EXCEPT ![m] = [ shard |-> Head(Home[m]), router |-> r ]]
    BY <1>3 DEF Attach
  <2> QED
    BY <1>b, <2>1, <2>2, HomeHead
<1>4. ASSUME NEW r \in Routers \cup {None}, NEW f \in Frames, SendToPeer(f, r)
      PROVE  Saving'
  BY <1>4, <1>i DEF SendToPeer, Ask, Idle
<1>5. ASSUME NEW start \in BOOLEAN, StartStop(start) PROVE Saving'
  BY <1>5, <1>n, <1>s DEF StartStop, Ready
<1>6. ASSUME NEW f \in Frames, NEW s \in Shards, SendToShard(f, s) PROVE Saving'
  BY <1>6, <1>i DEF SendToShard, Idle
<1>7. CASE AskFails \/ SendFails \/ ShardTakes \/ ReturnFrames \/ Crash
  BY <1>7, <1>i, <1>n DEF AskFails, SendFails, ShardTakes, ReturnFrames, Crash
<1>8. CASE AskSucceeds
  <2>1. op.mailbox \in Mailboxes /\ op.router \in Routers
    BY <1>0, <1>8 DEF AskSucceeds, OpOK
  <2>2. op'.mailbox = op.mailbox /\ op'.router = op.router /\ op'.pc = "save"
    BY <1>0, <1>8 DEF AskSucceeds, OpType
  <2>3. aliases' = [aliases EXCEPT
          ![op.mailbox] = [ shard |-> Head(Home[op.mailbox]), router |-> op.router ]]
    BY <1>8 DEF AskSucceeds
  <2> QED
    BY <1>b, <2>1, <2>2, <2>3, HomeHead
<1>9. CASE Truncate
  <2>1. /\ op.pc = "save" /\ torn' /\ aliases' = aliases
        /\ op'.mailbox = op.mailbox /\ op'.router = op.router
    BY <1>0, <1>9 DEF Truncate, OpType, memory
  <2> QED
    BY <1>0, <2>1 DEF Saving
<1>10. CASE OpenFails \/ WriteFile \/ WriteFails
  <2>1. Served
    BY <1>10 DEF OpenFails, WriteFile, WriteFails, Saved
  <2>2. op'.pc \in {"idle", "try"}
    BY <1>0, <2>1 DEF Served, Idle, OpType
  <2> QED
    BY <1>i, <2>2
<1>11. CASE ShardRefuses \/ SendAnswerLost
  <2>1. op'.pc = "try"
    BY <1>0, <1>11 DEF ShardRefuses, SendAnswerLost, OpType
  <2> QED
    BY <1>i, <2>1
<1>12. ASSUME NEW m \in Mailboxes, Detach(m) PROVE Saving'
  BY <1>12, <1>n, <1>s DEF Detach, Ready
<1>13. ASSUME NEW asked \in SUBSET Mailboxes, Poll(asked) PROVE Saving'
  BY <1>13, <1>i DEF Poll, Idle
<1>14. ASSUME NEW m \in Mailboxes, Read(m) \/ ReadFails(m) \/ ReadAnswerLost(m)
       PROVE  Saving'
  <2>1. op'.pc = "read"
    BY <1>0, <1>14 DEF Read, ReadFails, ReadAnswerLost, OpType
  <2> QED
    BY <1>i, <2>1
<1>15. CASE Restart
  BY <1>0, <1>15, <1>n, <1>s DEF Restart, OpOK
<1>16. CASE UNCHANGED vars
  BY <1>0, <1>16 DEF vars, memory, file, Saving
<1> QED
  BY <1>1, <1>2, <1>3, <1>4, <1>5, <1>6, <1>7, <1>8, <1>9, <1>10, <1>11, <1>12,
     <1>13, <1>14, <1>15, <1>16 DEF Next

LEMMA AliasesKeptStep ==
  ASSUME IInv, [Next]_vars
  PROVE  AliasesKept'
<1>0. OpOK /\ op \in OpType /\ Saving /\ TypeOK /\ AliasesKept /\ Typed'
  BY NextTyped DEF IInv, Typed, OpOK
<1>s. ASSUME UNCHANGED << up, aliases, disk, told >>, torn => torn'
      PROVE  AliasesKept'
  BY <1>0, <1>s DEF AliasesKept
<1>b. ASSUME NEW m \in Mailboxes, NEW r \in Routers \cup {None}, NEW s \in Shards,
             aliases' = [aliases EXCEPT ![m] = [ shard |-> s, router |-> r ]],
             UNCHANGED << up, file, told >>
      PROVE  AliasesKept'
  <2>1. aliases'[m] # None /\ \A n \in Mailboxes \ {m} : aliases'[n] = aliases[n]
    BY <1>0, <1>b, NoneAssumption DEF TypeOK, Map, Binding
  <2>2. told \subseteq Mailboxes
    BY DEF IInv, Typed, HistoryOK
  <2> QED
    BY <1>0, <1>b, <2>1, <2>2 DEF AliasesKept, file
<1>1. ASSUME NEW r \in Routers \cup {None}, Initialize(r) PROVE AliasesKept'
  BY <1>1, <1>s DEF Initialize, file
<1>2. ASSUME NEW r \in Routers \cup {None}, NEW m \in Mailboxes, RegisterOrResolve(m, r)
      PROVE  AliasesKept'
  BY <1>2, <1>s DEF RegisterOrResolve, Ask, memory, file
<1>3. ASSUME NEW r \in Routers \cup {None}, NEW m \in Mailboxes, Attach(m, r)
      PROVE  AliasesKept'
  <2>1. /\ aliases' = [aliases EXCEPT ![m] = [ shard |-> Head(Home[m]), router |-> r ]]
        /\ UNCHANGED << up, file, told >>
    BY <1>3 DEF Attach
  <2> QED
    BY <1>b, <2>1, HomeHead
<1>4. ASSUME NEW r \in Routers \cup {None}, NEW f \in Frames, SendToPeer(f, r)
      PROVE  AliasesKept'
  BY <1>4, <1>s DEF SendToPeer, Ask, memory, file
<1>5. ASSUME NEW start \in BOOLEAN, StartStop(start) PROVE AliasesKept'
  BY <1>5, <1>s DEF StartStop, file
<1>6. ASSUME NEW f \in Frames, NEW s \in Shards, SendToShard(f, s) PROVE AliasesKept'
  BY <1>6, <1>s DEF SendToShard, memory, file
<1>7. CASE AskFails \/ Truncate \/ OpenFails
  BY <1>7, <1>s DEF AskFails, Truncate, OpenFails, memory, file
<1>8. CASE AskSucceeds
  <2>1. op.mailbox \in Mailboxes /\ op.router \in Routers
    BY <1>0, <1>8 DEF AskSucceeds, OpOK
  <2>2. /\ aliases' = [aliases EXCEPT
             ![op.mailbox] = [ shard |-> Head(Home[op.mailbox]), router |-> op.router ]]
        /\ UNCHANGED << up, file, told >>
    BY <1>8 DEF AskSucceeds
  <2> QED
    BY <1>b, <2>1, <2>2, HomeHead
<1>9. CASE WriteFile \/ WriteFails
  <2>1. /\ up /\ up' = up /\ aliases' = aliases
        /\ aliases[op.mailbox] # None /\ torn
        /\ told' \subseteq told \cup {op.mailbox}
    BY <1>0, <1>9 DEF WriteFile, WriteFails, Saved, Saving, OpOK, Idle, memory
  <2>2. torn' \/ disk' = aliases
    BY <1>9, <2>1 DEF WriteFile, WriteFails, file
  <2> QED
    BY <1>0, <2>1, <2>2 DEF AliasesKept
<1>10. CASE ShardTakes \/ ShardRefuses
  BY <1>10, <1>s DEF ShardTakes, ShardRefuses, memory, file
<1>11. CASE SendAnswerLost \/ SendFails
  BY <1>11, <1>s DEF SendAnswerLost, SendFails, memory, file
<1>12. ASSUME NEW m \in Mailboxes, Detach(m) PROVE AliasesKept'
  BY <1>12, <1>s DEF Detach, file
<1>13. ASSUME NEW asked \in SUBSET Mailboxes, Poll(asked) PROVE AliasesKept'
  BY <1>13, <1>s DEF Poll, memory, file
<1>14. ASSUME NEW m \in Mailboxes, Read(m) \/ ReadFails(m) \/ ReadAnswerLost(m)
       PROVE  AliasesKept'
  BY <1>14, <1>s DEF Read, ReadFails, ReadAnswerLost, memory, file
<1>15. CASE ReturnFrames
  BY <1>15, <1>s DEF ReturnFrames, memory, file
<1>16. CASE Crash
  BY <1>0, <1>16 DEF Crash, AliasesKept, memory, file
<1>17. CASE Restart
  BY <1>0, <1>17 DEF Restart, AliasesKept, file
<1>18. CASE UNCHANGED vars
  BY <1>18, <1>s DEF vars, memory, file
<1> QED
  BY <1>1, <1>2, <1>3, <1>4, <1>5, <1>6, <1>7, <1>8, <1>9, <1>10, <1>11, <1>12,
     <1>13, <1>14, <1>15, <1>16, <1>17, <1>18 DEF Next

\* One alias with a Router is enough to find one.
LEMMA NamedHas ==
  ASSUME NEW map, NEW m \in Mailboxes, map[m] # None, map[m].router # None
  PROVE  Named(map) # {}
  BY DEF Named

LEMMA RouterSavedStep ==
  ASSUME IInv, [Next]_vars
  PROVE  RouterSaved'
<1>0. OpOK /\ op \in OpType /\ Saving /\ TypeOK /\ RouterSaved
  BY DEF IInv, Typed, OpOK
<1>s. ASSUME UNCHANGED << up, aliases, disk >>, torn => torn', routed' => routed
      PROVE  RouterSaved'
  BY <1>0, <1>s DEF RouterSaved, Named
<1>b. ASSUME NEW m \in Mailboxes, NEW r \in Routers \cup {None}, NEW s \in Shards,
             aliases' = [aliases EXCEPT ![m] = [ shard |-> s, router |-> r ]],
             UNCHANGED file, routed' => routed /\ r # None
      PROVE  RouterSaved'
  <2>1. aliases'[m] # None /\ aliases'[m].router = r
    BY <1>0, <1>b, NoneAssumption DEF TypeOK, Map, Binding
  <2>2. routed' => Named(aliases') # {}
    BY <1>b, <2>1, NamedHas
  <2> QED
    BY <1>0, <1>b, <2>2 DEF RouterSaved, file
<1>1. ASSUME NEW r \in Routers \cup {None}, Initialize(r) PROVE RouterSaved'
  BY <1>1, <1>s DEF Initialize, file
<1>2. ASSUME NEW r \in Routers \cup {None}, NEW m \in Mailboxes, RegisterOrResolve(m, r)
      PROVE  RouterSaved'
  BY <1>2, <1>s DEF RegisterOrResolve, Ask, memory, file
<1>3. ASSUME NEW r \in Routers \cup {None}, NEW m \in Mailboxes, Attach(m, r)
      PROVE  RouterSaved'
  <2>1. /\ aliases' = [aliases EXCEPT ![m] = [ shard |-> Head(Home[m]), router |-> r ]]
        /\ UNCHANGED file /\ routed' = (routed /\ r # None)
    BY <1>3 DEF Attach
  <2> QED
    BY <1>b, <2>1, HomeHead
<1>4. ASSUME NEW r \in Routers \cup {None}, NEW f \in Frames, SendToPeer(f, r)
      PROVE  RouterSaved'
  BY <1>4, <1>s DEF SendToPeer, Ask, memory, file
<1>5. ASSUME NEW start \in BOOLEAN, StartStop(start) PROVE RouterSaved'
  BY <1>5, <1>s DEF StartStop, file
<1>6. ASSUME NEW f \in Frames, NEW s \in Shards, SendToShard(f, s) PROVE RouterSaved'
  BY <1>6, <1>s DEF SendToShard, memory, file
<1>7. CASE AskFails \/ Truncate \/ OpenFails
  BY <1>7, <1>s DEF AskFails, Truncate, OpenFails, memory, file
<1>8. CASE AskSucceeds
  <2>1. op.mailbox \in Mailboxes /\ op.router \in Routers
    BY <1>0, <1>8 DEF AskSucceeds, OpOK
  <2>2. /\ aliases' = [aliases EXCEPT
             ![op.mailbox] = [ shard |-> Head(Home[op.mailbox]), router |-> op.router ]]
        /\ UNCHANGED << file, routed >>
    BY <1>8 DEF AskSucceeds
  <2>3. op.router # None
    BY <2>1, NoneAssumption
  <2> QED
    BY <1>b, <2>1, <2>2, <2>3, HomeHead
<1>9. CASE WriteFile \/ WriteFails
  <2>1. /\ up /\ up' = up /\ aliases' = aliases /\ torn
        /\ op.mailbox \in Mailboxes
        /\ aliases[op.mailbox] # None /\ aliases[op.mailbox].router = op.router
    BY <1>0, <1>9 DEF WriteFile, WriteFails, Saving, OpOK, Idle, memory
  <2>4. routed' => routed \/ op.router # None
    <3>1. Saved
      BY <1>9 DEF WriteFile, WriteFails
    <3> QED
      BY <3>1 DEF Saved
  <2>2. torn' \/ disk' = aliases
    BY <1>9, <2>1 DEF WriteFile, WriteFails, file
  <2>3. routed' => Named(aliases) # {}
    BY <1>0, <2>1, <2>4, NamedHas DEF RouterSaved
  <2> QED
    BY <2>1, <2>2, <2>3 DEF RouterSaved
<1>10. CASE ShardTakes \/ ShardRefuses
  BY <1>10, <1>s DEF ShardTakes, ShardRefuses, memory, file
<1>11. CASE SendAnswerLost \/ SendFails
  BY <1>11, <1>s DEF SendAnswerLost, SendFails, memory, file
<1>12. ASSUME NEW m \in Mailboxes, Detach(m) PROVE RouterSaved'
  BY <1>12, <1>s DEF Detach, file
<1>13. ASSUME NEW asked \in SUBSET Mailboxes, Poll(asked) PROVE RouterSaved'
  BY <1>13, <1>s DEF Poll, memory, file
<1>14. ASSUME NEW m \in Mailboxes, Read(m) \/ ReadFails(m) \/ ReadAnswerLost(m)
       PROVE  RouterSaved'
  BY <1>14, <1>s DEF Read, ReadFails, ReadAnswerLost, memory, file
<1>15. CASE ReturnFrames
  BY <1>15, <1>s DEF ReturnFrames, memory, file
<1>16. CASE Crash
  BY <1>0, <1>16 DEF Crash, RouterSaved, memory, file
<1>17. CASE Restart
  BY <1>0, <1>17 DEF Restart, RouterSaved, file
<1>18. CASE UNCHANGED vars
  BY <1>18, <1>s DEF vars, memory, file
<1> QED
  BY <1>1, <1>2, <1>3, <1>4, <1>5, <1>6, <1>7, <1>8, <1>9, <1>10, <1>11, <1>12,
     <1>13, <1>14, <1>15, <1>16, <1>17, <1>18 DEF Next

-----------------------------------------------------------------------------
(* The theorems.                                                           *)

LEMMA SpecIInv == Spec => []IInv
<1>1. Init => IInv
  BY InitIInv
<1>2. IInv /\ [Next]_vars => IInv'
  BY NextTyped, ApartStep, UntriedStep, ConfirmationStep, SavingStep, AliasesKeptStep,
     RouterSavedStep DEF IInv
<1> QED
  BY <1>1, <1>2, PTL DEF Spec

(***************************************************************************)
(* Every variable of the courier keeps its type, and an answer carries     *)
(* frames for a poll only.                                                 *)
(***************************************************************************)
THEOREM TypeCorrect == Spec => []TypeOK
<1>1. IInv => TypeOK
  BY DEF IInv, Typed
<1> QED
  BY <1>1, SpecIInv, PTL

LEMMA InOnePlace ==
  ASSUME Apart, NEW c \in accepted
  PROVE  Cardinality({ p \in {"box", "got", "inbox", "lost"} :
           \/ p = "box"   /\ c \in box
           \/ p = "got"   /\ c \in op.got
           \/ p = "inbox" /\ c \in inbox
           \/ p = "lost"  /\ c \in lost }) = 1
<1> DEFINE Places == { p \in {"box", "got", "inbox", "lost"} :
           \/ p = "box"   /\ c \in box
           \/ p = "got"   /\ c \in op.got
           \/ p = "inbox" /\ c \in inbox
           \/ p = "lost"  /\ c \in lost }
<1>1. PICK p \in {"box", "got", "inbox", "lost"} : Places = {p}
  <2>1. CASE c \in box
    <3>1. Places = {"box"}
      BY <2>1 DEF Apart
    <3> QED
      BY <3>1
  <2>2. CASE c \in op.got
    <3>1. Places = {"got"}
      BY <2>2 DEF Apart
    <3> QED
      BY <3>1
  <2>3. CASE c \in inbox
    <3>1. Places = {"inbox"}
      BY <2>3 DEF Apart
    <3> QED
      BY <3>1
  <2>4. CASE c \in lost
    <3>1. Places = {"lost"}
      BY <2>4 DEF Apart
    <3> QED
      BY <3>1
  <2> QED
    BY <2>1, <2>2, <2>3, <2>4 DEF Apart
<1> HIDE DEF Places
<1>2. Cardinality(Places) = 1
  BY <1>1, FS_Singleton
<1> QED
  BY <1>2 DEF Places

(***************************************************************************)
(* Whatever core asks and whatever fails, a copy a shard took is in one    *)
(* place: at the shard, in the answer being made, with core, or lost with  *)
(* the answer that carried it (onPoll, main.go:507-519).                   *)
(***************************************************************************)
THEOREM MailKeptHolds == Spec => []MailKept
<1>1. IInv => MailKept
  BY InOnePlace DEF IInv, Apart, MailKept
<1> QED
  BY <1>1, SpecIInv, PTL

LEMMA ConfirmedOnce ==
  ASSUME Confirmation, NEW f \in Frames
  PROVE  Cardinality({ c \in confirmed : c[1] = f }) = IF f \in acked THEN 1 ELSE 0
<1>1. CASE f \in acked
  <2>1. PICK s \in Shards : << f, s >> \in confirmed
    BY <1>1 DEF Confirmation
  <2>2. << f, s >>[1] = f
    OBVIOUS
  <2>3. { c \in confirmed : c[1] = f } = { << f, s >> }
    BY <2>1, <2>2 DEF Confirmation
  <2> QED
    BY <1>1, <2>3, FS_Singleton
<1>2. CASE f \notin acked
  <2>1. { c \in confirmed : c[1] = f } = {}
    BY <1>2 DEF Confirmation
  <2> QED
    BY <1>2, <2>1, FS_EmptySet
<1> QED
  BY <1>1, <1>2

(***************************************************************************)
(* A frame acknowledged to core was confirmed by one shard, and one that   *)
(* was not by none (onSend tries the candidates in turn, main.go:389-432). *)
(***************************************************************************)
THEOREM AckedOnceHolds == Spec => []AckedOnce
<1>1. IInv => AckedOnce
  BY ConfirmedOnce DEF IInv, AckedOnce
<1> QED
  BY <1>1, SpecIInv, PTL

(***************************************************************************)
(* An alias core was told of, and the bridge could save, survives deaths   *)
(* and restarts (main.go:19-20).                                           *)
(***************************************************************************)
THEOREM AliasesKeptHolds == Spec => []AliasesKept
<1>1. IInv => AliasesKept
  BY DEF IInv
<1> QED
  BY <1>1, SpecIInv, PTL

(***************************************************************************)
(* With an alias saved with its Router, a send by public key has a Router  *)
(* to ask, with or without a config (effectiveRouter, main.go:361-366).    *)
(***************************************************************************)
THEOREM RouterKeptHolds == Spec => []RouterKept
<1>1. IInv => RouterKept
  <2> SUFFICES ASSUME IInv, up, routed, router = None PROVE EffectiveRouters # {}
    BY DEF RouterKept
  <2>1. Named(aliases) # {}
    BY DEF IInv, RouterSaved
  <2> QED
    BY <2>1 DEF EffectiveRouters
<1> QED
  BY <1>1, SpecIInv, PTL

=============================================================================
