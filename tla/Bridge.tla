------------------------------- MODULE Bridge -------------------------------
(***************************************************************************)
(* The courier between a NexTalk core and the relay                        *)
(* (transports/nextalk-relay/bridge/main.go, relay.go).                    *)
(*                                                                         *)
(* Core asks one thing at a time on stdin; the bridge answers after its    *)
(* calls to the Router and the shards and after saving mailbox-map.json.   *)
(* Calls fail, or are served while their answer gets lost; the bridge dies *)
(* at any point, also between truncating the file and writing it, and is   *)
(* started again.  Core asks in any order.                                 *)
(*                                                                         *)
(* A copy <<f, s>> is frame f in the mailbox of its recipient on shard s.  *)
(* Copies between shards are the business of ShardMailbox; secrets and     *)
(* keys are left out: a wrong one makes a call fail.                       *)
(***************************************************************************)
EXTENDS Naturals, Sequences, FiniteSets, Functions

CONSTANTS
  Mailboxes, Frames, Shards, Routers, None,
  Dest,         \* Dest[f]: the mailbox frame f is for
  Home,         \* Home[m]: the replica set of m, primary first
  MaxFailures   \* bound on lost answers, failed writes and deaths

VARIABLES
  up,           \* the bridge process lives
  running,      \* bridge.running
  router,       \* bridge.routerURL
  aliases,      \* bridge.aliases: [shard, router] of a mailbox, or None
  attached,     \* bridge.attached
  disk, torn,   \* mailbox-map.json, and that it is truncated
  op,           \* the request being served, or Idle
  box,          \* copies the shards hold
  failures,
  (* history *)
  sent,         \* frames core asked to send, once each
  accepted,     \* copies a shard ever took
  confirmed,    \* those of which the bridge learnt
  acked,        \* frames acknowledged to core
  inbox,        \* copies returned to core
  lost,         \* copies drained by a read whose answer, or reader, was lost
  told,         \* mailboxes core was told of, saved in the map
  routed        \* a request that was served saved a Router

memory == << running, router, aliases, attached >>
file   == << disk, torn >>
mail   == << box, accepted, confirmed, inbox, lost >>
vars   == << up, memory, file, op, mail, failures, sent, acked, told, routed >>

Idle == [ pc |-> "idle", name |-> "none", mailbox |-> None, frame |-> None,
          router |-> None, left |-> << >>, targets |-> {}, got |-> {} ]

Binding == [ shard : Shards, router : Routers \cup {None} ]
Map     == [ Mailboxes -> Binding \cup {None} ]
Unknown == [ m \in Mailboxes |-> None ]
Copies  == Frames \X Shards

\* A replica set has a primary, and no shard twice (replicaSetForEra).
ASSUME HomeAssumption ==
  \A m \in Mailboxes : /\ Home[m] \in Seq(Shards) \ {<< >>}
                       /\ IsInjective(Home[m])
ASSUME DestAssumption == Dest \in [Frames -> Mailboxes]
ASSUME NoneAssumption == None \notin Routers /\ None \notin Binding
ASSUME MaxFailuresAssumption == MaxFailures \in Nat

TypeOK ==
  /\ up \in BOOLEAN /\ running \in BOOLEAN /\ torn \in BOOLEAN
  /\ router \in Routers \cup {None}
  /\ aliases \in Map /\ attached \in Map /\ disk \in Map
  /\ op.pc \in {"idle", "ask", "save", "write", "try", "read"}
  /\ op.targets \subseteq Mailboxes
  /\ op.got \subseteq Copies /\ (op.name # "poll" => op.got = {})
  /\ accepted \subseteq Copies
  /\ acked \subseteq sent
  /\ failures \in 0 .. MaxFailures

Init ==
  /\ up = TRUE /\ running = FALSE /\ router = None
  /\ aliases = Unknown /\ attached = Unknown
  /\ disk = Unknown /\ torn = FALSE
  /\ op = Idle
  /\ box = {} /\ accepted = {} /\ confirmed = {} /\ inbox = {} /\ lost = {}
  /\ failures = 0
  /\ sent = {} /\ acked = {} /\ told = {} /\ routed = FALSE

-----------------------------------------------------------------------------

Named(map) == { map[m].router : m \in { n \in Mailboxes : map[n] # None } } \ {None}

(***************************************************************************)
(* effectiveRouter: the one configured, else one of those attached, else   *)
(* one of the alias map (in the order of a Go map: any).                   *)
(***************************************************************************)
EffectiveRouters ==
  IF router # None THEN {router}
  ELSE IF Named(attached) # {} THEN Named(attached)
  ELSE Named(aliases)

Ready == up /\ op = Idle

Fail == failures < MaxFailures /\ failures' = failures + 1

-----------------------------------------------------------------------------
(* Requests served at once                                                 *)

\* A config without router_url sets none.
Initialize(r) ==
  /\ Ready
  /\ router' = r
  /\ UNCHANGED << up, running, aliases, attached, file, op, mail, failures,
                  sent, acked, told, routed >>

StartStop(start) ==
  /\ Ready
  /\ running' = start
  /\ UNCHANGED << up, router, aliases, attached, file, op, mail, failures,
                  sent, acked, told, routed >>

Detach(m) ==
  /\ Ready
  /\ attached' = [attached EXCEPT ![m] = None]
  /\ UNCHANGED << up, running, router, aliases, file, op, mail, failures,
                  sent, acked, told, routed >>

-----------------------------------------------------------------------------
(* Requests that begin with a call to the Router                           *)

Ask(name, m, f, r) ==
  /\ Ready
  /\ op' = [Idle EXCEPT !.pc = "ask", !.name = name, !.mailbox = m, !.frame = f, !.router = r]
  /\ UNCHANGED << up, memory, file, mail, failures, acked, told, routed >>

\* The Router core names, or else the effective one.
RegisterOrResolve(m, r) ==
  /\ \/ r \in Routers
     \/ r \in EffectiveRouters
  /\ Ask("register", m, None, r)
  /\ UNCHANGED sent

SendToPeer(f, r) ==
  /\ running
  /\ f \notin sent
  /\ r \in EffectiveRouters
  /\ sent' = sent \cup {f}
  /\ Ask("send", Dest[f], f, r)

\* An error, or no mailbox is registered for the recipient.
AskFails ==
  /\ op.pc = "ask"
  /\ op' = Idle
  /\ UNCHANGED << up, memory, file, mail, failures, sent, acked, told, routed >>

AskSucceeds ==
  /\ op.pc = "ask"
  /\ aliases' = [aliases EXCEPT
       ![op.mailbox] = [ shard |-> Head(Home[op.mailbox]), router |-> op.router ]]
  /\ op' = [op EXCEPT !.pc = "save", !.left = Home[op.mailbox]]
  /\ UNCHANGED << up, running, router, attached, file, mail, failures,
                  sent, acked, told, routed >>

-----------------------------------------------------------------------------
(* attach, and an explicit send                                            *)

\* Mutated Attach: the Router is not remembered with the alias.
AttachRouterless(m, r) ==
  /\ Ready /\ running
  /\ aliases[m] # None
  /\ LET bind == [ shard |-> Head(Home[m]), router |-> r ] IN
       /\ attached' = [attached EXCEPT ![m] = bind]
       /\ aliases' = [aliases EXCEPT ![m] = [bind EXCEPT !.router = None]]
  /\ router' = IF router = None THEN r ELSE router
  /\ op' = [Idle EXCEPT !.pc = "save", !.name = "attach", !.mailbox = m, !.router = r]
  /\ UNCHANGED << up, running, file, mail, failures, sent, acked, told >>
  /\ routed' = (routed /\ r # None)

(***************************************************************************)
(* Core attaches a mailbox whose alias the bridge knows, on its primary;   *)
(* the alias takes over the Router core names, or that it names none.      *)
(***************************************************************************)
Attach(m, r) ==
  /\ Ready /\ running
  /\ aliases[m] # None
  /\ LET bind == [ shard |-> Head(Home[m]), router |-> r ] IN
       /\ attached' = [attached EXCEPT ![m] = bind]
       /\ aliases' = [aliases EXCEPT ![m] = bind]
  /\ router' = IF router = None THEN r ELSE router
  /\ op' = [Idle EXCEPT !.pc = "save", !.name = "attach", !.mailbox = m, !.router = r]
  /\ UNCHANGED << up, running, file, mail, failures, sent, acked, told >>
  /\ routed' = (routed /\ r # None)

SendToShard(f, s) ==
  /\ Ready /\ running
  /\ f \notin sent
  /\ aliases[Dest[f]] # None
  /\ sent' = sent \cup {f}
  /\ op' = [Idle EXCEPT !.pc = "try", !.name = "send", !.mailbox = Dest[f],
                        !.frame = f, !.left = << s >>]
  /\ UNCHANGED << up, memory, file, mail, failures, acked, told, routed >>

-----------------------------------------------------------------------------
(* saveAliases: os.WriteFile truncates, then writes                        *)

Truncate ==
  /\ op.pc = "save"
  /\ torn' = TRUE
  /\ op' = [op EXCEPT !.pc = "write"]
  /\ UNCHANGED << up, memory, disk, mail, failures, sent, acked, told, routed >>

\* A send goes on; the other requests are answered.
Served == op' = IF op.name = "send" THEN [op EXCEPT !.pc = "try"] ELSE Idle

Saved ==
  /\ Served
  /\ IF op.name = "send"
       THEN UNCHANGED << told, routed >>
       ELSE /\ told' = told \cup {op.mailbox}
            /\ routed' = (routed \/ op.router # None)

\* The file cannot be opened: the error is ignored, the old map stays.
OpenFails ==
  /\ op.pc = "save"
  /\ Fail
  /\ Served
  /\ UNCHANGED << up, memory, file, mail, sent, acked, told, routed >>

\* Mutated WriteFile: only the mailbox of the request is written.
WriteOne ==
  /\ op.pc = "write"
  /\ disk' = [Unknown EXCEPT ![op.mailbox] = aliases[op.mailbox]]
  /\ torn' = FALSE
  /\ Saved
  /\ UNCHANGED << up, memory, mail, failures, sent, acked >>

WriteFile ==
  /\ op.pc = "write"
  /\ disk' = aliases
  /\ torn' = FALSE
  /\ Saved
  /\ UNCHANGED << up, memory, mail, failures, sent, acked >>

\* The error is ignored, and the map stays truncated.
WriteFails ==
  /\ op.pc = "write"
  /\ Fail
  /\ Saved
  /\ UNCHANGED << up, memory, file, mail, sent, acked >>

-----------------------------------------------------------------------------
(* send: the candidate shards in order, until one takes the frame          *)

\* Mutated ShardTakes: the loop does not stop at the first success.
ShardTakesGoOn ==
  /\ op.pc = "try"
  /\ op.left # << >>
  /\ LET c == << op.frame, Head(op.left) >> IN
       /\ box' = box \cup {c}
       /\ accepted' = accepted \cup {c}
       /\ confirmed' = confirmed \cup {c}
  /\ acked' = acked \cup {op.frame}
  /\ op' = [op EXCEPT !.left = Tail(@)]
  /\ UNCHANGED << up, memory, file, inbox, lost, failures, sent, told, routed >>

ShardTakes ==
  /\ op.pc = "try"
  /\ op.left # << >>
  /\ LET c == << op.frame, Head(op.left) >> IN
       /\ box' = box \cup {c}
       /\ accepted' = accepted \cup {c}
       /\ confirmed' = confirmed \cup {c}
  /\ acked' = acked \cup {op.frame}
  /\ op' = Idle
  /\ UNCHANGED << up, memory, file, inbox, lost, failures, sent, told, routed >>

ShardRefuses ==
  /\ op.pc = "try"
  /\ op.left # << >>
  /\ op' = [op EXCEPT !.left = Tail(@)]
  /\ UNCHANGED << up, memory, file, mail, failures, sent, acked, told, routed >>

\* The shard takes the frame, its answer gets lost.
SendAnswerLost ==
  /\ op.pc = "try"
  /\ op.left # << >>
  /\ Fail
  /\ LET c == << op.frame, Head(op.left) >> IN
       /\ box' = box \cup {c}
       /\ accepted' = accepted \cup {c}
  /\ op' = [op EXCEPT !.left = Tail(@)]
  /\ UNCHANGED << up, memory, file, confirmed, inbox, lost, sent, acked, told, routed >>

SendFails ==
  /\ op.pc = "try"
  /\ op.left = << >>
  /\ op' = Idle
  /\ UNCHANGED << up, memory, file, mail, failures, sent, acked, told, routed >>

-----------------------------------------------------------------------------
(* poll: the attached mailboxes, one after the other                       *)

Poll(asked) ==
  /\ Ready /\ running
  /\ op' = [Idle EXCEPT !.pc = "read", !.name = "poll",
                        !.targets = { m \in asked : attached[m] # None }]
  /\ UNCHANGED << up, memory, file, mail, failures, sent, acked, told, routed >>

Queued(m) == { c \in box : Dest[c[1]] = m /\ c[2] = attached[m].shard }

Read(m) ==
  /\ op.pc = "read"
  /\ m \in op.targets
  /\ box' = box \ Queued(m)
  /\ op' = [op EXCEPT !.targets = @ \ {m}, !.got = @ \cup Queued(m)]
  /\ UNCHANGED << up, memory, file, accepted, confirmed, inbox, lost, failures,
                  sent, acked, told, routed >>

\* Mutated ReadFails: the first error fails the whole poll.
ReadFailsAll(m) ==
  /\ op.pc = "read"
  /\ m \in op.targets
  /\ op' = Idle
  /\ UNCHANGED << up, memory, file, mail, failures, sent, acked, told, routed >>

\* The mailbox is tried again at the next poll.
ReadFails(m) ==
  /\ op.pc = "read"
  /\ m \in op.targets
  /\ op' = [op EXCEPT !.targets = @ \ {m}]
  /\ UNCHANGED << up, memory, file, mail, failures, sent, acked, told, routed >>

\* The shard empties the mailbox, its answer gets lost.
ReadAnswerLost(m) ==
  /\ op.pc = "read"
  /\ m \in op.targets
  /\ Fail
  /\ box' = box \ Queued(m)
  /\ lost' = lost \cup Queued(m)
  /\ op' = [op EXCEPT !.targets = @ \ {m}]
  /\ UNCHANGED << up, memory, file, accepted, confirmed, inbox, sent, acked, told, routed >>

\* Mutated ReturnFrames: the frames are kept for the next request.
ReturnFramesKeeping ==
  /\ op.pc = "read"
  /\ op.targets = {}
  /\ inbox' = inbox \cup op.got
  /\ op' = [Idle EXCEPT !.got = op.got]
  /\ UNCHANGED << up, memory, file, box, accepted, confirmed, lost, failures,
                  sent, acked, told, routed >>

ReturnFrames ==
  /\ op.pc = "read"
  /\ op.targets = {}
  /\ inbox' = inbox \cup op.got
  /\ op' = Idle
  /\ UNCHANGED << up, memory, file, box, accepted, confirmed, lost, failures,
                  sent, acked, told, routed >>

-----------------------------------------------------------------------------
(* The process                                                             *)

Crash ==
  /\ up
  /\ Fail
  /\ up' = FALSE
  /\ op' = Idle
  /\ lost' = lost \cup op.got
  /\ UNCHANGED << memory, file, box, accepted, confirmed, inbox, sent, acked,
                  told, routed >>

\* A truncated map is ignored; core has to register and resolve again.
Restart ==
  /\ ~ up
  /\ up' = TRUE
  /\ running' = FALSE
  /\ router' = None
  /\ attached' = Unknown
  /\ IF torn
       THEN aliases' = Unknown /\ told' = {} /\ routed' = FALSE
       ELSE aliases' = disk /\ UNCHANGED << told, routed >>
  /\ UNCHANGED << file, op, mail, failures, sent, acked >>

Next ==
  \/ \E r \in Routers \cup {None} :
       \/ Initialize(r)
       \/ \E m \in Mailboxes : RegisterOrResolve(m, r) \/ Attach(m, r)
       \/ \E f \in Frames : SendToPeer(f, r)
  \/ \E start \in BOOLEAN : StartStop(start)
  \/ \E f \in Frames, s \in Shards : SendToShard(f, s)
  \/ AskFails \/ AskSucceeds
  \/ Truncate \/ OpenFails \/ WriteFile \/ WriteFails
  \/ ShardTakes \/ ShardRefuses \/ SendAnswerLost \/ SendFails
  \/ \E m \in Mailboxes :
       Detach(m) \/ Poll({m}) \/ Read(m) \/ ReadFails(m) \/ ReadAnswerLost(m)
  \/ Poll(Mailboxes) \/ ReturnFrames
  \/ Crash \/ Restart

Spec == Init /\ [][Next]_vars

-----------------------------------------------------------------------------

(***************************************************************************)
(* main.go:507-519: reading burns, so whatever a shard took and no read    *)
(* whose answer was lost drained, is still there, on its way through the   *)
(* bridge, or with core, and in one of these places only; the failure of   *)
(* one mailbox does not cost the mail of another.                          *)
(***************************************************************************)
MailKept ==
  /\ accepted = box \cup op.got \cup inbox \cup lost
  /\ \A c \in accepted :
       Cardinality({ p \in {"box", "got", "inbox", "lost"} :
         \/ p = "box"   /\ c \in box
         \/ p = "got"   /\ c \in op.got
         \/ p = "inbox" /\ c \in inbox
         \/ p = "lost"  /\ c \in lost }) = 1

(***************************************************************************)
(* A frame is acknowledged to core once exactly one shard confirmed it: a  *)
(* replica is tried only after the shards before it did not confirm, so a  *)
(* second copy has a lost answer behind it.                                *)
(***************************************************************************)
AckedOnce ==
  \A f \in Frames :
    Cardinality({ c \in confirmed : c[1] = f }) = IF f \in acked THEN 1 ELSE 0

(***************************************************************************)
(* main.go:19-20: an alias core was told of and the bridge could save can  *)
(* be attached and sent to, also after any number of deaths and restarts,  *)
(* unless the bridge found the map truncated: then all of them are gone.   *)
(***************************************************************************)
AliasesKept ==
  \A m \in told : (up => aliases[m] # None) /\ (~ torn => disk[m] # None)

(***************************************************************************)
(* main.go:361-366: once an alias was saved with a Router, sends by public *)
(* key find a Router, with no config, after a restart and whatever is      *)
(* detached, unless a mailbox was attached without a Router or the map     *)
(* found truncated.                                                        *)
(***************************************************************************)
RouterKept ==
  up /\ routed /\ op = Idle /\ router = None => EffectiveRouters # {}

=============================================================================
