-------------------------- MODULE CombinedMailbox --------------------------
(***************************************************************************)
(* One of the shards that hold the mailbox is a Combined Worker            *)
(* (combined/worker.js), which carries handlers of its own for what        *)
(* shard/worker.js does.  Here they are, one action for a handler up to    *)
(* its KV put or its early return, beside the other shards of              *)
(* ShardMailbox.  CombinedMailboxProofs shows that the Combined Worker is  *)
(* a shard: all that holds of ShardMailbox holds of such a mesh.           *)
(*                                                                         *)
(* A mailbox of the Combined Worker is created by a Router's /create or by *)
(* its own /register, through the same localCreate.                        *)
(***************************************************************************)
EXTENDS ShardMailbox

CONSTANT Self    \* SELF_URL of the Combined Worker

ASSUME SelfAssumption == Self \in Shards

Stored == mailbox[Self]

\* An answer that leaves KV alone: 404, 429, 401 or { deduped: true }.
Answered(r) ==
  /\ CanStart(r, Self)
  /\ pc' = [pc EXCEPT ![r] = "refused"]
  /\ UNCHANGED << mailbox, expiry, clock, calls, job, alone, promised,
                  discarded >>

-----------------------------------------------------------------------------

\* Mutated LocalCreate: the record of an existing mailbox is written anew.
LocalCreateAnew(r, secret, replicas) ==
  /\ CanStart(r, Self)
  /\ Got(r, "create", Self, Fresh(secret, replicas), << >>, {})

LocalCreate(r, secret, replicas) ==
  /\ CanStart(r, Self)
  /\ \/ /\ Stored = NoRecord
        /\ Got(r, "create", Self, Fresh(secret, replicas), << >>, {})
     \/ /\ Stored # NoRecord
        /\ LET siblings == IF replicas = {} THEN Stored.replicas ELSE replicas
           IN  Got(r, "create", Self,
                   [Stored EXCEPT !.secret = secret, !.replicas = siblings],
                   << >>, {})

\* The handlers' view of the record: a stale backlog is cleared.
Stale == IsBacklogStale(Stored.since, clock)

Cleared ==
  IF Stale THEN [Stored EXCEPT !.msgs = << >>, !.since = Never] ELSE Stored

Lost == IF Stale THEN QueuedIds(Stored.msgs) ELSE {}

\* messages.push(entry), and the backlog clock, which runs already or starts.
Pushed(rec, entry) ==
  [ rec EXCEPT !.msgs = Append(@, entry),
               !.since = IF @ = Never THEN clock ELSE @ ]

HandleSend(r) ==
  \/ /\ Stored # NoRecord => Len(Cleared.msgs) >= MaxMessages
     /\ Answered(r)
  \/ /\ CanStart(r, Self)
     /\ Stored # NoRecord
     /\ Len(Cleared.msgs) < MaxMessages
     /\ Got(r, "send", Self, Pushed(Cleared, r), << >>, Lost)

\* Mutated HandleRead: the entries returned stay in the record.
HandleReadKeeping(r, secret, peek) ==
  /\ CanStart(r, Self)
  /\ Stored # NoRecord
  /\ Stored.secret = secret
  /\ Got(r, IF peek THEN "peek" ELSE "read", Self, Cleared, Cleared.msgs, Lost)

HandleRead(r, secret, peek) ==
  \/ /\ Stored # NoRecord => Stored.secret # secret
     /\ Answered(r)
  \/ /\ CanStart(r, Self)
     /\ Stored # NoRecord
     /\ Stored.secret = secret
     /\ IF peek
        THEN Got(r, "peek", Self, Cleared, Cleared.msgs, Lost)
        ELSE Got(r, "read", Self,
                 [Cleared EXCEPT !.msgs = << >>, !.since = Never],
                 Cleared.msgs, Lost)

\* Mutated HandleReplicate: no look for the entry among those queued.
HandleReplicateBlind(r, c) ==
  /\ c.to = Self
  /\ CallFresh(c)
  /\ CanStart(r, Self)
  /\ LET rec == IF Stored = NoRecord
                THEN Fresh(NoSecret, c.replicas)
                ELSE Stored
     IN  Got(r, "replicate", Self, Pushed(rec, c.entry), << >>, {})

\* Mutated HandleReplicate: a shell is built whatever is stored.
HandleReplicateShell(r, c) ==
  /\ c.to = Self
  /\ CallFresh(c)
  /\ CanStart(r, Self)
  /\ Got(r, "replicate", Self, Pushed(Fresh(NoSecret, c.replicas), c.entry), << >>, {})

\* Mutated HandleReplicate: the entry pushed without starting the clock.
HandleReplicateClockless(r, c) ==
  /\ c.to = Self
  /\ CallFresh(c)
  /\ CanStart(r, Self)
  /\ LET rec == IF Stored = NoRecord
                THEN Fresh(NoSecret, c.replicas)
                ELSE Stored
     IN  /\ ~ InQueue(rec.msgs, c.entry)
         /\ Got(r, "replicate", Self, [rec EXCEPT !.msgs = Append(@, c.entry)], << >>, {})

HandleReplicate(r, c) ==
  /\ c.to = Self
  /\ CallFresh(c)
  /\ LET rec == IF Stored = NoRecord
                THEN Fresh(NoSecret, c.replicas)
                ELSE Stored
     IN  \/ /\ InQueue(rec.msgs, c.entry)
            /\ Answered(r)
         \/ /\ ~ InQueue(rec.msgs, c.entry)
            /\ CanStart(r, Self)
            /\ Got(r, "replicate", Self, Pushed(rec, c.entry), << >>, {})

-----------------------------------------------------------------------------

(***************************************************************************)
(* replicateToSiblings: a signed call to everyone else on the list.        *)
(***************************************************************************)
ReplicateToSiblings(entry, replicas) ==
  { [ entry |-> entry, to |-> url, replicas |-> replicas, at |-> clock ] :
      url \in replicas \ {Self} }

(***************************************************************************)
(* The put of the Combined Worker's handler, and what it does afterwards:  *)
(* a completed send is replicated if the record names siblings.            *)
(***************************************************************************)
PutStored(r) ==
  /\ pc[r] = "got"
  /\ job[r].shard = Self
  /\ mailbox' = [mailbox EXCEPT ![Self] = job[r].write]
  /\ expiry' = [expiry EXCEPT ![Self] = clock + MailboxTTL]
  /\ LET siblings == job[r].write.replicas
     IN  calls' = IF job[r].op # "send" \/ Cardinality(siblings) <= 1
                  THEN calls
                  ELSE calls \cup ReplicateToSiblings(r, siblings)
  /\ promised' = IF job[r].op # "create" THEN promised
                 ELSE [ promised EXCEPT ![Self] =
                          [ secret |-> job[r].write.secret,
                            alone  |-> alone[r] ] ]
  /\ discarded' = discarded \cup job[r].drop
  /\ job' = [job EXCEPT ![r].write = NoRecord, ![r].drop = {}]
  /\ pc' = [pc EXCEPT ![r] = "done"]
  /\ UNCHANGED << clock, alone >>

-----------------------------------------------------------------------------

CombinedStart(r) ==
  \/ \E secret \in Secrets, replicas \in Placements :
       LocalCreate(r, secret, replicas)
  \/ HandleSend(r)
  \/ \E secret \in Secrets, peek \in BOOLEAN : HandleRead(r, secret, peek)
  \/ \E c \in calls : HandleReplicate(r, c)

MeshNext ==
  \/ \E r \in Requests :
       \/ CombinedStart(r) \/ PutStored(r)
       \/ \E s \in Shards \ {Self} : StartAt(r, s)
       \/ (Put(r) /\ job[r].shard # Self)
       \/ Crash(r)
  \/ Tick

MeshSpec == Init /\ [][MeshNext]_vars

=============================================================================
