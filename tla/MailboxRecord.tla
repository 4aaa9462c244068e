--------------------------- MODULE MailboxRecord ---------------------------
(***************************************************************************)
(* The JSON record a shard keeps under the KV key "mailbox:<id>", and the  *)
(* pure functions the handlers of shard/worker.js apply to it between      *)
(* their KV get and their KV put.                                          *)
(*                                                                         *)
(* A queued entry is represented by its id, which /send draws at random    *)
(* and nobody reuses; its ciphertext and sender are opaque to the shard.   *)
(* createdAt and clientPubkey are written and never read back by a         *)
(* decision of the code, so the record leaves them out.                    *)
(***************************************************************************)
EXTENDS Naturals, Sequences

CONSTANTS
  MaxMessages,  \* cfg.MAX_MESSAGES
  BacklogTTL,   \* cfg.TTL_SECONDS, in ticks of the clock
  Never,        \* messagesEnqueuedAt = null
  NoSecret      \* readSecretHash = "": matches no read_secret

ASSUME MaxMessagesAssumption == MaxMessages \in Nat \ {0}
ASSUME BacklogTTLAssumption  == BacklogTTL \in Nat \ {0}
ASSUME NeverAssumption       == Never \notin Nat

(***************************************************************************)
(* The records over a set of entry ids, of secrets and of shard URLs.      *)
(***************************************************************************)
RecordOver(Ids, Secrets, Urls) ==
  [ secret   : Secrets \cup {NoSecret},  \* readSecretHash
    msgs     : Seq(Ids),                 \* messages
    since    : Nat \cup {Never},         \* messagesEnqueuedAt
    replicas : SUBSET Urls ]             \* replicaShardUrls

InQueue(msgs, id) == \E i \in 1 .. Len(msgs) : msgs[i] = id

QueuedIds(msgs) == { msgs[i] : i \in 1 .. Len(msgs) }

\* Mutated Fresh: the replica list is left out of a new record.
FreshWithoutReplicas(secret, replicas) ==
  [ secret |-> secret, msgs |-> << >>, since |-> Never ]

Fresh(secret, replicas) ==
  [ secret |-> secret, msgs |-> << >>, since |-> Never, replicas |-> replicas ]

IsBacklogStale(since, now) ==
  /\ since # Never
  /\ now - since >= BacklogTTL

Emptied(rec) == [rec EXCEPT !.msgs = << >>, !.since = Never]

Unstale(rec, now) ==
  IF IsBacklogStale(rec.since, now) THEN Emptied(rec) ELSE rec

Push(rec, id, now) ==
  [rec EXCEPT !.msgs  = Append(@, id),
              !.since = IF @ = Never THEN now ELSE @]

(***************************************************************************)
(* /create on a mailbox that exists: a new read secret, and a new replica  *)
(* list unless the request carries none; queue and backlog clock are kept. *)
(***************************************************************************)
Reregistered(rec, secret, replicas) ==
  [rec EXCEPT !.secret   = secret,
              !.replicas = IF replicas = {} THEN @ ELSE replicas]

=============================================================================
