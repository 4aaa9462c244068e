# NexTalk-Relay in TLA+

NexTalk-Relay is a store-and-forward mailbox relay. A *Router* (Cloudflare
Worker, `src/router/router.js`) places mailboxes on *shards* (Workers,
`src/shard/worker.js`) and keeps the list of shards; senders and owners talk to
the shards directly. A *bridge* (Go, `src/transports/nextalk-relay/bridge`)
carries frames between a NexTalk core and the relay. A *Combined Worker*
(`src/combined/worker.js`) is Router and shard in one. Every Worker is stateless
over a KV namespace that offers `get`, `put` and `delete` of one key and nothing
more: no transaction, no lock, no compare-and-swap. Almost everything that is
hard in this code follows from that.

This directory holds the models, the TLC configurations that check them and the
proofs.

## 1. Inventory

| Component | State | Operations | Talks to |
|---|---|---|---|
| Shard mailbox | KV `mailbox:<id>`: read secret hash, queue, backlog clock, replica list | `/create`, `/send`, `/read` (and peek), `/internal/replicate`, `/exists`, KV expiry | siblings (fan-out of `/send`), Router (`/create`, `/exists`) |
| Sender authentication | KV `replay:<hash>` | `verifySenderAuth` in front of `/send` | - |
| Rate limiter | KV counter per bucket and window | `rateLimit` in front of most handlers | - |
| Shard identity | KV `shard_identity`, KV `shard_self_registration` | lazy generation, self-registration, `/admin/register`, `/admin/rotate_key` | Router (`/register_shard`, `/rotate_shard_key`) |
| Shard registry | KV `registered_shards`, `routing_table_version`, `pow_nonce:<n>` | `/pow_challenge`, `/register_shard`, `/rotate_shard_key` | shards |
| Routing table | none at the Router; KV `routing_table_cache` at a shard | build and sign, push (cron, admin), cache, serve | registry, shards |
| Mailbox placement | `SHARD_URLS`, `PRIOR_SHARD_COUNTS`; records on shards | `/register` (parallel `/create`), `/resolve` (probes era by era) | shards |
| Bridge | memory: running, router, aliases, attachments; file `mailbox-map.json`, key files | initialize, start/stop, send, attach, detach, poll, register, resolve | core (stdio), Router, shards |
| Combined Worker | as Router and one shard; its own `routing_table_cache` | as both; the shard it is itself is created, probed, pushed to and rotated by local calls | other shards |
| Browser transport | running, queue and bump heap in WebAssembly memory | start, stop, alloc, send, attach, detach, poll | the page |
| Pure code | - | envelope and capability checks, signed responses, `/status`, RPC codec, packaging, scripts | - |

What is hard:

- two requests to one mailbox overlap between the `get` and the `put` of the
  *whole* record; so do two registrations, two first uses of the identity key,
  two uses of a nonce or of a signature;
- a Worker dies between two puts, and a call is lost, repeated, late, or served
  although its caller gave up;
- values read at different times are put together (routing table) or compared
  (table version, old key, shard count);
- a Combined Worker does by a function call what others do by a request: the
  call has no time limit, throws where a fetch would be caught, and leaves no
  trace (a rotation of its own key) where a request would raise a version;
- in the browser module a bump allocator begins anew over memory still in use;
- state is spread over parties without a common transaction: identity key and
  listed key; record and capability; alias map in memory and in the file.

What makes each component correct is stated by the properties of section 3, and
every hazard with its line is in `PROJECT.json`.

## 2. Modules

| Module | Models | Checked by | Proved in |
|---|---|---|---|
| `MailboxRecord` | the record and the pure functions the handlers apply to it | runs of ShardMailbox | `CombinedMailboxProofs` |
| `ShardMailbox` | one mailbox on the shards that hold it | `MailboxRace`, `MailboxPair`, `MailboxDisappears` | `CombinedMailboxProofs` |
| `Mailbox` | what a mailbox promises (abstract) | `MailboxRace` | `CombinedMailboxProofs` |
| `CombinedMailbox` | the same mailbox where one shard is a Combined Worker, its handlers written out (EXTENDS `ShardMailbox`) | `MailboxPair` | `CombinedMailboxProofs` |
| `SenderAuth` | `verifySenderAuth` | `SenderAuth` | `SenderAuthProofs` |
| `ShardIdentity` | one shard's key and the Router's entry for it | `ShardIdentity` | `ShardIdentityProofs` |
| `ShardRegistry` | the list of shards, its version, nonces | `ShardRegistry` | `RoutingTableProofs` |
| `RoutingTable` | builder, pushes and cache, on top of `ShardRegistry` (EXTENDS) | `RoutingTable` | `RoutingTableProofs` |
| `Placement` | `/register`, `/resolve` and a growing mesh | as part of `CombinedPlacement` | `PlacementProofs` |
| `CombinedPlacement` | the same where the Router may be a shard of its mesh (EXTENDS `Placement`) | `Placement`, `PlacementMoves` | `PlacementProofs` |
| `CombinedTrust` | a Combined Worker's own key, the tables it builds, its cache and one peer's | `CombinedTrust` | `CombinedTrustProofs` |
| `Bridge` | the courier process and its file | `Bridge` | `BridgeProofs` |
| `BrowserQueue` | the WebAssembly queue: heap and queue in one memory | `BrowserQueue` | `BrowserQueueProofs` |

`MC*` modules only give constants and symmetry; the mapping of `ShardMailbox` to
`Mailbox` is at the end of `ShardMailbox`. Operators named after a
definition with a comment "Mutated ..." (`SendGetOffByOne`, `RingCut`, ...) are
the variants that show that a property can fail; nothing else uses them.

### How state and actions correspond to the code

**ShardMailbox.** `mailbox[s]` is the KV record on shard `s`, `expiry[s]` when
its `expirationTtl` is over. A handler has one KV get and one KV put that matter,
so it is two actions: `CreateGet`, `SendGet`, `ReadGet`, `ReplicateGet` read the
record, apply `MailboxRecord`'s functions and keep what they will write in
`job[r]`; `Put` writes it, ends the request and, for a `/send`, starts
`replicateToSiblings` (`FanOut`). `Refuse` stands for every early return after
the get, `Crash` for a Worker that dies or a put that throws, `Tick` for time and
KV expiry. A call in `calls` is never removed: it may be delivered never, once
or repeatedly, in any order, while its timestamp is fresh. The entry stored by a
`/send` is represented by the request, as its id is drawn at random.

**CombinedMailbox.** `Self` is the Combined Worker's URL. `LocalCreate`,
`HandleSend`, `HandleRead` and `HandleReplicate` are its handlers up to the put or
to the early return (`Answered`), each with all its outcomes; `PutStored` is the
put and, for a send, `ReplicateToSiblings`. `/create` and the Worker's own
`/register` both end in `localCreate`, so one action stands for both. The other
shards take `ShardMailbox`'s actions.

**SenderAuth.** `Check` is everything up to the lookup of the replay key,
`Accept` the verified signature and the put of the key, which expires
`ReplayTTL` later. Several attempts may carry one signature. `earlier` and `at`
are history: who was accepted before an attempt's lookup, and when.

**ShardIdentity.** A task is one Worker invocation that needs the key, registers
or rotates; each await of `ensureShardIdentity`, `ensureSelfRegistered`,
`handleAdminRegister` and `handleAdminRotateKey` is an action, and the Router's
handlers appear as the steps `RegisterShard`, `CheckRotation` and
`RotateShardKey` of the calling task. `/register_shard` and `/rotate_shard_key`
are atomic on the list here; `ShardRegistry` takes them apart.

**ShardRegistry.** `Redeem`, `BurnNonce`, `ReadList`, `PutList`, `ReadVersion`,
`PutVersion` are the awaits of `/register_shard`; `/rotate_shard_key` enters at
the put. A nonce's expiry is a nonce nobody redeems.

**RoutingTable.** `ReadUrls`, `ReadTableVersion`, `ReadKeys` are the three reads
of `buildSignedRoutingTable`; `Deliver` is `handleRoutingTablePush`. `Current` is
what a builder would sign if it read everything at once.

**Placement.** One owner. `Register` sends `/create` to the replica set of the
present shard count N; each call is served, refused, or timed out at the Router
and served later. `/resolve` probes the primary of each era from the largest N
down. `Replicate` is the shell record a replicate call leaves where `/create` did
not arrive. `point` is the owner's hash point.

**CombinedPlacement.** `home` is the index of `SELF_URL` in `SHARD_URLS`, or
`NoHome` for a plain Router; it is chosen initially, so one run covers both
programs. A `/create` for `home` is `LocalCreate`, never late and never refused,
or `LocalCreateThrows`: KV throws, `Promise.all` rejects, the owner gets a 500 and
the other calls go on. A probe of `home` finds a record, finds none, or fails the
whole `/resolve` (`LocalProbeThrows`); it is never a probe that failed.

**CombinedTrust.** A task is one invocation of the Combined Worker: a build for a
GET (`serve`), a build for a push, a rotation of its key, or any other use of the
key. `ReadUrls`, `ReadPubkeys`, `LoadIdentity`/`GenerateIdentity`/`StoreIdentity`
are the awaits of a build that matter, `StoreTable` the put into its own cache,
`push[t]` the call of the peer. What the peer's registrations and rotations do to
the list is one step each. The version is left out, as no cache looks at it. Each
table carries, as history, the keys of the Worker that had been replaced when its
build began (`gone`).

**BrowserQueue.** Memory is counted in cells, the length prefix taking one. The
host's `put` of an argument (allocate, copy) is part of the call it is for:
`WithArguments` is the memory when `ntx_send` begins. `accepted` lists the frames
the queue should hold; `queue` is what the memory there does hold.

**Bridge.** `serveLoop` takes one request at a time, so `op` is a single
variable; its steps are the calls to Router and shards, and the truncation and
the writing of the file by `os.WriteFile`. `Crash` and `Restart` are the process
ending and starting (`loadAliases`). Copies of frames on shards are the set
`box`; what happens to them there is `ShardMailbox`'s business.

## 3. What the runs show

Most properties speak of a request that **overlapped no other** (`alone` in the
models). This is deliberate: what one can rely on, and what is easily broken, is
that a request which had the record to itself keeps its effect *whatever overlaps
afterwards*. In these properties the later requests may race in every way. The
unguarded statement is false for this code: `MailboxDisappears` checks one as the
documentation makes it and refutes it, and section 6 lists the others. The models have the overlapping
cases in all runs; it is the properties that do not speak of them.

| Run | Instance | Properties | Shows |
|---|---|---|---|
| `MailboxRace` | 1 shard, 5 requests, 2 in flight, 2 secrets, clock 0..2 | `TypeOK`, `Capacity`, `SoloStepsImplementMailbox` | no interleaving overfills a queue; and at any time, also after races, a request that overlaps none is a step of `Mailbox` |
| `MailboxPair` | 1 Combined Worker and 1 shard, 5 requests, 2 secrets, clock 0..1 | `QueuedOnce`, `SeenOnlyIfSent`, `BurnedStaysBurned`, `AcceptedKept`, `SecretSticks`, `BacklogClock` | replicate calls lost, repeated and racing put no duplicate into a queue and no entry of a failed send anywhere; nothing brings back what a read that was alone consumed, or loses what a send that was alone stored; neither a late put of another request nor the shell a replicate call makes undoes a create that was alone or detaches the backlog clock from the queue |
| `MailboxDisappears` | as `MailboxRace` | `DisappearsOnlyWhenReadOrExpired` **violated** | two overlapping sends: both succeed, one entry is gone |
| `SenderAuth` | 3 attempts, 2 signatures, skew 2, key lifetime 4, clock 0..6 | `TypeOK`, `AcceptedAgainOnlyIfAhead`, `RefusedForCause` | a signature that passes again was first accepted `ReplayTTL - Skew` or more ahead of its timestamp; nobody is refused for another's sake |
| `ShardIdentity` | 2 tasks, 2 rotations, 1 failure, fair | `TypeOK`, `SyncedSticks`, `RetiredForGood`, `Converges` | after a registration or rotation that was alone the listed key is the key in use; after any mess the two become equal again |
| `ShardRegistry` | 3 urls, 2 keys, limit 2, 2 tasks, 4 requests, 3 nonces | `TypeOK`, `WellFormed`, `AppendOnly`, `KeySticks`, `VersionKept`, `NonceSpentOnce` | the list has no duplicates and stays within its limit; indexes, keys and versions that were answered without overlap stay |
| `RoutingTable` | 1 registering and 1 static shard, 2 requests, 2 pushes in flight, fair | `TableTypeOK`, `TableCovers`, `CachesConverge` | a table is never older than what was agreed before its build began; caches end up current |
| `Placement` | 2 then 3 shards, factor 2, 6 hash points, 2 registrations, a Router alone or one that is the first shard | `CombinedTypeOK`, `OwnerOpens`, `Findable`, `ReachesOwner`, `LocalFound` | the owner's secret opens its mailbox; `/resolve` finds it after growth, and never denies one that the Combined Worker itself holds |
| `PlacementMoves` | 2 to 4 shards, factor 1, 3 hash points | `FindsLatest` **violated** | an owner who registered under N=2 and N=3 is looked for on the N=2 shard once N=4 |
| `CombinedTrust` | 2 invocations, 2 keys each of Worker and peer, 1 death, fair | `TypeOK`, `CachedKeysFresh`, `TrustConverges` | however late a table is stored or delivered, it lists no key of the Worker that was already replaced when its build began; without a version to announce a rotation, both caches still come to list the keys in use |
| `BrowserQueue` | heap of 12 cells, queue of 22, frames of 3 to 22 cells around every limit, 2 contents | `TypeOK`, `FramesIntact` | for frames up to `SafeSize` the queue is exactly what was accepted, in order, wherever the heap wraps |
| `Bridge` | 2 mailboxes on 2 shards, 2 frames, 1 Router, 2 failures | `TypeOK`, `MailKept`, `AckedOnce`, `AliasesKept`, `RouterKept` | no frame vanishes inside the bridge; a second copy has a lost answer behind it; aliases and Router survive |

### Bounds, and why they are enough

- `Requests`, `Tasks`, `MaxStarts`, `MaxSecrets`, `Attempts` bound the number of
  requests. A lost update needs two overlapping writers; five requests are a
  create, the pair that races, and two more whose effect shows the damage.
  `MaxInFlight = 2`: three writers to one KV key lose what pairs of them lose.
- `MaxMessages = 2` reaches a full queue; `BacklogTTL = 1`, `MailboxTTL = 2`,
  `CallTTL = 0` and `MaxClock = 2` put backlog expiry, record expiry and the
  staleness of a call on different ticks. The order of the TTLs is the code's:
  30 s, 14 days, 1 year.
- `SenderAuth`: a tick is 15 s. `Skew = 2` and `MinTTL = 4` are the defaults of
  the code, a skew of 30 s and a key of 60 s, which is exactly the width of the
  window; the clock runs past a whole window.
- `ShardRegistry`: `MaxShards = 2 < |Urls| = 3`, so the limit is met.
- `Placement`: with at most three shards only the hash point modulo 6 matters,
  and all six are initial states. `PlacementMoves` takes three points modulo 12.
- `MaxFailures` (`Bridge`, `ShardIdentity`) bounds deaths and lost answers; plain
  refusals are unbounded. Two failures in `Bridge` let the process die with a
  truncated file and lose an answer as well.
- `CombinedTrust`: two keys are the one before and the one after a rotation; two
  invocations let a build be overtaken by a rotation, a second build or a push.
  States are compared by `Distinguished`, which leaves out the part of the history
  that no property can tell apart (`MCCombinedTrust` says why).
- `BrowserQueue`: the addresses keep the code's order (`Base < Limit < Q`, a queue
  larger than the heap) and the sizes are one small frame, `SafeSize` and one more,
  the least that runs into the queue, the largest that fits and one more. In the
  code `SafeSize` is 0x3f00 - 0x1000 - 2*32 + 8 = 0x2ec8 bytes.
- `SoloStepsImplementMailbox` is about steps, not behaviours: the abstract queue
  and the shard's are compared at each put that overlapped nothing. A put that did
  overlap, or that brings back a record that expired between get and put, is
  exempt, and what the next undisturbed request makes of its effect is not.
- Symmetry is used in runs of invariants and of box-action properties, never with
  liveness.

Deadlock is checked in `ShardIdentity`, `RoutingTable`, `CombinedTrust`,
`BrowserQueue` and `Bridge`, which can always go on. The
others stop when their bound on requests is used up.

### Fairness

`ShardIdentity`: weak fairness of a task's next step (a Worker is not suspended
for ever), strong fairness of starting `ensureSelfRegistered` (every request and
every cron tick starts it), weak fairness of the marker's ageing (twelve hours
pass). Rotations and failures are finite, which is what "after the last of them"
means. `RoutingTable`: weak fairness of cron and of a build, every call ends, and
infinitely many calls mean infinitely many deliveries. `CombinedTrust`: strong
fairness of starting a push (cron goes on, though both invocations may be busy
when it comes), weak fairness of an invocation's next step and of the end of a
call, strong fairness of deliveries; its keys, registrations and deaths are
bounded, so that they end. Nothing is assumed of the
requests themselves. All other runs check safety only.

## 4. What is proved

TLAPS checks the following for every value of the constants that satisfies the
named assumptions, thus for any number of shards, requests, keys, secrets, frames
and failures and for any limit and TTL. Every safety property that a passing run
checks is stated by a theorem. The bounds of section 3 are constants of the
models, and the theorems hold for every value of them.

None of the invariants is inductive, and mostly for one reason: a step that has
read KV carries an old copy of it. Each is strengthened by what must hold of the
copies in flight.

### Mailbox: `CombinedMailboxProofs`

`TypeCorrect`, `BacklogClockHolds`, `SecretSticksHolds`, `SeenOnlyIfSentHolds`,
`QueuedOnceHolds`, `BurnedStaysBurnedHolds`, `AcceptedKeptHolds`, `CapacityHolds`,
`SoloStepsHold`; `MeshImplementsShards` and its consequences.

The strengthenings are `ClockInv` (every snapshot's backlog clock matches its
queue), `SecretInv` (no pending snapshot but a create's holds another secret),
`SentInv` (snapshots, answers and calls hold entries of completed sends only),
`DistinctInv`, `BurnInv` (a burned entry is in no snapshot), `KeptInv` (a kept
entry is in every snapshot, or that request returns it or drops it as stale) and
`SoloInv` (no snapshot is over the limit). `AloneInv` relates them to overlap: of
two requests in flight at a shard neither is alone. The proofs first derive what
each kind of get and the put do to a snapshot (`CreateStep`, `SendStep`,
`ReadStep`, `ReplicateStep`, `PutEffect`, `TickEffect`) from lemmas on records;
each invariant then has one step per kind of step.

`CapacityHolds` assumes that no placement names two shards: with siblings,
`handleReplicate` has no test against `MAX_MESSAGES` and the limit does not hold.

`SoloStepsHold` proves the step refinement of `Mailbox` on one shard. `DoesInv` is
what it needs: a request that is alone, whose record is still there, holds exactly
what that record makes due (nothing else can have written it since), so that its
put is one step `Create`, `Accept`, `Deliver` or `Look`; `DropInv` (only entries of
completed sends are dropped) makes the entry accepted a new one. Gets, refusals
and deaths map to stutters, a tick to `Expire` or a stutter (`UnseenStep`,
`PutImplements`, `TickImplements`).

`MeshImplementsShards`: each action of the Combined Worker is one of
`ShardMailbox` at `Self` (`LocalCreateStep`, `HandleSendStep`, `HandleReadStep`,
`HandleReplicateStep`, `PutStoredStep`; an early return is `Refuse`), so `MeshSpec
=> Spec`, and `MeshQueuedOnce`, `MeshSeenOnlyIfSent`, `MeshBurnedStaysBurned`,
`MeshAcceptedKept`, `MeshSecretSticks`, `MeshBacklogClock` and `MeshSoloSteps`
follow.

### Sender authentication: `SenderAuthProofs`

`TypeCorrect`; `RefusedForCauseHolds`: a replay key is in KV only if an attempt
with its signature was accepted; `AcceptedAgainOnlyIfAheadHolds`: an attempt that
looks its key up after another with the same signature was accepted passes only if
the first was accepted `ReplayTTL - Skew` or more before the signature's
timestamp. Nothing is assumed of `Skew` and `MinTTL`, so it says for every
configuration how far ahead a sender's clock must be for its signature to be good
twice: 30 s by default, nothing at all from a skew of 60 s on. The invariant has
that an accepted signature's key is kept for `ReplayTTL` from its acceptance, later
puts included (`KeyKept`), and the statement itself for attempts that have only
made the lookup (`PassedOnlyIfAhead`).

### Keys: `ShardIdentityProofs`, `CombinedTrustProofs`

`TypeCorrect`, `SyncedSticksHolds`, `RetiredForGoodHolds` of a shard's own key.
The invariant says which keys a task may still write. `KeyInv`: past
`ensureShardIdentity` a task carries a key. `SoloInv`: a task that is alone
carries the key now in KV, or made it. `SyncedInv`: while the listed key is the
shard's, no task is about to store or list another one. `RetiredInv`: no task
carries a retired key. A rotation that is alone finds nobody holding an old copy,
which is what a rotation that overlaps a registration does not have.

`TypeCorrect` and `CachedKeysFreshHolds` of a Combined Worker's key in the tables it
builds. Type correctness needs that the key a table is signed with comes out of
KV: `SignedWithStored` says so of tables about to be stored, pushed and cached,
and `HeldUntilStored` of a key between its generation and its put. That the key is
not one replaced before the build began needs more: `StoredOnce`, a key that was
replaced is not in KV and no task that generated it still has its put before it,
so that no late put of `ensureShardIdentity` brings it back, and `TablesFresh`,
the statement for the tables that are drafts and calls.

### Registry and routing table: `RoutingTableProofs`

`TypeCorrect`, `WellFormedHolds`, `AppendOnlyHolds`, `KeySticksHolds`,
`VersionKeptHolds`, `NonceSpentOnceHolds` of the list; `ListUntouched` (the same
while tables are built), `TableTypeCorrect` and `TableCoversHolds` of the tables.

A list is `Fit` when it is well formed, begins with the urls whose indexes were
agreed and has the keys that were. The invariant says that the stored list is
(`Kept`), and so is the list of every request that is about to store one
(`Jobs`), with the request's own shard in it; that the version a request is about
to store is not below one announced; and that a request that overlaps nothing
finds what it wrote (`Alone`). `Counted` bounds the version by the requests that
began, which `TypeOK` needs: each may still add one.

`TableCoversHolds` needs to know of a build under way that the urls it read
extend those agreed when it began (`Built`), and that merging preserves this: the
urls that `getShardUrls` makes of a list begin with those it makes of any list
that one begins with. `Merged` is a recursive function, and this is proved by
induction on its index, from the library's theorem on least elements of a
well-founded order (`Induction`), which takes a set where the induction theorems
take an operator.

### Placement: `PlacementProofs`

`TypeCorrect`, `OwnerOpensHolds`, `FindableHolds`, `ReachesOwnerHolds`,
`LocalFoundHolds` for a Router that may be a shard of its mesh, and `RouterHolds`
for one that is not. `Origins`: every record and every call under way comes of a
`/register` of an era it names. `Clean` and `Sole`: the calls of a `/register`
that overlaps nothing, and after its end all that are still under way, carry its
secret. `Walk`: a `/resolve` that no failed probe misled still has the owner's
primary before it. `HomeAhead`: nor can a failed probe make it pass by the
Worker's own mailbox.

### Bridge: `BridgeProofs`

`TypeCorrect`, `MailKeptHolds`, `AckedOnceHolds`, `AliasesKeptHolds`,
`RouterKeptHolds`. `Apart`: a copy of a frame is on a shard, in a poll, with core
or behind a lost answer, and in one place only. `Untried`: the frame being sent is
at no shard that was not tried. `Confirmation`: each acknowledged frame has one
confirming shard. `Saving` and `RouterSaved`: the map about to be written has the
alias of the request and its Router.

### Browser transport: `BrowserQueueProofs`

`TypeCorrect`, `FramesIntactHolds`, for every layout that satisfies
`LayoutAssumption`. The invariant adds to `FramesIntact` that the bump pointer is
aligned and within the heap and that the queue is within its capacity. The steps
are a lemma on `Alloc` (where an argument can come to lie), one on what
`WithArguments` leaves of a frame up to `SafeSize` when the recipient's key and
the id are put after it, and the parsing of the queue as frames one after another.

### Only model-checked

The liveness properties `Converges`, `CachesConverge` and `TrustConverges`, as
liveness under fairness is out of the prover's reach, and the two statements that
are violated.

## 5. Assumptions

- KV is linearizable per key. Cloudflare KV is eventually consistent between
  locations; a read of an old value behaves like a get made earlier, which the
  models have, but only as far back as the request's beginning.
- All shards share one clock; skew is only a tolerance.
- Stored JSON is what the code stored; records do not expire in `Placement`.
- `SELF_URL` is set, so that a shard knows itself among its siblings.
- In `SenderAuth` the clock is read and the replay key looked up in one step; they
  are a digest apart (`worker.js:160`, `:169`).
- Requests in `ShardRegistry` are admitted ones: proof of work and signatures
  hold, or fail after the nonce is spent.
- `RoutingTable` has one build at a time, follows one shard's cache, and one
  unspent nonce exists at a time.
- `CombinedPlacement` takes `SELF_URL` to be listed in `SHARD_URLS` (see section 6
  for when it is not), and its Router to be the only one of the mesh.
- `CombinedTrust` has no other Router than the Combined Worker (`ROUTER_URL` is
  empty or `SELF_URL`), and one peer.
- The proofs rest on the ASSUMEs of the modules, which TLC evaluates in every run.
  Most give a constant its type. The others: the replica list of a mailbox names
  each shard once (`Bridge`, `HomeAssumption`); the static shards are a list
  (`RoutingTable`); addresses, heap end and key sizes are multiples of the
  alignment and a mailbox id is no longer than a key (`BrowserQueue`; in
  `wasmasm.mjs` 0x1000, 0x3f00, 32 and 16 with an alignment of 8).
- The page copies the blob of `ntx_poll` before its next call, as the hosts do.
- In `Bridge`, core asks once to send a frame; secrets and keys are left out.

## 6. Where code and text disagree

Kept as runs (`findings` in `PROJECT.json`): `MailboxDisappears` and
`PlacementMoves`. While finding the right form of the properties, the models also
refuted these stronger readings. They have no run of their own; where a property
states what remains true, it is named.

- of two overlapping requests with one signature both are accepted: each looks the
  replay key up (worker.js:169) before the other writes it (:175);
- a signature is accepted a second time when its replay key has expired and its
  timestamp has not. The key lives `max(60 s, MAX_CLOCK_SKEW)` from the acceptance,
  a signature made ahead of the shard's clock is good for up to twice
  `MAX_CLOCK_SKEW` from then (worker.js:161, :175). At the default of 30 s the two
  are equal and a sender must be the full 30 s ahead; a larger skew needs less, and
  from 60 s on nothing. Both this and the former contradict docs/SECURITY.md:244-245
  ("duplicate submissions are rejected") and README.md:241 ("it can't be reused");
  `AcceptedAgainOnlyIfAhead` says what remains true;
- a send that overlaps a read restores the entries the read returned
  (worker.js:803, README.md:213 "fetching a mailbox empties it");
  `BurnedStaysBurned`;
- a replica's queue exceeds `MAX_MESSAGES` through replicate calls (worker.js:749,
  README.md:270 "Max queued messages per mailbox"); `Capacity` without siblings;
- of two overlapping registrations the later drops the shard of the earlier, which
  was answered with success (router.js:704, against :250-251, "APPEND-ONLY");
  `AppendOnly`;
- two overlapping registrations are stored with one nonce (router.js:680, against
  :632, "single-use"); `NonceSpentOnce`;
- a `/create` the Router gave up on is served after the owner registered again and
  overwrites the secret the owner now holds (router.js:488, README.md:227, "Safe to
  repeat for the same pubkey"); `OwnerOpens`;
- of two first requests to a shard each generates a keypair, and the later put
  replaces the earlier (shard/worker.js:188-189 says "Generated once", :192 reads
  and :203 writes); `Converges` says what remains true;
- a Combined Worker's rotation of its own key raises no version and is pushed to
  nobody (combined/worker.js:1124), while docs/SECURITY.md:209-210 has every
  change raise it; `TrustConverges` says what remains true;
- the Combined Worker appends `SELF_URL` to the ring *after* the shards that
  registered themselves (combined/worker.js:161), so that unless it is listed in
  `SHARD_URLS` each self-registration moves its own index, which
  combined/wrangler.toml.example:37 and README.md:260 say must never happen;
- in the browser module a frame of more than 0x2ec8 bytes may lose its head to the
  recipient's key, put after it, and one of more than 0x3000 bytes overwrites the
  queue (wasmasm.mjs:36), although verify-wasm.mjs:9 allows frames of 40 KiB and
  wasm/build.mjs calls the module a FIFO;
- README.md:260 has mailboxes of a former count expire "under `TTL_SECONDS`"; a
  record lives `MAILBOX_TTL_SECONDS` from its last write;
- a `/create` for an existing mailbox that overlaps a send drops the new entry,
  and a send in flight across a `/create` brings the former secret back;
- siblings keep their copy after one replica was read, so an entry can be read
  once per replica (README.md:242);
- overlapping registrations may be answered with the same table version, and one
  may take it back (docs/SECURITY.md:209-210);
- a table may carry a new version with urls read before it (router.js:353-357);
- adding a static shard after shards registered themselves shifts the indexes
  that router.js:247-251 calls append-only, and a self-registration does not
  record the former count in `PRIOR_SHARD_COUNTS`;
- a death between truncating and writing `mailbox-map.json` loses every alias
  (main.go:19-20, :227), and attaching without a Router forgets the remembered
  one (main.go:361-366, :460).

## 7. Not modelled

The rate limiter (a request it refuses changes nothing; it only bounds load), the
Combined Worker's copies of the registry handlers, of `verifySenderAuth` and of
`ensureSelfRegistered` (the same code as in `router.js` and `shard/worker.js`,
modelled there), key files of the bridge, signatures, hashing, proof of work,
envelope validation, signed responses, `/status` and its ten-second health cache
(which reports every shard healthy when none is), codecs, the WebAssembly
assembler, packaging, scripts, CI. Reasons are in `PROJECT.json` under
`components`.

## 8. Plan

Done: mailbox, sender authentication, identity, registry, routing table,
placement, bridge, in the order of what a user loses when it goes wrong; then the
Combined Worker (mailbox, placement, trust), the step refinement of `Mailbox`, and
the browser queue. Proofs of every safety property of every module.

Next, modelling:

1. A Combined Worker whose `SELF_URL` is not listed: the ring with a last element
   that moves.
2. Key files of the bridge, with the file model of `mailbox-map.json`; the RPC
   codec as operators with a bounded round trip.

Next, proofs:

1. An abstract registry (a list that only grows, a version that only rises),
   implemented by the steps of `ShardRegistry` that overlap nothing, as `Mailbox`
   is by those of `ShardMailbox`; the invariant of `RoutingTableProofs` has what
   its steps need.
2. What `CapacityHolds` becomes with siblings: a bound on a queue by the sends and
   replicate calls that were in flight.
