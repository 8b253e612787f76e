# TLA+ models of the RobustMQ MQTT broker core

These models cover the part of RobustMQ in `src/`:
- the MQTT v5 packet handlers (`mqtt-broker/src/handler/mqtt5.rs`);
- the exclusive-subscription push engine (`mqtt-broker/src/subscribe/exclusive_sub.rs`);
- the state the two share: the metadata cache, the subscription registry and the message storage;
- the placement center's journal engine RPCs (`placement-center/src/server/grpc/service_journal.rs`) over the raft log they write through.

`PROJECT.json` lists every component, run, mutant, finding and hazard. Its `map` names the source lines behind each definition.

## The system and how its parts interact

- **Packet handlers.** One `Mqtt5Service` method handles each packet.
  - Packets of one connection are handled one after another.
  - Packets of different connections run as separate tasks on a multi-threaded tokio runtime, so they interleave.
  - The handlers write the **metadata cache**: connection → client, client → connection, sessions and topics.
  - They also write the **heartbeat table**, the **subscription registry** (`exclusive_subscribe`) and the **message storage** (shards of records, consumer-group offsets).
- **Push engine.** `SubscribeExclusive::start` runs a supervisor tick once a second.
  - For each client in the registry that has no `push_thread` entry, the tick spawns a **push loop**.
  - The push loop reads batches of up to `record_num = 5` records after its group's committed offset and pushes them to the client's current connection.
  - Under `nolocal` it skips records whose client id is the subscriber's. `build_record` (mqtt5.rs 254) stores no publisher client id, so in this code it skips nothing (the nolocal run).
  - It commits the batch's last offset after each pushed record.
- **Journal engine RPCs.** `GrpcEngineService` is a separate server in the placement center.
  - `create_shard`, `delete_shard`, `create_segment` and `delete_segment` wrap their request in `StorageData` and await `raft_machine_apply.client_write`.
  - Ok gives an empty reply; any Err gives `Status::cancelled`.
  - `get_shard` answers `GetShardReply::default()` without reading anything.
  - Many storage-engine nodes call these RPCs concurrently.
- `user.rs` is a data struct that nothing in `src/` uses.

## Modules

| Module | Models | State | Actions |
|---|---|---|---|
| `MessageStorage` | the storage facade's contract (spec.md 4.B; the facade is not in `src/`) | none: operators on a shard | `AppendTopicMessage`, `ReadTopicMessage` |
| `Mqtt5Service` | `mqtt5.rs` | `sockets`, `next_conn`, the cache maps, `heartbeat`, `topic_info`, `next_topic_id`, `shards`, `shard_log` (records: QoS, and the publisher as history that no step reads), `exclusive_subscribe` (descriptors: topic, topic id, nolocal, QoS, the SUBSCRIBE's packet id), `handler` (where each PUBLISH is), `failures` | `accept`, `connect`, `publish`, `publish_set_topic`, `publish_save_topic`, `publish_create_shard`, `publish_save_retain`, `publish_append`, `subscribe`, `un_subscribe`, `ping`, `disconnect` |
| `SubscribeExclusive` | `exclusive_sub.rs` | `push_thread`, `loop` (each client's loop: pc, descriptor, batch), `committed`, `sent` (history of pushes: client, topic, offset, the connection pushed to, whether it was open, QoS `min_qos(record, subscription)`, packet id) | `exclusive_sub_push_thread`, `push_loop_poll`, `push_loop_send` |
| `Broker` | the two together over the shared variables | all of the above | one wrapper per action; `Spec`, `FairSpec` and the properties |
| `ConsumerCursor` | what the push engine promises a subscriber (spec.md 4.B, 4.E, 8): a cursor per topic id and client | `cursor`, `pushed`, `skipped` | `Deliver(c, t)`, `Environment` |
| `MCBroker` | the TLC instance | | symmetry, and a view without the records' publishers for the liveness run |
| `JournalData` | the journal requests and their effect on the placement state (the raft state machine's apply, not in `src/`) | none | `Do(reg, req)` |
| `JournalService` | `service_journal.rs` over the raft `client_write` contract | `log` (the requests, in log order), `commit`, `rpc` (each caller's RPC awaiting client_write), `answer` (each caller's last answer), `faults` | `create_shard`, `delete_shard`, `create_segment`, `delete_segment` (all through `ClientWrite`), `get_shard` (a stutter: it reads and writes nothing), `RaftCommit`, `Respond`, `LeaderChange` |
| `JournalRegistry` | what the RPCs promise (spec.md 4.G): an atomic registry of shards and segments | `registry`, `pending`, `done`, `orphans`, `answer` | `Invoke`, `Effect`, `OrphanEffect`, `RespondOk`, `Reject`, `Disrupt` |
| `MCJournal` | the TLC instance of `JournalService` | | caller symmetry |

### Granularity

- CONNECT, SUBSCRIBE, UNSUBSCRIBE, PINGREQ and DISCONNECT are one step each.
  - Their shared-state writes happen together, after their awaits.
- PUBLISH is split at every await and between the topic lookup and `set_topic`. The steps are:
  1. lookup
  2. set_topic
  3. save_topic
  4. create_shard
  5. save_retain
  6. append
- A push loop has two steps:
  - `poll` is the top of the loop body: the stop check, `get_connect_id` and `read_topic_message`.
  - `send` is one iteration of the for loop: the nolocal skip, or the push and then the commit.

### Error paths

- Every storage call that can fail is a disjunct bounded by `MaxFailures`.
- A handler that answers DISCONNECT closes its socket (MQTT v5 §4.13). It leaves the caches as the code leaves them.

### Spec-modelled parts

These are modelled from spec.md rather than from `src/`, and the map marks them `spec_modelled`:
- the storage operators;
- the subscribe manager's `parse_subscribe`;
- the wire layer (`accept`, the socket closing on DISCONNECT).

### The raft contract under the journal RPCs

The raft layer is not in `src/`, so `JournalService` models it from its contract.
- `client_write` is refused at once when the node is not the leader: nothing is appended, and the RPC answers cancelled.
- Otherwise the entry is appended, and the call returns Ok once the entry is committed and applied (`RaftCommit`, then `Respond`).
- A leader change (`LeaderChange`) errs every waiting call. The new log keeps the committed entries and some prefix of the rest; the kept entries commit later.

### Refinement

`JournalService` implements `JournalRegistry` (`ImplementsRegistry`, the instance `Registry`). The mapping is:
- `registry` is `Applied`: the state machine after the committed log prefix, computed with `FoldLeft`;
- a caller's `pending` write is the request of its waiting RPC, and it is `done` once its entry is committed;
- `orphans` is the bag of uncommitted entries no RPC waits for any more;
- `answer` is the caller's last answer.

A refusal maps to `Reject`, a commit of a waited entry to `Effect`, a commit of an orphan to `OrphanEffect`, and a leader change to `Disrupt` of the waiting callers (truncated entries leave the orphan bag).

The push engine implements `ConsumerCursor` (`ImplementsCursor`, the instance `Cursor` in `Broker.tla`). In `ConsumerCursor`, a `Deliver(c, t)` step pushes records after the cursor and moves the cursor forward over pushed or skippable records. The mapping is:
- `cursor[t][c]` is the committed offset of `system_sub_<c>`, except while c's loop is inside a batch `lo..hi` of t. Then it is `lo - 1`: the commits of a batch in progress become final at its last record.
- `pushed` is the set of `<<client, topic id, offset>>` of the push history `sent`.
- `skipped` is the set of records the nolocal check skips, for the loops that exist. With the records this code builds it stays empty.

A poll is a stutter step. A send is a `Deliver` step, and at the batch's last record it moves the cursor to the committed offset. Every handler step and supervisor tick is an `Environment` step. The mapping hides the window inside a batch, where the commit runs ahead of the pushes; the commit_mid_batch run exposes that window.

## Runs

The broker runs use two clients `{c1, c2}`, one topic name, `record_num = 5` and `MCBroker`.

| Run | cfg | Expect | Shows |
|---|---|---|---|
| safety | `MCBroker.cfg` | pass | `TypeOK` and `ImplementsCursor`. Commits only move forward, only over pushed or skipped records, and a record is pushed again only while it is uncommitted (the re-read after a failed commit). This holds under all interleavings, with one storage failure. ~830k states, ~1.5 min. |
| eventual_delivery | `MCBroker_live.cfg` | pass | `EventualDelivery` under `FairSpec`: with fewer records than a batch, every record a loop must deliver is delivered while its client is connected. ~144k states (under the view), ~70 s. |
| takeover | `MCBroker_takeover.cfg` | violation | `ConnMapsInverse`: a second CONNECT leaves the old connection → client entry. |
| topic_race | `MCBroker_topic_race.cfg` | violation | `SubscriptionsFollowTopic`: concurrent topic creation overwrites a topic id that a subscription uses. |
| topic_cached | `MCBroker_topic_cached.cfg` | violation | `CachedTopicHasShard`: a failed save_topic or create_shard leaves a cached topic without a shard. |
| stale_loop | `MCBroker_stale_loop.cfg` | violation | `PushOnlyForLiveSubscription`: a loop keeps pushing after UNSUBSCRIBE or DISCONNECT. |
| commit_mid_batch | `MCBroker_commit_mid_batch.cfg` | violation | `CommitAfterBatch`: inside a batch, the commit runs ahead of the pushes. |
| nolocal | `MCBroker_nolocal.cfg` | violation | `NoLocalHonoured`: a client subscribed with nolocal is pushed the record it published itself. |

The journal runs use `MCJournal`, two callers `{r1, r2}`, one shard and one segment.

| Run | cfg | Expect | Shows |
|---|---|---|---|
| journal | `MCJournal.cfg` | pass | `JournalTypeOK` and `ImplementsRegistry`, with four log entries and two faults. ~305k states, ~50 s. |
| dead_connection | `MCBroker_dead_connection.cfg` | violation | `CommittedRecordsDelivered`: the push loop pushes into a closed connection and commits, so the record is lost. |
| pkid | `MCBroker_pkid.cfg` | violation | `InFlightPacketIdsDistinct`: two QoS 1 pushes on one connection carry the same packet id. |

### Counterexamples

- **takeover.** Two CONNECTs of the same client.
- **topic_race.** Two handlers race on the same new topic:
  1. A PUBLISH misses the topic in the cache.
  2. A SUBSCRIBE on another connection creates the topic (id 1) and subscribes.
  3. The PUBLISH's `set_topic` installs id 2.
  4. The record goes to shard 2, which the subscriber never reads.
- **topic_cached.** The storage fails after `set_topic`, and the next PUBLISH appends to a missing shard.
- **stale_loop.** SUBSCRIBE, a tick, then UNSUBSCRIBE. The loop then starts a batch.
- **commit_mid_batch.** A two-record batch: after the first push, the committed offset is 2.
- **nolocal.** c1 connects, subscribes with nolocal, and publishes one record on the topic. The tick spawns its loop. The record carries no client id, so the check at exclusive_sub.rs 132 does not skip it, and the loop pushes c1 its own record.
- **dead_connection.**
  1. c1 connects, subscribes, and a record is published.
  2. c1 subscribes again, and the retained read fails: the handler answers DISCONNECT, so the socket closes. The subscription and the client → connection entry stay.
  3. The tick spawns a loop. It resolves the closed connection, pushes into it, and commits offset 1.
  
  c1 still holds the subscription, and it never gets the record.
- **pkid.** c1 subscribes with QoS 1, and two QoS 1 records are published. The loop pushes both on c1's connection with the SUBSCRIBE's packet id, and no PUBACK ever releases it.

### Bounds

- **Two clients** are enough for every two-actor race: a take-over, a topic creation on two connections, and a record published by another client.
- **Two connections** let one client reconnect, or two clients act at once.
- **Two topic ids** let a topic be created twice. They are used in the topic_race run. The safety run uses one; with two, it takes ~3 minutes, too close to its time limit.
- **Two records:**
  - Two records make a batch with a middle (the mid-batch commit).
  - They allow a record published after a commit (what an off-by-one commit would lose).
  - With them, `ImplementsCursor` is checked with a batch boundary inside the shard.
- **One failure** reaches every error path: the connect persistence, save_topic, create_shard, save_retain, append, the retained read of SUBSCRIBE, the read and the commit of a loop.
- **QoS levels and packet ids.** In the pkid run, `QoSLevels = {0, 1}` and `PacketIds = {1}`: one packet id is enough, because every push of a loop carries the same one. The other broker runs use `QoSLevels = {0}`. The QoS of a record or a subscription changes only the QoS field of a push, because the loop's `match qos` arms are empty. No other property reads that field.
- **Journal: four entries and two faults.**
  - They allow two callers' writes in flight, a leader change that keeps one entry and drops another, a retry after it, and a second refusal or leader change.
  - Each fault is either a refusal or a leader change.
- **Symmetry over `Clients`** is used in the safety and violation runs. It is not used in the liveness run, where TLC does not support it soundly. The journal run uses symmetry over `Callers`.
- **The view `PublisherFreeView`** (liveness run) leaves out the records' publishers. No step reads them, so two states that differ only in them have the same successors and the same truth of `EventualDelivery`.

## Fairness

`FairSpec` assumes weak fairness of:
- the supervisor tick, because `start` loops with a one-second sleep;
- each loop's poll and send steps, because a spawned tokio task whose awaits complete keeps being scheduled.

Handlers get no fairness: nothing forces a client to send packets.

The journal run checks safety and refinement only, so it assumes no fairness.

## Properties and mutants

Each property of a passing run has a mutant of the code it is about. The broker mutants are operators in `SubscribeExclusive.tla`:
- `exclusive_sub_push_thread_no_entry` forgets the `push_thread.insert`. It breaks `TypeOK`: a loop runs with no entry.
- `push_loop_poll_reread_committed` starts a batch at the committed offset instead of after it. It breaks `ImplementsCursor`: the last committed record is pushed again and the cursor moves back.
- `push_loop_send_skip_all` skips every record under nolocal without comparing client ids. It breaks `EventualDelivery`.

The journal mutants are operators in `JournalService.tla`:
- `LeaderChange_loses_committed` lets the new leader lack committed entries. It breaks `JournalTypeOK`.
- `Respond_before_commit` answers Ok once the entry is appended. It breaks `ImplementsRegistry`: the Ok answer can come before the write takes effect, or for a write a leader change drops.

## Not modelled

- **Heartbeat times and the keep-alive reaper.** No code in `src/` reads them, so PINGREQ's renewal is a stutter and only its refusal is a step.
- **Stored sessions and last wills, and retained-message contents.** Nothing in `src/` reads them back. Their storage failures are modelled. disconnect never deletes the stored will, even though spec.md 4.F says a normal DISCONNECT drops it. The will's only reader, the heartbeat reaper, is not in `src/`, so this is listed as a hazard without a property.
- **QoS acknowledgements.** `publish_ack` and `publish_rel` are empty functions, so no action models them. A push therefore never leaves flight, which is what the pkid run shows.
- **Push scheduling.** A loop with nothing to read spins without changing state. It is a stutter step, so the CPU use is not modelled. The stale_loop run shows that the loop is never stopped.
- **Record decoding errors and the `from_utf8(..).unwrap()` panic.**
- **The raft layer under the journal service.** It is modelled from its contract, not from code, because it is not in `src/`. Its internal elections and replication are left out. That every waiting `client_write` returns is part of that assumed contract: the RPC only awaits it (service_journal.rs 80), so no property about it would check the code.
- **What a cancelled answer means.** A write answered `Status::cancelled` may still take effect after a leader change. No document says it must not, so this is a hazard without a property, and `JournalRegistry` admits it.
- **get_shard's answer.** spec.md 4.G says reads consult the placement cache. The code returns `GetShardReply::default()` and touches no state, so the divergence is visible in the code itself, and the model has nothing to check.
- **`user.rs`.** It is a data struct with no operations.
