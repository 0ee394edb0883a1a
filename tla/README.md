# TLA+ models of the seldon-core scheduler's agent server

This directory holds TLA+ models of the control-plane coordinator in
`src/scheduler/pkg/agent/server.go`. The coordinator pushes load and unload
commands to inference-server replicas ("agents") over long-lived gRPC streams,
and it records the states those replicas report. The directory also models the
data-flow engine's pipeline subscriber (`PipelineSubscriber.kt`) and its
source-name parser (the Kotlin code appended to `server.go`), and the
`seldon model infer` CLI client (`infer.go`). An abstract module,
`ReplicaState`, states the replica lifecycle of spec.md sections 3 and 9, and
the agent server is checked to implement it. Every module is checked
with TLC; `PROJECT.json` lists the runs, the mutants, the source lines each
definition models, the findings and the hazards.

## 1. Inventory

### Source files

| file | what it is |
|---|---|
| `src/scheduler/pkg/agent/server.go` lines 1-237 | agent server: registry, Sync, AgentEvent, Subscribe (Go) |
| `src/scheduler/pkg/agent/server.go` lines 238-364 | a second file appended: the Kotlin `io.seldon.dataflow.kafka` helpers `transformerFor`, `parseSources`, `parseSource`, `nameFor` |
| `src/scheduler/data-flow/.../PipelineSubscriber.kt` | data-flow engine: subscribes to pipeline updates, creates Kafka topics, starts/stops transformers |
| `src/operator/pkg/cli/infer.go` | `seldon model infer` CLI client (REST / gRPC) |
| `src/docs/...` | documentation, no code |

### Components, their state and operations

**AgentRegistry** (`Server.agents`, `Server.mutext`, server.go 29-47). The state
is a map from `ServerKey{serverName, replicaIdx}` to an `AgentSubscriber`, which
holds the stream and a `finished` channel. It is guarded by a `sync.RWMutex`.
Writers are `Subscribe` (insert, lines 184-189), `syncMessage` (holds the
write lock around store and scheduler calls, lines 225-237) and the disconnect
branch (delete, lines 205-207). The readers are the `Sync` goroutines, which
hold the read lock for the whole call.

**SyncEngine** (`Sync`, lines 85-153). One goroutine runs per model event, with
the read lock held. It reads the model from the store. For the latest version
it sends `LOAD_MODEL` to every replica in `LoadRequested`. For every version it
sends `UNLOAD_MODEL` to every replica in `UnloadRequested`. After each
successful `Send` it writes `Loading` or `Unloading` to the store. A missing
subscriber, a failed `Send` or a failed store write is logged, and the loop
continues.

**Event dispatch** (`ListenForSyncs`, lines 64-70). This loop reads the hub's
channel and spawns `go s.Sync(model)` for each event. Syncs run concurrently
with each other.

**ConnectionHandler** (`Subscribe`, lines 178-222, and `syncMessage`). Each
agent connection goes through these steps:
1. Register the subscriber in the registry.
2. Run `syncMessage`, which calls `AddServerReplica` and `ScheduleFailedModels`
   under the write lock. If it fails, Subscribe returns the error and does not
   remove the registry entry.
3. Block until either the `finished` channel fires (return) or the stream's
   context is done.
4. On disconnect, delete the registry entry by key, call
   `RemoveServerReplica`, then call `Schedule` for every changed model.

**Status ingestion** (`AgentEvent`, lines 155-176). A unary RPC that takes no
lock. It maps the event kind to a replica state and writes it with
`UpdateModelState`.

**External collaborators** (not under `src/`: `store`, `scheduler`,
`coordinator`): ModelStore, Scheduler and EventSource. They are modelled from
the contracts in spec.md section 6 and marked `spec_modelled` in the map.

**PipelineSubscriber** (Kotlin). Its state is the `pipelines` map from pipeline
id to topology. It handles the pipeline-update stream in a retry loop that
gives up after 10 `StatusException`s. `handleCreate` builds transformers,
creates topics, `putIfAbsent`s the topology, starts it and reports success. A
failed step count is reported as a failure. A duplicate create is only logged.
`handleDelete` removes the topology, stops its transformers and always reports
success. `cancelPipelines` stops everything.

**Topic parser** (Kotlin, server.go 324-353). `parseSource` splits
`topic.tensor` names. `parseSources` classifies a step's sources as Empty,
Single, SingleSubset, Many or ManySubsets. It is a pure algorithm.

**InferenceClient** (`infer.go`). A sequential CLI. `Infer` dispatches on the
mode to `InferRest` or `InferGrpc`. These send the request `iterations` times
and return at the first error. One iteration prints its response; several
iterations are counted per model name by `updateSummary` and the counts are
printed at the end. It has no concurrency and no persisted state.

### How the components interact

Scheduler/store change → model event (hub) → `ListenForSyncs` → `Sync`
(read lock) → registry lookup → `stream.Send` → agent → `AgentEvent` (no lock)
→ store. Connection churn → `Subscribe` (write lock) → store
`AddServerReplica`/`RemoveServerReplica` → scheduler → events.

### What is hard

- `Sync` writes `Loading` *after* `Send` returns. `AgentEvent` takes no lock,
  so the agent's `LOADED` report can land before the `Loading` write and be
  overwritten.
- Several `Sync` goroutines hold the shared read lock at the same time. Two of
  them can call `Send` on the same stream, and gRPC does not allow concurrent
  `SendMsg` (see the commented-out mutex on `AgentSubscriber`). They can also
  both send `LOAD` for the same request.
- The disconnect branch deletes the registry entry *by key*. If the agent has
  already reconnected, the entry belongs to the new stream.
  `RemoveServerReplica` then runs outside the lock, concurrently with Syncs
  that use the new stream.
- A failed `syncMessage` leaves a registry entry that points at a stream that
  has already ended.
- Progress relies on the other loops: a skipped replica waits for the next
  event or the disconnect cleanup, and the cleanup needs the write lock, which
  readers delay.
- PipelineSubscriber: the retry counter is never reset, a duplicate create is
  never answered, and `createTopics` failures escape the flow.

### Properties that make each component correct

- SyncEngine: the state advances only after the command was delivered.
  `Loading` means the LOAD is still on its way. Load requests are eventually
  commanded. Only the latest version is loaded. Each request gets one LOAD.
- Registry: it holds exactly the live subscriptions: a live stream is
  registered, and a registered stream is live. There is at most one `Send`
  per stream at a time.
- Store: replica-state entries exist only for replicas the store knows,
  although Sync and AgentEvent write without checking.
- ConnectionHandler: a disconnect is eventually cleaned up, and every changed
  model is rescheduled even when one `Schedule` fails.
- Status ingestion: a report is never overwritten by a stale command-path
  write.
- PipelineSubscriber: every create or delete gets exactly one status
  reply. A running topology is in the map. Retries stay within the budget.
- Topic parser: the classification agrees with a reference
  definition over all small source lists.

## 2. Plan

1. **AgentServer.tla** (done in this sitting): the registry, Sync,
   AgentEvent, Subscribe and ListenForSyncs, with the store, scheduler and
   agents as environment actions.
2. **AgentServer** extensions (done in the second sitting): failures of
   `UpdateModelState`, `RemoveServerReplica`, `ScheduleFailedModels` and
   `Schedule`, each behind a constant; properties for duplicate LOADs
   (spec section 8, "exactly one load command"), loads of a superseded
   version, and registry entries of ended handlers. Still open: the explicit
   `finished` close signal (nothing under `src/` sends on it), and two models.
3. **ReplicaState.tla** (done): the abstract replica lifecycle of spec
   sections 3 and 9. AgentServer implements it through
   `INSTANCE ReplicaState WITH` an identity mapping of the store's state and
   the delivered commands, checked as a PROPERTY. The abstract spec allows the
   command-path write from any state, because the overwrite race (run
   `report_overwrite`) is a known violation of the stricter reading.
4. **TopicParser.tla** (done): `parseSource`, `parseSources`, `transformerFor`
   and `areTensorsFromSameTopic` as operators, checked against a reference
   definition over all lists of up to two source names, including the no-dot
   case of `parseSource`.
5. **PipelineSubscriber.tla** (done): the update stream (Create, Delete,
   unknown op), the retry loop, `handleCreate`/`handleDelete`/`cancelPipelines`,
   the status replies, and topic creation through an external Kafka admin.
   Its composition with TopicParser was added in the fourth sitting (item 8).
6. **InferenceClient.tla** (done): the dispatch, both loops, every failure
   branch of `call()` and `ModelInfer`, and the summary.
7. Third sitting (done): pairs of related properties merged into one
   property each, so that one run asks one question
   (`RegistryMatchesStreams`, `LoadSentOnlyWhenNeeded`,
   `SubscriberStopsOnlyOnOutage`). The store's `UpdateModelState` follows
   the stale-reference rule of spec section 7. The failures of `GetModel` in Sync and of
   `UpdateModelState` in AgentEvent are modelled.
8. Fourth sitting (done): PipelineSubscriber composed with TopicParser
   through `Parser == INSTANCE TopicParser`. A Create carries its steps.
   `handleCreate`'s outcome comes from `TransformerFor`, and `createTopics`'
   topic names come from `ParseSource`. The empty topic name that
   `parseSource` gives a source without a dot is refused by Kafka and crashes
   the subscriber. A new property checks that the topics of running
   transformers exist. `getConnection` is an action of InferenceClient.
9. Fifth sitting (done): `sync_safety` now lets every external call fail,
   and lets agents reconnect before the old cleanup. It keeps one version
   so that it still finishes. The refinement check and
   `DisconnectEventuallyHandled` share the `replica_lifecycle` run.
   `RequestEventuallyCommanded` is violated once `syncMessage` may fail, so
   it became the violation run `request_stranded`. `Report` in
   `ReplicaState` now also requires the server the version is placed on.
   The property that the store keeps entries only for known replicas was
   dropped: only the assumed store rule decided it.
10. Left open: the scheduler re-sending its pipelines on re-subscribe, a
   second model in AgentServer, and the Admin client that `createTopics`
   never closes.

## 3. Module AgentServer

### State

| variable | code |
|---|---|
| `agents` | `Server.agents` (key = `ServerKey`, value = connection id) |
| `mutext` | the set of Sync goroutines holding `mutext.RLock` |
| `source` | the events delivered to `s.source` and not yet read |
| `syncs[s]` | the program counter and locals of Sync goroutine `s` (model, latest version read, current loop, remaining replicas, current replica and stream) |
| `hpc[c]`, `changed[c]` | the program counter of the Subscribe handler of connection `c`, and the models still to reschedule |
| `versions`, `vserver`, `rstate`, `storeReplicas` | the store: latest version, server of each version, the replica-state table, and the replicas added by `AddServerReplica` |
| `connOf`, `agentConn`, `peerGone`, `stream`, `nextConn` | the agents: which replica opened each stream, the stream each agent uses, whether the stream's context is done, and the unread commands |
| `sent` | history: every command `Send` delivered, with its target replica |

### Actions

Each goroutine step between two points where another goroutine can interleave
is one action:
- `ListenForSyncs`.
- `SyncGetModel`: RLock, GetModel, GetLatest, and the LoadRequested replicas.
  A failing `GetModel` (`StoreMayFail`) ends the Sync and releases the lock.
- `SyncPick`: the registry lookup and the start of `Send`.
- `SyncSend`: `Send` returns, delivered or failed.
- `SyncUpdate`: UpdateModelState, which may fail (`StoreMayFail`); the
  failure is logged and the loop continues.
- `SyncLoopDone`: the end of a loop, the next version of the unload loop, and
  the return with RUnlock.
- `Subscribe`.
- `SyncMessage`, with the AddServerReplica failure and the
  ScheduleFailedModels failure (the replica is then already in the store),
  both behind `SubscribeMayFail`.
- `Disconnect`.
- `RemoveServerReplica`, which may fail (`RemoveMayFail`) and then leaves
  nothing to reschedule.
- `Reschedule`, where `Schedule` may fail (`ScheduleMayFail`) and the loop
  goes on.

A write-locked section is one atomic step that requires `mutext = {}`.

Environment actions:
- `Deploy`: a new version. Older versions' active replicas become
  `UnloadRequested`, the new one is placed and an event is published.
- `AgentConnect`, `AgentDrop`.
- `AgentProcess`: the agent reads a command and reports through
  `AgentEvent`. The store write may fail (`StoreMayFail`). The error then
  goes back to the agent and the store is unchanged. An agent that retries
  is one that has not taken this step yet.

### Runs

| run | cfg | expect | question |
|---|---|---|---|
| `sync_safety` | `MC_AgentServer.cfg` | pass | With two concurrent Syncs, every external call failing, every load outcome, and reconnects before or after the old cleanup, is a replica's state advanced only after its command reached the replica? (106k states, seconds) |
| `replica_lifecycle` | `MC_AgentServer_live.cfg` | pass | With two versions, every load outcome and failing `syncMessage` and `Schedule`, does the server implement `ReplicaState`, and is every disconnect eventually cleaned up? (555k states, about 2 min) |
| `request_stranded` | `MC_AgentServer_stranded.cfg` | violation | Is every load/unload request eventually commanded or cleared? No: after a failed `syncMessage`, Subscribe returns without cleanup, and a version placed on that replica stays LoadRequested. |
| `report_overwrite` | `MC_AgentServer_overwrite.cfg` | violation | Can `Loading` overwrite a replica's own `LOADED` report? |
| `registry_mismatch` | `MC_AgentServer_reconnect.cfg` | violation | Does the registry hold exactly the live subscriptions? No: the cleanup of an old stream deletes the entry of the agent's live, reconnected stream. |
| `concurrent_send` | `MC_AgentServer_sendrace.cfg` | violation | Can two Syncs be inside `Send` on one stream at the same time? |
| `redundant_load` | `MC_AgentServer_dupload.cfg` | violation | Is a LOAD sent only when needed (latest version, not already queued)? No: two Syncs both read the replica as LoadRequested and both send it. |

Two further cfgs violate `LoadSentOnlyWhenNeeded` by other paths:
- `MC_AgentServer_storefail.cfg`: one Sync and one version. A failed
  Loading write leaves the replica LoadRequested, and the next event re-sends
  the LOAD.
- `MC_AgentServer_stalelatest.cfg`: a deployment between `GetModel` and
  `Send` makes Sync load a superseded version.

`MC_AgentServer_subfail.cfg` violates `RegistryMatchesStreams` by a failed
`syncMessage`, whose entry outlives its handler.

`replica_lifecycle` runs with `ScheduleMayFail` set. Its
`DisconnectEventuallyHandled` shows that the handler ends. It does not show
that the reschedule loop goes on after a failed `Schedule`: a handler that
returned at the first failure would also end. `Send` is modelled as
returning at once, so a Send blocked on a full stream, which would hold the
read lock, is not checked.

`request_stranded` is `replica_lifecycle`'s model with only `LOADED`
reports. A failing `AddServerReplica` or `ScheduleFailedModels` ends
Subscribe with its registry entry and the store's replica still in place.
The stream is gone, so every Send fails and Sync leaves the request "for
the next sync pass". No cleanup ever runs, so that pass never succeeds.
This contradicts spec section 4.2, which says such a request is retried on
the replica's next subscribe-triggered sync.

### Bounds

The runs use:
- two servers with one replica each (replica indices do not interact);
- one model with two versions, which is the least that gives an unload
  request;
- two connections (one in `MC_AgentServer_subfail.cfg`);
- two Sync slots in the safety runs and one in `replica_lifecycle`;
- one version in `sync_safety`: with every store call allowed to fail, two
  versions take longer than the run limit. Unloads are covered by
  `replica_lifecycle`;
- every load outcome in `sync_safety` and `replica_lifecycle`, and `LOADED`
  only in the violation runs.

Two Sync slots are the least that shows two readers at once. Two connections
allow either two replicas or one reconnect. The servers are a symmetry set in
the safety runs, but not in the liveness runs, where symmetry is unsound. Each violation is reached within a dozen steps, so larger
bounds add no new kinds of interleaving.

### Fairness

Weak fairness applies to `ListenForSyncs`, to every Sync goroutine step, to
every handler step and to each agent reading its stream. These are goroutines
of the server that block only on the mutex, and with a bounded number of
Syncs the mutex is eventually free. Deployments, connects and drops are the
environment's choice and get no fairness. `CHECK_DEADLOCK FALSE` is set
because the bounded environment stops: the server then idles, waiting for
events.

### Assumptions about the external code

- `UpdateModelState` writes the state of `(model, version, replicaIdx)`
  atomically. A write that names a server the version is not placed on, or a
  replica the store no longer knows, is a stale reference (spec section 7)
  and changes nothing. A failing write also changes nothing.
- `GetModel` may fail and then returns nothing.
- The scheduler places an unplaced latest version on one known replica and
  publishes an event.
- `Deploy` asks every active replica of an older version to unload.
- `RemoveServerReplica` clears every entry of the replica and returns the
  models that had one. When it fails, it changes nothing and returns no
  models.
- A failing `Schedule` or `ScheduleFailedModels` places nothing.
- The Go RWMutex's writer preference is not modelled. It only affects
  fairness between readers and writers.

## 4. Module PipelineSubscriber

### State and actions

| variable | code |
|---|---|
| `phase` | where `subscribe()` is: about to call `subscribePipelineUpdates`, inside `collect()`, or ended by a rethrown `StatusException` (`gaveUp`) or by another exception (`crashed`) |
| `retries` | the `retries` counter |
| `inbox` | updates the current stream delivered and `onEach` has not handled yet |
| `pipelines` | the `pipelines` map: pipeline id to the topology stored for it, or `NoTopology` |
| `started` | topologies whose transformers were started and not stopped |
| `topics` | the Kafka topics that exist, as TopicParser names |
| `replies`, `unanswered`, `streak` | history: status messages sent, handled updates that got no reply, and StatusExceptions since an update was last handled |

A topology is the update that built it. Update numbers are unique, so the
model can tell a running topology apart from the one the map holds for the
same id. An update carries its `updatesList` as a sequence of
`[sources, sink]` records over TopicParser's names. The module instantiates
TopicParser as `Parser` and computes from these records:
- `TopicNamesOf`: the topic names `createTopics` asks for. Every source and
  every sink goes through `parseSource`.
- `InvalidTopic`: one of those names is empty. Kafka's admin client fails that
  topic's future with `InvalidTopicException`, and `createTopics` rethrows it.
- `TransformersComplete`: `transformerFor` builds every step
  (`transformers.size == steps.size`).

The updates of one stream are handled one after another, so each handler is
one action, and its failure points are disjuncts:
- `HandleCreate`: `createTopics` throws an `ExecutionException`, which no
  handler catches (`Crash`). It throws for an empty topic name, after creating
  the other topics, and for any other Kafka error when `KafkaMayFail` is set,
  after creating some of them. Otherwise it succeeds. Then an incomplete step list is
  reported as failed, a new id is stored with `putIfAbsent`, started and
  reported, and a duplicate id is only logged.
- `HandleDelete`: remove the topology, stop it, and report success.
- `HandleUnknown`: log only.
- `CancelPipelines`: stop every mapped topology and keep the map.
- `SendReply`: the final `pipelineUpdateEvent` call is delivered, or it throws
  a `StatusException` that ends the stream (`StatusRetry`).

The environment consists of the chainer server (`ServerSend`,
`ServerComplete`, `StreamFails`), with a bound of `MaxUpdates` updates, and the
Kafka admin, which fails when `KafkaMayFail` is set.

### Runs

| run | cfg | expect | question |
|---|---|---|---|
| `subscriber_safety` | `MC_PipelineSubscriber.cfg` | pass | With failing Kafka calls, failing replies, stream failures and cancellation, is every running topology the one the map holds (`NoOrphanTopology`)? Does every topic a running transformer consumes or produces exist (`TopicsExistForRunningTopologies`)? (314k states, 16 s) |
| `duplicate_create_unanswered` | `MC_PipelineSubscriber_dupcreate.cfg` | violation | Is every Create and Delete answered? No: a Create for an id already in the map gets no reply. |
| `subscriber_stops_early` | `MC_PipelineSubscriber_retrybudget.cfg` | violation | Does the subscriber stop only after `retryCountMax` StatusExceptions in a row? No: the counter is never reset, so failures spread over several outages exhaust it. |

`MC_PipelineSubscriber_kafkaerror.cfg` violates the same property by the
other path: one `createTopics` error other than TopicExists escapes the loop,
which catches only `StatusException`. `MC_PipelineSubscriber_nodot.cfg`
violates it with no Kafka or reply failure at all. A pipeline whose source
has no dot makes `createTopics` ask for the topic `""`, and the subscriber
crashes on the first such Create.

`TopicsExistForRunningTopologies` compares the two components. The topics a
step's transformer uses are the topics `parseSources` groups its sources by,
plus the sink as given. These must be among the topics `createTopics`
created, named by `parseSource`. Its mutant drops `topicNames += sinks`.

The step lists are:
- a complete chain `m.outputs -> n.inputs`;
- the same chain with a second step that has no sources, which
  `transformerFor` cannot build;
- a step whose source `m` has no dot.

The violation cfgs for duplicates and retries use only the complete chain,
so their counterexamples do not go through the empty topic. Sinks end in
`inputs` or `outputs`, so `parseSource` gives a sink its own name. A sink
naming a tensor would make `createTopics` create the topic without the
tensor while the transformer writes to the full name. Nothing under `src/`
says which sink names the scheduler sends.

The bounds are two pipeline ids (a symmetry set), four updates, and
`RetryCountMax = 3` instead of 10. Two ids are enough to show one pipeline's
topology surviving while another is deleted. Four updates allow a create, a
duplicate or re-create, a delete and one more. The retry bound only changes
how long the loop runs. `CHECK_DEADLOCK FALSE` is set because `gaveUp` and
`crashed` are final: `subscribe()` has thrown.

## 5. Module TopicParser

A source name is the sequence of its dot-separated segments. `"m.outputs.t"`
is `<<"m","outputs","t">>`, and `"m"` is `<<"m">>`. `substringAfterLast(".", "")`
is the last segment when there are at least two, and `""` otherwise.
`substringBeforeLast(".")` is `Front`. With these, the operators are:
- `ParseSource`: the three `when` branches.
- `GroupTensors`: a RECURSIVE fold that keeps `groupBy`'s first-appearance
  order and the `filterNotNull` of `mapValues`.
- `ParseSources`: the `when` classification into Empty, Single, SingleSubset,
  Many and ManySubsets.
- `TransformerFor` and `AreTensorsFromSameTopic`.

The variable `sources` ranges over every list of at most two names of at most
three segments over `{"m","outputs","t",""}`, which gives 7141 lists.
`"inputs"` takes the same branch as `"outputs"` and is left out.

| run | cfg | expect | question |
|---|---|---|---|
| `parser_reference` | `MC_TopicParser.cfg` | pass | Does `parseSources` read exactly the named topics and select exactly the named tensors (the reference is a set comprehension)? Does only the empty list get no transformer? |

`MC_TopicParser_roundtrip.cfg` asks whether a source's topic is the name
without its tensor suffix. It is a prepared run (see below): `"m"` and `"m."`
get the topic `""`.

## 6. Module ReplicaState (abstract) and the refinement

`ReplicaState` has four variables: the latest version of each model, the
server each version is placed on, the replica-state table, and the set of
commands delivered to replicas. Its steps are:
- `Schedule`: the scheduler and the store place versions and write request
  states. An entry may be cleared, set to LoadRequested, or set to
  UnloadRequested while it is active.
- `Deliver`: a command for an existing version reaches a replica.
- `CommandSent`: Loading or Unloading, once the matching command reached the
  replica the version is placed on.
- `Report`: a replica of the server the version is placed on reports on the
  version, which it was commanded, with an outcome of that command.

`AgentServer` instantiates it as `RS == INSTANCE ReplicaState WITH latest <-
versions, placed <- vserver, table <- rstate, delivered <- sent`, and
`ImplementsReplicaState == RS!Spec` is a PROPERTY of the
`replica_lifecycle` run. Every agent-server step (lock, lookup,
handler bookkeeping, stream traffic) is a stutter of the abstract spec. The
run's mutant lets a failed Send fall through to the Loading write, which is a
`CommandSent` step with nothing delivered.

## 7. Module InferenceClient

| variable | code |
|---|---|
| `pc` | where the call is: before `Infer`, in `InferGrpc`'s setup, in the loop, or returned |
| `mode`, `iterations`, `showResponse` | the arguments |
| `i`, `counts` | the loop counter and `ic.counts` (0 for an absent key) |
| `shown`, `summary` | the responses printed, and the counts printed after the loop |
| `result`, `answers` | what `Infer` returned, and the history of responding model names |

The actions are:
- `Infer`: the mode switch.
- `GrpcSetup`: request unmarshalling, which may fail, then `GetConnection`:
  `grpc.Dial`, which may fail (it does not block, so an unreachable server
  shows up only in the loop's calls).
- `Iterate`: one call, failing with any of `call()`'s or `ModelInfer`'s
  failure branches, or answered by a model.
- `Finish`: the summary print and the return.

The bounds are three response names (`""` for an omitted `model_name`), one
to three iterations, and the REST, gRPC and an unknown mode: 471 states. Three
iterations let a summary count one name twice. `CHECK_DEADLOCK FALSE` is set
because a returned call is final.

| run | cfg | expect | question |
|---|---|---|---|
| `infer_summary` | `MC_InferenceClient.cfg` | pass | Does a printed summary count each model name as often as it answered, over exactly the requested iterations? |

`MC_InferenceClient_zero.cfg` is a prepared run (see below).

Requests and responses are abstracted to the responding model name. JSON and
proto printing, and the request's routing header (which depends only on the
infer type), are left out. The client's `counts` map is never reset, so a
second `Infer` on the same client would print cumulative counts. The CLI makes
one call per client, so the model makes one call too.

### Prepared runs, not in the run list

The run list is limited to twelve runs. These cfgs are on disk and behave as
stated, but `PROJECT.json` does not list them:

| cfg | expect | question |
|---|---|---|
| `MC_AgentServer_refine.cfg` | pass | Does the refinement hold with every store and `RemoveServerReplica` failure as well? Yes: 1.07M states under server symmetry, about 1 minute. It is left out only because of the limit on the run list. |
| `MC_AgentServer_removefail.cfg` | violation | Is every request commanded when RemoveServerReplica can fail? No: the gone replica stays in the store with a request nobody serves. |
| `MC_TopicParser_roundtrip.cfg` | violation | Is a source's topic the name without its tensor suffix? No: `"m"` and `"m."` get the topic `""`. |
| `MC_PipelineSubscriber_nodot.cfg` | violation | Does the subscriber stop only at the end of an outage when Kafka and the scheduler never fail? No: a source without a dot gives the topic `""`, which Kafka refuses, and `createTopics` rethrows. |
| `MC_InferenceClient_zero.cfg` | violation | Does a successful `Infer` always make an inference? No: `--iterations 0` or a negative value returns success with no call. |

`MC_AgentServer_stalewrite.cfg` lets agents reconnect before their old
stream's cleanup, and checks `CommandPrecedesProgress`. It found a violation
while the store's write ignored the server name: a Sync wrote Loading for a
version the cleanup had moved to another server. With the stale-reference
rule of spec section 7, that write changes nothing. The state space is then
too large to finish (more than 19M states). `MC_AgentServer_merged.cfg` was a
timing experiment that combined `sync_safety` with the refinement check.

## 8. Not modelled

- `StartGrpcServer`: I/O. `NewAgentServer` is `Init`: an empty registry and
  an empty event channel. The channel's buffer of one is not modelled, because
  `ListenForSyncs` never blocks while draining it.
- The `finished` channel of `AgentSubscriber`. Nothing under `src/` sends on
  it or closes it, so Subscribe's `<-fin` branch never runs.
- A report that reaches `AgentEvent` after its stream has ended. Agents
  report only while their stream is live. The store's stale-reference rule
  would reject a report for a replica that was removed or moved.
- Log messages.
- Payload encoding.
- `md5`/`nameFor` (hashing of Kafka application ids), and the `Chainer` and
  `Joiner` transformers themselves, which are not under `src/`. The
  application id hashes the type, the sources and the sink, but not the
  pipeline name. Two pipelines with identical steps would therefore share a
  Kafka Streams application id. Whether the scheduler can send such
  pipelines depends on how it names sinks, which is not under `src/`.
- The leaked Kafka `Admin` client in `createTopics`. A single call shows the
  leak, so there is nothing for a model checker to find.
- The documentation. `seldon_model_infer.md` lists `--header`,
  `--show-headers` and `--sticky-session` flags, which the `Infer` signature
  in this `infer.go` does not take.
