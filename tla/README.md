# TLA+ models of infinityOS

Models, model-checking runs and proofs for the core of infinityOS: the C kernel
(`src/kernel-c`) and the Rust performer runtime (`src/runtime-rust/crates`).
Every definition that models code is listed with its source lines in
`PROJECT.json` under `map`.

- [1 The system](#1-the-system)
- [2 Modules and their correspondence to the code](#2-modules-and-their-correspondence-to-the-code)
- [3 Runs, bounds and fairness](#3-runs-bounds-and-fairness)
- [4 Proofs](#4-proofs)
- [5 Where the code and its documentation disagree](#5-where-the-code-and-its-documentation-disagree)
- [6 What is not modelled](#6-what-is-not-modelled)
- [7 Plan](#7-plan)

To run: `tlc -config MCTaskScheduler.cfg MCTaskScheduler` (and likewise for the
other configurations), `tlapm TaskSchedulerProofs.tla` (and likewise for the
other `*Proofs` modules).

## 1 The system

Dependencies point downwards: canvas, agents and deployment use the performer
runtime, which uses the kernel. The implementation is almost entirely in the
two lower layers; the upper ones are documents.

### 1.1 Kernel (C)

| component | state | operations | interaction | what is hard | what makes it correct |
|---|---|---|---|---|---|
| task scheduler, `scheduler.c` | `tasks[]`, one FIFO per priority, `running_count`, one mutex | submit, cancel, destroy | task functions run on the stack of whoever submits, with the mutex released, and may submit themselves | nesting and interleaving of drain loops; nobody but a submitter drains; destroy against running functions | count exact, no lost or doubled task, work conservation, priority order, queued tasks run |
| timers, `scheduler.c` | a list sorted by deadline, cancel flags written without the lock | once, cancel | callbacks run inside `ify_timer_once()`, lock released | concurrent and nested firing loops on one list | at most once, not early, not after a cancel, all due ones fired |
| service registry, `service_registry.c` | a table of slots, ids, one mutex | init, register, unregister, start (with restarts and back-off), stop, shutdown | start and stop callbacks with the mutex released; slots are found again by id | everything that can change during a callback or a sleep | no orphaned service, one starter, stop only what is up, starts end |
| replicas, `replication.c` | a table of slots that own an arena and a scheduler | create, destroy, submit | allocations, frees and submissions outside the lock | check-then-act on slots, double destruction, submission against destruction | one owner per resource, freed once, no use after free |
| tracing, `trace.c` | in-flight table, ring buffer, emit callback | init, shutdown, begin, end, read, set_emit | called by everybody; callback after unlock | lapping, id collisions, re-initialisation between two halves of a call | ring holds the newest spans, each stored, emitted and read at most once |
| lifecycle, `kernel.c` | an atomic state word, granted capabilities | init, shutdown, capabilities | starts registry, then trace; stops them in reverse | state word and subsystems change at different times; partial failure | state word agrees with the subsystems |
| dimensions and ids, `ffi.c` | table of dimensions, counters | create, destroy, generate ids | used by the Rust bindings | table reuse | unique live dimensions |
| arenas, `memory.c` | bump pointer and capacity per arena | create, alloc, reset, destroy | one owner each | alignment and overflow arithmetic | disjoint, aligned allocations within capacity |

### 1.2 Performer runtime (Rust)

| component | state | operations | interaction | what is hard | what makes it correct |
|---|---|---|---|---|---|
| task scheduler, `scheduler.rs` | task records, ready queue, running counts, quotas, templates | submit, next_ready, renew_lease, complete, fail, cancel, pause, resume, snapshot, restore | clients and workers call in any order; log entries to the action log | two caches of the records (queue, count); promotion; retries; recovery | caches exact, quotas, prerequisites, urgency, no starvation |
| orchestrator, `orchestrator.rs` | per task its event history and a terminal flag | submit, progress, complete, fail, cancel, replay, subscribe | broadcasts and logs after releasing its lock | three steps per call that interleave; slow subscribers | one outcome per record; nothing missing from log or followers |
| action log, `action_log.rs` | entries, broadcast channel | append, subscribe, queries | every component of the crate appends | push and send are two steps | a follower that subscribes and then reads misses nothing |
| executor, `ify-executor` | queue, an atomic state byte per task, a semaphore per `run_all()` | submit, run_all, cancel, await_completion | async tasks; clones of handles | cancel against stores; overlapping `run_all()`; panics | answers agree with states, each task runs once, awaits end |
| block controller and registry, `controller.rs`, `registry.rs`, `task_allocator.rs` | blocks in four stages, controllers with a lifecycle, allocated tasks | register, create_editor, attach_interpreter, bind_runtime; create, link, isolate, dispose; next, derive | action log | `register_block()` logs after it has unlocked | the log tells each block's and controller's life in order |
| mesh, `mesh.rs` | artifacts, snapshots, patches, their index, node revisions, schemas, two broadcast channels; a mutex per map | produce (single, validated, batch), consume, snapshot, patch (last write wins or on a revision), collect garbage, subscribe, replicate | a replicator follows a store's notifications into another store | every call takes several locks one after the other; lag; collection against everything else | index exact, no revision handed out twice, replicas converge |
| workflow graph, `graph.rs` | nodes with ports, links, groups, subgraphs, relations, execution states | edits, patches, diffs, validation, planning, a node's run | pipelines and queries read it | patches that leave links behind; cycles; the order of a diff | the plan respects every link or is refused, a patch is all or nothing, a diff transforms |
| graph queries and messages, `graph_query.rs` | an inbox per node | send, broadcast, drain; queries, samples | reads the graph | draining one channel out of many; pages at the ends | each message delivered once and in order; pages cover the selection |
| pipelines, `pipeline.rs` | pipelines, saved versions, checkpoints, dead letters, lineage, schemas, connectors; a mutex each | register, update, replay, checkpoint, advance, validate, advise | editors work on copies | an update is two locked sections; several editors | what is current has been saved; inferred schemas accept their samples; advice stays in bounds |
| flow control, `flow_control.rs` | visit counts of a run | advance, gates, chat payload | a model evaluator answers or fails | loops, limits and fallbacks | a run ends if every loop has an exit |
| node instances, `node_instance.rs` | templates, instances | register, edit, clone, fork, export, import, instantiate | | edits without a new version, imports over newer ones | an instance carries what its template froze |
| model runtime, `model_runtime.rs` | tuned models; modules, a pool and a kernel of replicas | record_performance; provision, release | pool and kernel have separate locks | samples out of order; a limit reached in the middle; concurrent releases | reloads apart by the cooldown, pool and kernel agree |
| node editing, `node.rs` | nodes, undo and redo stacks, templates | add, remove, update, move, undo, redo; presets | | inverses of every edit in any order | undo and redo retrace the same graphs |
| security, `ify-security` | rules, profiles, principals, the audit chain; secrets and patterns, trusted keys, a bill of materials | add and remove rules, evaluate; check; record, verify; redact; sign, verify | audit records go to the action log | rule order; chain under threads; key rotation; overlapping patterns | a matching rule of least priority decides; chain verifies; artifacts verify exactly if they hold what was signed; no pattern is left |
| reliability, `ify-reliability` | incident rules and incidents, scenarios, windows of samples, reports, budgets, events | ingest, acknowledge, resolve; evaluate; record; submit; snapshot | the dashboard reads the others | thresholds, resolved incidents, hash-map order, windows at their size | every signal is in an incident; verdicts agree with measurements; trouble shows |
| canvas, `ify-canvas` | accepted operations and cursors per client, undo stacks; zoom, selection, rectangles, minimap, breadcrumbs | apply, add, undo, redo; zoom, select, align, distribute, navigate | operations travel between clients | reordering, repetition, ties; scales at the limits | clients converge; level fits scale |
| catalogues, panels, quality tooling | definitions, text, reports | look up | | | |

The list of hazards, each at its line and with the properties aimed at it, is in
`PROJECT.json`.

## 2 Modules and their correspondence to the code

A call that returns an error changes nothing in any of these components, except
where a module says otherwise; error returns are therefore stuttering steps and
their conditions are the negated guards.

| module | models | a step is |
|---|---|---|
| `TaskScheduler` | `scheduler.rs`, struct `TaskScheduler` | one method (`&mut self`) |
| `TaskSchedulerRecovery` | `snapshot()`, `restore()`, process crashes; extends `TaskScheduler` | one method or a crash |
| `TaskContract` | what the task scheduler promises, by the states of tasks alone: the abstract specification that `TaskScheduler` implements | one change that a client can see |
| `KernelScheduler` | tasks of `kernel-c/src/scheduler.c` | one section that holds the mutex |
| `KernelTimer` | timers of `kernel-c/src/scheduler.c` | one section that holds the mutex, or the unlocked part before it |
| `ServiceRegistry` | `service_registry.c` | one section that holds the mutex |
| `Replication` | `replication.c` | one locked section or the unlocked stretch between two |
| `KernelTrace` | `trace.c` | one locked section, the atomic increment before it, or the callback after it |
| `KernelBoot` | `kernel.c`, init and shutdown; extends `KernelTrace` | one access to the state word or one subsystem call |
| `KernelCore` | the tasks, timers, tracing and lifecycle of one kernel side by side; extends `KernelScheduler`, `KernelTimer` and `KernelBoot` | a step of one of them |
| `ActionLog` | `action_log.rs` and the tokio broadcast channel (external) | the push, the send, a subscriber's call |
| `Orchestrator` | `orchestrator.rs`; extends `ActionLog` | the locked section, the broadcast, and the two halves of the log append |
| `Executor` | `ify-executor/src/lib.rs` | one access to the queue, the semaphore, a state byte or a channel |
| `Mesh` | `mesh.rs` | what a thread does under one lock |
| `FlowGraph` | `graph.rs` | one method (`&mut self`) |
| `GraphQuery` | `graph_query.rs`; extends `FlowGraph` | one method |
| `Pipeline` | `pipeline.rs` | one locked section |
| `FlowControl` | `flow_control.rs` | one `advance()`, gate or payload |
| `NodeInstance` | `node_instance.rs` | one method |
| `ModelRuntime` | `model_runtime.rs` | one locked section of the manager, the pool or the kernel |
| `NodeEditing` | `node.rs` | one method |
| `Blocks` | `controller.rs`, `registry.rs`, `task_allocator.rs` | a change, or the log entry after it |
| `Security` | `policy.rs`, `sandbox.rs`, `identity.rs`, `audit.rs` | one method; of the audit log, its two halves |
| `Trust` | `secrets.rs`, `artifact_signing.rs`, `supply_chain.rs` | one method |
| `Reliability` | `incident.rs`, `chaos.rs`, `slo.rs`, `regression.rs` | one method |
| `Dashboard` | `dashboard.rs`, `metrics.rs`; extends `Reliability`, which it reads | one method |
| `Canvas` | `collaboration.rs`, `node_adder.rs` | an operation that reaches a client, an edit |
| `CanvasView` | `zoom.rs`, `visibility.rs`, `selection.rs`, `navigation.rs` | one method |
| `TaskSchedulerProofs` | theorems about `TaskScheduler`, `TaskSchedulerRecovery` and the contract | |
| `KernelCoreProofs` | theorems about `KernelScheduler`, `KernelTimer`, `KernelBoot` and `KernelTrace` | |
| `PerformerProofs` | theorems about `Orchestrator` with `ActionLog`, and about `Executor` | |
| `ControllerProofs` | theorems about `ModelRuntime`, `NodeInstance`, `NodeEditing` and the audit log of `Security` | |
| `ServiceRegistryProofs`, `ReplicationProofs`, `MeshProofs`, `CanvasProofs` | theorems about the module of that name | |

The `MC*` modules instantiate these for TLC. `MCKernel`, `MCPerformer`,
`MCWorkflow` and `MCPlatform` each put components that share no data side by side,
and a behaviour exercises one of them, chosen initially (`part`); a run's
invariants are conjunctions of the properties of the modules, named in the MC
module with the code they are about. Components that do share data are composed in
one module: `KernelBoot` with `KernelTrace`, `Orchestrator` with `ActionLog`,
`GraphQuery` with `FlowGraph`, `Dashboard` with `Reliability`. Modules that one
module extends together have names of their own for what each would call `vars`,
`Init`, `Next` or `Spec` (`timer_vars`, `TimerInit`, `BootInit`, `SvcInit`,
`RepInit`, ...).

**TaskScheduler.** Variables carry the names of the Rust fields. Time is reduced
to what `TaskLease::is_valid()` tells apart. `ready_queue` is the bag of ids,
because the code sorts the vector after every push, and so the order is that of
the sort key; `QueueExact` then says the bag is the Queued set. Task kinds,
labels, parameters, failure reasons and log entries are dropped. `Resume`
takes Pending, Paused and Failed tasks, as the code does; its documentation says
Paused only. `DepsAwaited` is what holds for every call but `resume()`,
`DepsRespected` what the documentation says of all, which a run refutes.

**TaskContract.** State, specification and limits, as clients see them, and
nothing else: a task starts when its dimension has room and no more urgent task
could start, completing it queues exactly the tasks that waited for it alone, and
resuming queues a Pending, Paused or Failed task.
The refinement mapping is the identity on these variables; what is to be shown is
that the queue and the counts decide the same.

**TaskSchedulerRecovery.** The snapshot has the records and nothing else, as in
the code. `restore()` goes into a fresh scheduler after a crash, or into the live
scheduler that wrote the snapshot.

**KernelScheduler.** A thread's stack of running task functions is `frames`:
`Submit` drains at once, a function may submit again, and `Return` goes on with
the drain loop that called it. The tasks in the queues are a set, since each FIFO
is appended in the order of submission and a task's index is that order.

**KernelTimer.** The list is a set for the same reason. `timer_frames` holds the
`cur_ns` of the firing loops a thread is inside of. The deadline is computed
before the lock is taken.

**ServiceRegistry.** `calls` holds what a call keeps in local variables across an
unlocked stretch. `inst` numbers the registrations, to tell apart services that
get the same id after a re-initialisation. `lock_leaked` records a return without
unlock; from then on no locked section can run. `overlapped` is a history
variable: a shutdown and another call were under way at once. The properties
that the code only keeps without such an overlap say so.

**Replication.** `contended` is the set of replicas destroyed while another call
was using them; `NoUseAfterFree` is stated for clients that do not do that,
`OneOwner` and `FreedOnce` for all.

**KernelTrace, KernelBoot.** A span is its id. `log`, `base`, `consumed` and
`emitted` are history variables. `raced` says that a shutdown claimed the state
word during an init.

**ActionLog, Orchestrator.** Events are numbered in the order in which they were
recorded. A client follows a task's events or the log: it subscribes, reads the
history (`replay()` or `all_entries()`), and receives.

A call records its event, broadcasts it and appends it in separate steps, so that
`LogInOrder` says how far the log can be out of order and no more.

**Executor.** `cancel()` is its two compare-exchanges. A spawned task that ends
stores its state (`Finish`) and then sends its answer (`SendAnswer`); in between,
`state()` is final and there is no answer yet. Dropping the executor with
tasks in its queue is left out.

**Mesh.** A thread's call is a program counter and what it has kept in local
variables; each map of the store has its own lock, and the step between two locks
is open to every other thread. `items` stands for the three maps of artifacts,
snapshots and patches. `sent` is what the notification channel was given, and a
subscription is a position in it that lags past `Capacity`. `lost` is a history
variable: ids produced again in the middle of their own collection, whose index
entries the code may remove with the old ones.

**FlowGraph, GraphQuery.** Cycle detection and planning are the code's algorithms
(depth-first search with an explicit stack, Kahn's algorithm), written as folds and
compared with a definition by paths. Conditions of queries nest, which `GraphQuery`
writes with a RECURSIVE operator; no theorem is stated there.
`patched` is a history variable: the links that came in by a patch, which
`apply_patch()` does not check.

**Pipeline.** An editor takes a copy, edits it and updates; an update is its two
locked sections. JSON is reduced to the types that `FieldType::from_json()` tells
apart.

**FlowControl.** The evaluator's answer and the caller's metrics are chosen anew
at each step. A run is over when `advance()` has returned a terminal status or an
error.

**ModelRuntime.** `calls` are provisions and releases under way. Complexity and
efficiency are in tenths, so that the code's rounding is integer arithmetic.

**NodeEditing, Canvas.** The two undo mechanisms are separate in the code as well:
`node.rs` keeps inverse commands without a bound, `node_adder.rs` a bounded stack
of entries that the caller applies. `timeline`, `undone` and `ahead` are history
variables with the graphs that undo and redo should lead to.

**Security, Trust.** A hash or signature is the tuple of what it is computed from,
so that equal ones have equal sources. Keys have one length, which is not 0, but a
component may have been signed with the empty key. A JSON object is a function:
`serde_json` is built without `preserve_order`, so that its map is sorted already.
Redaction replaces literals in sequences of symbols, one pattern after the other.

**Reliability, Dashboard.** Values are small naturals. The percentile is the code's
formula on the sorted window, with its rounding; ratios are compared by
cross-multiplication. A budget's downtime and a time to resolve are naturals.

**CanvasView.** Coordinates are multiples that the code's divisions keep integral;
the scale is in units of which `Hundredth` make 0.01.

## 3 Runs, bounds and fairness

| run | module, cfg | shows |
|---|---|---|
| `task_scheduler` | `MCTaskScheduler` | queue and count exact, prerequisites awaited by every call but `resume()`, promotion, quota, urgency, the contract implemented, no starvation |
| `task_recovery` | `MCTaskSchedulerRecovery` | no Queued task without an entry, no slot lost, stale entries starve nobody |
| `kernel` | `MCKernel` | tasks: count exact, work conservation, priority, terminal states, queued tasks run; timers fire once, when due, and all of them; the trace ring, its readers and the callback; state word and subsystems agree; no orphaned service, one starter, stops match starts, shutdown stops all, starts end; replicas' resources have one owner, are freed once and not used afterwards |
| `performer` | `MCPerformer` | one outcome per record, a complete log that is out of order only among overlapping calls, followers miss nothing; answers follow their states, awaits end |
| `mesh` | `MCMesh` | index and records agree, no revision is given twice and no node is behind what is stored, a replica that misses nothing converges, also through a second replicator |
| `workflow` | `MCWorkflow` | plans, diffs, messages, versions, schemas, advice, frozen parameters, reloads and replicas, and flows that end |
| `platform` | `MCPlatform` | undo and redo, logs and the audit chain, rule priority, signatures and redaction, incidents, objectives, chaos, dashboard, convergence of clients, the view |
| `task_recovery_quota` | `MCTaskSchedulerRecovery`, `MCTaskSchedulerRecoveryQuota.cfg` | violation: quota after a restore |
| `resume_overtakes` | `MCTaskScheduler`, `MCTaskSchedulerResume.cfg` | violation: a resumed task that is queued ahead of its prerequisites |
| `service_registry_lock` | `MCKernel`, `MCKernelLock.cfg` | violation: a lock that is not released |
| `executor_cancel` | `MCPerformer`, `MCPerformerCancel.cfg` | violation: a cancelled task runs |
| `graph_diff` | `MCWorkflow`, `MCWorkflowDiff.cfg` | violation: a diff that cannot be applied |

**Bounds.** *Task scheduler*: three tasks in two dimensions, two of them from a
template with one retry, the third waiting for both, one slot per dimension:
enough for a task to be promoted by either of two completions, for a dimension to
be full while another has room, and for every path that gives a slot back to be
followed by a dispatch. `MaxResumes` keeps pause and resume from raising `attempt`
for ever; `U32Max` is any number no count reaches. *Recovery*: two tasks, one
crash, a `restore()` only while the tasks that it re-enqueues have no entry
(`MaxEntries` is 1): a stale entry of a task that runs or has ended, beside a
valid one after a retry, and a resumed Pending task. *Kernel scheduler*: three
tasks, two threads, limits of 1, 2 and the default, a priority above the clamp: a
full limit, a nested submission and a waiting task at once. *Timers*: three
timers, delays 0 to 2. *Registry*: two slots, three registrations, one restart
each: a slot is reused, and a start fails, sleeps and succeeds or gives up.
*Replicas*: two slots,
three creations: two creations compete for the last slot. *Trace*: a ring of two
and three spans in one boot: the ring is lapped by one; an in-flight table of two:
ids collide. *Lifecycle*: two boots with two spans. *Orchestrator*: two tasks,
three events, a channel of capacity one: a resubmission, a race of outcomes, a
lagging follower. *Executor*: two tasks, two `run_all()` calls, one permit: a
batch that waits for a permit, and overlapping batches. *Mesh*: two threads, a
chain of three stores, one node, four artifacts of which two share an id, a
channel of capacity two, three calls (two when the replicators run): two edits
race, a collection falls between the halves of a call, a notification is lost to
lag, items overtake each other. *Graph*: three nodes, four links that make a
chain, a parallel link and a cycle, patches of two operations. *Messages*: three
messages on two channels. *Pipelines*: two editors of one pipeline, two updates.
*Flows*: loops with and without limits and exits. *Templates*: two templates, one
instance, two edits. *Models*: four samples at six times, a cooldown of two; three
modules, a kernel that holds two replicas: the limit is reached inside an
ensemble. *Editing*: five edits of two nodes, then undo and redo. *Security*: four
rules of three priorities, three records by two threads. *Trust*: every text of at
most four symbols under three of five overlapping patterns; two keys under two
names, and a component signed with the empty key. *Reliability*: windows of three
samples, four signals over a rule with threshold two. *Canvas*: five operations on
shared fields, with equal times, received in every order; scales over all five
levels.

**Deadlock** is not checked: every one of these objects may be left alone by its
clients, and with the bounds on counters every behaviour ends.

**Fairness.** The code has no scheduler of its own, so fairness is about its
callers. `TaskScheduler`: workers keep polling `next_ready()` and report on the
task they run (the documented worker loop). `KernelScheduler`: task functions
return. `ServiceRegistry`: callbacks return and sleeps end. `Executor`: the async
runtime polls what is ready and futures end; nobody is assumed to call
`run_all()`. `FlowControl`: the caller goes on calling `advance()` until the run
is over, with metrics and scores of any kind. `RestoredIsDispatched` also assumes,
in its statement, that the operator stops calling `restore()`. No fairness is
assumed of submissions, cancellations or timers.

Each property has a mutant in `PROJECT.json`: a changed definition, written just
before the original one in its module (`FailKeepingSlot` before `Fail`, ...),
under which TLC finds the property violated.

## 4 Proofs

Every theorem holds for all values of the constants that satisfy the assumptions
named with it. The assumptions say that constants have their types and that sets
are finite where something is counted; those that say more are named below
(`OpsAssumption`, `CapacityAssumption`, `RuntimeConstants`, `NoneApart`). The bounds
of the model (`MaxCreations`, `MaxRegistrations`, ...) are arbitrary naturals.

**Task scheduler.** `TaskSchedulerProofs` proves from `SchedulerAssumption` (the
set of tasks is finite, the constants have their types):

| theorem | states | argument |
|---|---|---|
| `TypeCorrect` | `Spec => []TypeOK` | `TypeInv`, which is `TypeOK` without the upper bound of `running_count`, is inductive; the bound follows from exactness |
| `RunningCountCorrect` | `Spec => []RunningCountExact` | inductive together with `TypeInv`; a step keeps the Running set (`RunningKept`), adds one task to it (`RunningStarts`) or removes one (`RunningStops`) |
| `QueueCorrect` | `Spec => []QueueExact` | inductive together with `TypeInv`; in particular `next_ready()` never meets a stale entry |
| `QuotaCorrect` | `Spec => QuotaRespected` | only `Dispatch` starts a task (`OnlyDispatchStarts`), its guard reads `running_count`, which is exact |
| `UrgencyCorrect` | `Spec => UrgentFirst` | a Queued task that sorts before the chosen one has an entry (`QueueExact`), so it was passed over for its dimension's count, which is exact |
| `OutcomeCorrect` | `Spec => OutcomeFinal` | `StateStep`: the transitions each action makes |
| `DependenciesCorrect` | `Spec => DepsAwaited` | `StartedByStep`: the only actions that take a task out of Pending or submit it to the queue are `Submit`, `SubmitFromTemplate`, `Complete` and `Resume`, and the first three look at every prerequisite after the step |
| `PromotionCorrect` | `Spec => []NoMissedPromotion` | a prerequisite becomes Completed in `Complete` only, which promotes |
| `RestoredCorrect` | `RecoverySpec => []RestoredAccounted` | a restore makes `QueueExact` and `RunningCountExact` false for good (stale entries, a count reset under Running records), so `RecoveryInv` has their weaker halves, with the type of the snapshot on disk: every Queued task has an entry, and no count is *above* the Running records |

The same module proves from these, and from `SchedulerAssumption` alone:

| theorem | states | argument |
|---|---|---|
| `ContractKept` | `Spec => ImplementsContract` | initial states map to initial states, and every action is a contract step or a stutter: `Dispatch` is a `Start` because the count decides as the Running records do (`RoomExact`) and every Queued task has an entry; `Complete` is a `Finish` because it promotes exactly the released tasks |

The caches are what the rest stands on: the quota and the urgency of a dispatch
are decided by `running_count` and `ready_queue`, so the theorems about Running
and Queued *records*, and the refinement, need the exactness of both. The same
formulas are checked by TLC in `task_scheduler`, except `OutcomeFinal`, which
`ImplementsContract` implies.

**The other components.** One inductive invariant per module:

| theorem | states | the inductive invariant and why it is needed |
|---|---|---|
| `KernelCoreProofs`: `TasksAreAccounted` | `Spec => []TasksAccounted` | `KernelInv` adds to the property that the queue has every Queued task and otherwise only tasks cancelled in it, which is what `drain_queue()` tells by the flag (`QueueSound`), and that no task is twice on a stack (`StacksSound`): `Return` lowers the count for the task on top |
| `OutcomesAreFinal`, `MostUrgentStarts` | `Spec => TerminalFinal`, `Spec => HighestFirst` | from `KernelInv`: a start takes the first Queued task of the queue |
| `TimersFireOnce`, `LoopsLeaveNothingDue` | `TimerSpec => FiresOnceWhenDue`, `TimerSpec => CallFiresAllDue`, for finitely many threads (`KernelTimerAssumption`) | `TimerInv`: what has fired is off the list, the time that a loop goes by is in the past (`FramesPast`), and a thread that asks for a timer has an id reserved, which the bound on timers needs |
| `KernelTakesInOrder` | `CoreSpec => TakenInOrder` | the conjunction of the four action properties and the type of the timers, for the kernel as a whole |
| `StateWordTells` | `BootSpec => []BootConsistent` | `BootInv`: while no shutdown has overtaken an init, one thread at most is inside of an init or a shutdown (`Alone`), and where it is tells the state word and each subsystem (`PhaseTells`) |
| `TracingIsExact` | `BootSpec => []TraceExact`, for a ring and a table of any size but 0 (`KernelTraceAssumption`) | `TraceInv`: a span is in one place, with the thread that begins it, open, or stored (`BeginSound`, `OpenSound`), and is emitted once by the thread that stored it (`EmitSound`); slot and index agree because indices less than a capacity apart have different remainders, which the module proves first |
| `ServiceRegistryProofs`: `ServicesAreSound` | `SvcSpec => []ServicesSound` | `RegistryInv`: the types, and while nothing overlaps a shutdown (`Quiet`): ids and instances are given out once; a slot's state tells whether its instance is up; a Starting or Stopping slot has a call that will move it on, and such a call finds its own slot again (`StartsSound`) or, if it was unregistered while stopping, no slot that was given its id (`StopsSound`); a shutdown is alone and what is above its slot is done |
| `ShutdownIsComplete` | `SvcSpec => ShutdownStopsAll` | from `DownIsEmpty` in `Quiet`, which a shutdown reaches because what is up is Running below its slot (`ScanQuiet`) |
| `ReplicationProofs`: `ReplicasAreSound` | `RepSpec => []ReplicasSound` | `ReplicaInv`: each resource is held by exactly one slot or one call (`HeldOnce`, `Held`), a replica that is being destroyed is Draining or Destroyed (`DrainingSound`), and, as long as no replica is destroyed while in use, what a submitter holds is live (`SubmitsLive`) |
| `PerformerProofs`: `LogTellsEverything` | `Spec => []LogTellsAll`, if the channel has a capacity and the threads are finitely many | `LogInv` adds to the property that a call under way has an event of its own, and that the log holds exactly the events that no call has yet to append, each once (`CallsSound`): what a follower has not seen is then in its reach in the channel or still to be sent, unless it has lagged; and what an entry has overtaken was with the other threads when it was pushed (`OthersFewer`) |
| `AnswersAgree` | `ExecSpec => []AnswerMatchesState`, for finitely many tasks (`ExecutorAssumption`) | `ExecutorInv`: a task waits in one place only (`OnePlace`), what waits has not been spawned (`WaitsUnspawned`), and how far a spawned task has come tells what its state byte and its answer can be (`PhaseTold`), whichever exchange of `cancel()` comes in between; after the store of the outcome neither exchange finds its value |
| `CanvasProofs`: `ResolversConverge` | `Spec => []ClientsConverge`, for operations with distinct ids (`OpsAssumption`: "Globally unique operation ID.", collaboration.rs:114) | `ResolverInv`: a client has, for each field, an operation it has received and no newer one of that field; `Newer` is a total order on operations of distinct ids (`NewerTotal`) |
| `UndoStackIsFaithful` | `Spec => []UndoHoldsNewest`, for a capacity of at least one (`CapacityAssumption`; the code uses 64, and `UndoStack::new(0)` would drop nothing: push() compares with `==`, node_adder.rs:241) | `AdderInv`: the property entry by entry (`EndsWith`), with the types of the stacks |
| `MeshProofs`: `EditsNeverCollide` | `Spec => []RevisionsHold`, for any stores and any replicators between them, cycles too | `MeshInv` follows a patch wherever it is, in a store or carried to one by a thread (`Known`): it is never ahead of the store that made it (`KnownSound`), edits of one origin and node have different revisions (`EditsDiffer`), and an item that its node is behind has a thread about to record it (`HeldSound`). A thread between `advance_revision()` and the insertion is why the property alone is not inductive |
| `ControllerProofs`: `ReplicasAgree` | `RuntimeConstants => (Spec => []ReplicasExact)` | `PoolInv`: a replica is in the pool or in the hands of one call, and ids are new |
| `ReloadsApart` | `RuntimeConstants => (Spec => []ReloadsSpaced)` | `ReloadInv`: the manager's last reload is the last of the history |
| `InstancesKeepFrozen` | `NodeInstance`: `Spec => []FrozenHolds` | `InstancesExpanded`: an instance is what `expand()` made of a template and accepted overrides |
| `UndoRedoFaithful` | `NodeEditing`: `Spec => [](UndoExact /\ RequiredPresent)` | `EditInv`: each command on a stack leads from one graph to the next and its inverse back (`Linked`, `Chain`), and the inverse of the inverse is the command itself |
| `AuditChainVerifies` | `Security`: `NoneApart => (Spec => [](VerifyChain /\ ToldInOrder))` | `AuditInv`: one thread is making a record (`AuditLock`); its record is the newest and continues the chain from the last hash, which nobody has changed meanwhile |

`RuntimeConstants` says that limits, times and cooldowns are naturals; TLC
evaluates it for the constants of `workflow` (`RuntimeAssumption` in `MCWorkflow`).
`NoneApart` says that the value for "no record under way" is not a record.
`ModelRuntime`, `NodeInstance`, `NodeEditing` and `Security` share no state, and
`ControllerProofs` has the last three as instances.

The runs check the same formulas, alone or as a conjunct: `TerminalFinal` and
`HighestFirst`, with `FiresOnceWhenDue` and `CallFiresAllDue`, are the parts of
`TakenInOrder`; `ShutdownStopsAll` is part of `ServicesEnd`, which also has a
liveness property; `UndoHoldsNewest`, `UndoExact` and `RequiredPresent` are those of
`UndoFaithful`; `ReplicasExact` and `ReloadsSpaced` are in `ModelsSound`; `VerifyChain`
is in `LogsFollow`. `ToldInOrder` says by the order of ids what `ChainHolds`, in
`LogsFollow`, says with `SelectSeq`.

**Only model-checked.** The liveness properties (fairness and ENABLED are outside
the prover). What folds, `SelectSeq` and sorting compute, since these are recursive
and an induction over data is out of the prover's reach; TLC compares them with
their reference definitions. These are `IndexExact` and `ReplicaConverges` of `Mesh`
(index entries are filtered, batches and subscriptions are read in order), the
properties of `FlowGraph`, `Blocks` and `Trust`, `LeastPriorityDecides` of `Security`,
and that no plan of `ModelRuntime` exceeds what a module allows. `GraphQuery`
declares a RECURSIVE operator, so that no theorem can be stated about it. The safety
properties of `Pipeline`, `Reliability`, `Dashboard` and `CanvasView` mix such
computations with the protocol around them; no proof of the latter was attempted.

## 5 Where the code and its documentation disagree

With a run that shows it (`findings` in `PROJECT.json`): the quota after
`restore()`; a Pending task that `resume()` queues past its prerequisites; the
registry lock that `ify_service_start()` keeps; a cancellation
that the executor overwrites; a graph difference that cannot be applied.

Seen while modelling, without a run of their own:

- `scheduler.rs`: `resume()` also takes Failed tasks, past the retry policy (944; 943
  says otherwise); pausing and resuming counts attempts past `max_attempts` (190,
  757); `max_queued` limits `submit()` only (304, 674); a lease survives
  completion and pausing and can then be renewed (455); `restore()` keeps the
  existing record where its comment says "Existing records are replaced." (1042)
  and does not restore the sequence counter (457); back-off, `tasks_per_minute`
  and lease expiry are never acted on; `complete()` and `fail()` do not check the
  lease holder; `candidates_for_preemption()` ignores the dimension (951).
- `scheduler.c`: destroy does not wait for running tasks (223, `scheduler.h`:92);
  the tracking array is not compacted, so `IFY_ERR_OVERFLOW` is
  returned with an empty queue (`scheduler.h`:120); cancelling a running task sets
  a flag nothing reads (`scheduler.h`:55); `rate_limit_per_sec` is unused; a due
  timer fires only inside the next `ify_timer_once()` (`scheduler.h`:171), and
  cancelling one that has fired writes to freed memory (`scheduler.h`:190).
- `service_registry.c`: a shutdown during a start leaves the service up
  (`service_registry.h`:164); ids restart at 1 after a re-initialisation, so an
  older call may act on another service.
- `kernel.c`: a shutdown can overtake an init that has set the state word and not yet
  started the subsystems (121, `internal.h`:31-32); `raced` marks these behaviours.
- `replication.c`: destroy does not wait for submissions (`replication.h`:116);
  a second concurrent destroy may mark the slot Destroyed before the first has
  released its resources (`replication.h`:52); `auto_destroy` is not acted on.
- `trace.c`: the callback is called after the unlock, the comment (204) says
  before; spans whose ids collide modulo 256 replace each other.
- `ify-executor`: each `run_all()` has its own semaphore, so that two of them
  together exceed `max_concurrent` (129); a task whose future panics stays Running.
- `orchestrator.rs`: the order of broadcasts and of log entries may differ from
  the order in which the events were recorded, among calls that overlap; so the log
  may have a task's outcome before its last progress.
- `controller.rs`: "Calling `link` with a mismatched dimension returns
  [`BlockControllerError::DimensionMismatch`]" (109-110); `link()` takes any dimension,
  as its own comment (201-203) says.
- `mesh.rs`: an id produced again during its own collection loses its index entries;
  a collection of orphans can delete a snapshot between its storing and the recording
  of its node, whose `last_snapshot_id` then names nothing; a batch replication stops
  at the first id that exists.
- `graph.rs`: `apply_patch()` checks no endpoints, does not maintain the execution
  states and leaves them behind; `remove_node()` leaves relations; `execution_state()`
  is always Idle, as contracts keep a state of their own; `topological_order()`
  reports a cycle for some links without nodes; `add_link()` does not check the
  direction of ports.
- `graph_query.rs`: `NodeSample::range()` panics when `start` exceeds `end` after
  clamping (307-308: "out-of-bounds values never panic"); `scale(0.0)` returns no node
  (337, and the test at 822), where 319-320 promises at least one of a sample that is
  not empty.
- `pipeline.rs`: `low_watermark_ms` is documented as the minimum event time (691) and
  holds the maximum (713); checkpoints are documented as keyed by pipeline and step
  (22) and are kept one per pipeline; the schema inferred from a sample that is not an
  object rejects that sample; two editors can save the same version number (11).
- `model_runtime.rs`: an ensemble of two exceeds a `max_replicas` of 1; adjustments are
  applied and logged although the call returns an error for the reload metric.
- `flow_control.rs`: `max_visits` is tested before a terminal step ends the run.
- `node.rs`: `move_node()` logs nothing (216 says every mutating operation does);
  `customize()` has already changed the node when it reports a missing parameter.
- `node_adder.rs`: an undo stack of capacity 0 grows without bound.
- `sandbox.rs`: a request of a tool without a profile is denied without the log entry
  that 206 announces.
- `secrets.rs`: `redact_json()` does not look at keys.
- `policy.rs`: the order among rules of one priority is "not guaranteed and must not be
  relied upon" (6-7); the stable `sort_by_key()` (261) always takes the one added first.
  The properties rely on the documentation here.
- `supply_chain.rs`: `verify()` takes the empty key for an id that is not trusted
  (266-271), so that a component signed with the empty key passes under such an id;
  `SignedVerifies` says so.
- `artifact_signing.rs`: `canonical_json_bytes()` sorts keys (193) that `serde_json`, as
  it is built here, keeps sorted.
- `incident.rs`, `regression.rs`: acknowledging or restarting a resolved one keeps its
  `resolved_at`.
- `slo.rs`: with a percentile below 50 an objective can pass although the measured
  value exceeds its threshold.
- `dashboard.rs`: a breach is emitted at every snapshot, not at the transition (97);
  two kinds of events are never emitted; `snapshot()` is documented as a pure function
  (130) and appends events.
- `selection.rs`: `distribute()` returns the rectangles sorted, so that an index names
  another node afterwards, and moves them again when called again on overlapping ones.
  It goes by the node that starts last (318-320), not by the one that ends last, and by
  a gap that is negative when the nodes do not fit: the extent of overlapping nodes
  moves.
- `zoom.rs`: the scale is documented as below `SCALE_MAX` (237, 287); `clamp()` in `zoom()`
  (246) and `from_scale()` include it.

## 6 What is not modelled

`PROJECT.json` lists every component with its status. Left out on purpose:
interface traits, adapters, bindings and identifier types (no state); the quality
crate (test tooling); the connector catalogue and the threat register (lists of
definitions); boundary validation (closures of the caller); the canvas panels for
search, inspection, key bindings and frame statistics (one map each, with text
ranking and floating-point averages); panning, the cursors of other users,
breadcrumbs, focus mode and the flag of the minimap (nothing else reads them); the
capability grants of the kernel; `ffi.c` (a table under one lock) and `memory.c`
(pointer arithmetic with one owner). Of the modelled components, what each module
leaves out is said in its header. Memory orderings weaker than the code's acquire
and release, and the integer widths of counters that no run could bring near their
limit (64-bit ids and indices), are not modelled. Floating-point values are
naturals or fractions of them, so that rounding errors and NaN are not seen.

## 7 Plan

Done: the task scheduler with its recovery, its contract and its proofs; the
kernel's scheduler, timers, registry, replicas, tracing and lifecycle;
orchestrator, action log and executor; mesh; graph, queries, pipelines, flow
control, templates and model runtime; node editing, blocks, security, reliability
and canvas. Proved: the task scheduler, its recovery and its contract; the kernel's
tasks, timers, services, replicas, lifecycle and tracing; orchestrator, log and
executor; the revisions of the mesh; replicas and reloads of models, frozen
parameters, undo and redo, and the audit chain; the convergence of clients and the
canvas's undo stack.

What could follow: `Pipeline` without its lineage and optimizer, whose registry of
versions is a protocol of two editors; the counters of `Reliability`, once written
without `@@`; and, of the code, the capability grants of `kernel.c`, `ffi.c` and
`memory.c`.
