# A formal model of the serving core of vLLM-Omni

This directory holds TLA+ modules of the concurrent part of the repository, TLC
configurations that check them on small instances, and TLAPS proofs of what matters
most for instances of every size. All paths below are relative to `src/`; line numbers
are those of the commit this directory belongs to.

* [1 The system](#1-the-system) – the parts, their state, what is hard about them
* [2 The modules](#2-the-modules) – how state and actions correspond to the code
* [3 The runs](#3-the-runs) – what TLC checks, within which bounds
* [4 Fairness](#4-fairness)
* [5 The proofs](#5-the-proofs)
* [6 Where the code departs from what the repository says](#6-where-the-code-departs-from-what-the-repository-says)
* [7 What is not modelled](#7-what-is-not-modelled)
* [8 Plan](#8-plan)

## 1 The system

vLLM-Omni runs multi-stage generation pipelines. Each stage is served by replicas; a
stage is either an autoregressive vLLM engine or a *diffusion engine*, which denoises a
latent in steps. The core of the repository's own logic is in four layers.

| layer | parts | code |
|---|---|---|
| a diffusion replica | schedulers, engine, runner cache, executor and its worker processes, state manager | `vllm_omni/diffusion/` |
| replica discovery | coordinator, stage and hub clients, load balancers | `vllm_omni/distributed/omni_coordinator/` |
| replicas of a stage | stage pool, membership controller | `vllm_omni/engine/` |
| a pipeline | orchestrator, CFG companion tracker, entry points | `vllm_omni/engine/`, `vllm_omni/entrypoints/` |

How a request travels through a diffusion replica:

```
 event loop                worker thread (_busy_loop)             processes
 ----------                --------------------------             ---------
 add_request ──(_cv)──▶ scheduler.add_request
                         _process_rpc_queue, aborts
                         scheduler.schedule ─▶ execute_fn ──broadcast queue──▶ every worker
                         scheduler.update_from_output ◀──────result queue────── rank 0
 future / queue ◀─call_soon─ _handle_finished_requests
 abort ──(abort_queue)─▶ _drain_abort_queue
 collective_rpc ─(_rpc_queue)▶ _process_rpc_queue ──────────▶ (the same queues)
 close ──(stop_event)──▶ leaves the loop; the executor is shut down
                         a monitor thread watches the worker processes
```

### Inventory

**Diffusion schedulers** (`diffusion/sched/`). State: request states, the waiting deque,
the running list and the key its members share, the ids that ended since the last
`schedule()`, per-request progress in step mode. Operations: `add_request`, `schedule`,
`update_from_output`, `finish_requests`, `preempt_request`, `pop_request_state`, `close`.
Hard: an output may concern a request that was aborted, popped or replaced while the
runner worked; ended ids are handed over exactly once; a queue with an incompatible head
must neither be overtaken for ever nor block. Correct when: queues and statuses agree;
batches are legal; verdicts are final; nobody starves.

**Diffusion engine** (`diffusion/diffusion_engine.py`). State: the scheduler, the futures
and streaming queues by request id, the abort and RPC queues, the life-cycle flags.
Operations: request coroutines, the busy loop, aborts, RPCs, `close()`. Four kinds of
thread meet under one condition variable, and parts of the work are done outside it.
Correct when: everybody who waits is answered, once, with the output of the request
submitted; the runner's cache stays in step; `close()` leaves nothing behind.

**Diffusion model runner** (`diffusion/worker/diffusion_model_runner.py`). State: the
`state_cache` of step mode. It follows the scheduler's output blindly: new ids bring a
payload, cached ids must have a state, finished ids are dropped.

**Multiprocess executor and worker processes** (`diffusion/executor/multiproc_executor.py`,
`diffusion/worker/diffusion_worker.py`). State: broadcast queue, result queue, liveness
flags, a finalizer that runs once. Operations: `collective_rpc`, the workers' loop, the
monitor thread, `check_health`, `shutdown` from two threads. Hard: a call, a timeout, a
worker's death and a shutdown meet in any order. Correct when: answers go to their
callers, every call ends, deaths and nothing else are reported.

**Diffusion state manager** (`diffusion/state/`). State: checkpoints of denoise steps, the
bytes accounted for each tier, the files on disk. Operations: `on_step_complete`,
`release_request`, `restore_request`, `clear`. Hard: failures half-way through a save; a
checkpoint that moves between tiers; a restore from another thread, without a lock.
Correct when accounted and stored agree, files included, and the only copy is never lost.

**Coordinator** (`distributed/omni_coordinator/`). State: the replica table with
heartbeats, a pending-broadcast flag; each hub's copy. Hard: lost messages, late
subscribers, forgotten replicas that come back, the snapshot/clear race of the periodic
loop. Correct when every hub's copy converges to the live replicas, and a replica that
beats is not taken for dead.

**Stage pool and membership controller** (`engine/stage_pool.py`,
`engine/membership_controller.py`). State: the clients of a stage, request-to-replica
bindings, the set last seen UP. Hard: replicas leave between the choice and the awaited
submission; the frontend's thread chooses too, without a lock. Correct when no request
stays bound to a client that is gone, no binding leaks, and every caller hears of the loss.

**Orchestrator and CFG companion tracker** (`engine/orchestrator.py`,
`engine/cfg_companion_tracker.py`). State: requests and the stages they have reached,
companions and deferred parents. Hard: aborts during awaits, companions that fail in every
order, fatal errors. Correct when a request ends once, in order, and leaves nothing
running downstream.

Also there, and not planned before those: the autoregressive schedulers and their
coordinator (`core/sched/`), the connectors that move tensors between stages
(`distributed/omni_connectors/`), the public entry points, models, kernels, platforms,
quantization. `PROJECT.json` lists every component with its status, and every hazard found
with the properties that would catch it.

## 2 The modules

| module | models | state |
|---|---|---|
| `BatchLifecycle` | the contract of `sched/interface.py`, whatever the policy | status and key per request |
| `DiffusionScheduler` | `_BaseScheduler`, `RequestScheduler`, `StepScheduler` | the schedulers' fields |
| `DiffusionEngine` | `DiffusionEngine`, with the scheduler inside and the runner's `state_cache` at the other end | the engine's fields, where each thread is, each future |
| `DiffusionStateManager` | `StateManager` and `PlacementEngine`, and the engine's calls of them | stores, accounts, files, the engine's and a restoring thread |
| `MultiprocExecutor` | `MultiprocDiffusionExecutor`, its monitor thread, `WorkerProc` | queues, processes, calls, flags |
| `OmniCoordinator` | the coordinator, the stage replicas' clients, the hub's client | the replica table, the periodic loop, messages, time |
| `DistributedPool` | a `StagePool` with a hub, `MembershipController`, the frontend's preselection | bindings, clients, the hub's list, tasks of the event loop |
| `CfgCompanionTracker` | the class of that name, as operators on a record | (none of its own) |
| `RequestJourney` | what the orchestrator promises for every single request | phase, terminal messages, submissions |
| `Orchestrator` | the orchestrator's two coroutines, with the tracker inside, over the stages' engines | its dictionaries, where each coroutine awaits, what the engines hold |
| `..._proofs` | theorems about the scheduler, the engine, the executor, the state manager, the coordinator, the pool, the companion tracker and the orchestrator | |
| `MC...` | small instances for TLC | |

A definition called `Mut...` is a wrong variant of the definition after it: a dropped
guard, a missed reset, a swapped test. No specification uses it; `PROJECT.json` says which
property must notice when it replaces the right one.

### BatchLifecycle

A request is submitted, waits, runs in a batch, may be put back, ends with one status and
is retired. Two guarantees go with it: at most `MaxRunning` requests run, and they share
one key that is not `NoKey`, unless one runs alone. `DiffusionScheduler!LifecycleSpec` is
its specification under a refinement mapping that forgets queues, progress and outputs;
TLC checks it and TLAPS proves it for every order in which the methods can be called, the
engine's included.

### DiffusionScheduler

One action per method. `StepMode` chooses between the two ways of reading a runner output.
`_running` is a set: the code reads its length, its membership and the key of any member.
The admission loop of `schedule()` is the longest admissible prefix of the deque
(`NumAdmitted`). `PopRequestState` and `Finish` are enabled where the engine calls them.
`schedule()` and `update_from_output()` alternate, as they do in the busy loop;
`preempt_request` has no caller in the package and is modelled between two cycles, where
its test calls it. Left out: step ids, error texts, the KV-prefetch hint.

### DiffusionEngine

Extends the scheduler module and calls its actions. The lock `_cv` is modelled by the
atomicity of what it protects; work outside it is split wherever another thread can see
the difference:

* `loop` is the busy loop's program counter: `LoopTop`, aborts, RPCs, the idle decision,
  `Execute`, aborts and RPCs again, `Update`, delivery, and `FailRpc` on the way out. The
  lookup of a waiter and the callback that completes it are two steps (`DeliverResult`,
  then `RunCallback`); in streaming mode the finalization of a request (`StreamFinalize`), the
  lookup of its queue under the lock (`StreamLookup`, `StreamChunk` for a partial result) and
  the put in that queue without the lock (`StreamPut`) are three: between the last two `close()`
  may put its own answer in the queue. `putting` is the output between them. An RPC is taken,
  run, checked and answered in separate steps (`RpcTake`, `RpcCheckDone`, `RpcReply`).
* A *task* is one call of `step()` or `step_streaming()`. From `add_request` to the lookup
  in `get_result` the coroutine does not await, so no other coroutine runs
  (`EventLoopFree`), but the worker thread does: the future may be gone by the lookup, see 6.
* `stateCache` is the runner's. `Execute` does what `execute_stepwise` does with the
  scheduler's output: it drops, adds, steps, forgets what has finished; or it raises.
* `owner` and the `origin` of an output are history: they tell whose request an output is.

Assumptions on the environment, each from the callers in the package:

* an id is used again only after its earlier call is over (`Settled`);
* a client cancels its coroutine and then aborts the id (`CancelAndAbort`,
  `stage_diffusion_proc.py:549-566`); with `PlainAborts` an abort may also come from
  somebody else while the caller waits;
* the stage clients call `close()` on the event loop's own thread, which then joins the
  worker thread, so no coroutine runs meanwhile;
* the executor answers a call or raises. `MultiprocExecutor` is about when it does.

`EarlyFailures` lets a step fail before the runner has read the scheduler's output (LoRA
activation, `diffusion_worker.py:395-442`). It is on in `engine_stream` and off in
`engine_step`: with it the cache does keep states of requests that are gone, see 6.

The RPC queue is a set, since no property depends on the order in which RPCs are answered;
aborts are drained one id at a time, which the lock makes indistinguishable from draining
them together.

### MultiprocExecutor

One caller at a time, as the engine guarantees. `inbox` is the broadcast queue as each
worker has still to read it, `results` the one queue back. A worker reads, runs, enters the
gather if statuses are collected (`WorkersGather` when all have come, `GatherFails` when a
peer is gone), and replies if it is rank 0. `went` records which ranks' part of a call went
well; it stands for the rank statuses of the envelope. `thread` holds the monitor, a thread
of the engine in `shutdown()` and one in `check_health()`. `ShutdownBegins` contains the
rule that a `weakref.finalize` runs once: the second `shutdown()` takes the queues away
while the first is still joining the processes. Stop messages may fail to fit in the ring
buffer. The finalizer takes the processes one after the other: it joins for five seconds, sends
`SIGTERM` to one that is still alive, joins for five seconds more, and goes on without looking
(`Terminate`; `signalled`, `Passed`). The signal's handler is Python code, so it ends a worker at once
or when the native code it is in returns (`WorkerStops`), and not at all one that is `Stuck`: in a
method that hangs, or in a gather which such a rank does not come to. `shutdown()` returns all the
same (`ShutdownEnds`). vLLM's `MessageQueue` is external and taken as a reliable FIFO.

Two things the model shows and no property needs: a non-leader's failure in a call that
collects no statuses (every denoise step) is only logged; and `unique_reply_rank` other
than 0 would never be answered, since only rank 0 has a result queue – nothing in the
package passes one.

### DiffusionStateManager

The engine's thread hands the snapshots of a finished step to `on_step_complete` one by one.
Each is placed (`Capture`), copied or written (`Materialize`), the previous checkpoint's file
is removed (`Clean`), and the new state is assigned (`Store`): four steps, since a write, a
copy or a removal may raise between them. Nothing on that path catches, so the thread is
then `dead`, with whatever has been done so far. `Release` and `Clear` drop a state. The
second thread is a caller of `restore_request_from_state`: it takes the state object
(`ReadState`), loads its payload (`LoadPayload`), and adds the request again (`Resume`).

A latent is a number of bytes. The fidelity policy's choice depends on a score that may be
anything between 0 and 1, so `Capture` picks any of `Sizes`; a request's checkpoint may grow
and shrink. A file is named by request and uuid; `FreshNames` says that a uuid is new. Aborted
and failed requests keep their checkpoints, as `docs/user_guide/diffusion/step_execution.md`
says, so an id that is used again starts with an old one.

### OmniCoordinator

Events of an address arrive in order: one connection keeps the order, and a restarted process
takes far longer to start than the goodbye of the previous one to arrive. The coordinator's
receiver handles one at a time (`Recv`); its periodic loop checks for timeouts (`Check`), and reads the flag,
reads the table, sends, and clears the flag in separate steps (`FlushBegins`,
`GetActiveReplicas`, `Publish`, `FlushEnds`), between any two of which the receiver may set
the flag again. A PUB socket drops what it cannot send. Time is in ticks of one heartbeat
interval; with the defaults (5 s heartbeats, 30 s timeout, 600 s until collection) the
timeout is 6 ticks and the collection 120, and the instance uses 1 and 2, whose order is
all that the code depends on. `silence` and `gap` are history: they say how long an address
has not been heard of, for a property that must not blame the coordinator for it.

### DistributedPool

Tasks of one event loop interleave at their awaits: the request handler, which waits inside
`pick` for a replica and inside the client's `add_request_async`; register tasks, which wait
in the client factory; unregister tasks, spawned by the watcher. The frontend's thread is
under no such discipline: `preselect_replica_id` chooses (`Preselect`) and records (`Record`)
in two steps with anything in between. The hub's list (`up`) changes under everybody. The
load balancer may choose any candidate, which covers the random, the round-robin and the
least-queue policy. An error that leaves the request handler ends the orchestrator (`ended`).

### RequestJourney

The code has no interface class for what the orchestrator owes a request, so this contract is the
project's own, put together from what `_route_output`, the handlers and the cleanups do for one
request. A request is new, live, then over for good. It is submitted to the stages one after the
other, to each once, and a companion stays at the first. It is told at most once, and a told request
is not submitted any more, except in async-chunk mode. `Orchestrator!JourneySpec` is the contract's
specification under a refinement mapping that reads the phase off the queue and `known`; one step of
the orchestrator may take several requests on (a cleanup ends a family), each by one step of its
journey.

### CfgCompanionTracker and Orchestrator

A step of `Orchestrator` is the code between two awaits at which the other coroutine may
run: a submission or an abort being sent to a stage, an RPC. Each coroutine is a record that
says where it is suspended and with what (`handler`, `router`). Polls are merged with what
handles them. Forwarding reads the stage's output, submits to the next stage
(`Forward`) and only after the await records `stage_submit_ts` (`RouterSubmitted`), which is
what `NextSubmitted` looks at. An abort goes to the stages in order and waits at each one
that has a binding (`CleanupFrom`); the request's own state goes last. In async-chunk mode
the handler itself submits to all later stages (`HandlerSubmitted`). `Died` is the two ways in
which the death of a stage ends the loop: with `_fatal_error` where the poll of an LLM stage is
guarded, without it elsewhere. `run()`'s `finally` is two steps: `Drain` cancels both coroutines and,
whenever `_fatal_error` is set and whichever of them failed first, tells the queued and the known
requests; `ShutdownStages` is what follows. The frontend sees none of this: it may put a message in
the queue at any time, also between the two steps and after them. `late` is history, the requests
submitted after the drain; `closing` is `AsyncOmniEngine`'s `_shutdown_called`.

`pipeline` chooses one of three deployments: an LLM stage before a diffusion stage, two LLM
stages, two LLM stages in async-chunk mode. Each stage has one replica: several of them are
`DistributedPool`'s subject. The stages' engines produce at most one early KV hand-over (where
the run allows it) and one final output or error per request; an LLM engine's errors arrive as
finished outputs. FIFO connections make a handler's sends arrive in order, so a request that
is submitted and then aborted is not found afterwards.

`FinalAssumption` is how the entry point computes the final stage and the stages whose outputs a
request waits for (`entrypoints/utils.py:590-632`, `omni_base.py:325-341`): the final stage is the last
of those stages. The two functions disagree on one input, which the assumption excludes (section 6).

## 3 The runs

| run | instance | what it shows |
|---|---|---|
| `scheduler_step` | 3 requests, 2 keys and `NoKey`, batches of 2, 2 steps, ids and keys symmetric | queues and statuses agree, batches are legal, progress covers states, no id is both dropped and continued, verdicts are final; the lifecycle contract is implemented |
| `scheduler_fair` | 3 requests arriving for ever, 1 key and `NoKey` | no waiting request is overtaken for ever |
| `engine_step` | 3 tasks, the third reusing the first's id; batches of 2, 2 steps; aborts from anybody | the runner's cache stays in step and keeps no orphan; nobody sees another's output |
| `engine_request` | request mode, 2 tasks, 1 RPC with a timeout, `close()` | no waiter is lost, `close()` leaves the loop and the scheduler at rest |
| `engine_stream` | streaming, 2 tasks, early failures, cancellations, `close()` | no waiter is lost; nobody is answered twice: after its outcome a stream carries only `close()`'s answer, after that at most the one output that was on its way |
| `engine_live` | 2 tasks, 1 RPC, no `close()`, under fairness | every waiter and every queued RPC is answered |
| `state_manager` | 2 requests of 2 steps, sizes 1 to 3, budgets 2 (GPU) and 3 (CPU), failures anywhere, a restoring thread | budgets hold; accounts, stored states and files agree while nothing failed; a stored payload is never lost |
| `executor` | 2 workers, a gathered call and one of rank 0 alone with a timeout, deaths anywhere, both shutdowns, health checks; under fairness | own answers while nobody gave up, success means all ranks, after a shutdown every worker ends unless it hangs in native code, only deaths are reported and they are, no call waits while everybody waits for somebody else, every call ends |
| `coordinator` | 2 replicas, 4 upsets out of starts, stops, crashes, hangs, load changes, failed and lost broadcasts, lost hub connections; under fairness | a replica that beats is UP in the table; the hub's list becomes that of the running replicas |
| `pool` | 2 requests, 1 replica and 1 that may join, 2 upsets out of crashes, cancellations and flaps; under fairness | submitted requests are bound to attached replicas, no orphan work, no leaked binding, a caller that waits is served or its replica's loss will be noticed, every caller is answered |
| `orchestrator` | 1 request with 2 companions, 2 stages, 3 deployments, early KV for the parent and one companion, 2 upsets out of aborts, RPCs, shutdown and deaths; under fairness | every request makes its journey: each stage once and in order, one terminal message, no return; an abort reaches every stage, a fatal error tells everybody who was sent before the drain, no known request waits for nothing, every request ends |
| `find_stale_reply` | the smallest instance that shows it | a counterexample, see 6 |

Why these bounds are enough. A batch limit of two is the least at which a batch can be
partly full, full, and mixed; three requests then leave one waiting; two keys and `NoKey`
give every kind of incompatibility; two steps give a first, a last and a state in between.
In the engine, two tasks make a batch, and a third one with an old id meets the remains of
the first. Each race in the code is between two parties (busy loop and a coroutine, busy
loop and an RPC caller, busy loop and `close()`), so one of each suffices; `engine_live`
has one step per request, since its question is only whether the loop comes back. Two
workers make a leader and a follower; two calls make one that can take the other's answer.
The executor's properties were also checked with the other pairs of the three kinds of call
(gathered, all ranks without statuses, rank 0 alone). The engine's ids and keys have no
symmetry because tasks are bound to ids. In the state manager the budgets are such that one
checkpoint can fit or not fit in each tier next to the other request's, and move both ways;
four file names are one more than can be in use with a failed write. Two upsets are the least
that lets a second misfortune meet the handling of the first (a crash during the clean-up of
an abort), and four in the coordinator let a replica start, fall silent, come back and change
its load while another one does something. Two companions are the least with an order among
them; a second parent shares nothing with the first but the message queue and the counter. `CHECK_DEADLOCK FALSE` is set where the system may
really stop: an engine whose callers are all answered is idle or closed, an executor
that has been shut down does nothing more, nor does an orchestrator whose stages are shut down and whose callers have nothing more to say.

## 4 Fairness

* `FairSchedulerSpec`: `schedule()` and `update_from_output()` are weakly fair, because the
  busy loop calls them in turn while there are requests and the executor answers. Requests
  may arrive for ever. Aborts and preemption are left out there: nothing preempts, and an
  abort only ends a wait.
* `DiffusionEngine!Fairness`: the busy-loop thread runs, and so does the event loop's part
  of each task. Callers owe nothing: nobody has to submit, cancel, abort or close. Since
  the busy loop is one thread, weak fairness of the disjunction of its steps is what the
  operating system gives; which step it takes is determined by `loop`.
* `MultiprocExecutor!Fairness`: a call that has begun goes on; it is answered when the queue
  holds a message, or polls after five seconds (`CallTimesOut` is not forced); a worker's
  loop runs and methods return or raise, unless the worker has been sent `SIGTERM`; that ends it
  unless it is `Stuck`; the monitor and a thread in `shutdown()` go on, whose joins are bounded.
  That a method returns is what the callers without a timeout rely on (`CallsEnd`); a shutdown
  relies on nothing of the kind, hence the exception in `WorkersEnd`. Deaths, calls, health checks and `close()` are
  never forced.
* `OmniCoordinator!Fairness`: the periodic loop's flush, the clock with what happens in a
  tick (beats of running clients, delivery, the timeout check), the hub's connection and its
  receiver go on. Starting, stopping and resuming are never forced.
* `DistributedPool!Fairness`: the frontend's thread, the request handler, the watcher, the
  membership tasks and the outputs are tasks of their own, each weakly fair; a crashed replica
  leaves the hub's list (heartbeats stop, which `OmniCoordinator` is about). The handler's
  wait in `pick` has a deadline, so it goes on in any case.
* `Orchestrator!FairSpec`: both coroutines run on one event loop, and the engines are other
  processes. One weak fairness of the whole (`SystemNext`) is enough, since every step but the
  frontend's uses up something; it says least, and RPCs, upsets and early KV are not in it.

## 5 The proofs

### The schedulers

`DiffusionScheduler_proofs` proves, for every set of requests and keys, every
`MaxRunning` and `TotalSteps` from 1 on and both modes:

* `InvAlways`: `SchedulerSpec => []SchedulerInv`, and from it `SchedulerTypeCorrect`,
  `QueuesAlwaysMatchStatus`, `BatchAlwaysLegal`, `ProgressAlwaysCovers`,
  `CachedNeverFinished`;
* `VerdictsAreFinal`: the action property `VerdictIsFinal`;
* `SchedulerImplementsLifecycle`: `SchedulerSpec => LifecycleSpec`.

The assumptions are the four named `ASSUME`s of `DiffusionScheduler`: `NoKey` is no key, and
the numbers are what the configuration validates.

**The inductive invariant.** The four invariants that the run `scheduler_step` checks and
`ProgressCoversStates`, which is only proved, are not inductive alone. `update_from_output` takes the requests it ends out of the batch, but not out of the
deque, so `QueuesMatchStatus` survives it only if every scheduled request that is still
alive is running: `ScheduledAreRunning`. `schedule()` sends every member of the batch
without payload together with the ids that ended, so `CachedNotFinished` survives it only if
no id that ran and is still alive is among those that ended: `StartedNotEnded`. A request
that ends, is popped and submitted again under the same id is what makes the latter subtle:
its id may be in `finishedReqIds` while it is *waiting*, and only because it must pass
through `schedule()`, which empties that set, before it runs. `SchedulerInv` is the
conjunction of the invariants and these two.

**The argument.** One lemma per operator of the queue (`AppendElements`, `PrependElements`,
`SuffixElements`, `WithoutElements`) says what it does to the set of members and to their
distinctness; `NumAdmittedExists` and `AdmittedFacts` say that the admission loop has a
result and what it is, and `AdmissionIsLegal` that it keeps the batch legal. Then one lemma
per action (`InvAdd` … `InvClose`) proves that it preserves `SchedulerInv`. The refinement
follows the same scheme: one lemma per action (`LifeAdd` … `LifeReset`) maps it to a step of
the contract, given the invariant before and after.

### The engine

`DiffusionEngine_proofs` is the largest of the proofs. Its statements hold for every set of tasks, ids and
RPCs, every assignment of ids to tasks, both scheduler modes, with streaming or without, and with any
cancellations, aborts, failures and a close() at any time. The assumptions are those of the scheduler
and that every task has an id and a key (`TasksAssumption`).

**`EngineInv`** is inductive and has twelve parts. They say what each point of a thread's program may
rely on: what the busy loop holds at each value of `loop` (`LoopInPlace`, `BatchInPlace`,
`OutputsPossible`, `CacheInStep`), who owns which future and what it may hold (`OwnersKnown`, `QueueInPlace`,
`AnswersInPlace`), that an output is put only in the queue of a call that has begun (`PutsInPlace`), where an RPC is (`RpcInPlace`), that close() takes effect in order
(`ClosedInPlace`), and what the scheduler's own invariant needs of its caller. From it follow
`EngineTypeCorrect`, `ClosedAlwaysQuiet` and `EngineRespectsProtocol`, by which every behaviour of the
engine is one of the scheduler's specification. All that is proved of the scheduler under any legal
caller is therefore true inside the engine: `EngineImplementsLifecycle` and `EngineKeepsVerdicts` say
so for the contract and for the verdicts. `AlwaysCompletedOnce` and `CachedAlwaysInStep` need no
further condition either.

Four properties that the runs check are not true for every value of the constants, since the code does
not keep them in every deployment (section 6). They are proved from the weakest condition that the code
offers, and each condition holds in the runs that check the property:

* `RunnerAlwaysInStep` and `NoOrphanStateEver` if no step fails before the runner has read the
  scheduler's output (`~EarlyFailures`): the ids that ended are handed over once. `CacheInv` is the
  strengthening: the runner caches what runs, or what is on its way to it as ended, and a new request
  of an output has no state yet.
* `OwnOutputsAlways` and `AnsweredAtMostOnceEver` without streaming, or if no two tasks have the same id
  (`~Streaming \/ IdsUnique`): a streamed output looks its queue up by id after the finalization.
  `AnsweredOnce` says in which order a stream may carry its outputs. After the outcome of the request
  only `close()`'s answer can come, and after that only one output, since the busy loop holds one
  queue at a time and finds no other once `close()` has taken them. `OwnInv` is what keeps it: the queue
  of a request that is still owed its outcome holds none (`StreamsOpen`), an output about to be put
  may find `close()`'s answer as the last in its queue but no outcome (`PutsInOrder`), and what was
  put and taken already is in order (`StreamsInOrder`).
* `NoWaiterEverLost` if ids are unique and a caller aborts only a request it has given up
  (`~PlainAborts /\ IdsUnique`): an abort is queued by id, and a streaming request aborted while it
  waits is not surfaced. `WaiterInv` follows a request over its way: whoever awaits it is registered
  while the scheduler or the busy loop has it, or its answer is on its way.

### The executor

`MultiprocExecutor_proofs` proves, for every set of workers and calls, and every choice of
the calls that all ranks execute, that collect statuses or that have a timeout:
`ExecutorInvAlways`, and from it `ExecutorTypeCorrect`, `AnswersAlwaysOwn`,
`SuccessAlwaysOfAllRanks`, the action properties `ReportsAreOfDeaths` and `ShutdownIsFinal`, and with
two more invariants `CallsAlwaysProceed`. The assumptions are the
three of `MultiprocExecutor`: rank 0 is a worker, a call that collects statuses is executed by all ranks, and the stop message and
`None` are no calls. All the safety properties of the run `executor` are thus theorems; the
types (`ExecutorTypeOK`) and `ShutdownIsFinal` are proved only. The latter is what the bounded joins
leave of "shutdown() ends the workers": when the finalizer is over, no worker takes up a call, completes
one or answers one again, whatever is still sent to it. That the processes are gone in the end,
but for those that hang, is liveness (`WorkersEnd`).

`ExecutorInv` is inductive; it has four parts, each proved with the help of the earlier ones:

* `BaseInv`: the types, and which points of the worker's loop go with which job;
* `LifeInv`: everything a shutdown does is covered by one that is still joining, or has
  seen every process over or sent it the signal. A stop message, an exit or a termination therefore means
  `closed`, so a monitor that found `closed` unset woke up because of a death.
* `GatherInv`: `Rem(w)` is what worker `w` has still to do, its current call first.
  `SameOrder` says that two workers have a message in common just when it is equally far
  from the end for both. This is what makes the gather sound, in which no rank says *which*
  call it reports on: with `AllAwaited` (while nobody is gone, a gathered call awaits all
  ranks or none) all ranks in the gather work on the same call (`SameJob`). A success of a
  gathered call on its way to the caller (`SoundReplies`) is then a success of all ranks,
  and of a call no rank will touch again.
* `OwnInv`: a call is under way in one place only (`OnePlace`), and while no call has been
  abandoned, only the caller's own call is under way (`NothingStale`), unless the executor
  has been shut down. The next message of the result queue is then the caller's. The
  condition cannot be dropped: `find_stale_reply` is its counterexample.

`CallsNeverDeadlock` is the safety half of `CallsEnd`: while a call waits, the caller has an answer to
take or an outage to find, a worker goes on by itself, or the monitor or a shutdown has a step to
make. `Awaited` says that the answer to a call that waits is under way as long as the leader is
there: what it has still to do, it answers, and what it answers, it queues (`LeaderKeepsCalls`,
`AnswersFollow`). A gather is not waited for in vain because of `AllAwaited`: a rank that has
not come has the call still before it (`GatherComes`). When the leader is gone, `ThreadsFollow` says
whose turn it is: a finalizer that has run leaves a joining thread or closed queues, a monitor that has
returned leaves a shutdown. That those who can go on do so is fairness, and stays with TLC.

### The state manager

`DiffusionStateManager_proofs` proves `ManagerInvAlways`, and from it `StateTypeCorrect`,
`PayloadAlwaysExists` and `AccountsAlwaysMatch`: all properties of the run `state_manager`, for
every set of requests and names, all sizes, budgets and numbers of steps. The assumptions are
that `None` is nothing else and that sizes and budgets are numbers.
`ManagerInv` adds four facts to two that the run checks. `HoldsState`: between `place` and
the assignment the thread has a request and a new state in hand. `TodoHasSteps`: a request
still to be captured has made a step, so its state's step is in range. `NextWritten`: a new
state on disk has its file, which is not the stored one's; this is what makes the removal of
the previous file harmless, and it holds because a uuid is fresh. `ReaderHolds`: the restoring
thread has a state when it is past `ReadState`. Type correctness contains one half of the
accounts: no tier is charged over its budget.

The other half, that a tier is charged the *sum* of what it holds (`AccountsMatchStore`), needs two
things. The first is `AccountsInv`, which says what the accounts are in the middle of a capture or a
release too, where the property is silent: the new state is charged and not yet stored, or the
replaced one refunded and still stored; and that the bytes of a tier fit in its budget by
themselves (`TiersFit`), which survives a failure because a failure only charges too much, never too
little. The second is what a sum over a finite set is. `SizeSum` folds over the set, and
the lemmas `SumEmpty`, `SumRemove` and `SumSame` are about the recursive function behind the fold; they are
proved without an induction rule, from a minimal counterexample in the well-founded order of
the numbers: a least set on which two such functions differ would leave, without its chosen
element, a smaller one.

### The pool

`DistributedPool_proofs` proves `PoolInvAlways`, and from it `PoolTypeCorrect`,
`SubmittedAlwaysBound`, `NeverOrphanWork`, `AffinityAlwaysReleased` and `SentAlwaysServed`: the
types and all safety properties of the run `pool`, for any number of requests, replicas and upsets.
`SubmittedIsBound` alone is not inductive: the frontend may overwrite the binding of a request that was already submitted,
unless a request in its hands is not known to anybody else yet. `PreIsNew`, `NewIsUnknown`,
`AddedIsUnknown` and `OnceInQueue` follow a request from the frontend over the queue to the
handler and say that it is in one place only. `HandlerBound` says what the handler holds while it
awaits; `HeldIsBound`, that an attached live replica that works on a request is the one the
request is bound to, so that an abort finds it; `FreshIsUnused` and `FreshOnce`, that an address
nobody has used yet has no work; `FinishedIsGone`, that a request reported as finished has no
state left; `Released` is the strengthening of `AffinityReleased` to every moment.

`SentAlwaysServed` is what safety contributes to `RequestsAnswered`: a caller that has been told
nothing has a request in the queue, in the handler's hands, with a live replica that works on it, or
bound to one whose crash will be noticed, because the hub still lists it, the watcher's last look saw
it, or its unregister task is under way. Its invariant `ServeInv` has three parts more.
`WaitersOnTheirWay` says where such a request is. `AbortsAreAnswered`, that an abort is queued only for
a caller that has its answer or has given up, so the cleanup it causes leaves nobody waiting.
`BoundIsWatched`, that every replica a known request is bound to is one the watcher will compare: a
difference taken the wrong way round would lose it.

### The coordinator

`OmniCoordinator_proofs` proves `CoordInvAlways`, and from it `CoordTypeCorrect` and
`RunningAlwaysListed`: all safety properties of the run `coordinator`, for any replicas, loads,
upsets, and timeouts with `Timeout < GcTtl`. The assumptions are those that the module makes
about its numbers, and that `Gone` is no row. `RunningIsListed` speaks of a replica that runs,
but the row it is about may be of an earlier life of the same address, so `CoordInv` follows an
address through its lives. `AgeBelowSilence` bounds the age of a row by the silence of its address
unless a heartbeat is on its way, and `AgeBelowGap` by the longest silence so far: a registration
does not refresh the age, so only these relate the check's verdict to the client. `ErrorIsLate`
and `GoneIsLate` then say that a row is in error, or missing, only after a silence longer than the
timeout, or the TTL. `DownIsOver` says that a goodbye of an earlier life, received or still on its
way, is followed by the registration of the present one; events of one address arriving in order
is what it needs.

### The companion tracker and the orchestrator

`CfgCompanionTracker_proofs` is about the tracker as a value. `DeferralsAwait` says that a deferred
parent has a companion that is not done. Registering, completing, deferring after the test that the
code makes, aborting and cleaning up keep it; `LastCompanionReleases` says so of a completion with the
release it may cause, and `ReleasedOnce` that no companion releases a parent a second time.

`Orchestrator_proofs` proves, for any parents with finitely many companions each, any number of stages
and any set of deployments, and whatever aborts, RPCs, deaths and shutdowns happen:

| theorem | property | under |
|---|---|---|
| `OrchestratorTypeCorrect` | `OrchestratorTypeOK` | – |
| `RequestsEnterStagesOnce` | `EntersStageOnce` | – |
| `RequestsAnsweredOnce` | `AnsweredAtMostOnce` | `CompanionsOnLlm` |
| `DeathTellsEveryone` | `FatalTellsAll` | `CompanionsOnLlm` |
| `AbortsReachStages` | `AbortReachesStages` | `ChunkedOnLlm` |
| `OrchestratorImplementsJourney` | `JourneySpec` | `CompanionsOnLlm` |
| `KnownAlwaysUnderWay` | `KnownAreUnderWay` | – |

These are all safety properties of the run `orchestrator`, and two that its `JourneySpec` contains
(`EntersStageOnce`, `AnsweredAtMostOnce`). The assumptions are those that
`CfgCompanionTracker` and `Orchestrator` make about their constants. Two theorems need something of
the deployment, and without it TLC finds a counterexample (section 6). `CompanionsOnLlm`: if there are
companions, stage 0 is run by an LLM engine; companions exist "so the AR stage also generates their KV
caches" (`async_omni_engine.py:1286-1287`). `ChunkedOnLlm`: in async-chunk mode only a request's last
stage may be a diffusion stage. The run has three deployments that satisfy both.

**Forms of a step.** Twenty-odd actions, some with a dozen outcomes, would have to be considered
for every part of every invariant. The lemma `Forms` says once and for all that a step is of one of nine
forms: it leaves the requests' state alone (`Still`), a parent or a companion enters
(`ParentEnters`, `CompanionEnters`), the handler submits ahead (`GoesAhead`), the handler or the output
loop starts or continues a cleanup (`HandlerCleans`, `RouterCleans`), an output is handled (`Routes`),
a forwarded submission is recorded (`IsRecorded`), or `run()` is drained (`Drain`). Each form says only
what the invariants need. `Routes` is the important one: whatever `_route_output`, the early KV and the
companions' handlers do, it comes to five moves (`RouteMoves`), and the submission among them is of
a known request, to a stage after one that it has visited and for which nothing was recorded.

**`BaseInv`** follows a request from the message that brings it. It is `Fresh` until the handler has
taken that message; nobody has heard of it then (`FreshUnused`). `QueueInPlace` says that it is brought
once and that an abort is behind it. `HandlerInPlace` and `RouterInPlace` say what a suspended
coroutine holds, `EndInPlace` that no task goes on after the drain and that a fatal one leaves nobody
known, `LateInPlace` that what is submitted after the drain stays in the queue and nothing else does, `TrackerInPlace` that deferred parents
wait, with a result of a stage they visited. `VisitedInPlace` says that stages work only on what was
submitted to them, and `NobodyForgotten` that a request that was sent and not given up is in the queue,
known, or told.

**`VisitInv`** adds to `EntersStageOnce` what protects it: the stages a known request has visited are
those in its `stage_submit_ts` (`VisitsRecorded`), except the one whose submission the output loop
awaits, and while it awaits, no output is handled; in async-chunk mode, where the handler records before it
submits, it goes upwards (`ChunksInOrder`).

**`ToldInv`** adds `ToldAreOver`: who was told is no longer known, unless the output loop is
cleaning it up at this moment, when it tells nobody else. This is where a companion's error is the
difficulty: it tells the *parent*, which need not be known any more.

**`AbortInv`** is about two coroutines that abort and submit at once. `Passed` says that the stages a
cleanup has passed are free of the requests it is about. That nobody puts them back there while the
cleanup waits at a later stage has a reason for each way of submitting. A cleanup waits only at a stage that
one of its requests has visited (`MidCleanup`); if that is not the first it is the parent, which
visits its stages in order (`VisitsInOrder`), so the stages before are recorded and the output loop does
not forward to them. A request that the handler still submits ahead is not being cleaned up by the
output loop (`AheadIsAlive`); here `ChunkedOnLlm` is needed, since only a diffusion stage's error starts
such a cleanup. `KnownWorkIsBound` says that an abort, which looks for bindings, finds the work.

**The journey.** `OrchestratorImplementsJourney` needs of each step what it does to every request at
once. `WhoIsTold` says who can be told in a step and what becomes of him, `WhoIsSubmitted` that at most
one request is submitted, to which stage, and that it had visited the one before (`HandlerVisited` is
what the request handler must remember for that). `JourneyStep` combines them with the invariants:
`ToldAreOver` excludes a told request that moves on, `QueueInPlace` one that enters twice.

**`FlowInv`** is the invariant behind `KnownAreUnderWay`, the safety half of `RequestsEnd`: while nothing
has died or is being shut down, a parent that is known and not being cleaned up is served everywhere.

* `VisitsServed`: each stage it visited still owes its last output, or that output was recorded and has
  taken it on, to the next stage or into the deferral. In async-chunk mode the handler takes it on.
* `KvOwed`: an early KV hand-over is handled before the stage's last output.
* `OutputMissing`: one of the outputs it waits for is missing; otherwise it would have been cleaned up.
* `CompanionsServed`: each companion is done, or known and at work in the first stage.
* `DeferralServed`: what it is deferred with has not been forwarded, and, if that was an early KV, the
  stage owes the rest.

`WaitsForSomething` draws the conclusion. If no stage owes the parent anything, the stage of its missing
output was not visited. The stage before the first that was not visited then has taken the parent
no further, so it is deferred there; the tracker has a companion that is not done (`DeferralsAwait`), and the
first stage owes that one's output. The invariant rests on what the
suspended coroutines hold: whom a cleanup is about, the tracker has forgotten (`Unlinked`); a companion to be
released after a submission is done (`AfterDone`); recorded stages were visited (`RecordsAreVisits`,
`RouterVisited`). A step concerns one family, and for the others nothing changes (`SteadyFlow`); the
parent it concerns is submitted to the next stage (`OnwardFlow`) or stays where it is (`InPlaceFlow`).

**Only model-checked**: that the hub's list becomes right (`HubConverges`), and all liveness:
`RequestsEnd`, the answers of the engine, the executor and the pool, the end of the workers
(`WorkersEnd`), fairness of the scheduler.
Liveness under fairness and `ENABLED` are out of the prover's reach. No module here declares a
recursive operator.

## 6 Where the code departs from what the repository says

One is a run that TLC must find violated, with the quoted line in `PROJECT.json`:

* `find_stale_reply`: answers of the workers do not say which call they belong to; after a
  timeout the next call takes the late answer for its own, and so on for ever.

The others were met while modelling. The modules contain the behaviour, and the properties
are stated so that they hold with it.

**The diffusion engine.**
* `get_result` (`diffusion_engine.py:558`) reads `_out_queue` without the lock after
  `add_request` has released it. If the busy loop finishes the request in between, the caller
  gets "Request … not found" although the request completed. The comment at 592 calls the lock
  unnecessary. (`TaskAdd`, `TaskLookup`)
* The busy loop checks `fut.done()` and then sets the future (445); a caller that times out in
  between cancels it, the set raises `InvalidStateError`, and the busy loop dies. The comment at
  438-441 wants to prevent exactly that. (`RpcCheckDone`, `RpcReply`)
* An RPC submitted (736) after the busy loop's last drain and before `close()` has joined the
  thread is never answered; the comment at 402 says callers do not hang. (`RpcSubmit`, `LoopExits`)
* A streaming request aborted while it waits is finished in the scheduler, and nothing pops its
  state: only ids of the scheduled batch are surfaced, and the branch meant for the others
  (364-369) is never reached. Its id is refused from then on.
* A step that fails before the runner has read the scheduler's output (`EarlyFailures`) loses the
  ids that ended, which are handed over once; the runner keeps their states.
* In streaming mode a request is finalized before its queue is looked up by id, so a request that
  reuses the id of a cancelled one may be given the cancelled one's output (`engine_step` checks
  `OwnOutputsOnly` where it holds, without streaming). And an abort is queued by id: one drained
  late ends a new request with that id, whose caller, in streaming mode, is then not answered.
* A stream's queue is looked up under the lock (897-898) and filled after it is released (901). When
  `close()` comes in between, the reader gets "closed" first and leaves; the output that follows it,
  which may be the request's result, is read by nobody.

**The executor.**
* The second `join(5)` of the finalizer (`multiproc_executor.py:65-66`) is not checked. A worker that
  hangs in native code cannot run its handler of `SIGTERM`, so it outlives `shutdown()`, and with it
  the ranks that wait for it in a gather.

**The state manager.**
* `_capture_step_states` runs unguarded in the busy loop: a full disk ends the engine's thread, and
  its waiters hang until `close()`. `failed` in `AccountsMatchStore` is what such a failure leaves
  behind: a charge without a state, or a file without one.
* `restore_request` has no lock: it fails with a missing file when a newer checkpoint or a release
  removes the file between the lookup and the load.
* A request whose last step was captured and which was then aborted has a checkpoint with
  `step_index` equal to the number of steps; it cannot be added again. An id that is used again
  without a restore still has the checkpoint of its earlier life.
* `PlacementEngine.evict_one` has no caller. Files survive the end of the process.

**The coordinator.**
* A replica that was collected while it was suspended goes on beating, and heartbeats do not
  register it: it is never listed again, although it lives. `HubConverges` and `RunningIsListed`
  exempt it.
* Updates and a new registration do not refresh `last_heartbeat`, though the description of
  `heartbeat_timeout` speaks of any silence: a replica that restarts at its old address may be
  marked ERROR by the next check and UP again by its next heartbeat.
* A heartbeat promotes a row that is in error, never one that is down. Should the goodbye of an
  earlier life be received after the registration of the present one (two connections, which the
  code does not order), the replica would stay down; the model excludes it, as said above.

**The pool and the membership controller.**
* A replica that leaves the hub's list and returns is detached and never attached again: only a
  registration with the master attaches, and a replica registers once.
* `pick` waits up to ten seconds inside the request handler. The registration of the very replica
  it waits for may be behind it in the queue; then the wait is in vain, and the error that follows
  is caught by nobody and ends the orchestrator for all requests (`PickTimesOut`).
* A register task that is slow attaches a client of a replica that has crashed meanwhile.
* Companions are submitted with their parent's affinity if it has one, and may land on another
  replica after a flap. A streaming update preselects for a request that is already running and
  may move its binding. Both are outside the module.
* Nothing sends `UnregisterRemoteReplicaMessage`.

**The orchestrator.**
* The poll of a diffusion stage is not guarded (`orchestrator.py:651`): when such a stage is dead,
  `run()` ends with `EngineDeadError`, `_fatal_error` is unset, the drain is skipped and nobody is
  told, though the comment at 348-352 says that all pending requests were notified. The same holds
  for an error of the request handler's own submission. `FatalTellsAll` holds once the guarded poll
  has found the death, even if another task's error ended `run()` before it.
* `add_request` (`async_omni_engine.py:1285`) puts its message whatever has become of `run()`. One that
  comes after the drain, while the membership tasks are awaited and the stages shut down
  (`orchestrator.py:371-375`) or later, is told nothing, fatal error or not: its caller learns of it
  only when a read of the output queue finds the thread dead (`async_omni_engine.py:1387-1388`).
* The counter of running requests is incremented for parents and decremented for companions, too;
  its floor keeps it from becoming negative, but it may fall below the number of running requests.
* A companion that is taken from the queue while its parent's error is being cleaned up is
  registered under a parent that is gone a moment later; it runs to its end for nobody.
* A control RPC blocks the request handler until every stage has answered, aborts included.
* Were companions run by a diffusion stage, an error of a companion that was registered while its parent was
  being cleaned up would tell the parent a second time: `_handle_stage_error` (776) does not look whether the
  parent is known. Hence `CompanionsOnLlm` in section 5.
* A prompt that names only unknown modalities gets the last stage as its final one
  (`entrypoints/utils.py:602-632` ignores them all), but waits for the outputs of all modalities
  (`omni_base.py:335-337`). In a pipeline whose last stage has no output of its own it would be answered
  and cleaned up when its last output comes, just after it was forwarded. `FinalAssumption` excludes it.
* In async-chunk mode `_prewarm_async_chunk_stages` (1437) submits to the next stage without looking whether
  the request is still known. If an earlier stage is one of diffusion and reports an error
  meanwhile, the aborted request is submitted downstream and runs there. Hence `ChunkedOnLlm`.

## 7 What is not modelled

* In the modelled parts: tensors, pipelines, attention metadata, prompts, error texts,
  logging, metrics; the KV-prefetch hint; the arithmetic of the value score; the blocking
  `add_req_and_wait_for_response`, dummy run and profiling of the engine; launching the workers,
  shared-memory packing of results, what a worker cleans up on its way out (it is part of its end
  and assumed to return), the workers' sleep and wake-up messages (no code in the
  package sends them), LoRA; malformed events and the shutdown of the coordinator; streaming
  input, prefill/decode pairs and companions' affinity in the orchestrator and the pool; the
  output processors and the bridge functions between stages, which may fail or produce nothing.
* Crash and restart of a replica at the same address: the master assigns a new slot to a new
  replica (`DistributedPool` gives an address to one process). `OmniCoordinator` has restarts.
* Whole parts, with the reason, under `components` in `PROJECT.json`: numerical code has no
  state machine; the autoregressive schedulers extend vLLM's, which are not in this
  repository; the entry points are API surface. Most of the repository's lines are of these
  kinds (models, kernels, pipelines, HTTP), which is why the map covers a small share of them.

## 8 Plan

Done: all modules above with TLC; proofs of all safety properties that the runs check, the two
refinements (`LifecycleSpec`, `JourneySpec`) included. Next, in this order:

1. Proofs: the executor as an implementation of an abstract call.
2. Streaming input and prefill/decode pairs in `Orchestrator`.
3. The autoregressive scheduling coordinator and the chunk-transfer bookkeeping of the connectors.
