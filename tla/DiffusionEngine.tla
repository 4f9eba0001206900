--------------------------- MODULE DiffusionEngine ---------------------------
(***************************************************************************)
(* DiffusionEngine (diffusion/diffusion_engine.py): request coroutines on   *)
(* the event loop, RPC callers and close() on other threads, and the worker *)
(* thread running _busy_loop, which owns the scheduler and the executor.    *)
(* The worker's state_cache (worker/diffusion_model_runner.py) is the other *)
(* end of the scheduler's output in step mode.                              *)
(*                                                                          *)
(* A task is one call of step() or step_streaming(); ReqId gives the        *)
(* request id it uses, so that an id can be used again.  A lock is modelled *)
(* by the atomicity of what it protects; code outside the lock is split     *)
(* where another thread can see the difference.                             *)
(***************************************************************************)
EXTENDS DiffusionScheduler

CONSTANTS
  Tasks,       \* calls of step() / step_streaming()
  ReqId,       \* [Tasks -> Requests]
  TaskKey,     \* [Tasks -> Keys \cup {NoKey}]
  Rpcs,        \* collective_rpc calls
  TimedRpcs,   \* those with a timeout
  None,        \* no task, no RPC
  Streaming,   \* streaming_output
  PlainAborts, \* abort() also comes from a caller that goes on waiting
  EarlyFailures, \* a step may fail before the runner reads the output
  Closing      \* close() may be called

ASSUME StreamingNeedsSteps == Streaming => StepMode
ASSUME NonStepClamp == ~StepMode => MaxRunning = 1
ASSUME NoneAssumption == None \notin Tasks \cup Rpcs \cup Requests
ASSUME TasksAssumption ==
  /\ ReqId \in [Tasks -> Requests] /\ TaskKey \in [Tasks -> Keys \cup {NoKey}]
  /\ TimedRpcs \subseteq Rpcs
  /\ {Streaming, PlainAborts, EarlyFailures, Closing} \subseteq BOOLEAN

VARIABLES
  loop,         \* where the busy-loop thread is
  runnerOutput, \* what execute_fn returned, per scheduled id
  finishing,    \* ended ids whose result is still to be delivered
  chunking,     \* running ids whose partial result is still to be delivered
  inHand,       \* streaming: [req, out] finalized, its queue not yet looked up
  putting,      \* streaming: [to, out] whose queue was found, not yet put there
  currentRpc,   \* the RPC the busy loop works on
  rpcPhase,     \* "none", "executing", "expired", "replying"
  rpcQueue,     \* _rpc_queue
  rpc,          \* the state of each RPC and of its future
  abortQueue,   \* abort_queue
  outQueue,     \* _out_queue / _out_queue_streaming: [ids -> Tasks]
  task,         \* the state of each request coroutine
  future,       \* its asyncio future: an output, or of kind "none", "pending", "cancelled"
  posted,       \* outputs posted to the event loop, not yet run there
  channel,      \* streaming: the asyncio.Queue of the task
  owner,        \* [ids -> Tasks]: the task a known request came from (history)
  stateCache,   \* the runner's state_cache: [ids -> step]
  loopStarted,  \* _loop_started
  stop,         \* stop_event
  closed,       \* _closed
  shutdown,     \* _shutdown_complete
  closer        \* "idle" or "joining": the thread in close()

loopVars == <<runnerOutput, finishing, chunking, inHand, putting>>
rpcVars == <<currentRpc, rpcPhase, rpcQueue, rpc>>
clientVars == <<outQueue, task, future, posted, channel, owner>>
lifeVars == <<loopStarted, stop, closed, shutdown, closer>>
engineVars == <<loop, loopVars, rpcVars, abortQueue, clientVars, stateCache, lifeVars>>
vars == <<schedulerVars, engineVars>>

-----------------------------------------------------------------------------
Output(kind, t) == [kind |-> kind, origin |-> t]
Terminal(out) == out.kind # "chunk"

Init ==
  /\ SchedulerInit
  /\ loop = "off"
  /\ runnerOutput = << >>
  /\ finishing = {}
  /\ chunking = {}
  /\ inHand = {}
  /\ putting = {}
  /\ currentRpc = None
  /\ rpcPhase = "none"
  /\ rpcQueue = {}
  /\ rpc = [c \in Rpcs |-> "new"]
  /\ abortQueue = {}
  /\ outQueue = << >>
  /\ task = [t \in Tasks |-> "new"]
  /\ future = [t \in Tasks |-> Output("none", t)]
  /\ posted = [t \in Tasks |-> {}]
  /\ channel = [t \in Tasks |-> << >>]
  /\ owner = << >>
  /\ stateCache = << >>
  /\ loopStarted = FALSE
  /\ stop = FALSE
  /\ closed = FALSE
  /\ shutdown = FALSE
  /\ closer = "idle"

Keep(f, S) == [x \in DOMAIN f \cap S |-> f[x]]
Drop(f, x) == [y \in DOMAIN f \ {x} |-> f[y]]
Put(f, x, v) == [y \in DOMAIN f \cup {x} |-> IF y = x THEN v ELSE f[y]]

(* The event loop runs one coroutine at a time: from add_request to the     *)
(* lookup in get_result there is no await, so no other coroutine runs.      *)
(* The stage clients call close() on the event loop's own thread, which     *)
(* then waits for the worker thread.                                        *)
EventLoopFree == closer = "idle" /\ \A t \in Tasks : task[t] # "added"

-----------------------------------------------------------------------------
(* The callers.                                                             *)

(* _check_and_start_background_loop                                         *)
StartLoop ==
  /\ EventLoopFree
  /\ ~closed
  /\ ~loopStarted
  /\ loopStarted' = TRUE
  /\ loop' = "top"
  /\ UNCHANGED <<schedulerVars, loopVars, rpcVars, abortQueue, clientVars, stateCache,
                 stop, closed, shutdown, closer>>

(* A caller uses an id again only once its earlier call is over.            *)
Settled(t) == task[t] \in {"new", "refused", "notfound", "cancelled", "done"}

(* add_request: under the lock; refused when the engine is closed or the id *)
(* is still known to the scheduler.                                         *)
MutTaskAddUnchecked(t) ==
  LET r == ReqId[t]
  IN  /\ EventLoopFree
      /\ task[t] = "new"
      /\ AddRequest(r, TaskKey[t], 0)
      /\ outQueue' = Put(outQueue, r, t)
      /\ owner' = Put(owner, r, t)
      /\ future' = [future EXCEPT ![t] = Output("pending", t)]
      /\ task' = [task EXCEPT ![t] = "added"]
      /\ UNCHANGED <<loop, loopVars, rpcVars, abortQueue, posted, channel, stateCache, lifeVars>>
MutTaskAddSwapped(t) ==
  LET r == ReqId[t]
  IN  /\ EventLoopFree
      /\ task[t] = "new"
      /\ \A u \in Tasks : ReqId[u] = r => Settled(u)
      /\ loopStarted
      /\ outQueue' = Put(outQueue, r, t)
      /\ future' = [future EXCEPT ![t] = Output("pending", t)]
      /\ IF r \in Known
         THEN /\ task' = [task EXCEPT ![t] = "refused"]
              /\ UNCHANGED <<schedulerVars, owner>>
         ELSE /\ AddRequest(r, TaskKey[t], 0)
              /\ owner' = Put(owner, r, t)
              /\ task' = [task EXCEPT ![t] = "added"]
      /\ UNCHANGED <<loop, loopVars, rpcVars, abortQueue, posted, channel, stateCache, lifeVars>>
TaskAdd(t) ==
  LET r == ReqId[t]
  IN  /\ EventLoopFree
      /\ task[t] = "new"
      /\ \A u \in Tasks : ReqId[u] = r => Settled(u)
      /\ loopStarted \/ closed
      /\ IF closed \/ r \in Known
         THEN /\ task' = [task EXCEPT ![t] = "refused"]
              /\ UNCHANGED <<schedulerVars, outQueue, future, owner>>
         ELSE /\ AddRequest(r, TaskKey[t], 0)
              /\ outQueue' = Put(outQueue, r, t)
              /\ owner' = Put(owner, r, t)
              /\ future' = [future EXCEPT ![t] = Output("pending", t)]
              /\ task' = [task EXCEPT ![t] = "added"]
      /\ UNCHANGED <<loop, loopVars, rpcVars, abortQueue, posted, channel, stateCache, lifeVars>>

(* get_result / get_streaming_result look the request up again, without     *)
(* the lock that add_request held: the busy loop may have been faster.      *)
TaskLookup(t) ==
  /\ task[t] = "added"
  /\ task' = [task EXCEPT ![t] = IF ReqId[t] \in DOMAIN outQueue THEN "waiting" ELSE "notfound"]
  /\ UNCHANGED <<schedulerVars, loop, loopVars, rpcVars, abortQueue, outQueue, future, posted,
                 channel, owner, stateCache, lifeVars>>

(* The callback _complete_future posted: it sets the future unless somebody *)
(* else has.                                                                *)
RunCallback(t) ==
  /\ EventLoopFree
  /\ \E out \in posted[t] :
       /\ posted' = [posted EXCEPT ![t] = @ \ {out}]
       /\ future' = [future EXCEPT ![t] = IF @.kind = "pending" THEN out ELSE @]
       /\ task' = [task EXCEPT ![t] = IF future[t].kind = "pending" /\ @ = "waiting" THEN "done" ELSE @]
  /\ UNCHANGED <<schedulerVars, loop, loopVars, rpcVars, abortQueue, outQueue, channel, owner,
                 stateCache, lifeVars>>

(* get_streaming_result takes the next output; the terminal one ends the    *)
(* generator, whose finally clause removes the queue if it is still ours.   *)
ForgetQueue(t) ==
  outQueue' = IF ReqId[t] \in DOMAIN outQueue /\ outQueue[ReqId[t]] = t
              THEN Drop(outQueue, ReqId[t]) ELSE outQueue

StreamNext(t) ==
  /\ EventLoopFree
  /\ task[t] = "waiting"
  /\ channel[t] # << >>
  /\ channel' = [channel EXCEPT ![t] = Tail(@)]
  /\ IF Terminal(Head(channel[t]))
     THEN /\ task' = [task EXCEPT ![t] = "done"]
          /\ future' = [future EXCEPT ![t] = Head(channel[t])]
          /\ ForgetQueue(t)
     ELSE UNCHANGED <<task, future, outQueue>>
  /\ UNCHANGED <<schedulerVars, loop, loopVars, rpcVars, abortQueue, posted, owner, stateCache,
                 lifeVars>>

(* abort(): ignored once the engine is closed.                              *)
QueueAbort(r) == abortQueue' = IF closed THEN abortQueue ELSE abortQueue \cup {r}

Abort(r) ==
  /\ PlainAborts
  /\ loopStarted
  /\ EventLoopFree
  /\ QueueAbort(r)
  /\ UNCHANGED <<schedulerVars, loop, loopVars, rpcVars, clientVars, stateCache, lifeVars>>

(* The stage clients cancel the coroutine of a request, then abort it       *)
(* (stage_diffusion_proc.py 558-563).  Cancelling cancels the future.       *)
CancelAndAbort(t) ==
  /\ EventLoopFree
  /\ task[t] = "waiting"
  /\ task' = [task EXCEPT ![t] = IF Streaming THEN "cancelling" ELSE "cancelled"]
  /\ future' = [future EXCEPT ![t] = Output("cancelled", t)]
  /\ QueueAbort(ReqId[t])
  /\ UNCHANGED <<schedulerVars, loop, loopVars, rpcVars, outQueue, posted, channel, owner,
                 stateCache, lifeVars>>

StreamCleanup(t) ==
  /\ EventLoopFree
  /\ task[t] = "cancelling"
  /\ task' = [task EXCEPT ![t] = "cancelled"]
  /\ ForgetQueue(t)
  /\ UNCHANGED <<schedulerVars, loop, loopVars, rpcVars, abortQueue, future, posted, channel,
                 owner, stateCache, lifeVars>>

(* collective_rpc: before the busy loop has started, and after close() has  *)
(* reset _loop_started, the caller runs the executor itself, under the      *)
(* lock; otherwise it queues a task.  Nothing looks at _closed.             *)
RpcCall(c) ==
  /\ rpc[c] = "new"
  /\ rpc' = [rpc EXCEPT ![c] = CASE loopStarted -> "submitting"
                                 [] shutdown -> "failed"
                                 [] OTHER -> "done"]
  /\ UNCHANGED <<schedulerVars, loop, loopVars, currentRpc, rpcPhase, rpcQueue, abortQueue,
                 clientVars, stateCache, lifeVars>>

(* _submit_rpc                                                              *)
RpcSubmit(c) ==
  /\ rpc[c] = "submitting"
  /\ rpc' = [rpc EXCEPT ![c] = "pending"]
  /\ rpcQueue' = rpcQueue \cup {c}
  /\ UNCHANGED <<schedulerVars, loop, loopVars, currentRpc, rpcPhase, abortQueue, clientVars,
                 stateCache, lifeVars>>

(* The caller's timeout: TimeoutError, and the future is cancelled.         *)
RpcTimeout(c) ==
  /\ c \in TimedRpcs
  /\ rpc[c] = "pending"
  /\ rpc' = [rpc EXCEPT ![c] = "cancelled"]
  /\ UNCHANGED <<schedulerVars, loop, loopVars, currentRpc, rpcPhase, rpcQueue, abortQueue,
                 clientVars, stateCache, lifeVars>>

-----------------------------------------------------------------------------
(* close().                                                                 *)

(* Under the lock: refuse new requests, stop the loop, take every waiter    *)
(* out of the queue; then answer them all with "closed".  Futures of this   *)
(* thread's own loop are set at once.  The answers are put after the lock   *)
(* is released, but what the busy loop puts meanwhile it looked up before.  *)
MutCloseBegin ==
  /\ Closing
  /\ EventLoopFree
  /\ ~closed
  /\ closer' = "joining"
  /\ closed' = TRUE
  /\ stop' = (loop # "off")
  /\ outQueue' = << >>
  /\ UNCHANGED <<schedulerVars, loop, loopVars, rpcVars, abortQueue, task, future, posted, channel,
                 owner, stateCache, loopStarted, shutdown>>
CloseBegin ==
  /\ Closing
  /\ EventLoopFree
  /\ ~shutdown
  /\ closer' = "joining"
  /\ IF closed
     THEN UNCHANGED <<closed, stop, outQueue, task, future, channel>>
     ELSE LET pending == {outQueue[r] : r \in DOMAIN outQueue}
              unset == IF Streaming THEN {} ELSE {t \in pending : future[t].kind = "pending"}
              answer(t) == Output("closed", t)
          IN  /\ closed' = TRUE
              /\ stop' = (loop # "off")
              /\ outQueue' = << >>
              /\ future' = [t \in Tasks |-> IF t \in unset THEN answer(t) ELSE future[t]]
              /\ task' = [t \in Tasks |->
                            IF t \in unset /\ task[t] = "waiting" THEN "done" ELSE task[t]]
              /\ channel' = [t \in Tasks |->
                               IF Streaming /\ t \in pending
                               THEN Append(channel[t], answer(t)) ELSE channel[t]]
  /\ UNCHANGED <<schedulerVars, loop, loopVars, rpcVars, abortQueue, posted, owner,
                 stateCache, loopStarted, shutdown>>

ThreadDead == loop \in {"off", "exited", "crashed"}

(* The worker thread is gone: release the scheduler and the executor.       *)
CloseFinish ==
  /\ closer = "joining"
  /\ ThreadDead
  /\ SchedulerClose
  /\ owner' = << >>
  /\ stateCache' = << >>
  /\ loopStarted' = FALSE
  /\ shutdown' = TRUE
  /\ closer' = "idle"
  /\ UNCHANGED <<loop, loopVars, rpcVars, abortQueue, outQueue, task, future, posted, channel,
                 stop, closed>>

(* It did not stop within ten seconds: the rest is left to a later close(). *)
CloseDefer ==
  /\ closer = "joining"
  /\ ~ThreadDead
  /\ closer' = "idle"
  /\ UNCHANGED <<schedulerVars, loop, loopVars, rpcVars, abortQueue, clientVars, stateCache,
                 loopStarted, stop, closed, shutdown>>

-----------------------------------------------------------------------------
(* The busy loop.                                                           *)

LoopTop ==
  /\ loop = "top"
  /\ loop' = IF stop THEN "failRpcs" ELSE "aborts"
  /\ UNCHANGED <<schedulerVars, loopVars, rpcVars, abortQueue, clientVars, stateCache, lifeVars>>

(* _drain_abort_queue and _abort_requests, one id at a time.  The code      *)
(* holds the lock for all of them; an id queued meanwhile is drained too.   *)
DrainAbort(r) ==
  /\ loop \in {"aborts", "aborts2"}
  /\ r \in abortQueue
  /\ abortQueue' = abortQueue \ {r}
  /\ IF r \in Known /\ ~IsFinished(r)
     THEN FinishRequest(r, "FINISHED_ABORTED")
     ELSE UNCHANGED schedulerVars
  /\ UNCHANGED <<loop, loopVars, rpcVars, clientVars, stateCache, lifeVars>>

AbortsDone ==
  /\ loop \in {"aborts", "aborts2"}
  /\ abortQueue = {}
  /\ loop' = IF loop = "aborts" THEN "rpcs" ELSE "rpcs2"
  /\ UNCHANGED <<schedulerVars, loopVars, rpcVars, abortQueue, clientVars, stateCache, lifeVars>>

(* _process_rpc_queue: take a task; drop it if its future is done; answer   *)
(* it without running it if its deadline has passed; else run it.           *)
RpcTake(c) ==
  /\ loop \in {"rpcs", "rpcs2"}
  /\ currentRpc = None
  /\ c \in rpcQueue
  /\ rpcQueue' = rpcQueue \ {c}
  /\ IF rpc[c] = "cancelled"
     THEN UNCHANGED <<currentRpc, rpcPhase>>
     ELSE /\ currentRpc' = c
          /\ rpcPhase' \in IF c \in TimedRpcs THEN {"expired", "executing"} ELSE {"executing"}
  /\ UNCHANGED <<schedulerVars, loop, loopVars, rpc, abortQueue, clientVars, stateCache, lifeVars>>

(* `if not fut.done()`: the future is looked at ...                         *)
RpcCheckDone ==
  /\ rpcPhase \in {"expired", "executing"}
  /\ IF rpc[currentRpc] = "cancelled"
     THEN currentRpc' = None /\ rpcPhase' = "none"
     ELSE rpcPhase' = "replying" /\ UNCHANGED currentRpc
  /\ UNCHANGED <<schedulerVars, loop, loopVars, rpcQueue, rpc, abortQueue, clientVars, stateCache,
                 lifeVars>>

(* ... and then it is set.  A future cancelled in between raises            *)
(* InvalidStateError, which nothing in _busy_loop catches.                  *)
RpcReply ==
  /\ rpcPhase = "replying"
  /\ currentRpc' = None
  /\ rpcPhase' = "none"
  /\ IF rpc[currentRpc] = "cancelled"
     THEN loop' = "crashed" /\ UNCHANGED rpc
     ELSE /\ \E answer \in IF loop = "failRpcs" THEN {"failed"} ELSE {"done", "failed"} :
               rpc' = [rpc EXCEPT ![currentRpc] = answer]
          /\ UNCHANGED loop
  /\ UNCHANGED <<schedulerVars, loopVars, rpcQueue, abortQueue, clientVars, stateCache, lifeVars>>

RpcsDone ==
  /\ loop \in {"rpcs", "rpcs2"}
  /\ currentRpc = None
  /\ rpcQueue = {}
  /\ loop' = IF loop = "rpcs" THEN "idle" ELSE "update"
  /\ UNCHANGED <<schedulerVars, loopVars, rpcVars, abortQueue, clientVars, stateCache, lifeVars>>

(* The part of the loop under _cv: wait for work, stop, go and drain, or    *)
(* schedule.                                                                *)
IdleStop ==
  /\ loop = "idle"
  /\ stop
  /\ loop' = "failRpcs"
  /\ UNCHANGED <<schedulerVars, loopVars, rpcVars, abortQueue, clientVars, stateCache, lifeVars>>

MutIdleDrain ==
  /\ loop = "idle"
  /\ ~stop
  /\ ~HasRequests
  /\ abortQueue # {}
  /\ loop' = "top"
  /\ UNCHANGED <<schedulerVars, loopVars, rpcVars, abortQueue, clientVars, stateCache, lifeVars>>
IdleDrain ==
  /\ loop = "idle"
  /\ ~stop
  /\ ~HasRequests
  /\ rpcQueue # {} \/ abortQueue # {}
  /\ loop' = "top"
  /\ UNCHANGED <<schedulerVars, loopVars, rpcVars, abortQueue, clientVars, stateCache, lifeVars>>

(* An output that schedules nothing is not executed: the ids it carries are *)
(* finished at once.                                                        *)
IdleSchedule ==
  /\ loop = "idle"
  /\ ~stop
  /\ HasRequests
  /\ Schedule
  /\ IF schedOutput'.new \cup schedOutput'.cached = {}
     THEN loop' = "deliver" /\ finishing' = schedOutput'.finished
     ELSE loop' = "execute" /\ UNCHANGED finishing
  /\ UNCHANGED <<runnerOutput, chunking, inHand, putting, rpcVars, abortQueue, clientVars,
                 stateCache, lifeVars>>

-----------------------------------------------------------------------------
(* execute_fn, as the runner does it.                                       *)

(* _update_states: states of ended requests are dropped first, then new     *)
(* requests get one, and cached requests must have one.                     *)
MutCacheKept == stateCache
CacheKept == Keep(stateCache, DOMAIN stateCache \ schedOutput.finished)
CacheLoaded ==
  [r \in DOMAIN CacheKept \cup schedOutput.new |->
     IF r \in schedOutput.new THEN progress[r] ELSE CacheKept[r]]
PayloadsMatch ==
  /\ schedOutput.new \cap DOMAIN CacheKept = {}
  /\ schedOutput.cached \subseteq DOMAIN CacheKept

StepReached(r) == CacheLoaded[r] + 1
StepOutputs(r) ==
  IF StepReached(r) = TotalSteps THEN {[kind |-> "final", step |-> TotalSteps]}
  ELSE {[kind |-> k, step |-> StepReached(r)] :
           k \in IF Streaming THEN {"step", "chunk"} ELSE {"step"}}

Failed == [r \in Scheduled |-> [kind |-> "error", step |-> 0]]

(* One denoise step for the batch; _update_states_after forgets the         *)
(* requests that are through.                                               *)
StepSucceeds ==
  /\ PayloadsMatch
  /\ runnerOutput' \in {out \in [Scheduled -> RunnerOutput] :
                           \A r \in Scheduled : out[r] \in StepOutputs(r)}
  /\ stateCache' = [r \in {q \in DOMAIN CacheLoaded :
                              q \in Scheduled => StepReached(q) < TotalSteps} |->
                       IF r \in Scheduled THEN StepReached(r) ELSE CacheLoaded[r]]

(* An exception fails the whole batch.  It leaves the cache as it was when  *)
(* it came before _update_states (adapter activation), without the new      *)
(* requests when it came from there, with them when it came after; an       *)
(* interrupted pipeline forgets the batch.                                  *)
StepFails ==
  /\ runnerOutput' = Failed
  /\ \/ EarlyFailures /\ stateCache' = stateCache
     \/ stateCache' = Keep(CacheKept, DOMAIN CacheKept \ schedOutput.new)
     \/ PayloadsMatch /\ stateCache' = CacheLoaded
     \/ PayloadsMatch /\ stateCache' = Keep(CacheLoaded, DOMAIN CacheLoaded \ Scheduled)

(* execute_request: one request, one result or one error.                   *)
RequestExecutes ==
  /\ runnerOutput' \in {[r \in Scheduled |-> [kind |-> k, step |-> 0]] : k \in {"final", "error"}}
  /\ UNCHANGED stateCache

Execute ==
  /\ loop = "execute"
  /\ IF StepMode THEN StepSucceeds \/ StepFails ELSE RequestExecutes
  /\ loop' = "aborts2"
  /\ UNCHANGED <<schedulerVars, finishing, chunking, inHand, putting, rpcVars, abortQueue,
                 clientVars, lifeVars>>

-----------------------------------------------------------------------------
(* update_from_output, and what it says must be delivered.                  *)
Update ==
  /\ loop = "update"
  /\ UpdateFromOutput(runnerOutput)
  /\ finishing' = Surfaced(runnerOutput)
  /\ chunking' = IF Streaming
                 THEN {r \in Scheduled \ Surfaced(runnerOutput) : runnerOutput[r].kind = "chunk"}
                 ELSE {}
  /\ loop' = "deliver"
  /\ UNCHANGED <<runnerOutput, inHand, putting, rpcVars, abortQueue, clientVars, stateCache,
                 lifeVars>>

(* _finalize_finished_request: the output of a request that ended.          *)
FinalOutput(r) ==
  Output(CASE StatusOf(r) = "FINISHED_ABORTED" -> "aborted"
           [] r \in DOMAIN runnerOutput /\ runnerOutput[r].kind = "final" -> "result"
           [] OTHER -> "error",
         owner[r])

(* _handle_finished_requests: the future is taken out of the queue, the     *)
(* state popped, the result posted to the event loop.  A request whose      *)
(* future is gone (close() took it) is skipped.                             *)
MutDeliverResult(r) ==
  /\ loop = "deliver"
  /\ ~Streaming
  /\ r \in finishing
  /\ finishing' = finishing \ {r}
  /\ IF r \in DOMAIN outQueue
     THEN /\ PopRequestState(r)
          /\ owner' = Drop(owner, r)
          /\ posted' = IF future[outQueue[r]].kind = "pending"
                       THEN [posted EXCEPT ![outQueue[r]] = @ \cup {FinalOutput(r)}] ELSE posted
     ELSE UNCHANGED <<schedulerVars, owner, posted>>
  /\ UNCHANGED <<loop, runnerOutput, chunking, inHand, putting, rpcVars, abortQueue, outQueue,
                 task, future, channel, stateCache, lifeVars>>
DeliverResult(r) ==
  /\ loop = "deliver"
  /\ ~Streaming
  /\ r \in finishing
  /\ finishing' = finishing \ {r}
  /\ IF r \in DOMAIN outQueue
     THEN LET t == outQueue[r]
          IN  /\ outQueue' = Drop(outQueue, r)
              /\ PopRequestState(r)
              /\ owner' = Drop(owner, r)
              /\ posted' = IF future[t].kind = "pending"
                           THEN [posted EXCEPT ![t] = @ \cup {FinalOutput(r)}] ELSE posted
     ELSE UNCHANGED <<schedulerVars, outQueue, owner, posted>>
  /\ UNCHANGED <<loop, runnerOutput, chunking, inHand, putting, rpcVars, abortQueue, task, future,
                 channel, stateCache, lifeVars>>

(* _handle_step_streaming_runner_output: finalize an ended request, then    *)
(* look its queue up; or look up the queue of a partial result.             *)
StreamFinalize(r) ==
  /\ loop = "deliver"
  /\ Streaming
  /\ inHand = {} /\ putting = {}
  /\ r \in finishing
  /\ finishing' = finishing \ {r}
  /\ PopRequestState(r)
  /\ owner' = Drop(owner, r)
  /\ inHand' = {[req |-> r, out |-> FinalOutput(r)]}
  /\ UNCHANGED <<loop, runnerOutput, chunking, putting, rpcVars, abortQueue, outQueue, task, future,
                 posted, channel, stateCache, lifeVars>>

(* _put_streaming_output_with_cv: the queue is looked up under the lock ... *)
LookUpQueue(r, out) ==
  putting' = IF r \in DOMAIN outQueue THEN {[to |-> outQueue[r], out |-> out]} ELSE {}

StreamLookup ==
  /\ loop = "deliver"
  /\ \E h \in inHand : LookUpQueue(h.req, h.out)
  /\ inHand' = {}
  /\ UNCHANGED <<schedulerVars, loop, runnerOutput, finishing, chunking, rpcVars, abortQueue,
                 clientVars, stateCache, lifeVars>>

StreamChunk(r) ==
  /\ loop = "deliver"
  /\ inHand = {} /\ putting = {}
  /\ r \in chunking
  /\ chunking' = chunking \ {r}
  /\ LookUpQueue(r, Output("chunk", owner[r]))
  /\ UNCHANGED <<schedulerVars, loop, runnerOutput, finishing, inHand, rpcVars, abortQueue,
                 clientVars, stateCache, lifeVars>>

(* ... and the output put in it without the lock, whether close() has taken *)
(* the queue out meanwhile or not.                                          *)
PutInChannel(p) == channel' = [channel EXCEPT ![p.to] = Append(@, p.out)]

MutStreamPut ==
  /\ loop = "deliver"
  /\ \E p \in putting : PutInChannel(p)
  /\ UNCHANGED <<schedulerVars, loop, loopVars, rpcVars, abortQueue, outQueue, task, future, posted,
                 owner, stateCache, lifeVars>>
StreamPut ==
  /\ loop = "deliver"
  /\ \E p \in putting : PutInChannel(p)
  /\ putting' = {}
  /\ UNCHANGED <<schedulerVars, loop, runnerOutput, finishing, chunking, inHand, rpcVars, abortQueue,
                 outQueue, task, future, posted, owner, stateCache, lifeVars>>

DeliverDone ==
  /\ loop = "deliver"
  /\ finishing = {}
  /\ chunking = {}
  /\ inHand = {} /\ putting = {}
  /\ loop' = "top"
  /\ runnerOutput' = << >>
  /\ UNCHANGED <<schedulerVars, finishing, chunking, inHand, putting, rpcVars, abortQueue,
                 clientVars, stateCache, lifeVars>>

(* _fail_pending_rpcs, when the loop has been told to stop.                 *)
FailRpc(c) ==
  /\ loop = "failRpcs"
  /\ currentRpc = None
  /\ c \in rpcQueue
  /\ rpcQueue' = rpcQueue \ {c}
  /\ IF rpc[c] = "cancelled"
     THEN UNCHANGED <<currentRpc, rpcPhase>>
     ELSE currentRpc' = c /\ rpcPhase' = "replying"
  /\ UNCHANGED <<schedulerVars, loop, loopVars, rpc, abortQueue, clientVars, stateCache, lifeVars>>

LoopExits ==
  /\ loop = "failRpcs"
  /\ currentRpc = None
  /\ rpcQueue = {}
  /\ loop' = "exited"
  /\ UNCHANGED <<schedulerVars, loopVars, rpcVars, abortQueue, clientVars, stateCache, lifeVars>>

-----------------------------------------------------------------------------
BusyLoop ==
  \/ LoopTop
  \/ \E r \in Requests : DrainAbort(r)
  \/ AbortsDone
  \/ \E c \in Rpcs : RpcTake(c)
  \/ RpcCheckDone
  \/ RpcReply
  \/ RpcsDone
  \/ IdleStop
  \/ IdleDrain
  \/ IdleSchedule
  \/ Execute
  \/ Update
  \/ \E r \in Requests : DeliverResult(r)
  \/ \E r \in Requests : StreamFinalize(r)
  \/ StreamLookup
  \/ \E r \in Requests : StreamChunk(r)
  \/ StreamPut
  \/ DeliverDone
  \/ \E c \in Rpcs : FailRpc(c)
  \/ LoopExits

EventLoop(t) == TaskLookup(t) \/ RunCallback(t) \/ StreamNext(t) \/ StreamCleanup(t)

Callers ==
  \/ StartLoop
  \/ \E t \in Tasks : TaskAdd(t)
  \/ \E r \in Requests : Abort(r)
  \/ \E t \in Tasks : CancelAndAbort(t)
  \/ \E c \in Rpcs : RpcCall(c)
  \/ \E c \in Rpcs : RpcSubmit(c)
  \/ \E c \in Rpcs : RpcTimeout(c)
  \/ CloseBegin
  \/ CloseFinish
  \/ CloseDefer

Next == BusyLoop \/ (\E t \in Tasks : EventLoop(t)) \/ Callers

Spec == Init /\ [][Next]_vars

(* The busy loop is a thread and the executor answers; the event loop runs  *)
(* what is ready.  Callers owe nothing.                                     *)
Fairness ==
  /\ WF_vars(BusyLoop)
  /\ \A t \in Tasks : WF_vars(EventLoop(t))

FairSpec == Spec /\ Fairness
-----------------------------------------------------------------------------
LoopPoints ==
  {"off", "top", "aborts", "rpcs", "idle", "execute", "aborts2", "rpcs2", "update", "deliver",
   "failRpcs", "exited", "crashed"}
TaskStates == {"new", "refused", "added", "notfound", "waiting", "cancelling", "cancelled", "done"}
RpcStates == {"new", "submitting", "pending", "cancelled", "done", "failed"}
EngineOutputKinds == {"chunk", "result", "error", "aborted", "closed"}
Outputs == [kind : EngineOutputKinds, origin : Tasks]
Unanswered == [kind : {"none", "pending", "cancelled"}, origin : Tasks]

(* Every variable of the engine has its type.                               *)
EngineTypeOK ==
  /\ SchedulerTypeOK
  /\ loop \in LoopPoints
  /\ DOMAIN runnerOutput \subseteq Requests
  /\ \A r \in DOMAIN runnerOutput : runnerOutput[r] \in RunnerOutput
  /\ finishing \subseteq Requests /\ chunking \subseteq Requests
  /\ inHand \subseteq [req : Requests, out : Outputs] /\ Cardinality(inHand) <= 1
  /\ putting \subseteq [to : Tasks, out : Outputs] /\ Cardinality(putting) <= 1
  /\ currentRpc \in Rpcs \cup {None} /\ rpcQueue \subseteq Rpcs
  /\ rpcPhase \in {"none", "executing", "expired", "replying"}
  /\ rpc \in [Rpcs -> RpcStates]
  /\ abortQueue \subseteq Requests
  /\ DOMAIN outQueue \subseteq Requests /\ outQueue \in [DOMAIN outQueue -> Tasks]
  /\ DOMAIN owner \subseteq Requests /\ owner \in [DOMAIN owner -> Tasks]
  /\ task \in [Tasks -> TaskStates]
  /\ future \in [Tasks -> Unanswered \cup Outputs]
  /\ posted \in [Tasks -> SUBSET Outputs] /\ channel \in [Tasks -> Seq(Outputs)]
  /\ DOMAIN stateCache \subseteq Requests /\ stateCache \in [DOMAIN stateCache -> 0..TotalSteps]
  /\ {loopStarted, stop, closed, shutdown} \subseteq BOOLEAN
  /\ closer \in {"idle", "joining"}

(* When the runner is about to read the scheduler's output, its cache       *)
(* agrees with it: no new request already has a state, every cached one     *)
(* has, and both count the same number of steps done.  _update_states       *)
(* raises on the first two (diffusion_model_runner.py 409-452), and nothing *)
(* would notice the third.                                                  *)
RunnerInStep ==
  loop = "execute" /\ StepMode =>
    /\ PayloadsMatch
    /\ \A r \in schedOutput.cached : CacheKept[r] = progress[r]

(* The runner keeps no state of a request that is gone: each entry belongs  *)
(* to a running request, or to an ended one whose id the next output the    *)
(* runner reads will carry.                                                 *)
NoOrphanState ==
  \A r \in DOMAIN stateCache :
    \/ r \in running
    \/ r \in finishedReqIds
    \/ loop = "execute" /\ r \in schedOutput.finished

(* Whoever awaits an output will be given one: it is on its way, or the     *)
(* request is alive in the scheduler with this waiter registered for it, or *)
(* it has ended and the busy loop is about to deliver it.  This is what a   *)
(* lost wake-up, a double pop or a close() at the wrong moment would break. *)
OnItsWay(t) ==
  \/ posted[t] # {}
  \/ \E i \in 1..Len(channel[t]) : Terminal(channel[t][i])
  \/ \E h \in inHand : h.req \in DOMAIN outQueue /\ outQueue[h.req] = t
  \/ \E p \in putting : p.to = t /\ Terminal(p.out)

NoLostWaiter ==
  \A t \in Tasks :
    task[t] = "waiting" /\ future[t].kind = "pending" =>
      \/ OnItsWay(t)
      \/ LET r == ReqId[t]
         IN  /\ r \in DOMAIN outQueue /\ outQueue[r] = t
             /\ r \in Known
             /\ IsFinished(r) => r \in finishing \cup (Scheduled \cap finishedReqIds)

(* A task only ever sees outputs of the request it submitted.               *)
OwnOutputsOnly ==
  \A t \in Tasks :
    /\ \A out \in posted[t] : out.origin = t
    /\ \A i \in 1..Len(channel[t]) : channel[t][i].origin = t
    /\ \A p \in putting : p.to = t => p.out.origin = t
    /\ future[t].origin = t

(* A request is answered once.  No future is completed by two parties.  The *)
(* reader of a stream stops at its first terminal output, so what follows   *)
(* one is lost: after the outcome of the request only the answer of close() *)
(* may come, and after that answer only the one output the busy loop held   *)
(* when close() took the queue away, be it a chunk or the outcome.          *)
Follows(out, late) == Terminal(out) => (out.kind = "closed" <=> late.kind # "closed")

AnsweredOnce ==
  \A t \in Tasks :
    LET answered == future[t].kind \in EngineOutputKinds
        n == Len(channel[t])
    IN  /\ Cardinality(posted[t]) + (IF answered THEN 1 ELSE 0) <= 1
        /\ \A i, j \in 1..n : i < j => Follows(channel[t][i], channel[t][j])
        /\ answered => \A i \in 1..n : Follows(future[t], channel[t][i])
        /\ future[t].kind = "closed" => n <= 1
        /\ \A i \in 1..n : channel[t][i].kind = "closed" => n <= i + 1

(* After close() has released the scheduler and the executor, nobody uses   *)
(* them: the worker thread is dead and no request is registered again.      *)
ClosedMeansQuiet ==
  shutdown => ThreadDead /\ Known = {} /\ DOMAIN outQueue = {} /\ currentRpc = None

(* A caller that awaits its request is eventually answered, whatever other  *)
(* requests, aborts and RPCs do.                                            *)
WaitersAreAnswered == \A t \in Tasks : task[t] = "waiting" ~> task[t] # "waiting"

(* An RPC that is queued is eventually answered, though requests keep the   *)
(* busy loop busy.                                                          *)
RpcsAreAnswered == \A c \in Rpcs : rpc[c] = "pending" ~> rpc[c] # "pending"
=============================================================================
