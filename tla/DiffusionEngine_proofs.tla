------------------------ MODULE DiffusionEngine_proofs ------------------------
(***************************************************************************)
(* Theorems about DiffusionEngine, for every number of requests, callers    *)
(* and RPCs, every batch size and every number of steps.                    *)
(***************************************************************************)
EXTENDS DiffusionEngine, DiffusionScheduler_proofs

-----------------------------------------------------------------------------
(* Who changes what.  Each lemma names the actions that touch a part of the *)
(* state; every other step leaves it alone.                                 *)

LEMMA WhoUsesScheduler ==
  ASSUME [Next]_vars
  PROVE  \/ UNCHANGED schedulerVars
         \/ \E t \in Tasks : TaskAdd(t)
         \/ \E r \in Requests : DrainAbort(r) \/ DeliverResult(r) \/ StreamFinalize(r)
         \/ IdleSchedule \/ Update \/ CloseFinish
  BY DEF Next, BusyLoop, EventLoop, Callers, vars,
    StartLoop, TaskLookup, RunCallback, StreamNext, Abort, CancelAndAbort, StreamCleanup,
    RpcCall, RpcSubmit, RpcTimeout, CloseBegin, CloseDefer, LoopTop, AbortsDone, RpcTake,
    RpcCheckDone, RpcReply, RpcsDone, IdleStop, IdleDrain, Execute, StreamLookup, StreamPut,
    StreamChunk, DeliverDone, FailRpc, LoopExits

LEMMA WhoUsesExecutor ==
  ASSUME [Next]_vars
  PROVE  \/ UNCHANGED rpcVars
         \/ \E c \in Rpcs : RpcTake(c) \/ FailRpc(c) \/ RpcCall(c) \/ RpcSubmit(c) \/ RpcTimeout(c)
         \/ RpcCheckDone \/ RpcReply
  BY DEF Next, BusyLoop, EventLoop, Callers, vars, engineVars,
    StartLoop, TaskAdd, TaskLookup, RunCallback, StreamNext, Abort, CancelAndAbort, StreamCleanup,
    CloseBegin, CloseFinish, CloseDefer, LoopTop, DrainAbort, AbortsDone, RpcsDone, IdleStop,
    IdleDrain, IdleSchedule, Execute, Update, DeliverResult, StreamFinalize, StreamLookup,
    StreamPut, StreamChunk, DeliverDone, LoopExits

LEMMA WhoMovesLoop ==
  ASSUME [Next]_vars
  PROVE  \/ UNCHANGED loop
         \/ StartLoop \/ LoopTop \/ AbortsDone \/ RpcReply \/ RpcsDone \/ IdleStop \/ IdleDrain
         \/ IdleSchedule \/ Execute \/ Update \/ DeliverDone \/ LoopExits
  BY DEF Next, BusyLoop, EventLoop, Callers, vars, engineVars,
    TaskAdd, TaskLookup, RunCallback, StreamNext, Abort, CancelAndAbort, StreamCleanup,
    RpcCall, RpcSubmit, RpcTimeout, CloseBegin, CloseFinish, CloseDefer, DrainAbort, RpcTake,
    RpcCheckDone, DeliverResult, StreamFinalize, StreamLookup, StreamPut, StreamChunk, FailRpc

LEMMA WhoDelivers ==
  ASSUME [Next]_vars
  PROVE  \/ UNCHANGED <<finishing, chunking, inHand, putting>>
         \/ IdleSchedule \/ Update \/ StreamLookup \/ StreamPut
         \/ \E r \in Requests : DeliverResult(r) \/ StreamFinalize(r) \/ StreamChunk(r)
  BY DEF Next, BusyLoop, EventLoop, Callers, vars, engineVars, loopVars,
    StartLoop, TaskAdd, TaskLookup, RunCallback, StreamNext, Abort, CancelAndAbort, StreamCleanup,
    RpcCall, RpcSubmit, RpcTimeout, CloseBegin, CloseFinish, CloseDefer, LoopTop, DrainAbort,
    AbortsDone, RpcTake, RpcCheckDone, RpcReply, RpcsDone, IdleStop, IdleDrain, Execute,
    DeliverDone, FailRpc, LoopExits

LEMMA WhoUsesRunner ==
  ASSUME [Next]_vars
  PROVE  \/ UNCHANGED <<runnerOutput, stateCache>>
         \/ Execute \/ DeliverDone \/ CloseFinish
  BY DEF Next, BusyLoop, EventLoop, Callers, vars, engineVars, loopVars,
    StartLoop, TaskAdd, TaskLookup, RunCallback, StreamNext, Abort, CancelAndAbort, StreamCleanup,
    RpcCall, RpcSubmit, RpcTimeout, CloseBegin, CloseDefer, LoopTop, DrainAbort,
    AbortsDone, RpcTake, RpcCheckDone, RpcReply, RpcsDone, IdleStop, IdleDrain, IdleSchedule,
    Update, DeliverResult, StreamFinalize, StreamLookup, StreamPut, StreamChunk, FailRpc,
    LoopExits

LEMMA WhoTouchesClients ==
  ASSUME [Next]_vars
  PROVE  \/ UNCHANGED clientVars
         \/ \E t \in Tasks : \/ TaskAdd(t) \/ TaskLookup(t) \/ RunCallback(t) \/ StreamNext(t)
                             \/ CancelAndAbort(t) \/ StreamCleanup(t)
         \/ CloseBegin \/ CloseFinish \/ StreamPut
         \/ \E r \in Requests : DeliverResult(r) \/ StreamFinalize(r)
  BY DEF Next, BusyLoop, EventLoop, Callers, vars, engineVars,
    StartLoop, Abort, RpcCall, RpcSubmit, RpcTimeout, CloseDefer, LoopTop, DrainAbort,
    AbortsDone, RpcTake, RpcCheckDone, RpcReply, RpcsDone, IdleStop, IdleDrain, IdleSchedule,
    Execute, Update, StreamLookup, StreamChunk, DeliverDone, FailRpc, LoopExits

LEMMA WhoOpensAndCloses ==
  ASSUME [Next]_vars
  PROVE  \/ UNCHANGED lifeVars
         \/ StartLoop \/ CloseBegin \/ CloseFinish \/ CloseDefer
  BY DEF Next, BusyLoop, EventLoop, Callers, vars, engineVars,
    TaskAdd, TaskLookup, RunCallback, StreamNext, Abort, CancelAndAbort, StreamCleanup,
    RpcCall, RpcSubmit, RpcTimeout, LoopTop, DrainAbort, AbortsDone, RpcTake, RpcCheckDone,
    RpcReply, RpcsDone, IdleStop, IdleDrain, IdleSchedule, Execute, Update, DeliverResult,
    StreamFinalize, StreamLookup, StreamPut, StreamChunk, DeliverDone, FailRpc, LoopExits

LEMMA WhoAborts ==
  ASSUME [Next]_vars
  PROVE  \/ UNCHANGED abortQueue
         \/ \E r \in Requests : Abort(r) \/ DrainAbort(r)
         \/ \E t \in Tasks : CancelAndAbort(t)
  BY DEF Next, BusyLoop, EventLoop, Callers, vars, engineVars,
    StartLoop, TaskAdd, TaskLookup, RunCallback, StreamNext, StreamCleanup, RpcCall, RpcSubmit,
    RpcTimeout, CloseBegin, CloseFinish, CloseDefer, LoopTop, AbortsDone, RpcTake, RpcCheckDone,
    RpcReply, RpcsDone, IdleStop, IdleDrain, IdleSchedule, Execute, Update, DeliverResult,
    StreamFinalize, StreamLookup, StreamPut, StreamChunk, DeliverDone, FailRpc, LoopExits

-----------------------------------------------------------------------------
(* The inductive invariant.                                                 *)

(* Between schedule() and update_from_output(), and after execute_fn.       *)
Reported == {"aborts2", "rpcs2", "update"}
Cycle == {"execute"} \cup Reported

(* The busy loop has an RPC in hand only where it processes or fails RPCs.  *)
RpcInPlace ==
  /\ currentRpc = None <=> rpcPhase = "none"
  /\ currentRpc # None => loop \in {"rpcs", "rpcs2", "failRpcs"}

(* Results wait for delivery only while the loop delivers, and a batch is   *)
(* scheduled only during a cycle, or for ever if the loop died in one.      *)
LoopInPlace ==
  /\ loop # "deliver" => finishing = {} /\ chunking = {} /\ inHand = {} /\ putting = {}
  /\ ~Streaming => chunking = {} /\ inHand = {} /\ putting = {}
  /\ \A g, h \in inHand : g = h
  /\ \A p, q \in putting : p = q
  /\ inHand # {} => putting = {}
  /\ chunking \subseteq running
  /\ loop \in Cycle => Scheduled # {}
  /\ Scheduled # {} => loop \in Cycle \cup {"crashed"}

(* The batch is what was scheduled, except for what was aborted meanwhile.  *)
BatchInPlace ==
  /\ \A r \in Known : StatusOf(r) # "PREEMPTED"
  /\ loop = "execute" => running = Scheduled /\ finishedReqIds = {}
  /\ loop \in Reported => /\ running \subseteq Scheduled
                          /\ Scheduled \subseteq running \cup finishedReqIds

(* Every known request has the task it came from.                           *)
OwnersKnown ==
  /\ DOMAIN owner = Known
  /\ \A r \in Known : /\ owner[r] \in Tasks /\ ReqId[owner[r]] = r
                      /\ task[owner[r]] # "new"

(* What waits in _out_queue is a task of that id with no result on its way. *)
QueueInPlace ==
  \A r \in DOMAIN outQueue :
    /\ ReqId[outQueue[r]] = r
    /\ task[outQueue[r]] # "new"
    /\ posted[outQueue[r]] = {}
    /\ ~Streaming => r \in Known /\ owner[r] = outQueue[r]

(* Results travel by callback or, when streaming, by channel; a callback is *)
(* posted once, for a future that has no answer yet.                        *)
AnswersInPlace ==
  \A t \in Tasks :
    /\ task[t] = "new" => posted[t] = {} /\ channel[t] = << >>
    /\ posted[t] # {} => /\ \E out \in Outputs : posted[t] = {out}
                         /\ future[t].kind \in {"pending", "cancelled"}
    /\ Streaming => posted[t] = {}
    /\ ~Streaming => channel[t] = << >>

(* An output about to be put in a queue is for a call that has begun.       *)
PutsInPlace == \A p \in putting : task[p.to] # "new"

(* close(): nobody waits once it has begun, nothing runs once it is over.   *)
ClosedInPlace ==
  /\ closed => DOMAIN outQueue = {}
  /\ shutdown => ThreadDead /\ Known = {}
  /\ closer = "joining" \/ shutdown => closed
  /\ ~loopStarted /\ ~closed => loop = "off"

(* What the runner reported is what it can report.                          *)
OutputsPossible == loop \in Reported => runnerOutput \in RunnerOutputs

(* The cache has the batch at the step the scheduler thinks it has reached: *)
(* between cycles all of it; before the runner has read the output, the     *)
(* members that were sent by id; afterwards those that took a step.         *)
CacheInStep ==
  StepMode =>
    /\ loop \notin Cycle \cup {"crashed"} =>
         \A r \in running : r \in DOMAIN stateCache /\ stateCache[r] = progress[r]
    /\ loop = "execute" =>
         \A r \in schedOutput.cached : r \in DOMAIN stateCache /\ stateCache[r] = progress[r]
    /\ loop \in Reported =>
         \A r \in Scheduled : runnerOutput[r].kind \in {"step", "chunk"} =>
           r \in DOMAIN stateCache /\ stateCache[r] = runnerOutput[r].step

EngineInv ==
  /\ EngineTypeOK /\ SchedulerInv
  /\ RpcInPlace /\ LoopInPlace /\ BatchInPlace /\ OwnersKnown /\ QueueInPlace
  /\ AnswersInPlace /\ PutsInPlace /\ ClosedInPlace /\ OutputsPossible /\ CacheInStep

LEMMA EngineInit == Init => EngineInv
<1> SUFFICES ASSUME Init PROVE EngineInv
  OBVIOUS
<1>1. SchedulerInv /\ SchedulerTypeOK
  BY InvInit DEF Init, SchedulerInv
<1>2. Known = {} /\ Scheduled = {} /\ running = {}
  BY DEF Init, SchedulerInit, Known, Scheduled, NoOutput
<1>3. EngineTypeOK
  <2>1. Cardinality(inHand) <= 1 /\ Cardinality(putting) <= 1
    BY FS_EmptySet DEF Init
  <2>2. /\ future \in [Tasks -> Unanswered \cup Outputs]
        /\ posted \in [Tasks -> SUBSET Outputs]
    <3>1. \A t \in Tasks : Output("none", t) \in Unanswered
      BY DEF Output, Unanswered
    <3>2. /\ future = [t \in Tasks |-> Output("none", t)]
          /\ posted = [t \in Tasks |-> {}]
      BY DEF Init
    <3>3. future \in [Tasks -> Unanswered \cup Outputs]
      BY <3>1, <3>2
    <3>4. posted \in [Tasks -> SUBSET Outputs]
      BY <3>2
    <3> QED BY <3>3, <3>4
  <2>3. channel \in [Tasks -> Seq(Outputs)]
    <3>1. << >> \in Seq(Outputs)
      BY EmptySeq
    <3> QED BY <3>1 DEF Init
  <2>4. /\ rpc \in [Rpcs -> RpcStates] /\ task \in [Tasks -> TaskStates]
        /\ loop \in LoopPoints
    BY DEF Init, RpcStates, TaskStates, LoopPoints
  <2>5. {loopStarted, stop, closed, shutdown} \subseteq BOOLEAN
    BY DEF Init
  <2> QED BY <1>1, <2>1, <2>2, <2>3, <2>4, <2>5 DEF Init, EngineTypeOK
<1>4. RpcInPlace /\ ClosedInPlace /\ LoopInPlace
  BY <1>2 DEF Init, RpcInPlace, ClosedInPlace, LoopInPlace, Cycle, Reported, ThreadDead
<1>5. BatchInPlace /\ OwnersKnown /\ OutputsPossible /\ CacheInStep
  BY <1>2 DEF Init, BatchInPlace, OwnersKnown, OutputsPossible, CacheInStep, Cycle, Reported
<1>6. QueueInPlace /\ AnswersInPlace /\ PutsInPlace
  BY DEF Init, QueueInPlace, AnswersInPlace, PutsInPlace
<1> QED BY <1>1, <1>3, <1>4, <1>5, <1>6 DEF EngineInv

-----------------------------------------------------------------------------
(* The engine is a legal caller of its scheduler.                           *)

(* add_request, finish_requests, schedule, update_from_output,              *)
(* pop_request_state and close are each called where the scheduler's        *)
(* protocol allows it.                                                      *)
LEMMA EngineStep == EngineInv /\ [Next]_vars => [SchedulerNext]_schedulerVars
<1> SUFFICES ASSUME EngineInv, [Next]_vars
             PROVE  SchedulerNext \/ UNCHANGED schedulerVars
  OBVIOUS
<1>1. ASSUME NEW t \in Tasks, TaskAdd(t)
      PROVE  SchedulerNext \/ UNCHANGED schedulerVars
  <2>1. /\ ReqId[t] \in Requests /\ TaskKey[t] \in Keys \cup {NoKey}
        /\ 0 \in 0..(TotalSteps - 1)
    BY TasksAssumption, TotalStepsAssumption
  <2>2. UNCHANGED schedulerVars \/ AddRequest(ReqId[t], TaskKey[t], 0)
    BY <1>1 DEF TaskAdd
  <2> QED BY <2>1, <2>2 DEF SchedulerNext, Add
<1>2. ASSUME NEW r \in Requests, DrainAbort(r)
      PROVE  SchedulerNext \/ UNCHANGED schedulerVars
  BY <1>2 DEF DrainAbort, SchedulerNext, Finish, FinishedStatus
<1>3. ASSUME NEW r \in Requests, DeliverResult(r) \/ StreamFinalize(r)
      PROVE  SchedulerNext \/ UNCHANGED schedulerVars
  <2>1. r \in Requests \ Scheduled
    BY <1>3 DEF DeliverResult, StreamFinalize, EngineInv, LoopInPlace, Cycle, Reported
  <2>2. UNCHANGED schedulerVars \/ PopRequestState(r)
    BY <1>3 DEF DeliverResult, StreamFinalize
  <2> QED BY <2>1, <2>2 DEF SchedulerNext, Pop
<1>4. CASE IdleSchedule
  BY <1>4 DEF IdleSchedule, EngineInv, LoopInPlace, Cycle, Reported, SchedulerNext, StartCycle
<1>5. CASE Update
  BY <1>5 DEF Update, EngineInv, LoopInPlace, OutputsPossible, Cycle, Reported, SchedulerNext,
              EndCycle
<1>6. CASE CloseFinish
  BY <1>6 DEF CloseFinish, SchedulerNext
<1> QED BY <1>1, <1>2, <1>3, <1>4, <1>5, <1>6, WhoUsesScheduler

LEMMA EngineKeepsScheduler == EngineInv /\ [Next]_vars => SchedulerInv'
  BY EngineStep, InvNext DEF EngineInv

-----------------------------------------------------------------------------
(* What the runner makes of an output in step mode: whatever it was sent,   *)
(* by id or with a payload, it takes up at the step the scheduler has.      *)
LEMMA LoadedFacts ==
  ASSUME EngineInv, loop = "execute", StepMode
  PROVE  /\ DOMAIN CacheKept = DOMAIN stateCache \ schedOutput.finished
         /\ \A r \in DOMAIN CacheKept : CacheKept[r] = stateCache[r]
         /\ DOMAIN CacheLoaded = DOMAIN CacheKept \cup schedOutput.new
         /\ \A r \in DOMAIN CacheLoaded : CacheLoaded[r] \in 0..TotalSteps
         /\ Scheduled \subseteq DOMAIN CacheLoaded
         /\ \A r \in Scheduled : r \in DOMAIN progress /\ CacheLoaded[r] = progress[r]
<1> USE DEF EngineInv
<1>1. /\ DOMAIN CacheKept = DOMAIN stateCache \ schedOutput.finished
      /\ \A r \in DOMAIN CacheKept : CacheKept[r] = stateCache[r]
  BY DEF CacheKept, Keep
<1>2. /\ DOMAIN CacheLoaded = DOMAIN CacheKept \cup schedOutput.new
      /\ \A r \in DOMAIN CacheLoaded :
           CacheLoaded[r] = IF r \in schedOutput.new THEN progress[r] ELSE CacheKept[r]
  BY DEF CacheLoaded
<1>3. \A r \in Scheduled : r \in DOMAIN progress /\ progress[r] \in 0..TotalSteps
  BY DEF SchedulerInv, ScheduledAreRunning, ProgressCoversStates, SchedulerTypeOK
<1>4. \A r \in schedOutput.cached : r \in DOMAIN CacheKept /\ CacheKept[r] = progress[r]
  BY <1>1 DEF CacheInStep, SchedulerInv, CachedNotFinished
<1>5. \A r \in DOMAIN stateCache : stateCache[r] \in 0..TotalSteps
  BY DEF EngineTypeOK
<1>6. Scheduled = schedOutput.new \cup schedOutput.cached
  BY DEF Scheduled
<1> HIDE DEF EngineInv
<1> QED BY <1>1, <1>2, <1>3, <1>4, <1>5, <1>6

(* What execute_fn leaves behind: an output for each request of the batch,  *)
(* and a cache with the requests that took a step and are not through.      *)
LEMMA ExecuteFacts ==
  ASSUME EngineInv, Execute
  PROVE  /\ runnerOutput' \in RunnerOutputs
         /\ DOMAIN runnerOutput' = Scheduled
         /\ DOMAIN stateCache' \subseteq Requests
         /\ stateCache' \in [DOMAIN stateCache' -> 0..TotalSteps]
         /\ StepMode => \A r \in Scheduled : runnerOutput'[r].kind \in {"step", "chunk"} =>
              r \in DOMAIN stateCache' /\ stateCache'[r] = runnerOutput'[r].step
<1> DEFINE Good == /\ runnerOutput' \in RunnerOutputs
                   /\ DOMAIN runnerOutput' = Scheduled
           Cached == /\ DOMAIN stateCache' \subseteq Requests
                     /\ stateCache' \in [DOMAIN stateCache' -> 0..TotalSteps]
           Took == \A r \in Scheduled : runnerOutput'[r].kind \in {"step", "chunk"} =>
                     r \in DOMAIN stateCache' /\ stateCache'[r] = runnerOutput'[r].step
<1>1. loop = "execute"
  BY DEF Execute
<1>2. /\ DOMAIN stateCache \subseteq Requests
      /\ stateCache \in [DOMAIN stateCache -> 0..TotalSteps]
      /\ schedOutput.new \subseteq Requests
  BY DEF EngineInv, EngineTypeOK, SchedulerTypeOK
<1>3. TotalSteps \in Nat \ {0}
  BY TotalStepsAssumption
<1>4. CASE StepMode /\ StepSucceeds
  <2> DEFINE reached == {q \in DOMAIN CacheLoaded : q \in Scheduled => StepReached(q) < TotalSteps}
  <2>1. /\ DOMAIN CacheLoaded \subseteq Requests
        /\ \A r \in DOMAIN CacheLoaded : CacheLoaded[r] \in 0..TotalSteps
        /\ Scheduled \subseteq DOMAIN CacheLoaded
        /\ \A r \in Scheduled : r \in DOMAIN progress /\ StepReached(r) = progress[r] + 1
    BY <1>1, <1>2, <1>4, LoadedFacts DEF StepReached
  <2>2. runnerOutput' \in [Scheduled -> RunnerOutput]
    BY <1>4 DEF StepSucceeds
  <2>3. \A r \in Scheduled :
          \/ /\ StepReached(r) = TotalSteps
             /\ runnerOutput'[r] = [kind |-> "final", step |-> TotalSteps]
          \/ /\ StepReached(r) # TotalSteps
             /\ runnerOutput'[r].kind \in {"step", "chunk"}
             /\ runnerOutput'[r].step = StepReached(r)
    BY <1>4 DEF StepSucceeds, StepOutputs
  <2>4. /\ DOMAIN stateCache' = reached
        /\ \A r \in reached :
             stateCache'[r] = IF r \in Scheduled THEN StepReached(r) ELSE CacheLoaded[r]
    BY <1>4 DEF StepSucceeds
  <2>5. \A r \in Scheduled : runnerOutput'[r].kind \in {"step", "chunk"} =>
          StepReached(r) < TotalSteps
    <3> SUFFICES ASSUME NEW r \in Scheduled, runnerOutput'[r].kind \in {"step", "chunk"}
                 PROVE  StepReached(r) < TotalSteps
      OBVIOUS
    <3>1. StepReached(r) # TotalSteps /\ runnerOutput'[r].step = StepReached(r)
      BY <2>3
    <3>2. runnerOutput'[r].step \in 0..TotalSteps
      BY <2>2 DEF RunnerOutput
    <3> QED BY <1>3, <3>1, <3>2
  <2>6. Good
    <3> SUFFICES ASSUME NEW r \in Scheduled
                 PROVE  runnerOutput'[r] \in PossibleOutput(r)
      BY <2>2 DEF RunnerOutputs
    <3>1. runnerOutput'[r] \in RunnerOutput
      BY <2>2
    <3> QED BY <1>4, <2>1, <2>3, <2>5, <3>1 DEF PossibleOutput
  <2>7. Cached
    <3>1. \A r \in reached : stateCache'[r] \in 0..TotalSteps
      <4> SUFFICES ASSUME NEW r \in reached PROVE stateCache'[r] \in 0..TotalSteps
        OBVIOUS
      <4>1. CacheLoaded[r] \in 0..TotalSteps /\ StepReached(r) = CacheLoaded[r] + 1
        BY <2>1 DEF StepReached
      <4> QED BY <1>3, <2>4, <4>1
    <3>2. stateCache' = [r \in reached |-> stateCache'[r]]
      BY <1>4 DEF StepSucceeds
    <3> QED BY <2>1, <2>4, <3>1, <3>2
  <2>8. Took
    BY <2>1, <2>3, <2>4, <2>5
  <2> QED BY <2>6, <2>7, <2>8
<1>5. CASE StepMode /\ StepFails
  <2>1. runnerOutput' = [r \in Scheduled |-> [kind |-> "error", step |-> 0]]
    BY <1>5 DEF StepFails, Failed
  <2>2. [kind |-> "error", step |-> 0] \in RunnerOutput
    BY <1>3 DEF RunnerOutput, OutputKinds
  <2>3. Good
    BY <2>1, <2>2 DEF RunnerOutputs, PossibleOutput
  <2>4. Took
    BY <2>1
  <2>5. Cached
    <3>1. /\ DOMAIN CacheKept \subseteq DOMAIN stateCache
          /\ \A r \in DOMAIN CacheKept : CacheKept[r] = stateCache[r]
          /\ DOMAIN CacheLoaded \subseteq Requests
          /\ \A r \in DOMAIN CacheLoaded : CacheLoaded[r] \in 0..TotalSteps
          /\ CacheLoaded = [r \in DOMAIN CacheLoaded |-> CacheLoaded[r]]
      BY <1>1, <1>2, <1>5, LoadedFacts DEF CacheLoaded
    <3>2. \/ stateCache' = stateCache
          \/ stateCache' = Keep(CacheKept, DOMAIN CacheKept \ schedOutput.new)
          \/ stateCache' = CacheLoaded
          \/ stateCache' = Keep(CacheLoaded, DOMAIN CacheLoaded \ Scheduled)
      BY <1>5 DEF StepFails
    <3>3. CASE stateCache' = Keep(CacheKept, DOMAIN CacheKept \ schedOutput.new)
      BY <1>2, <3>1, <3>3 DEF Keep
    <3>4. CASE stateCache' = CacheLoaded
      BY <3>1, <3>4
    <3>5. CASE stateCache' = Keep(CacheLoaded, DOMAIN CacheLoaded \ Scheduled)
      BY <3>1, <3>5 DEF Keep
    <3> QED BY <1>2, <3>2, <3>3, <3>4, <3>5
  <2> QED BY <2>3, <2>4, <2>5
<1>6. CASE ~StepMode
  <2>1. RequestExecutes
    BY <1>6 DEF Execute
  <2>2. PICK k \in {"final", "error"} :
          runnerOutput' = [r \in Scheduled |-> [kind |-> k, step |-> 0]]
    BY <2>1 DEF RequestExecutes
  <2>3. [kind |-> k, step |-> 0] \in RunnerOutput
    BY <1>3 DEF RunnerOutput, OutputKinds
  <2>4. Good
    BY <1>6, <2>2, <2>3 DEF RunnerOutputs, PossibleOutput
  <2>5. stateCache' = stateCache
    BY <2>1 DEF RequestExecutes
  <2> QED BY <1>2, <1>6, <2>4, <2>5
<1> QED BY <1>4, <1>5, <1>6 DEF Execute

-----------------------------------------------------------------------------
(* Types.                                                                   *)
LEMMA BatchKnown ==
  ASSUME EngineInv
  PROVE  /\ running \subseteq Known /\ Scheduled \subseteq Known /\ Known \subseteq Requests
         /\ \A r \in Known : r \in running <=> StatusOf(r) = "RUNNING"
         /\ \A r \in Known : IsFinished(r) => r \notin running
  BY QueueFacts DEF EngineInv, SchedulerInv, ScheduledAreRunning, SchedulerTypeOK, IsFinished,
                    FinishedStatus

(* The output of a request that ended is terminal and goes to its own task. *)
LEMMA FinalOutputFacts ==
  ASSUME EngineInv, NEW r \in Known
  PROVE  /\ FinalOutput(r) \in Outputs
         /\ FinalOutput(r).origin = owner[r]
         /\ Terminal(FinalOutput(r)) /\ FinalOutput(r).kind # "closed"
<1> DEFINE k == CASE StatusOf(r) = "FINISHED_ABORTED" -> "aborted"
                  [] r \in DOMAIN runnerOutput /\ runnerOutput[r].kind = "final" -> "result"
                  [] OTHER -> "error"
<1>1. FinalOutput(r) = [kind |-> k, origin |-> owner[r]]
  BY DEF FinalOutput, Output
<1>2. k \in {"aborted", "result", "error"}
  OBVIOUS
<1>3. owner[r] \in Tasks
  BY DEF EngineInv, OwnersKnown
<1> HIDE DEF k
<1> QED BY <1>1, <1>2, <1>3 DEF Outputs, EngineOutputKinds, Terminal

(* An output that is not one of the answers is not an answer's kind.        *)
LEMMA OutputTypes ==
  /\ \A t \in Tasks, k \in EngineOutputKinds : Output(k, t) \in Outputs
  /\ \A t \in Tasks, k \in {"none", "pending", "cancelled"} : Output(k, t) \in Unanswered
  BY DEF Output, Outputs, Unanswered

LoopTypes ==
  /\ loop \in LoopPoints
  /\ DOMAIN runnerOutput \subseteq Requests
  /\ \A r \in DOMAIN runnerOutput : runnerOutput[r] \in RunnerOutput
  /\ finishing \subseteq Requests /\ chunking \subseteq Requests
  /\ inHand \subseteq [req : Requests, out : Outputs] /\ Cardinality(inHand) <= 1
  /\ putting \subseteq [to : Tasks, out : Outputs] /\ Cardinality(putting) <= 1
  /\ DOMAIN stateCache \subseteq Requests /\ stateCache \in [DOMAIN stateCache -> 0..TotalSteps]

RpcTypes ==
  /\ currentRpc \in Rpcs \cup {None} /\ rpcQueue \subseteq Rpcs
  /\ rpcPhase \in {"none", "executing", "expired", "replying"}
  /\ rpc \in [Rpcs -> RpcStates]

ClientTypes ==
  /\ abortQueue \subseteq Requests
  /\ DOMAIN outQueue \subseteq Requests /\ outQueue \in [DOMAIN outQueue -> Tasks]
  /\ DOMAIN owner \subseteq Requests /\ owner \in [DOMAIN owner -> Tasks]
  /\ task \in [Tasks -> TaskStates]
  /\ future \in [Tasks -> Unanswered \cup Outputs]
  /\ posted \in [Tasks -> SUBSET Outputs] /\ channel \in [Tasks -> Seq(Outputs)]

LifeTypes ==
  /\ {loopStarted, stop, closed, shutdown} \subseteq BOOLEAN
  /\ closer \in {"idle", "joining"}

LEMMA TypeParts ==
  EngineTypeOK <=> SchedulerTypeOK /\ LoopTypes /\ RpcTypes /\ ClientTypes /\ LifeTypes
  BY DEF EngineTypeOK, LoopTypes, RpcTypes, ClientTypes, LifeTypes

LEMMA LoopTypesKept == EngineInv /\ [Next]_vars => LoopTypes'
<1> SUFFICES ASSUME EngineInv, [Next]_vars PROVE LoopTypes'
  OBVIOUS
<1>1. LoopTypes /\ schedOutput.finished \subseteq Requests /\ finishedReqIds \subseteq Requests
  BY TypeParts DEF EngineInv, SchedulerTypeOK
<1>2. loop' \in LoopPoints
  BY <1>1, WhoMovesLoop
  DEF LoopTypes, LoopPoints, StartLoop, LoopTop, AbortsDone, RpcReply, RpcsDone, IdleStop,
      IdleDrain, IdleSchedule, Execute, Update, DeliverDone, LoopExits
<1>3. finishing' \subseteq Requests /\ chunking' \subseteq Requests
  <2>1. CASE IdleSchedule
    BY <1>1, <2>1 DEF IdleSchedule, Schedule, LoopTypes
  <2>2. CASE Update
    BY <2>2, BatchKnown DEF Update, Surfaced, Ended, Live
  <2> QED BY <1>1, <2>1, <2>2, WhoDelivers
          DEF LoopTypes, StreamLookup, StreamPut, DeliverResult, StreamFinalize, StreamChunk
<1>4. inHand' \subseteq [req : Requests, out : Outputs] /\ Cardinality(inHand') <= 1
  <2>1. ASSUME NEW r \in Requests, StreamFinalize(r)
        PROVE  inHand' \subseteq [req : Requests, out : Outputs] /\ Cardinality(inHand') <= 1
    <3>1. inHand' = {[req |-> r, out |-> FinalOutput(r)]} /\ r \in Known
      BY <2>1 DEF StreamFinalize, PopRequestState
    <3>2. FinalOutput(r) \in Outputs
      BY <3>1, FinalOutputFacts
    <3>3. Cardinality(inHand') = 1
      BY <3>1, FS_Singleton
    <3> QED BY <3>1, <3>2, <3>3
  <2>2. CASE StreamLookup
    BY <2>2, FS_EmptySet DEF StreamLookup
  <2> QED BY <1>1, <2>1, <2>2, WhoDelivers
          DEF LoopTypes, IdleSchedule, Update, DeliverResult, StreamPut, StreamChunk
<1>6. putting' \subseteq [to : Tasks, out : Outputs] /\ Cardinality(putting') <= 1
  <2>1. ASSUME NEW r, NEW out \in Outputs, LookUpQueue(r, out)
        PROVE  putting' \subseteq [to : Tasks, out : Outputs] /\ Cardinality(putting') <= 1
    <3>1. CASE r \in DOMAIN outQueue
      <4>1. putting' = {[to |-> outQueue[r], out |-> out]} /\ outQueue[r] \in Tasks
        BY <1>1, <2>1, <3>1, TypeParts DEF LookUpQueue, EngineInv, ClientTypes
      <4>2. Cardinality(putting') = 1
        BY <4>1, FS_Singleton
      <4> QED BY <4>1, <4>2
    <3>2. CASE r \notin DOMAIN outQueue
      BY <2>1, <3>2, FS_EmptySet DEF LookUpQueue
    <3> QED BY <3>1, <3>2
  <2>2. CASE StreamLookup
    BY <1>1, <2>1, <2>2 DEF StreamLookup, LoopTypes
  <2>3. ASSUME NEW r \in Requests, StreamChunk(r)
        PROVE  putting' \subseteq [to : Tasks, out : Outputs] /\ Cardinality(putting') <= 1
    <3>1. owner[r] \in Tasks
      BY <2>3, BatchKnown DEF StreamChunk, EngineInv, LoopInPlace, OwnersKnown
    <3>2. Output("chunk", owner[r]) \in Outputs
      BY <3>1, OutputTypes DEF EngineOutputKinds
    <3> QED BY <2>1, <2>3, <3>2 DEF StreamChunk
  <2>4. CASE StreamPut
    BY <2>4, FS_EmptySet DEF StreamPut
  <2> QED BY <1>1, <2>2, <2>3, <2>4, WhoDelivers
          DEF LoopTypes, IdleSchedule, Update, DeliverResult, StreamFinalize
<1>5. /\ DOMAIN runnerOutput' \subseteq Requests
      /\ \A r \in DOMAIN runnerOutput' : runnerOutput'[r] \in RunnerOutput
      /\ DOMAIN stateCache' \subseteq Requests
      /\ stateCache' \in [DOMAIN stateCache' -> 0..TotalSteps]
  <2>1. CASE Execute
    BY <2>1, ExecuteFacts, BatchKnown DEF RunnerOutputs
  <2>2. CASE DeliverDone
    BY <1>1, <2>2 DEF DeliverDone, LoopTypes
  <2>3. CASE CloseFinish
    BY <1>1, <2>3 DEF CloseFinish, loopVars, LoopTypes
  <2> QED BY <1>1, <2>1, <2>2, <2>3, WhoUsesRunner DEF LoopTypes
<1> QED BY <1>2, <1>3, <1>4, <1>5, <1>6 DEF LoopTypes

LEMMA RpcTypesKept == EngineInv /\ [Next]_vars => RpcTypes'
<1> SUFFICES ASSUME EngineInv, [Next]_vars PROVE RpcTypes'
  OBVIOUS
<1>1. RpcTypes /\ RpcInPlace
  BY TypeParts DEF EngineInv
<1>2. ASSUME NEW c \in Rpcs, RpcTake(c) \/ FailRpc(c)
      PROVE  RpcTypes'
  BY <1>1, <1>2 DEF RpcTypes, RpcTake, FailRpc
<1>3. ASSUME NEW c \in Rpcs, RpcCall(c)
      PROVE  RpcTypes'
  <2> DEFINE s == CASE loopStarted -> "submitting" [] shutdown -> "failed" [] OTHER -> "done"
  <2>1. rpc' = [rpc EXCEPT ![c] = s]
    BY <1>3 DEF RpcCall
  <2>2. s \in RpcStates
    BY DEF RpcStates
  <2> HIDE DEF s
  <2> QED BY <1>1, <1>3, <2>1, <2>2 DEF RpcTypes, RpcCall
<1>4. ASSUME NEW c \in Rpcs, RpcSubmit(c) \/ RpcTimeout(c)
      PROVE  RpcTypes'
  BY <1>1, <1>4 DEF RpcTypes, RpcSubmit, RpcTimeout, RpcStates
<1>5. CASE RpcCheckDone
  BY <1>1, <1>5 DEF RpcTypes, RpcCheckDone
<1>6. CASE RpcReply
  BY <1>1, <1>6 DEF RpcTypes, RpcReply, RpcStates
<1>7. CASE UNCHANGED rpcVars
  BY <1>1, <1>7 DEF RpcTypes, rpcVars
<1> QED BY <1>2, <1>3, <1>4, <1>5, <1>6, <1>7, WhoUsesExecutor

LEMMA LifeTypesKept == EngineInv /\ [Next]_vars => LifeTypes'
<1> SUFFICES ASSUME EngineInv, [Next]_vars PROVE LifeTypes'
  OBVIOUS
<1>1. LifeTypes
  BY TypeParts DEF EngineInv
<1>2. CASE StartLoop
  BY <1>1, <1>2 DEF LifeTypes, StartLoop
<1>3. CASE CloseBegin
  BY <1>1, <1>3 DEF LifeTypes, CloseBegin
<1>4. CASE CloseFinish
  BY <1>1, <1>4 DEF LifeTypes, CloseFinish
<1>5. CASE CloseDefer
  BY <1>1, <1>5 DEF LifeTypes, CloseDefer
<1>6. CASE UNCHANGED lifeVars
  BY <1>1, <1>6 DEF LifeTypes, lifeVars
<1> QED BY <1>2, <1>3, <1>4, <1>5, <1>6, WhoOpensAndCloses

(* What the moves on the queue and the channels do.                         *)
LEMMA ForgetQueueFacts ==
  ASSUME ClientTypes, NEW t \in Tasks, ForgetQueue(t)
  PROVE  /\ DOMAIN outQueue' \subseteq DOMAIN outQueue
         /\ outQueue' \in [DOMAIN outQueue' -> Tasks]
         /\ \A r \in DOMAIN outQueue' : outQueue'[r] = outQueue[r]
         /\ \A r \in DOMAIN outQueue : outQueue[r] # t => r \in DOMAIN outQueue'
  BY DEF ForgetQueue, Drop, ClientTypes

(* What is put in a queue is put there whoever has taken the queue out.     *)
LEMMA PutFacts ==
  ASSUME ClientTypes, LoopTypes, NEW p \in putting, PutInChannel(p)
  PROVE  /\ p.to \in Tasks /\ p.out \in Outputs
         /\ channel' \in [Tasks -> Seq(Outputs)]
         /\ \A t \in Tasks :
              channel'[t] = IF t = p.to THEN Append(channel[t], p.out) ELSE channel[t]
<1>1. p.to \in Tasks /\ p.out \in Outputs /\ channel \in [Tasks -> Seq(Outputs)]
  BY DEF LoopTypes, ClientTypes
<1>2. channel[p.to] \in Seq(Outputs) /\ Append(channel[p.to], p.out) \in Seq(Outputs)
  BY <1>1, AppendProperties
<1> QED BY <1>1, <1>2 DEF PutInChannel

(* close() answers everybody in the queue, unless it is called again.       *)
Evicted(t) == \E r \in DOMAIN outQueue : outQueue[r] = t

LEMMA CloseBeginFacts ==
  ASSUME ClientTypes, CloseBegin, ~closed
  PROVE  /\ DOMAIN outQueue' = {} /\ closed'
         /\ \A t \in Tasks :
              LET unset == ~Streaming /\ Evicted(t) /\ future[t].kind = "pending"
              IN  /\ future'[t] = IF unset THEN Output("closed", t) ELSE future[t]
                  /\ task'[t] = IF unset /\ task[t] = "waiting" THEN "done" ELSE task[t]
                  /\ channel'[t] = IF Streaming /\ Evicted(t)
                                   THEN Append(channel[t], Output("closed", t)) ELSE channel[t]
         /\ DOMAIN future' = Tasks /\ DOMAIN task' = Tasks /\ DOMAIN channel' = Tasks
         /\ future' = [t \in Tasks |-> future'[t]]
         /\ task' = [t \in Tasks |-> task'[t]]
         /\ channel' = [t \in Tasks |-> channel'[t]]
<1> DEFINE pending == {outQueue[r] : r \in DOMAIN outQueue}
           unset == IF Streaming THEN {} ELSE {t \in pending : future[t].kind = "pending"}
           answer(t) == Output("closed", t)
<1>1. /\ closed' = TRUE /\ outQueue' = << >>
      /\ future' = [t \in Tasks |-> IF t \in unset THEN answer(t) ELSE future[t]]
      /\ task' = [t \in Tasks |-> IF t \in unset /\ task[t] = "waiting" THEN "done" ELSE task[t]]
      /\ channel' = [t \in Tasks |-> IF Streaming /\ t \in pending
                                     THEN Append(channel[t], answer(t)) ELSE channel[t]]
  BY DEF CloseBegin
<1>2. \A t \in Tasks : /\ t \in pending <=> Evicted(t)
                       /\ t \in unset <=> ~Streaming /\ Evicted(t) /\ future[t].kind = "pending"
  BY DEF Evicted
<1> HIDE DEF pending, unset
<1> QED BY <1>1, <1>2

LEMMA ClientTypesKept == EngineInv /\ [Next]_vars => ClientTypes'
<1> SUFFICES ASSUME EngineInv, [Next]_vars PROVE ClientTypes'
  OBVIOUS
<1> DEFINE Queues == /\ DOMAIN outQueue \subseteq Requests
                     /\ outQueue \in [DOMAIN outQueue -> Tasks]
                     /\ DOMAIN owner \subseteq Requests /\ owner \in [DOMAIN owner -> Tasks]
           Answers == /\ task \in [Tasks -> TaskStates]
                      /\ future \in [Tasks -> Unanswered \cup Outputs]
                      /\ posted \in [Tasks -> SUBSET Outputs]
                      /\ channel \in [Tasks -> Seq(Outputs)]
<1>1. ClientTypes
  BY TypeParts DEF EngineInv
<1>2. Queues /\ Answers
  BY <1>1 DEF ClientTypes
<1>3. abortQueue' \subseteq Requests
  <2>1. \A t \in Tasks : ReqId[t] \in Requests
    BY TasksAssumption
  <2>2. ASSUME NEW r \in Requests, Abort(r) \/ DrainAbort(r)
        PROVE  abortQueue' \subseteq Requests
    BY <1>1, <2>2 DEF ClientTypes, Abort, DrainAbort, QueueAbort
  <2>3. ASSUME NEW t \in Tasks, CancelAndAbort(t)
        PROVE  abortQueue' \subseteq Requests
    BY <1>1, <2>1, <2>3 DEF ClientTypes, CancelAndAbort, QueueAbort
  <2>4. CASE UNCHANGED abortQueue
    BY <1>1, <2>4 DEF ClientTypes
  <2> QED BY <2>2, <2>3, <2>4, WhoAborts
<1> SUFFICES (Queues /\ Answers)'
  BY <1>3 DEF ClientTypes
<1>4. ASSUME NEW t \in Tasks, TaskAdd(t)
      PROVE  (Queues /\ Answers)'
  <2>1. ReqId[t] \in Requests /\ Output("pending", t) \in Unanswered
    BY TasksAssumption, OutputTypes
  <2>2. Queues'
    <3>1. \/ outQueue' = outQueue /\ owner' = owner
          \/ outQueue' = Put(outQueue, ReqId[t], t) /\ owner' = Put(owner, ReqId[t], t)
      BY <1>4 DEF TaskAdd
    <3>2. CASE outQueue' = Put(outQueue, ReqId[t], t) /\ owner' = Put(owner, ReqId[t], t)
      BY <1>2, <2>1, <3>2 DEF Put
    <3> QED BY <1>2, <3>1, <3>2
  <2>3. /\ \E s \in TaskStates : task' = [task EXCEPT ![t] = s]
        /\ future' \in {future, [future EXCEPT ![t] = Output("pending", t)]}
    BY <1>4 DEF TaskAdd, TaskStates
  <2>4. posted' = posted /\ channel' = channel
    BY <1>4 DEF TaskAdd
  <2>5. task' \in [Tasks -> TaskStates]
    BY <1>2, <2>3
  <2>6. future' \in [Tasks -> Unanswered \cup Outputs]
    BY <1>2, <2>1, <2>3
  <2> QED BY <1>2, <2>2, <2>4, <2>5, <2>6
<1>5. ASSUME NEW t \in Tasks, TaskLookup(t) \/ CancelAndAbort(t)
      PROVE  (Queues /\ Answers)'
  <2>1. Output("cancelled", t) \in Unanswered
    BY OutputTypes
  <2>2. /\ \E s \in TaskStates : task' = [task EXCEPT ![t] = s]
        /\ future' \in {future, [future EXCEPT ![t] = Output("cancelled", t)]}
    BY <1>5 DEF TaskLookup, CancelAndAbort, TaskStates
  <2>3. task' \in [Tasks -> TaskStates]
    BY <1>2, <2>2
  <2>4. future' \in [Tasks -> Unanswered \cup Outputs]
    BY <1>2, <2>1, <2>2
  <2>5. outQueue' = outQueue /\ owner' = owner /\ posted' = posted /\ channel' = channel
    BY <1>5 DEF TaskLookup, CancelAndAbort
  <2> QED BY <1>2, <2>3, <2>4, <2>5
<1>6. ASSUME NEW t \in Tasks, RunCallback(t)
      PROVE  (Queues /\ Answers)'
  <2>1. PICK out \in posted[t] :
          /\ posted' = [posted EXCEPT ![t] = @ \ {out}]
          /\ future' = [future EXCEPT ![t] = IF @.kind = "pending" THEN out ELSE @]
          /\ task' = [task EXCEPT ![t] = IF future[t].kind = "pending" /\ @ = "waiting"
                                         THEN "done" ELSE @]
    BY <1>6 DEF RunCallback
  <2>2. outQueue' = outQueue /\ owner' = owner /\ channel' = channel
    BY <1>6 DEF RunCallback
  <2>3. out \in Outputs /\ "done" \in TaskStates
    BY <1>2 DEF TaskStates
  <2> QED BY <1>2, <2>1, <2>2, <2>3
<1>7. ASSUME NEW t \in Tasks, StreamNext(t)
      PROVE  (Queues /\ Answers)'
  <2>1. Tail(channel[t]) \in Seq(Outputs) /\ Head(channel[t]) \in Outputs
    BY <1>2, <1>7, HeadTailProperties DEF StreamNext
  <2>2. Queues'
    BY <1>1, <1>2, <1>7, ForgetQueueFacts DEF StreamNext
  <2>3. "done" \in TaskStates
    BY DEF TaskStates
  <2>4. task' \in [Tasks -> TaskStates] /\ future' \in [Tasks -> Unanswered \cup Outputs]
    <3>1. \/ task' = task /\ future' = future
          \/ /\ task' = [task EXCEPT ![t] = "done"]
             /\ future' = [future EXCEPT ![t] = Head(channel[t])]
      BY <1>7 DEF StreamNext
    <3>2. task' \in [Tasks -> TaskStates]
      BY <1>2, <2>3, <3>1
    <3>3. future' \in [Tasks -> Unanswered \cup Outputs]
      BY <1>2, <2>1, <3>1
    <3> QED BY <3>2, <3>3
  <2>5. posted' = posted /\ channel' \in [Tasks -> Seq(Outputs)]
    BY <1>2, <1>7, <2>1 DEF StreamNext
  <2> QED BY <1>2, <2>2, <2>4, <2>5
<1>8. ASSUME NEW t \in Tasks, StreamCleanup(t)
      PROVE  (Queues /\ Answers)'
  <2>1. Queues'
    BY <1>1, <1>2, <1>8, ForgetQueueFacts DEF StreamCleanup
  <2> QED BY <1>2, <1>8, <2>1 DEF StreamCleanup, TaskStates
<1>9. CASE CloseBegin
  <2>1. CASE closed
    BY <1>2, <1>9, <2>1 DEF CloseBegin
  <2>2. CASE ~closed
    <3>1. \A t \in Tasks : /\ Output("closed", t) \in Outputs
                           /\ Append(channel[t], Output("closed", t)) \in Seq(Outputs)
      BY <1>2, OutputTypes, AppendProperties DEF EngineOutputKinds
    <3>2. /\ outQueue' = << >> /\ owner' = owner /\ posted' = posted
      BY <1>9, <2>2 DEF CloseBegin
    <3>3. \A t \in Tasks : /\ task'[t] \in TaskStates
                           /\ future'[t] \in Unanswered \cup Outputs
                           /\ channel'[t] \in Seq(Outputs)
      BY <1>1, <1>2, <1>9, <2>2, <3>1, CloseBeginFacts DEF TaskStates
    <3>4. /\ task' \in [Tasks -> TaskStates]
          /\ future' \in [Tasks -> Unanswered \cup Outputs]
          /\ channel' \in [Tasks -> Seq(Outputs)]
      BY <1>1, <1>9, <2>2, <3>3, CloseBeginFacts
    <3>5. DOMAIN outQueue' = {} /\ outQueue' \in [DOMAIN outQueue' -> Tasks]
      BY <3>2
    <3> QED BY <1>2, <3>2, <3>4, <3>5
  <2> QED BY <2>1, <2>2
<1>10. CASE CloseFinish
  BY <1>2, <1>10 DEF CloseFinish
<1>11. CASE StreamPut
  <2>1. PICK p \in putting : PutInChannel(p)
    BY <1>11 DEF StreamPut
  <2>2. LoopTypes
    BY TypeParts DEF EngineInv
  <2> QED BY <1>1, <1>2, <1>11, <2>1, <2>2, PutFacts DEF StreamPut
<1>12. ASSUME NEW r \in Requests, DeliverResult(r)
       PROVE  (Queues /\ Answers)'
  <2>1. CASE r \notin DOMAIN outQueue
    BY <1>2, <1>12, <2>1 DEF DeliverResult
  <2>2. CASE r \in DOMAIN outQueue
    <3>1. r \in Known /\ FinalOutput(r) \in Outputs /\ outQueue[r] \in Tasks
      BY <1>2, <1>12, <2>2, FinalOutputFacts DEF DeliverResult, PopRequestState
    <3>2. /\ outQueue' = Drop(outQueue, r) /\ owner' = Drop(owner, r)
          /\ posted' \in {posted, [posted EXCEPT ![outQueue[r]] = @ \cup {FinalOutput(r)}]}
          /\ task' = task /\ future' = future /\ channel' = channel
      BY <1>12, <2>2 DEF DeliverResult
    <3>3. Queues'
      BY <1>2, <3>2 DEF Drop
    <3>4. posted' \in [Tasks -> SUBSET Outputs]
      <4>1. posted[outQueue[r]] \cup {FinalOutput(r)} \in SUBSET Outputs
        BY <1>2, <3>1
      <4> QED BY <1>2, <3>1, <3>2, <4>1
    <3> QED BY <1>2, <3>2, <3>3, <3>4
  <2> QED BY <2>1, <2>2
<1>13. ASSUME NEW r \in Requests, StreamFinalize(r)
       PROVE  (Queues /\ Answers)'
  BY <1>2, <1>13 DEF StreamFinalize, Drop
<1>15. CASE UNCHANGED clientVars
  BY <1>2, <1>15 DEF clientVars
<1> HIDE DEF Queues, Answers
<1> QED
  BY <1>4, <1>5, <1>6, <1>7, <1>8, <1>9, <1>10, <1>11, <1>12, <1>13, <1>15, WhoTouchesClients

LEMMA TypesKept == EngineInv /\ [Next]_vars => EngineTypeOK'
<1> SUFFICES ASSUME EngineInv, [Next]_vars PROVE EngineTypeOK'
  OBVIOUS
<1>1. SchedulerTypeOK'
  BY EngineKeepsScheduler DEF SchedulerInv
<1>2. (LoopTypes /\ RpcTypes /\ ClientTypes /\ LifeTypes)'
  BY LoopTypesKept, RpcTypesKept, ClientTypesKept, LifeTypesKept
<1> QED BY <1>1, <1>2 DEF EngineTypeOK, LoopTypes, RpcTypes, ClientTypes, LifeTypes

-----------------------------------------------------------------------------
(* What the calls of the scheduler do, in the vocabulary of the invariant.  *)

(* A batch that may run always makes schedule() schedule something: the     *)
(* requests that run already, or else at least the head of the queue.       *)
LEMMA ScheduleFacts ==
  ASSUME EngineInv, IdleSchedule
  PROVE  /\ Known' = Known
         /\ \A r \in Known : StatusOf(r)' = IF r \in Admitted THEN "RUNNING" ELSE StatusOf(r)
         /\ \A r \in Admitted : r \in Known /\ StatusOf(r) = "WAITING"
         /\ running' = running \cup Admitted /\ Scheduled' = running'
         /\ schedOutput'.new = Admitted /\ schedOutput'.cached = running
         /\ schedOutput'.finished = finishedReqIds
         /\ finishedReqIds' = {} /\ progress' = progress
         /\ Scheduled' # {} /\ loop' = "execute" /\ finishing' = finishing
<1> USE DEF EngineInv
<1>1. Schedule /\ HasRequests
  BY DEF IdleSchedule
<1>2. Admitted \subseteq Known /\ Admitted \subseteq Queued
  BY AdmittedFacts
<1>3. \A r \in Admitted : r \in Known /\ StatusOf(r) = "WAITING"
  BY <1>2, QueueFacts DEF SchedulerInv, BatchInPlace
<1>4. {r \in Admitted : StatusOf(r) = "WAITING"} = Admitted
  BY <1>3
<1>5. /\ schedOutput' = [new |-> Admitted, cached |-> running \cup (Admitted \ Admitted),
                         finished |-> finishedReqIds]
      /\ requestStates' = [r \in Known |->
                             IF r \in Admitted
                             THEN [requestStates[r] EXCEPT !.status = "RUNNING"]
                             ELSE requestStates[r]]
      /\ running' = running \cup Admitted
      /\ finishedReqIds' = {} /\ progress' = progress
  BY <1>1, <1>4 DEF Schedule, Admitted
<1>6. /\ schedOutput'.new = Admitted /\ schedOutput'.cached = running
      /\ schedOutput'.finished = finishedReqIds
  BY <1>5
<1>7. /\ Known' = Known
      /\ \A r \in Admitted : requestStates'[r].status = "RUNNING"
      /\ \A r \in Known \ Admitted : requestStates'[r] = requestStates[r]
  BY <1>2, <1>5 DEF Known, SchedulerInv, SchedulerTypeOK
<1>8. \A r \in Known : StatusOf(r)' = IF r \in Admitted THEN "RUNNING" ELSE StatusOf(r)
  BY <1>2, <1>7 DEF StatusOf
<1>9. Scheduled' = running'
  BY <1>5, <1>6 DEF Scheduled
<1>10. running \cup Admitted # {}
  <2>1. CASE running # {}
    BY <2>1
  <2>2. CASE running = {}
    <3>1. Len(waiting) \in Nat /\ Len(waiting) # 0
      BY <1>1, <2>2, LenProperties, EmptySeq
      DEF HasRequests, SchedulerInv, SchedulerTypeOK
    <3>2. Cardinality(running) = 0
      BY <2>2, FS_EmptySet
    <3>3. Admissible(1)
      BY <2>2, <3>2, MaxRunningAssumption DEF Admissible, CanSchedule
    <3>4. NumAdmitted # 0
      <4>1. 1 \in 0..Len(waiting)
        BY <3>1
      <4>2. 1 <= NumAdmitted
        BY <3>1, <3>3, <4>1, NumAdmittedExists
      <4> QED BY <4>2
    <3> QED BY <3>4, AdmittedFacts
  <2> QED BY <2>1, <2>2
<1>11. loop' = "execute" /\ finishing' = finishing
  <2>1. schedOutput'.new \cup schedOutput'.cached # {}
    BY <1>6, <1>10
  <2> QED BY <2>1 DEF IdleSchedule
<1> QED BY <1>3, <1>5, <1>6, <1>7, <1>8, <1>9, <1>10, <1>11

LEMMA UpdateFacts ==
  ASSUME EngineInv, Update
  PROVE  /\ Known' = Known
         /\ \A r \in Known : StatusOf(r)' = IF r \in Ended(runnerOutput)
                                            THEN Verdict(runnerOutput[r]) ELSE StatusOf(r)
         /\ Ended(runnerOutput) \subseteq running
         /\ \A r \in Ended(runnerOutput) : Verdict(runnerOutput[r]) \in FinishedStatus
         /\ running' = running \ Ended(runnerOutput)
         /\ finishedReqIds' = finishedReqIds \cup Ended(runnerOutput)
         /\ Scheduled' = {} /\ schedOutput'.finished = {}
<1> USE DEF EngineInv
<1> DEFINE out == runnerOutput
<1>1. UpdateFromOutput(out)
  BY DEF Update
<1>2. /\ Ended(out) \subseteq running /\ Ended(out) \subseteq Known
      /\ \A r \in Ended(out) : Verdict(out[r]) \in FinishedStatus
  BY EndedWereRunning, BatchKnown
<1>3. /\ Known' = Known
      /\ \A r \in Ended(out) : requestStates'[r].status = Verdict(out[r])
      /\ \A r \in Known \ Ended(out) : requestStates'[r] = requestStates[r]
  BY <1>1, <1>2 DEF UpdateFromOutput, Known, SchedulerInv, SchedulerTypeOK
<1>4. \A r \in Known : StatusOf(r)' = IF r \in Ended(out) THEN Verdict(out[r]) ELSE StatusOf(r)
  BY <1>2, <1>3 DEF StatusOf
<1>5. Scheduled' = {} /\ schedOutput'.finished = {}
  BY <1>1 DEF UpdateFromOutput, NoOutput, Scheduled
<1> QED BY <1>1, <1>2, <1>3, <1>4, <1>5 DEF UpdateFromOutput

(* The requests that go on after an update.                                 *)
LEMMA ContinuedFacts ==
  ASSUME EngineInv, Update, NEW r \in running \ Ended(runnerOutput)
  PROVE  /\ StepMode
         /\ r \in Scheduled /\ r \in Live(Scheduled)
         /\ runnerOutput[r].kind \in {"step", "chunk"}
<1> USE DEF EngineInv
<1>1. r \in Scheduled /\ r \in Known /\ ~IsFinished(r)
  BY BatchKnown DEF Update, BatchInPlace, Reported
<1>2. r \in Live(Scheduled)
  BY <1>1 DEF Live, SchedulerInv, ProgressCoversStates
<1>3. Verdict(runnerOutput[r]) \notin FinishedStatus
  BY <1>2 DEF Ended
<1>4. runnerOutput[r] \in PossibleOutput(r) /\ runnerOutput[r] \in RunnerOutput
  BY <1>1 DEF Update, OutputsPossible, Reported, RunnerOutputs
<1>5. runnerOutput[r].kind \in OutputKinds
  BY <1>4 DEF RunnerOutput
<1>6. StepMode
  BY <1>3, StepModeAssumption DEF Verdict, RequestVerdict, FinishedStatus
<1>7. StepVerdict(runnerOutput[r]) \notin FinishedStatus
  BY <1>3, <1>6 DEF Verdict
<1>8. runnerOutput[r].kind \in {"step", "chunk"}
  BY <1>5, <1>7 DEF StepVerdict, FinishedStatus, OutputKinds
<1> QED BY <1>1, <1>2, <1>6, <1>8

LEMMA PopFacts ==
  ASSUME EngineInv, NEW r \in Requests, PopRequestState(r)
  PROVE  /\ r \in Known /\ IsFinished(r) /\ Known' = Known \ {r}
         /\ \A q \in Known' : StatusOf(q)' = StatusOf(q)
         /\ running' = running /\ finishedReqIds' = finishedReqIds
         /\ schedOutput' = schedOutput /\ Scheduled' = Scheduled
         /\ DOMAIN progress' = DOMAIN progress \ {r}
         /\ \A q \in DOMAIN progress' : progress'[q] = progress[q]
  BY DEF PopRequestState, Known, StatusOf, Scheduled

LEMMA AddFacts ==
  ASSUME EngineInv, NEW r \in Requests, NEW k, AddRequest(r, k, 0)
  PROVE  /\ r \notin Known /\ Known' = Known \cup {r}
         /\ StatusOf(r)' = "WAITING"
         /\ \A q \in Known : StatusOf(q)' = StatusOf(q)
         /\ running' = running /\ finishedReqIds' = finishedReqIds
         /\ schedOutput' = schedOutput /\ Scheduled' = Scheduled
         /\ \A q \in DOMAIN progress : q \in DOMAIN progress'
         /\ \A q \in Known : q \in DOMAIN progress =>
              q \in DOMAIN progress' /\ progress'[q] = progress[q]
  BY DEF AddRequest, Known, StatusOf, Scheduled

LEMMA FinishFacts ==
  ASSUME EngineInv, NEW r \in Requests, FinishRequest(r, "FINISHED_ABORTED")
  PROVE  /\ r \in Known /\ ~IsFinished(r) /\ Known' = Known
         /\ \A q \in Known : StatusOf(q)' = IF q = r THEN "FINISHED_ABORTED" ELSE StatusOf(q)
         /\ running' = running \ {r} /\ finishedReqIds' = finishedReqIds \cup {r}
         /\ progress' = progress /\ schedOutput' = schedOutput /\ Scheduled' = Scheduled
  BY DEF FinishRequest, Known, StatusOf, Scheduled, EngineInv, SchedulerInv, SchedulerTypeOK

LEMMA SchedulerFrame ==
  ASSUME UNCHANGED schedulerVars
  PROVE  /\ requestStates' = requestStates /\ Known' = Known
         /\ \A r : StatusOf(r)' = StatusOf(r) /\ IsFinished(r)' = IsFinished(r)
         /\ running' = running /\ finishedReqIds' = finishedReqIds /\ progress' = progress
         /\ schedOutput' = schedOutput /\ Scheduled' = Scheduled
  BY DEF schedulerVars, Known, StatusOf, IsFinished, Scheduled

-----------------------------------------------------------------------------
(* Each part of the invariant is kept by every step.                        *)

(* Outside the RPC phases nothing is in hand, so the loop never leaves them *)
(* with a caller unanswered.                                                *)
LEMMA RpcInPlaceKept == EngineInv /\ [Next]_vars => RpcInPlace'
<1> SUFFICES ASSUME EngineInv, [Next]_vars PROVE RpcInPlace'
  OBVIOUS
<1>1. RpcInPlace /\ ClosedInPlace /\ None \notin Rpcs
  BY NoneAssumption DEF EngineInv
<1>2. ASSUME NEW c \in Rpcs, RpcTake(c) \/ FailRpc(c)
      PROVE  RpcInPlace'
  <2>1. loop' = loop /\ loop \in {"rpcs", "rpcs2", "failRpcs"}
    BY <1>2 DEF RpcTake, FailRpc
  <2>2. \/ currentRpc' = currentRpc /\ rpcPhase' = rpcPhase
        \/ currentRpc' = c /\ rpcPhase' \in {"expired", "executing", "replying"}
    BY <1>2 DEF RpcTake, FailRpc
  <2> QED BY <1>1, <2>1, <2>2 DEF RpcInPlace
<1>3. CASE RpcReply
  BY <1>3 DEF RpcReply, RpcInPlace
<1>4. CASE RpcCheckDone
  BY <1>1, <1>4 DEF RpcCheckDone, RpcInPlace
<1>5. ASSUME UNCHANGED <<currentRpc, rpcPhase>>, ~RpcReply
      PROVE  RpcInPlace'
  <2>1. CASE currentRpc = None
    BY <1>1, <1>5, <2>1 DEF RpcInPlace
  <2>2. CASE currentRpc # None
    <3>1. UNCHANGED loop
      BY <1>1, <1>5, <2>2, WhoMovesLoop
      DEF RpcInPlace, ClosedInPlace, StartLoop, LoopTop, AbortsDone, RpcsDone, IdleStop,
          IdleDrain, IdleSchedule, Execute, Update, DeliverDone, LoopExits
    <3> QED BY <1>1, <1>5, <3>1 DEF RpcInPlace
  <2> QED BY <2>1, <2>2
<1> QED BY <1>2, <1>3, <1>4, <1>5, WhoUsesExecutor DEF RpcCall, RpcSubmit, RpcTimeout, rpcVars

(* Where the loop goes from the places where the invariant says something.  *)
LEMMA LoopSteps ==
  ASSUME EngineInv, [Next]_vars
  PROVE  /\ ThreadDead /\ closed => loop' = loop
         /\ loop \in {"exited", "crashed"} => loop' = loop
         /\ loop = "deliver" => loop' = loop \/ DeliverDone
         /\ loop = "update" => loop' = loop \/ Update
         /\ loop = "execute" => loop' = loop \/ Execute
         /\ loop \in {"aborts2", "rpcs2"} => loop' \in Reported \cup {"crashed"}
         /\ loop' = "execute" => loop' = loop \/ IdleSchedule
         /\ loop' = "deliver" => loop' = loop \/ Update
         /\ loop' \in Reported => loop \in Reported \/ Execute
<1>1. RpcReply => loop \in {"rpcs", "rpcs2", "failRpcs"} /\ loop' \in {loop, "crashed"}
  BY DEF EngineInv, RpcInPlace, RpcReply
<1>2. IdleSchedule => loop = "idle" /\ loop' = "execute"
  BY ScheduleFacts DEF IdleSchedule
<1>3. StartLoop => loop = "off" /\ ~closed /\ loop' = "top"
  BY DEF StartLoop, EngineInv, ClosedInPlace
<1>4. LoopTop => loop = "top" /\ loop' \in {"failRpcs", "aborts"}
  BY DEF LoopTop
<1>5. AbortsDone => \/ loop = "aborts" /\ loop' = "rpcs"
                    \/ loop = "aborts2" /\ loop' = "rpcs2"
  BY DEF AbortsDone
<1>6. RpcsDone => \/ loop = "rpcs" /\ loop' = "idle"
                  \/ loop = "rpcs2" /\ loop' = "update"
  BY DEF RpcsDone
<1>7. /\ IdleStop => loop = "idle" /\ loop' = "failRpcs"
      /\ IdleDrain => loop = "idle" /\ loop' = "top"
      /\ LoopExits => loop = "failRpcs" /\ loop' = "exited"
      /\ DeliverDone => loop = "deliver" /\ loop' = "top"
      /\ Execute => loop = "execute" /\ loop' = "aborts2"
      /\ Update => loop = "update" /\ loop' = "deliver"
  BY DEF IdleStop, IdleDrain, LoopExits, DeliverDone, Execute, Update
<1> QED BY <1>1, <1>2, <1>3, <1>4, <1>5, <1>6, <1>7, WhoMovesLoop DEF ThreadDead, Reported

LEMMA LoopInPlaceKept == EngineInv /\ [Next]_vars => LoopInPlace'
<1> SUFFICES ASSUME EngineInv, [Next]_vars PROVE LoopInPlace'
  OBVIOUS
<1>1. LoopInPlace /\ BatchInPlace
  BY DEF EngineInv
<1>2. (loop # "deliver" => finishing = {} /\ chunking = {} /\ inHand = {} /\ putting = {})'
  <2>1. CASE UNCHANGED <<finishing, chunking, inHand, putting>>
    BY <1>1, <2>1, LoopSteps DEF LoopInPlace, DeliverDone
  <2>2. CASE IdleSchedule
    BY <1>1, <2>2, ScheduleFacts DEF LoopInPlace, IdleSchedule
  <2>3. CASE Update
    BY <2>3 DEF Update
  <2>4. CASE StreamLookup \/ StreamPut
    BY <2>4 DEF StreamLookup, StreamPut
  <2>5. ASSUME NEW r \in Requests, DeliverResult(r) \/ StreamFinalize(r) \/ StreamChunk(r)
        PROVE  loop' = "deliver"
    BY <2>5 DEF DeliverResult, StreamFinalize, StreamChunk
  <2> QED BY <2>1, <2>2, <2>3, <2>4, <2>5, WhoDelivers
<1>3. (~Streaming => chunking = {} /\ inHand = {} /\ putting = {})'
  BY <1>1, WhoDelivers
  DEF LoopInPlace, IdleSchedule, Update, StreamLookup, StreamPut, DeliverResult, StreamFinalize,
      StreamChunk
<1>4. (/\ \A g, h \in inHand : g = h
       /\ \A p, q \in putting : p = q
       /\ inHand # {} => putting = {})'
  BY <1>1, WhoDelivers
  DEF LoopInPlace, IdleSchedule, Update, StreamLookup, StreamPut, DeliverResult, StreamFinalize,
      StreamChunk, LookUpQueue
<1>5. (chunking \subseteq running)'
  <2>1. CASE Update
    BY <1>1, <2>1, UpdateFacts
    DEF Update, BatchInPlace, Reported, Surfaced
  <2>2. CASE ~Update
    <3>1. chunking' \subseteq chunking
      BY <2>2, WhoDelivers
      DEF IdleSchedule, StreamLookup, StreamPut, DeliverResult, StreamFinalize, StreamChunk
    <3>2. CASE chunking = {}
      BY <3>1, <3>2
    <3>3. CASE chunking # {}
      <4>1. loop = "deliver"
        BY <1>1, <3>3 DEF LoopInPlace
      <4>2. running' = running
        BY <2>2, <4>1, WhoUsesScheduler, SchedulerFrame
        DEF TaskAdd, AddRequest, DrainAbort, DeliverResult, StreamFinalize, PopRequestState,
            IdleSchedule, CloseFinish, ThreadDead
      <4> QED BY <1>1, <3>1, <4>2 DEF LoopInPlace
    <3> QED BY <3>2, <3>3
  <2> QED BY <2>1, <2>2
<1>6. (loop \in Cycle => Scheduled # {})' /\ (Scheduled # {} => loop \in Cycle \cup {"crashed"})'
  <2>1. CASE IdleSchedule
    BY <2>1, ScheduleFacts DEF Cycle
  <2>2. CASE Update
    BY <2>2, UpdateFacts DEF Update, Cycle, Reported
  <2>3. CASE CloseFinish
    BY <2>3 DEF CloseFinish, SchedulerClose, Scheduled, NoOutput, ThreadDead, Cycle, Reported
  <2>4. CASE ~IdleSchedule /\ ~Update /\ ~CloseFinish
    <3>1. Scheduled' = Scheduled
      <4>1. ASSUME NEW t \in Tasks, TaskAdd(t)
            PROVE  Scheduled' = Scheduled
        BY <4>1, SchedulerFrame DEF TaskAdd, AddRequest, Scheduled
      <4>2. ASSUME NEW r \in Requests, DrainAbort(r) \/ DeliverResult(r) \/ StreamFinalize(r)
            PROVE  Scheduled' = Scheduled
        BY <4>2, SchedulerFrame
        DEF DrainAbort, DeliverResult, StreamFinalize, FinishRequest, PopRequestState, Scheduled
      <4> QED BY <2>4, <4>1, <4>2, WhoUsesScheduler, SchedulerFrame
    <3>2. loop \in Cycle => loop' \in Cycle \cup {"crashed"}
      BY <2>4, LoopSteps DEF Cycle, Reported, Execute
    <3>3. loop' \in Cycle => loop \in Cycle
      BY <2>4, LoopSteps DEF Cycle, Reported, Execute
    <3>4. loop = "crashed" => loop' = "crashed"
      BY LoopSteps
    <3> QED BY <1>1, <3>1, <3>2, <3>3, <3>4 DEF LoopInPlace
  <2> QED BY <2>1, <2>2, <2>3, <2>4
<1> QED BY <1>2, <1>3, <1>4, <1>5, <1>6 DEF LoopInPlace

LEMMA BatchInPlaceKept == EngineInv /\ [Next]_vars => BatchInPlace'
<1> SUFFICES ASSUME EngineInv, [Next]_vars PROVE BatchInPlace'
  OBVIOUS
<1>1. BatchInPlace /\ ClosedInPlace
  BY DEF EngineInv
<1>2. CASE IdleSchedule
  <2>1. loop' \notin Reported
    BY <1>2, ScheduleFacts DEF Reported
  <2>2. \A r \in Known' : StatusOf(r)' # "PREEMPTED"
    BY <1>1, <1>2, ScheduleFacts DEF BatchInPlace
  <2> QED BY <1>2, <2>1, <2>2, ScheduleFacts DEF BatchInPlace
<1>3. CASE Update
  <2>1. loop' = "deliver"
    BY <1>3 DEF Update
  <2>2. \A r \in Known' : StatusOf(r)' # "PREEMPTED"
    BY <1>1, <1>3, UpdateFacts DEF BatchInPlace, FinishedStatus
  <2> QED BY <2>1, <2>2 DEF BatchInPlace, Reported
<1>4. CASE CloseFinish
  BY <1>4 DEF CloseFinish, SchedulerClose, BatchInPlace, ThreadDead, Reported, Known
<1>5. ASSUME NEW r \in Requests, DrainAbort(r)
      PROVE  BatchInPlace'
  <2>1. loop' = loop /\ loop # "execute"
    BY <1>5 DEF DrainAbort
  <2>2. CASE UNCHANGED schedulerVars
    BY <1>1, <2>1, <2>2, SchedulerFrame DEF BatchInPlace
  <2>3. CASE FinishRequest(r, "FINISHED_ABORTED")
    BY <1>1, <2>1, <2>3, FinishFacts DEF BatchInPlace
  <2> QED BY <1>5, <2>2, <2>3 DEF DrainAbort
<1>6. ASSUME NEW r \in Requests, DeliverResult(r) \/ StreamFinalize(r)
      PROVE  BatchInPlace'
  <2>1. loop' = loop
    BY <1>6 DEF DeliverResult, StreamFinalize
  <2>2. CASE UNCHANGED schedulerVars
    BY <1>1, <2>1, <2>2, SchedulerFrame DEF BatchInPlace
  <2>3. CASE PopRequestState(r)
    BY <1>1, <2>1, <2>3, PopFacts DEF BatchInPlace
  <2> QED BY <1>6, <2>2, <2>3 DEF DeliverResult, StreamFinalize
<1>7. ASSUME NEW t \in Tasks, TaskAdd(t)
      PROVE  BatchInPlace'
  <2>1. loop' = loop
    BY <1>7 DEF TaskAdd
  <2>2. CASE UNCHANGED schedulerVars
    BY <1>1, <2>1, <2>2, SchedulerFrame DEF BatchInPlace
  <2>3. CASE AddRequest(ReqId[t], TaskKey[t], 0)
    BY <1>1, <2>1, <2>3, AddFacts, TasksAssumption DEF BatchInPlace
  <2> QED BY <1>7, <2>2, <2>3 DEF TaskAdd
<1>8. CASE UNCHANGED schedulerVars /\ ~IdleSchedule
  <2>1. loop' = "execute" => loop = "execute"
    BY <1>8, LoopSteps
  <2>2. loop' \in Reported => loop \in Reported \cup {"execute"}
    BY LoopSteps DEF Execute
  <2> QED BY <1>1, <1>8, <2>1, <2>2, SchedulerFrame DEF BatchInPlace
<1> QED BY <1>2, <1>3, <1>4, <1>5, <1>6, <1>7, <1>8, WhoUsesScheduler

(* A call that has begun is not new again.                                  *)
LEMMA StaysStarted ==
  ASSUME EngineInv, [Next]_vars, NEW t \in Tasks, task[t] # "new"
  PROVE  task'[t] # "new"
<1>1. ClientTypes
  BY TypeParts DEF EngineInv
<1>2. ASSUME NEW u \in Tasks,
             TaskAdd(u) \/ TaskLookup(u) \/ CancelAndAbort(u) \/ StreamCleanup(u)
      PROVE  task'[t] # "new"
  <2>1. \E s \in TaskStates \ {"new"} : task' = [task EXCEPT ![u] = s]
    BY <1>2 DEF TaskAdd, TaskLookup, CancelAndAbort, StreamCleanup, TaskStates
  <2> QED BY <1>1, <2>1 DEF ClientTypes
<1>3. ASSUME NEW u \in Tasks, RunCallback(u) \/ StreamNext(u)
      PROVE  task'[t] # "new"
  BY <1>1, <1>3 DEF RunCallback, StreamNext, ClientTypes
<1>4. CASE CloseBegin
  BY <1>1, <1>4, CloseBeginFacts DEF CloseBegin
<1>5. CASE UNCHANGED task
  BY <1>5
<1> QED BY <1>2, <1>3, <1>4, <1>5, WhoTouchesClients
        DEF CloseFinish, StreamPut, DeliverResult, StreamFinalize, clientVars

(* Who appears in the tables of known requests and of waiting ones.         *)
Refused(t) ==
  /\ task' = [task EXCEPT ![t] = "refused"]
  /\ UNCHANGED <<schedulerVars, outQueue, future, owner>>

Added(t) ==
  /\ ~closed /\ task' = [task EXCEPT ![t] = "added"]
  /\ ReqId[t] \in Requests /\ AddRequest(ReqId[t], TaskKey[t], 0)
  /\ DOMAIN outQueue' = DOMAIN outQueue \cup {ReqId[t]} /\ outQueue'[ReqId[t]] = t
  /\ \A r \in DOMAIN outQueue \ {ReqId[t]} : outQueue'[r] = outQueue[r]
  /\ DOMAIN owner' = DOMAIN owner \cup {ReqId[t]} /\ owner'[ReqId[t]] = t
  /\ \A r \in DOMAIN owner \ {ReqId[t]} : owner'[r] = owner[r]
  /\ future' = [future EXCEPT ![t] = Output("pending", t)]

LEMMA TaskAddFacts ==
  ASSUME EngineInv, NEW t \in Tasks, TaskAdd(t)
  PROVE  (Refused(t) \/ Added(t)) /\ task[t] = "new"
  BY TasksAssumption DEF TaskAdd, Put, Refused, Added

Skipped(r) == r \notin DOMAIN outQueue /\ UNCHANGED <<schedulerVars, outQueue, owner, posted>>

Answered(r) ==
  /\ r \in DOMAIN outQueue /\ outQueue[r] \in Tasks /\ PopRequestState(r)
  /\ DOMAIN outQueue' = DOMAIN outQueue \ {r}
  /\ \A q \in DOMAIN outQueue' : outQueue'[q] = outQueue[q]
  /\ DOMAIN owner' = DOMAIN owner \ {r}
  /\ \A q \in DOMAIN owner' : owner'[q] = owner[q]
  /\ \A t \in Tasks : posted'[t] = IF t = outQueue[r] /\ future[t].kind = "pending"
                                   THEN posted[t] \cup {FinalOutput(r)} ELSE posted[t]

LEMMA DeliverFacts ==
  ASSUME EngineInv, NEW r \in Requests, DeliverResult(r)
  PROVE  Skipped(r) \/ Answered(r)
<1>1. ClientTypes
  BY TypeParts DEF EngineInv
<1>2. CASE r \in DOMAIN outQueue
  <2>1. outQueue[r] \in Tasks
    BY <1>1, <1>2 DEF ClientTypes
  <2>2. /\ outQueue' = Drop(outQueue, r) /\ PopRequestState(r) /\ owner' = Drop(owner, r)
        /\ posted' = IF future[outQueue[r]].kind = "pending"
                     THEN [posted EXCEPT ![outQueue[r]] = @ \cup {FinalOutput(r)}] ELSE posted
    BY <1>2 DEF DeliverResult
  <2> QED BY <1>1, <1>2, <2>1, <2>2 DEF Drop, ClientTypes, Answered
<1> QED BY <1>2 DEF DeliverResult, Skipped

LEMMA WhoRegisters ==
  ASSUME EngineInv, [Next]_vars
  PROVE  \/ Known' = Known
         \/ \E t \in Tasks : TaskAdd(t)
         \/ \E r \in Requests : DeliverResult(r) \/ StreamFinalize(r)
         \/ CloseFinish
<1>1. ASSUME NEW r \in Requests, DrainAbort(r)
      PROVE  Known' = Known
  BY <1>1, FinishFacts, SchedulerFrame DEF DrainAbort
<1>2. IdleSchedule \/ Update => Known' = Known
  BY ScheduleFacts, UpdateFacts
<1>3. UNCHANGED schedulerVars => Known' = Known
  BY SchedulerFrame
<1> QED BY <1>1, <1>2, <1>3, WhoUsesScheduler

LEMMA OwnersKnownKept == EngineInv /\ [Next]_vars => OwnersKnown'
<1> SUFFICES ASSUME EngineInv, [Next]_vars PROVE OwnersKnown'
  OBVIOUS
<1>1. OwnersKnown /\ ClientTypes
  BY TypeParts DEF EngineInv
<1>2. ASSUME NEW t \in Tasks, TaskAdd(t)
      PROVE  OwnersKnown'
  <2>1. CASE Refused(t)
    BY <1>1, <2>1, SchedulerFrame, StaysStarted DEF OwnersKnown, Refused
  <2>2. CASE Added(t)
    <3>1. Known' = Known \cup {ReqId[t]} /\ ReqId[t] \notin Known /\ task'[t] # "new"
      BY <1>1, <2>2, AddFacts DEF ClientTypes, Added
    <3> QED BY <1>1, <2>2, <3>1, StaysStarted DEF OwnersKnown, Added
  <2> QED BY <1>2, <2>1, <2>2, TaskAddFacts
<1>3. ASSUME NEW r \in Requests, DeliverResult(r)
      PROVE  OwnersKnown'
  <2>1. CASE Skipped(r)
    BY <1>1, <2>1, SchedulerFrame, StaysStarted DEF OwnersKnown, Skipped
  <2>2. CASE Answered(r)
    BY <1>1, <2>2, PopFacts, StaysStarted DEF OwnersKnown, Answered
  <2> QED BY <1>3, <2>1, <2>2, DeliverFacts
<1>4. ASSUME NEW r \in Requests, StreamFinalize(r)
      PROVE  OwnersKnown'
  <2>1. PopRequestState(r) /\ owner' = Drop(owner, r)
    BY <1>4 DEF StreamFinalize
  <2> QED BY <1>1, <2>1, PopFacts, StaysStarted DEF OwnersKnown, Drop
<1>5. CASE CloseFinish
  BY <1>5 DEF CloseFinish, SchedulerClose, OwnersKnown, Known
<1>6. ASSUME Known' = Known, owner' = owner
      PROVE  OwnersKnown'
  BY <1>1, <1>6, StaysStarted DEF OwnersKnown
<1>7. CASE Known' = Known
  <2>1. CASE owner' = owner
    BY <1>6, <1>7, <2>1
  <2>2. CASE owner' # owner
    BY <1>2, <1>3, <1>4, <1>5, <2>2, WhoTouchesClients
    DEF TaskLookup, RunCallback, StreamNext, CancelAndAbort, StreamCleanup, CloseBegin, StreamPut,
        clientVars
  <2> QED BY <2>1, <2>2
<1> QED BY <1>2, <1>3, <1>4, <1>5, <1>7, WhoRegisters

LEMMA QueueInPlaceKept == EngineInv /\ [Next]_vars => QueueInPlace'
<1> SUFFICES ASSUME EngineInv, [Next]_vars PROVE QueueInPlace'
  OBVIOUS
<1>1. /\ QueueInPlace /\ ClientTypes /\ OwnersKnown /\ AnswersInPlace /\ ClosedInPlace
      /\ \A r \in DOMAIN outQueue : outQueue[r] \in Tasks
  BY TypeParts DEF EngineInv, ClientTypes
<1>2. ASSUME DOMAIN outQueue' \subseteq DOMAIN outQueue,
             \A r \in DOMAIN outQueue' : /\ outQueue'[r] = outQueue[r]
                                         /\ posted'[outQueue[r]] = {}
                                         /\ ~Streaming => r \in Known' /\ owner'[r] = owner[r]
      PROVE  QueueInPlace'
  BY <1>1, <1>2, StaysStarted DEF QueueInPlace
<1>3. ASSUME NEW t \in Tasks, TaskAdd(t)
      PROVE  QueueInPlace'
  <2>1. posted' = posted /\ task[t] = "new"
    BY <1>3 DEF TaskAdd
  <2>2. CASE Refused(t)
    BY <1>1, <1>2, <2>1, <2>2, SchedulerFrame DEF Refused, QueueInPlace
  <2>3. CASE Added(t)
    <3>1. Known' = Known \cup {ReqId[t]} /\ ReqId[t] \notin Known /\ task'[t] = "added"
      BY <1>1, <2>3, AddFacts DEF ClientTypes, Added
    <3>2. posted[t] = {}
      BY <1>1, <2>1 DEF AnswersInPlace
    <3>3. ASSUME NEW r \in DOMAIN outQueue', r # ReqId[t]
          PROVE  /\ r \in DOMAIN outQueue /\ outQueue'[r] = outQueue[r]
                 /\ ~Streaming => r \in DOMAIN owner /\ owner'[r] = owner[r]
      BY <1>1, <2>3, <3>3 DEF Added, QueueInPlace, OwnersKnown
    <3> QED BY <1>1, <2>1, <2>3, <3>1, <3>2, <3>3, StaysStarted DEF QueueInPlace, Added
  <2> QED BY <1>3, <2>2, <2>3, TaskAddFacts
<1>4. ASSUME NEW t \in Tasks, RunCallback(t)
      PROVE  QueueInPlace'
  <2>1. /\ outQueue' = outQueue /\ owner' = owner /\ Known' = Known
        /\ \A u \in Tasks : posted'[u] \subseteq posted[u]
    BY <1>1, <1>4, SchedulerFrame DEF RunCallback, ClientTypes
  <2> QED BY <1>1, <1>2, <2>1 DEF QueueInPlace
<1>5. ASSUME NEW t \in Tasks, StreamNext(t) \/ StreamCleanup(t)
      PROVE  QueueInPlace'
  <2>1. outQueue' = outQueue \/ ForgetQueue(t)
    BY <1>5 DEF StreamNext, StreamCleanup
  <2>2. posted' = posted /\ owner' = owner /\ Known' = Known
    BY <1>5, SchedulerFrame DEF StreamNext, StreamCleanup
  <2> QED BY <1>1, <1>2, <2>1, <2>2, ForgetQueueFacts DEF QueueInPlace
<1>6. CASE DOMAIN outQueue' = {}
  BY <1>6 DEF QueueInPlace
<1>7. ASSUME NEW r \in Requests, DeliverResult(r)
      PROVE  QueueInPlace'
  <2>1. CASE Skipped(r)
    BY <1>1, <1>2, <2>1, SchedulerFrame DEF QueueInPlace, Skipped
  <2>2. CASE Answered(r)
    <3>1. \A q \in DOMAIN outQueue' : q \in DOMAIN outQueue /\ q # r /\ outQueue[q] # outQueue[r]
      BY <1>1, <2>2 DEF QueueInPlace, Answered
    <3>2. Known' = Known \ {r}
      BY <2>2, PopFacts DEF Answered
    <3>3. \A q \in DOMAIN outQueue' : posted'[outQueue[q]] = {}
      BY <1>1, <2>2, <3>1 DEF QueueInPlace, Answered
    <3>4. \A q \in DOMAIN outQueue' : ~Streaming => q \in Known' /\ owner'[q] = owner[q]
      BY <1>1, <2>2, <3>1, <3>2 DEF QueueInPlace, OwnersKnown, Answered
    <3> QED BY <1>2, <2>2, <3>1, <3>3, <3>4 DEF Answered
  <2> QED BY <1>7, <2>1, <2>2, DeliverFacts
<1>8. ASSUME NEW r \in Requests, StreamFinalize(r)
      PROVE  QueueInPlace'
  BY <1>1, <1>2, <1>8 DEF StreamFinalize, QueueInPlace
<1>9. ASSUME outQueue' = outQueue, posted' = posted, owner' = owner, Known' = Known
      PROVE  QueueInPlace'
  BY <1>1, <1>2, <1>9 DEF QueueInPlace
<1>10. ASSUME NEW t \in Tasks, TaskLookup(t) \/ CancelAndAbort(t)
       PROVE  QueueInPlace'
  BY <1>9, <1>10, SchedulerFrame DEF TaskLookup, CancelAndAbort
<1>11. CASE CloseBegin
  <2>1. CASE closed
    BY <1>9, <1>11, <2>1, SchedulerFrame DEF CloseBegin
  <2>2. CASE ~closed
    BY <1>1, <1>6, <1>11, <2>2, CloseBeginFacts
  <2> QED BY <2>1, <2>2
<1>12. CASE CloseFinish
  BY <1>1, <1>6, <1>12 DEF CloseFinish, ClosedInPlace
<1>14. CASE StreamPut
  BY <1>9, <1>14, SchedulerFrame DEF StreamPut
<1>15. CASE Known' = Known /\ UNCHANGED clientVars
  BY <1>9, <1>15 DEF clientVars
<1> QED
  BY <1>3, <1>4, <1>5, <1>7, <1>8, <1>10, <1>11, <1>12, <1>14, <1>15, WhoRegisters,
     WhoTouchesClients

(* What StreamPut puts, and where.                                          *)
LEMMA StreamPutFacts ==
  ASSUME EngineInv, StreamPut
  PROVE  \E p \in putting :
           /\ putting = {p} /\ p.to \in Tasks /\ p.out \in Outputs /\ Streaming /\ inHand = {}
           /\ \A t \in Tasks :
                channel'[t] = IF t = p.to THEN Append(channel[t], p.out) ELSE channel[t]
<1>1. PICK p \in putting : PutInChannel(p)
  BY DEF StreamPut
<1>2. ClientTypes /\ LoopTypes /\ putting # {}
  BY <1>1, TypeParts DEF EngineInv
<1>3. Streaming /\ putting = {p} /\ inHand = {}
  BY <1>2 DEF EngineInv, LoopInPlace
<1> QED BY <1>1, <1>2, <1>3, PutFacts

(* What is about to be put was so already, or has just been looked up: the  *)
(* final output in hand, or a partial one.                                  *)
LEMMA PutMoves ==
  ASSUME EngineInv, [Next]_vars, NEW p \in putting'
  PROVE  \/ p \in putting /\ ~StreamPut
         \/ \E h \in inHand :
              /\ StreamLookup /\ Streaming /\ h.out \in Outputs /\ h.req \in DOMAIN outQueue
              /\ p = [to |-> outQueue[h.req], out |-> h.out]
         \/ \E r \in Requests :
              /\ StreamChunk(r) /\ Streaming /\ r \in Known /\ owner[r] \in Tasks
              /\ Output("chunk", owner[r]) \in Outputs /\ r \in DOMAIN outQueue
              /\ p = [to |-> outQueue[r], out |-> Output("chunk", owner[r])]
<1>1. CASE StreamLookup
  <2>1. PICK h \in inHand : LookUpQueue(h.req, h.out)
    BY <1>1 DEF StreamLookup
  <2>2. Streaming /\ h.out \in Outputs
    BY <2>1 DEF EngineInv, LoopInPlace, EngineTypeOK
  <2> QED BY <1>1, <2>1, <2>2 DEF LookUpQueue
<1>2. ASSUME NEW r \in Requests, StreamChunk(r)
      PROVE  /\ Streaming /\ r \in Known /\ owner[r] \in Tasks
             /\ Output("chunk", owner[r]) \in Outputs /\ r \in DOMAIN outQueue
             /\ p = [to |-> outQueue[r], out |-> Output("chunk", owner[r])]
  <2>1. r \in running /\ Streaming /\ LookUpQueue(r, Output("chunk", owner[r]))
    BY <1>2 DEF StreamChunk, EngineInv, LoopInPlace
  <2>2. r \in Known /\ owner[r] \in Tasks
    BY <2>1, BatchKnown DEF EngineInv, OwnersKnown
  <2>3. Output("chunk", owner[r]) \in Outputs
    BY <2>2, OutputTypes DEF EngineOutputKinds
  <2> QED BY <2>1, <2>2, <2>3 DEF LookUpQueue
<1>3. StreamPut => putting' = {}
  BY DEF StreamPut
<1> QED BY <1>1, <1>2, <1>3, WhoDelivers DEF IdleSchedule, Update, DeliverResult, StreamFinalize

LEMMA PutsInPlaceKept == EngineInv /\ [Next]_vars => PutsInPlace'
<1> SUFFICES ASSUME EngineInv, [Next]_vars, NEW p \in putting'
             PROVE  task'[p.to] # "new"
  BY DEF PutsInPlace
<1>1. ClientTypes /\ LoopTypes
  BY TypeParts DEF EngineInv
<1>2. p.to \in Tasks /\ task[p.to] # "new"
  BY <1>1, PutMoves DEF LoopTypes, ClientTypes, EngineInv, PutsInPlace, QueueInPlace
<1> QED BY <1>2, StaysStarted

LEMMA AnswersInPlaceKept == EngineInv /\ [Next]_vars => AnswersInPlace'
<1> DEFINE Answer(t) == /\ task[t] = "new" => posted[t] = {} /\ channel[t] = << >>
                        /\ posted[t] # {} => /\ \E out \in Outputs : posted[t] = {out}
                                             /\ future[t].kind \in {"pending", "cancelled"}
                        /\ Streaming => posted[t] = {}
                        /\ ~Streaming => channel[t] = << >>
<1> SUFFICES ASSUME EngineInv, [Next]_vars, NEW t \in Tasks
             PROVE  Answer(t)'
  BY DEF AnswersInPlace
<1>1. /\ ClientTypes /\ QueueInPlace /\ AnswersInPlace
      /\ task'[t] = "new" => task[t] = "new"
  BY TypeParts, StaysStarted DEF EngineInv
<1>2. ASSUME posted'[t] = posted[t], channel'[t] = channel[t],
             future'[t] = future[t] \/ future'[t].kind \in {"pending", "cancelled"}
      PROVE  Answer(t)'
  BY <1>1, <1>2 DEF AnswersInPlace
<1>3. ASSUME NEW u \in Tasks, TaskAdd(u)
      PROVE  Answer(t)'
  <2>1. posted' = posted /\ channel' = channel
    BY <1>3 DEF TaskAdd
  <2>2. \/ future' = future
        \/ future' = [future EXCEPT ![u] = Output("pending", u)]
    BY <1>3 DEF TaskAdd
  <2>3. future'[t] = future[t] \/ future'[t].kind = "pending"
    BY <1>1, <2>2 DEF ClientTypes, Output
  <2> QED BY <1>2, <2>1, <2>3
<1>4. ASSUME NEW u \in Tasks, TaskLookup(u) \/ StreamCleanup(u) \/ CancelAndAbort(u)
      PROVE  Answer(t)'
  <2>1. posted' = posted /\ channel' = channel
    BY <1>4 DEF TaskLookup, StreamCleanup, CancelAndAbort
  <2>2. \/ future' = future
        \/ future' = [future EXCEPT ![u] = Output("cancelled", u)]
    BY <1>4 DEF TaskLookup, StreamCleanup, CancelAndAbort
  <2>3. future'[t] = future[t] \/ future'[t].kind = "cancelled"
    BY <1>1, <2>2 DEF ClientTypes, Output
  <2> QED BY <1>2, <2>1, <2>3
<1>5. ASSUME NEW u \in Tasks, RunCallback(u)
      PROVE  Answer(t)'
  <2>1. PICK out \in posted[u] :
          /\ posted' = [posted EXCEPT ![u] = @ \ {out}]
          /\ future' = [future EXCEPT ![u] = IF @.kind = "pending" THEN out ELSE @]
    BY <1>5 DEF RunCallback
  <2>2. channel' = channel
    BY <1>5 DEF RunCallback
  <2>3. CASE t # u
    <3>1. posted'[t] = posted[t] /\ future'[t] = future[t]
      BY <1>1, <2>1, <2>3 DEF ClientTypes
    <3> QED BY <1>2, <2>2, <3>1
  <2>4. CASE t = u
    <3>1. posted'[t] = {}
      BY <1>1, <2>1, <2>4 DEF ClientTypes, AnswersInPlace
    <3> QED BY <1>1, <2>2, <3>1 DEF AnswersInPlace
  <2> QED BY <2>3, <2>4
<1>6. ASSUME NEW u \in Tasks, StreamNext(u)
      PROVE  Answer(t)'
  <2>1. task[u] = "waiting" /\ channel[u] # << >> /\ posted' = posted
    BY <1>6 DEF StreamNext
  <2>2. Streaming /\ posted'[t] = {}
    BY <1>1, <2>1 DEF AnswersInPlace
  <2>3. t # u => channel'[t] = channel[t]
    BY <1>1, <1>6 DEF StreamNext, ClientTypes
  <2> QED BY <1>1, <2>1, <2>2, <2>3 DEF AnswersInPlace
<1>7. CASE CloseBegin
  <2>1. posted' = posted
    BY <1>7 DEF CloseBegin
  <2>2. CASE closed
    BY <1>2, <1>7, <2>1, <2>2 DEF CloseBegin
  <2>3. CASE ~closed
    <3>1. CASE ~Evicted(t)
      BY <1>1, <1>2, <1>7, <2>1, <2>3, <3>1, CloseBeginFacts
    <3>2. CASE Evicted(t)
      <4>1. posted[t] = {} /\ task[t] # "new"
        BY <1>1, <3>2 DEF Evicted, QueueInPlace
      <4>2. ~Streaming => channel'[t] = channel[t]
        BY <1>1, <1>7, <2>3, CloseBeginFacts
      <4> QED BY <1>1, <2>1, <4>1, <4>2 DEF AnswersInPlace
    <3> QED BY <3>1, <3>2
  <2> QED BY <2>2, <2>3
<1>8. CASE StreamPut
  <2>1. posted' = posted
    BY <1>8 DEF StreamPut
  <2>2. Streaming /\ (task[t] = "new" => channel'[t] = channel[t])
    BY <1>1, <1>8, StreamPutFacts DEF EngineInv, PutsInPlace
  <2> QED BY <1>1, <2>1, <2>2 DEF AnswersInPlace
<1>10. ASSUME NEW r \in Requests, DeliverResult(r)
       PROVE  Answer(t)'
  <2>1. channel' = channel /\ future' = future /\ ~Streaming
    BY <1>10 DEF DeliverResult
  <2>2. CASE posted'[t] = posted[t]
    BY <1>2, <2>1, <2>2
  <2>3. CASE posted'[t] # posted[t]
    <3>1. /\ r \in DOMAIN outQueue /\ t = outQueue[r] /\ future[t].kind = "pending"
          /\ posted'[t] = posted[t] \cup {FinalOutput(r)} /\ r \in Known
      BY <1>10, <2>3, DeliverFacts DEF Skipped, Answered, PopRequestState
    <3>2. posted'[t] = {FinalOutput(r)} /\ FinalOutput(r) \in Outputs /\ task[t] # "new"
      BY <1>1, <3>1, FinalOutputFacts DEF QueueInPlace
    <3> QED BY <1>1, <2>1, <3>1, <3>2 DEF AnswersInPlace
  <2> QED BY <2>2, <2>3
<1>11. ASSUME posted' = posted, channel' = channel, future' = future
       PROVE  Answer(t)'
  BY <1>2, <1>11
<1>12. ASSUME NEW r \in Requests, StreamFinalize(r)
       PROVE  Answer(t)'
  BY <1>11, <1>12 DEF StreamFinalize
<1>13. CASE CloseFinish \/ UNCHANGED clientVars
  BY <1>11, <1>13 DEF CloseFinish, clientVars
<1> HIDE DEF Answer
<1> QED
  BY <1>3, <1>4, <1>5, <1>6, <1>7, <1>8, <1>10, <1>12, <1>13, WhoTouchesClients

LEMMA ClosedInPlaceKept == EngineInv /\ [Next]_vars => ClosedInPlace'
<1> SUFFICES ASSUME EngineInv, [Next]_vars PROVE ClosedInPlace'
  OBVIOUS
<1>1. ClosedInPlace /\ ClientTypes
  BY TypeParts DEF EngineInv
<1>2. closed => closed'
  BY <1>1, WhoOpensAndCloses DEF StartLoop, CloseBegin, CloseFinish, CloseDefer, lifeVars
<1>3. (closed => DOMAIN outQueue = {})'
  <2>1. CASE CloseBegin
    <3>1. CASE closed
      BY <1>1, <2>1, <3>1 DEF CloseBegin, ClosedInPlace
    <3>2. CASE ~closed
      BY <1>1, <2>1, <3>2, CloseBeginFacts
    <3> QED BY <3>1, <3>2
  <2>2. CASE ~CloseBegin
    <3>1. closed' = closed
      BY <2>2, WhoOpensAndCloses DEF StartLoop, CloseFinish, CloseDefer, lifeVars
    <3>2. ASSUME closed, NEW t \in Tasks,
                 \/ TaskAdd(t) \/ TaskLookup(t) \/ RunCallback(t) \/ StreamNext(t)
                 \/ CancelAndAbort(t) \/ StreamCleanup(t)
          PROVE  DOMAIN outQueue' \subseteq DOMAIN outQueue
      <4>1. outQueue' = outQueue \/ ForgetQueue(t)
        BY <3>2 DEF TaskAdd, TaskLookup, RunCallback, StreamNext, CancelAndAbort, StreamCleanup
      <4> QED BY <1>1, <4>1, ForgetQueueFacts
    <3>3. ASSUME NEW r \in Requests, DeliverResult(r) \/ StreamFinalize(r)
          PROVE  DOMAIN outQueue' \subseteq DOMAIN outQueue
      BY <3>3, DeliverFacts DEF StreamFinalize, Skipped, Answered
    <3> QED BY <1>1, <2>2, <3>1, <3>2, <3>3, WhoTouchesClients
            DEF ClosedInPlace, CloseFinish, StreamPut, clientVars
  <2> QED BY <2>1, <2>2
<1>4. (shutdown => ThreadDead /\ Known = {})'
  <2>1. CASE CloseFinish
    BY <2>1 DEF CloseFinish, SchedulerClose, Known, ThreadDead
  <2>2. CASE ~CloseFinish
    <3>1. shutdown' = shutdown
      BY <2>2, WhoOpensAndCloses DEF StartLoop, CloseBegin, CloseDefer, lifeVars
    <3>2. ASSUME shutdown
          PROVE  ThreadDead' /\ Known' = {}
      <4>1. closed /\ ThreadDead /\ Known = {}
        BY <1>1, <3>2 DEF ClosedInPlace
      <4>2. ThreadDead'
        BY <4>1, LoopSteps DEF ThreadDead
      <4>3. ASSUME NEW t \in Tasks, TaskAdd(t)
            PROVE  Known' = Known
        BY <4>1, <4>3, SchedulerFrame DEF TaskAdd
      <4> QED BY <2>2, <4>1, <4>2, <4>3, WhoRegisters
              DEF ThreadDead, DeliverResult, StreamFinalize
    <3> QED BY <3>1, <3>2
  <2> QED BY <2>1, <2>2
<1>5. (closer = "joining" \/ shutdown => closed)'
  BY <1>1, <1>2, WhoOpensAndCloses
  DEF ClosedInPlace, StartLoop, CloseBegin, CloseFinish, CloseDefer, lifeVars
<1>6. (~loopStarted /\ ~closed => loop = "off")'
  <2>1. CASE StartLoop
    BY <2>1 DEF StartLoop
  <2>2. CASE CloseFinish
    BY <1>1, <1>2, <2>2 DEF ClosedInPlace, CloseFinish
  <2>3. CASE ~StartLoop /\ ~CloseFinish
    <3>1. loopStarted' = loopStarted
      BY <2>3, WhoOpensAndCloses DEF CloseBegin, CloseDefer, lifeVars
    <3>2. loop = "off" => loop' = "off"
      BY <2>3, WhoMovesLoop
      DEF LoopTop, AbortsDone, RpcReply, RpcsDone, IdleStop, IdleDrain, IdleSchedule, Execute,
          Update, DeliverDone, LoopExits, EngineInv, RpcInPlace
    <3> QED BY <1>1, <1>2, <3>1, <3>2 DEF ClosedInPlace
  <2> QED BY <2>1, <2>2, <2>3
<1> QED BY <1>3, <1>4, <1>5, <1>6 DEF ClosedInPlace

(* While a batch is out, requests join and are aborted, but the output the  *)
(* runner works on and the progress of its members do not change.           *)
LEMMA DuringCycle ==
  ASSUME EngineInv, [Next]_vars, loop \in Cycle, loop' \in Cycle
  PROVE  /\ schedOutput' = schedOutput /\ Scheduled' = Scheduled
         /\ \A r \in Known : r \in DOMAIN progress =>
              r \in DOMAIN progress' /\ progress'[r] = progress[r]
<1> DEFINE Same == /\ schedOutput' = schedOutput /\ Scheduled' = Scheduled
                   /\ \A r \in Known : r \in DOMAIN progress =>
                        r \in DOMAIN progress' /\ progress'[r] = progress[r]
<1>1. ASSUME NEW t \in Tasks, TaskAdd(t)
      PROVE  Same
  <2>1. CASE Refused(t)
    BY <2>1, SchedulerFrame DEF Refused
  <2>2. CASE Added(t)
    BY <2>2, AddFacts DEF Added
  <2> QED BY <1>1, <2>1, <2>2, TaskAddFacts
<1>2. ASSUME NEW r \in Requests, DrainAbort(r)
      PROVE  Same
  <2>1. CASE FinishRequest(r, "FINISHED_ABORTED")
    BY <2>1, FinishFacts
  <2> QED BY <1>2, <2>1, SchedulerFrame DEF DrainAbort
<1>3. ~IdleSchedule /\ ~Update /\ ~CloseFinish
  BY DEF IdleSchedule, Update, CloseFinish, ThreadDead, Cycle, Reported
<1>4. \A r \in Requests : ~DeliverResult(r) /\ ~StreamFinalize(r)
  BY DEF DeliverResult, StreamFinalize, Cycle, Reported
<1>5. UNCHANGED schedulerVars => Same
  BY SchedulerFrame
<1> QED BY <1>1, <1>2, <1>3, <1>4, <1>5, WhoUsesScheduler

LEMMA OutputsPossibleKept == EngineInv /\ [Next]_vars => OutputsPossible'
<1> SUFFICES ASSUME EngineInv, [Next]_vars, loop' \in Reported
             PROVE  runnerOutput' \in RunnerOutputs'
  BY DEF OutputsPossible
<1>1. loop \in Cycle /\ loop' \in Cycle
  BY LoopSteps DEF Cycle, Execute
<1>2. \A r \in Scheduled : StepMode => r \in DOMAIN progress
  BY BatchKnown DEF EngineInv, SchedulerInv, ProgressCoversStates
<1>3. \A r \in Scheduled : PossibleOutput(r)' = PossibleOutput(r)
  BY <1>1, <1>2, DuringCycle, BatchKnown DEF PossibleOutput
<1>4. RunnerOutputs' = RunnerOutputs
  <2>1. Scheduled' = Scheduled
    BY <1>1, DuringCycle
  <2> QED BY <1>3, <2>1 DEF RunnerOutputs
<1>5. CASE Execute
  BY <1>4, <1>5, ExecuteFacts
<1>6. CASE ~Execute
  <2>1. loop \in Reported /\ runnerOutput' = runnerOutput
    BY <1>1, <1>6, LoopSteps, WhoUsesRunner
    DEF DeliverDone, CloseFinish, loopVars, Cycle, Reported
  <2> QED BY <1>4, <2>1 DEF EngineInv, OutputsPossible
<1> QED BY <1>5, <1>6

(* Between two cycles members of the batch leave it but none joins or makes *)
(* a step.                                                                  *)
LEMMA BetweenCycles ==
  ASSUME EngineInv, [Next]_vars, loop \notin Cycle, loop' \notin Cycle
  PROVE  /\ running' \subseteq running
         /\ \A r \in running' : r \in DOMAIN progress =>
              r \in DOMAIN progress' /\ progress'[r] = progress[r]
<1> DEFINE Same == /\ running' \subseteq running
                   /\ \A r \in running' : r \in DOMAIN progress =>
                        r \in DOMAIN progress' /\ progress'[r] = progress[r]
<1>1. ASSUME NEW t \in Tasks, TaskAdd(t)
      PROVE  Same
  <2>1. CASE Refused(t)
    BY <2>1, SchedulerFrame DEF Refused
  <2>2. CASE Added(t)
    BY <2>2, AddFacts, BatchKnown DEF Added
  <2> QED BY <1>1, <2>1, <2>2, TaskAddFacts
<1>2. ASSUME NEW r \in Requests, DrainAbort(r)
      PROVE  Same
  <2>1. CASE FinishRequest(r, "FINISHED_ABORTED")
    BY <2>1, FinishFacts
  <2> QED BY <1>2, <2>1, SchedulerFrame DEF DrainAbort
<1>3. ASSUME NEW r \in Requests, DeliverResult(r) \/ StreamFinalize(r)
      PROVE  Same
  <2>1. CASE PopRequestState(r)
    BY <2>1, PopFacts, BatchKnown
  <2> QED BY <1>3, <2>1, SchedulerFrame DEF DeliverResult, StreamFinalize
<1>4. CASE CloseFinish
  BY <1>4 DEF CloseFinish, SchedulerClose
<1>5. ~IdleSchedule /\ ~Update
  BY ScheduleFacts DEF Update, Cycle, Reported
<1>6. UNCHANGED schedulerVars => Same
  BY SchedulerFrame
<1> QED BY <1>1, <1>2, <1>3, <1>4, <1>5, <1>6, WhoUsesScheduler

LEMMA CacheInStepKept == EngineInv /\ [Next]_vars => CacheInStep'
<1> SUFFICES ASSUME EngineInv, [Next]_vars, StepMode PROVE CacheInStep'
  BY DEF CacheInStep
<1>1. /\ CacheInStep /\ DOMAIN progress = Known
      /\ running \subseteq Known /\ Scheduled \subseteq Known
  BY BatchKnown DEF EngineInv, SchedulerInv, ProgressCoversStates
<1>2. CASE loop' = "execute"
  <2>1. CASE IdleSchedule
    <3>1. stateCache' = stateCache /\ loop = "idle"
      BY <2>1 DEF IdleSchedule
    <3>2. schedOutput'.cached = running /\ progress' = progress
      BY <2>1, ScheduleFacts
    <3> QED BY <1>1, <1>2, <3>1, <3>2 DEF CacheInStep, Cycle, Reported
  <2>2. CASE ~IdleSchedule
    <3>1. loop = "execute" /\ ~Execute
      BY <1>2, <2>2, LoopSteps DEF Execute
    <3>2. stateCache' = stateCache
      BY <3>1, WhoUsesRunner DEF DeliverDone, CloseFinish, ThreadDead
    <3>3. schedOutput' = schedOutput /\ schedOutput.cached \subseteq Known
      BY <1>1, <1>2, <3>1, DuringCycle DEF Cycle, Scheduled
    <3>4. \A r \in Known : r \in DOMAIN progress' /\ progress'[r] = progress[r]
      BY <1>1, <1>2, <3>1, DuringCycle DEF Cycle
    <3> QED BY <1>1, <1>2, <3>1, <3>2, <3>3, <3>4 DEF CacheInStep, Cycle, Reported
  <2> QED BY <2>1, <2>2
<1>3. CASE loop' \in Reported
  <2>1. loop \in Cycle /\ loop' \in Cycle
    BY <1>3, LoopSteps DEF Cycle, Execute
  <2>2. Scheduled' = Scheduled
    BY <2>1, DuringCycle
  <2>3. CASE Execute
    BY <1>3, <2>2, <2>3, ExecuteFacts DEF CacheInStep, Cycle, Reported
  <2>4. CASE ~Execute
    <3>1. loop \in Reported /\ runnerOutput' = runnerOutput /\ stateCache' = stateCache
      BY <1>3, <2>1, <2>4, LoopSteps, WhoUsesRunner
      DEF DeliverDone, CloseFinish, ThreadDead, Cycle, Reported
    <3> QED BY <1>1, <1>3, <2>2, <3>1 DEF CacheInStep, Cycle, Reported
  <2> QED BY <2>3, <2>4
<1>4. CASE loop' \notin Cycle \cup {"crashed"}
  <2> SUFFICES ASSUME NEW r \in running'
               PROVE  r \in DOMAIN stateCache' /\ stateCache'[r] = progress'[r]
    BY <1>4 DEF CacheInStep, Cycle
  <2>1. CASE Update
    <3>1. r \in running \ Ended(runnerOutput) /\ stateCache' = stateCache
      BY <2>1, UpdateFacts DEF Update
    <3>2. /\ r \in Scheduled /\ r \in Live(Scheduled)
          /\ runnerOutput[r].kind \in {"step", "chunk"}
      BY <2>1, <3>1, ContinuedFacts
    <3>3. r \in DOMAIN stateCache /\ stateCache[r] = runnerOutput[r].step
      BY <1>1, <2>1, <3>2 DEF Update, CacheInStep, Reported
    <3>4. progress'[r] = runnerOutput[r].step
      BY <1>1, <2>1, <3>2 DEF Update, UpdateFromOutput, Advances, NewStep
    <3> QED BY <3>1, <3>3, <3>4
  <2>2. CASE ~Update
    <3>1. loop \notin Cycle \cup {"crashed"}
      BY <1>4, <2>2, LoopSteps DEF Cycle, Reported, Execute
    <3>2. r \in running /\ progress'[r] = progress[r]
      BY <1>1, <1>4, <3>1, BetweenCycles
    <3>3. stateCache' = stateCache
      <4>1. ~CloseFinish
        BY DEF CloseFinish, SchedulerClose
      <4> QED BY <3>1, <4>1, WhoUsesRunner DEF Execute, DeliverDone, Cycle
    <3> QED BY <1>1, <3>1, <3>2, <3>3 DEF CacheInStep
  <2> QED BY <2>1, <2>2
<1>5. CASE loop' = "crashed"
  BY <1>5 DEF CacheInStep, Cycle, Reported
<1> QED BY <1>2, <1>3, <1>4, <1>5 DEF Cycle

LEMMA EngineInvNext == EngineInv /\ [Next]_vars => EngineInv'
<1> SUFFICES ASSUME EngineInv, [Next]_vars PROVE EngineInv'
  OBVIOUS
<1>1. EngineTypeOK' /\ SchedulerInv'
  BY TypesKept, EngineKeepsScheduler
<1>2. (RpcInPlace /\ LoopInPlace /\ BatchInPlace /\ OwnersKnown)'
  BY RpcInPlaceKept, LoopInPlaceKept, BatchInPlaceKept, OwnersKnownKept
<1>3. (QueueInPlace /\ AnswersInPlace /\ PutsInPlace /\ ClosedInPlace)'
  BY QueueInPlaceKept, AnswersInPlaceKept, PutsInPlaceKept, ClosedInPlaceKept
<1>4. (OutputsPossible /\ CacheInStep)'
  BY OutputsPossibleKept, CacheInStepKept
<1> QED BY <1>1, <1>2, <1>3, <1>4 DEF EngineInv

-----------------------------------------------------------------------------
(* What holds of the engine for every value of the constants.               *)

(* The inductive invariant holds of every behaviour of the engine.          *)
THEOREM EngineInvAlways == Spec => []EngineInv
  BY EngineInit, EngineInvNext, PTL DEF Spec

(* Every variable of the engine always has its type.                        *)
THEOREM EngineTypeCorrect == Spec => []EngineTypeOK
<1>1. EngineInv => EngineTypeOK
  BY DEF EngineInv
<1> QED BY <1>1, EngineInvAlways, PTL

(* After close() has released the scheduler and the executor, the worker    *)
(* thread is dead, no request is known or waited for, and no RPC is being   *)
(* worked on: whatever raced with the two halves of close(), nobody uses    *)
(* what was released.                                                       *)
THEOREM ClosedAlwaysQuiet == Spec => []ClosedMeansQuiet
<1>1. EngineInv => ClosedMeansQuiet
  BY DEF EngineInv, ClosedInPlace, RpcInPlace, ClosedMeansQuiet, ThreadDead
<1> QED BY <1>1, EngineInvAlways, PTL

(* The engine uses its scheduler as the scheduler's protocol demands:       *)
(* schedule() and update_from_output() alternate, a request is popped only  *)
(* when it has ended and is not in the batch, and outputs count steps one   *)
(* by one.  What is proved of the scheduler under any legal caller          *)
(* therefore holds inside the engine.                                       *)
THEOREM EngineRespectsProtocol == Spec => SchedulerSpec
<1>1. Init => SchedulerInit
  BY DEF Init
<1> QED BY <1>1, EngineStep, EngineInvAlways, PTL DEF Spec, SchedulerSpec

(* So the engine as a whole implements the lifecycle contract of the        *)
(* scheduler interface, ...                                                 *)
THEOREM EngineImplementsLifecycle == Spec => LifecycleSpec
  BY EngineRespectsProtocol, SchedulerImplementsLifecycle, PTL

(* ... and a verdict once given is not changed by late outputs or aborts.   *)
THEOREM EngineKeepsVerdicts == Spec => VerdictIsFinal
  BY EngineRespectsProtocol, VerdictsAreFinal, PTL

(* An answer is posted to the event loop once and only while the future has *)
(* none: at most one party completes it, the busy loop or close().          *)
CompletedOnce ==
  \A t \in Tasks :
    Cardinality(posted[t]) + (IF future[t].kind \in EngineOutputKinds THEN 1 ELSE 0) <= 1

LEMMA CompletedFacts == EngineInv => CompletedOnce
<1> SUFFICES ASSUME EngineInv, NEW t \in Tasks
             PROVE  Cardinality(posted[t])
                      + (IF future[t].kind \in EngineOutputKinds THEN 1 ELSE 0) <= 1
  BY DEF CompletedOnce
<1>1. AnswersInPlace
  BY DEF EngineInv
<1>2. CASE posted[t] = {}
  <2>1. Cardinality(posted[t]) = 0
    BY <1>2, FS_EmptySet
  <2> QED BY <2>1
<1>3. CASE posted[t] # {}
  <2>1. PICK out \in Outputs : posted[t] = {out}
    BY <1>1, <1>3 DEF AnswersInPlace
  <2>2. Cardinality(posted[t]) = 1
    BY <2>1, FS_Singleton
  <2>3. future[t].kind \notin EngineOutputKinds
    BY <1>1, <1>3 DEF AnswersInPlace, EngineOutputKinds
  <2> QED BY <2>2, <2>3
<1> QED BY <1>2, <1>3

(* No future is ever completed by two parties, streaming or not, whatever   *)
(* ids are used.                                                            *)
THEOREM AlwaysCompletedOnce == Spec => []CompletedOnce
  BY CompletedFacts, EngineInvAlways, PTL

-----------------------------------------------------------------------------
(* The runner's cache.                                                      *)

(* A request sent with its payload has no state in the cache, but for an    *)
(* earlier request of that id which the same output declares ended.         *)
NewNotCached ==
  loop = "execute" /\ StepMode =>
    \A r \in schedOutput.new : r \in DOMAIN stateCache => r \in schedOutput.finished

CacheInv == NoOrphanState /\ NewNotCached /\ (~StepMode => DOMAIN stateCache = {})

(* What was sent by id is in the cache, at the step the scheduler has:      *)
(* whatever failed before.                                                  *)
CachedInStep ==
  loop = "execute" /\ StepMode =>
    /\ schedOutput.cached \subseteq DOMAIN CacheKept
    /\ \A r \in schedOutput.cached : CacheKept[r] = progress[r]

LEMMA CachedFacts == EngineInv => CachedInStep
<1> SUFFICES ASSUME EngineInv, loop = "execute", StepMode
             PROVE  /\ schedOutput.cached \subseteq DOMAIN CacheKept
                    /\ \A r \in schedOutput.cached : CacheKept[r] = progress[r]
  BY DEF CachedInStep
<1>1. CacheInStep /\ CachedNotFinished
  BY DEF EngineInv, SchedulerInv
<1> QED BY <1>1, LoadedFacts DEF CacheInStep, CachedNotFinished

(* When every step reads the scheduler's output, what it leaves in the      *)
(* cache belongs to the batch.                                              *)
LEMMA ExecuteLeaves ==
  ASSUME EngineInv, CacheInv, ~EarlyFailures, StepMode, Execute
  PROVE  DOMAIN stateCache' \subseteq running
<1>1. /\ loop = "execute" /\ running = Scheduled /\ finishedReqIds = {}
      /\ schedOutput.new \subseteq Scheduled
  BY DEF Execute, EngineInv, BatchInPlace, Scheduled
<1>2. /\ DOMAIN CacheKept = DOMAIN stateCache \ schedOutput.finished
      /\ DOMAIN CacheLoaded = DOMAIN CacheKept \cup schedOutput.new
  BY <1>1, LoadedFacts
<1>3. DOMAIN CacheKept \subseteq running /\ DOMAIN CacheLoaded \subseteq running
  BY <1>1, <1>2 DEF CacheInv, NoOrphanState
<1>4. CASE StepSucceeds
  BY <1>3, <1>4 DEF StepSucceeds
<1>5. CASE StepFails
  <2>1. \/ stateCache' = Keep(CacheKept, DOMAIN CacheKept \ schedOutput.new)
        \/ stateCache' = CacheLoaded
        \/ stateCache' = Keep(CacheLoaded, DOMAIN CacheLoaded \ Scheduled)
    BY <1>5 DEF StepFails
  <2> QED BY <1>3, <2>1 DEF Keep
<1> QED BY <1>4, <1>5 DEF Execute

LEMMA CacheInvNext ==
  ASSUME EngineInv, CacheInv, ~EarlyFailures, [Next]_vars
  PROVE  CacheInv'
<1>1. NoOrphanState /\ NewNotCached
  BY DEF CacheInv
<1>2. (~StepMode => DOMAIN stateCache = {})'
  <2>1. CloseFinish => stateCache' = << >>
    BY DEF CloseFinish
  <2>2. (~StepMode /\ Execute) \/ DeliverDone => stateCache' = stateCache
    BY DEF Execute, RequestExecutes, DeliverDone
  <2> QED BY <2>1, <2>2, WhoUsesRunner DEF CacheInv
<1>3. CASE Execute
  <2>1. running' = running /\ loop' # "execute"
    BY <1>3, SchedulerFrame DEF Execute
  <2>2. DOMAIN stateCache' \subseteq running'
    BY <1>2, <1>3, <2>1, ExecuteLeaves, StepModeAssumption
  <2> QED BY <1>2, <2>1, <2>2 DEF CacheInv, NoOrphanState, NewNotCached
<1>4. CASE CloseFinish
  BY <1>2, <1>4 DEF CloseFinish, CacheInv, NoOrphanState, NewNotCached
<1>5. CASE stateCache' = stateCache
  <2>1. CASE IdleSchedule
    <3>1. loop = "idle"
      BY <2>1 DEF IdleSchedule
    <3>2. NoOrphanState'
      BY <1>1, <1>5, <2>1, <3>1, ScheduleFacts DEF NoOrphanState
    <3>3. NewNotCached'
      <4>1. \A r \in Admitted : r \notin running
        BY <2>1, ScheduleFacts, BatchKnown
      <4> QED BY <1>1, <1>5, <2>1, <3>1, <4>1, ScheduleFacts DEF NoOrphanState, NewNotCached
    <3> QED BY <1>2, <3>2, <3>3 DEF CacheInv
  <2>2. CASE Update
    <3>1. loop = "update" /\ loop' = "deliver"
      BY <2>2 DEF Update
    <3> QED BY <1>1, <1>2, <1>5, <2>2, <3>1, UpdateFacts
            DEF CacheInv, NoOrphanState, NewNotCached
  <2>3. CASE ~IdleSchedule /\ ~Update /\ ~Execute /\ ~CloseFinish
    <3>1. /\ schedOutput' = schedOutput
          /\ running \subseteq running' \cup finishedReqIds'
          /\ finishedReqIds \subseteq finishedReqIds'
      <4>1. ASSUME NEW t \in Tasks, TaskAdd(t)
            PROVE  /\ schedOutput' = schedOutput /\ running' = running
                   /\ finishedReqIds' = finishedReqIds
        <5>1. Refused(t) => UNCHANGED schedulerVars
          BY DEF Refused
        <5> QED BY <4>1, <5>1, TaskAddFacts, SchedulerFrame, AddFacts DEF Added
      <4>2. ASSUME NEW r \in Requests, DrainAbort(r)
            PROVE  /\ schedOutput' = schedOutput /\ running \subseteq running' \cup finishedReqIds'
                   /\ finishedReqIds \subseteq finishedReqIds'
        BY <4>2, FinishFacts, SchedulerFrame DEF DrainAbort
      <4>3. ASSUME NEW r \in Requests, DeliverResult(r) \/ StreamFinalize(r)
            PROVE  /\ schedOutput' = schedOutput /\ running' = running
                   /\ finishedReqIds' = finishedReqIds
        BY <4>3, PopFacts, SchedulerFrame DEF DeliverResult, StreamFinalize
      <4> QED BY <2>3, <4>1, <4>2, <4>3, SchedulerFrame, WhoUsesScheduler
    <3>2. (loop = "execute" => loop' = "execute") /\ (loop' = "execute" => loop = "execute")
      BY <2>3, LoopSteps
    <3>3. NoOrphanState'
      BY <1>1, <1>5, <3>1, <3>2 DEF NoOrphanState
    <3>4. NewNotCached'
      BY <1>1, <1>5, <3>1, <3>2 DEF NewNotCached
    <3> QED BY <1>2, <3>3, <3>4 DEF CacheInv
  <2>4. CASE Execute \/ CloseFinish
    BY <1>3, <1>4, <2>4
  <2> QED BY <2>1, <2>2, <2>3, <2>4
<1> QED BY <1>3, <1>4, <1>5, WhoUsesRunner DEF DeliverDone

LEMMA CacheInvAlways == ~EarlyFailures => (Spec => []CacheInv)
<1> SUFFICES ASSUME ~EarlyFailures PROVE Spec => []CacheInv
  OBVIOUS
<1>1. Init => CacheInv
  BY DEF Init, CacheInv, NoOrphanState, NewNotCached
<1>2. EngineInv /\ CacheInv /\ [Next]_vars => CacheInv'
  BY CacheInvNext
<1> QED BY <1>1, <1>2, EngineInvAlways, PTL DEF Spec

(* In step mode the runner always finds what it is sent by id in its cache, *)
(* at the step the scheduler has reached, even after steps that failed      *)
(* before they read their output.                                           *)
THEOREM CachedAlwaysInStep == Spec => []CachedInStep
  BY CachedFacts, EngineInvAlways, PTL

(* When no step fails before it has read the scheduler's output, the cache  *)
(* and the output agree at every step: no new request has a state yet,      *)
(* every other has one, and the step counts are equal.                      *)
THEOREM RunnerAlwaysInStep == ~EarlyFailures => (Spec => []RunnerInStep)
<1> SUFFICES ASSUME ~EarlyFailures PROVE Spec => []RunnerInStep
  OBVIOUS
<1>1. EngineInv /\ CacheInv => RunnerInStep
  <2> SUFFICES ASSUME EngineInv, CacheInv, loop = "execute", StepMode
               PROVE  PayloadsMatch /\ \A r \in schedOutput.cached : CacheKept[r] = progress[r]
    BY DEF RunnerInStep
  <2>1. schedOutput.new \cap DOMAIN CacheKept = {}
    BY LoadedFacts DEF CacheInv, NewNotCached
  <2> QED BY <2>1, CachedFacts DEF CachedInStep, PayloadsMatch
<1> QED BY <1>1, CacheInvAlways, EngineInvAlways, PTL

(* Under the same condition the runner keeps no state of a request that is  *)
(* gone: what is not running is on its way to the runner as ended.          *)
THEOREM NoOrphanStateEver == ~EarlyFailures => (Spec => []NoOrphanState)
<1> SUFFICES ASSUME ~EarlyFailures PROVE Spec => []NoOrphanState
  OBVIOUS
<1>1. CacheInv => NoOrphanState
  BY DEF CacheInv
<1> QED BY <1>1, CacheInvAlways, PTL

-----------------------------------------------------------------------------
(* What each task is given.                                                 *)

(* How the queue of a stream changes: its reader takes the head, close()    *)
(* appends its own answer, and the busy loop the output it looked the queue *)
(* up for.                                                                  *)
LEMMA ChannelMoves ==
  ASSUME EngineInv, [Next]_vars, NEW t \in Tasks
  PROVE  \/ channel'[t] = channel[t]
         \/ StreamNext(t) /\ channel[t] # << >> /\ channel'[t] = Tail(channel[t])
         \/ CloseBegin /\ ~closed /\ channel'[t] = Append(channel[t], Output("closed", t))
         \/ \E p \in putting :
              /\ StreamPut /\ Streaming /\ inHand = {} /\ p.to = t /\ p.out \in Outputs
              /\ channel'[t] = Append(channel[t], p.out)
<1>1. ClientTypes
  BY TypeParts DEF EngineInv
<1>2. ASSUME NEW u \in Tasks, StreamNext(u)
      PROVE  \/ channel'[t] = channel[t]
             \/ u = t /\ channel[t] # << >> /\ channel'[t] = Tail(channel[t])
  BY <1>1, <1>2 DEF StreamNext, ClientTypes
<1>3. ASSUME CloseBegin
      PROVE  \/ channel'[t] = channel[t]
             \/ ~closed /\ channel'[t] = Append(channel[t], Output("closed", t))
  <2>1. closed => channel' = channel
    BY <1>3 DEF CloseBegin
  <2> QED BY <1>1, <1>3, <2>1, CloseBeginFacts
<1>4. ASSUME StreamPut
      PROVE  \/ channel'[t] = channel[t]
             \/ \E p \in putting :
                  /\ Streaming /\ inHand = {} /\ p.to = t /\ p.out \in Outputs
                  /\ channel'[t] = Append(channel[t], p.out)
  BY <1>4, StreamPutFacts
<1>6. \A u \in Tasks :
        TaskAdd(u) \/ TaskLookup(u) \/ RunCallback(u) \/ CancelAndAbort(u) \/ StreamCleanup(u)
          => channel' = channel
  BY DEF TaskAdd, TaskLookup, RunCallback, CancelAndAbort, StreamCleanup
<1>7. \A r \in Requests : DeliverResult(r) \/ StreamFinalize(r) => channel' = channel
  BY DEF DeliverResult, StreamFinalize
<1>8. CloseFinish \/ UNCHANGED clientVars => channel' = channel
  BY DEF CloseFinish, clientVars
<1> QED BY <1>2, <1>3, <1>4, <1>6, <1>7, <1>8, WhoTouchesClients

(* How the callbacks posted for a task change.                              *)
LEMMA PostedMoves ==
  ASSUME EngineInv, [Next]_vars, NEW t \in Tasks
  PROVE  \/ posted'[t] \subseteq posted[t]
         \/ \E r \in Requests :
              /\ DeliverResult(r) /\ ~Streaming /\ r \in Known
              /\ r \in DOMAIN outQueue /\ outQueue[r] = t
              /\ posted'[t] = posted[t] \cup {FinalOutput(r)}
<1>1. ClientTypes
  BY TypeParts DEF EngineInv
<1>2. ASSUME NEW u \in Tasks, RunCallback(u)
      PROVE  posted'[t] \subseteq posted[t]
  BY <1>1, <1>2 DEF RunCallback, ClientTypes
<1>3. ASSUME NEW r \in Requests, DeliverResult(r)
      PROVE  \/ posted'[t] \subseteq posted[t]
             \/ /\ ~Streaming /\ r \in Known /\ r \in DOMAIN outQueue /\ outQueue[r] = t
                /\ posted'[t] = posted[t] \cup {FinalOutput(r)}
  <2>1. CASE Skipped(r)
    BY <2>1 DEF Skipped
  <2>2. CASE Answered(r)
    BY <1>3, <2>2 DEF Answered, DeliverResult, PopRequestState
  <2> QED BY <1>3, <2>1, <2>2, DeliverFacts
<1>4. \A u \in Tasks :
        TaskAdd(u) \/ TaskLookup(u) \/ StreamNext(u) \/ CancelAndAbort(u) \/ StreamCleanup(u)
          => posted' = posted
  BY DEF TaskAdd, TaskLookup, StreamNext, CancelAndAbort, StreamCleanup
<1>5. \A r \in Requests : StreamFinalize(r) => posted' = posted
  BY DEF StreamFinalize
<1>6. CloseBegin \/ CloseFinish \/ StreamPut \/ UNCHANGED clientVars => posted' = posted
  BY DEF CloseBegin, CloseFinish, StreamPut, clientVars
<1> QED BY <1>2, <1>3, <1>4, <1>5, <1>6, WhoTouchesClients

(* What a future may become.                                                *)
LEMMA FutureMoves ==
  ASSUME EngineInv, [Next]_vars, NEW t \in Tasks
  PROVE  \/ future'[t] = future[t]
         \/ TaskAdd(t) /\ future'[t] = Output("pending", t)
         \/ future'[t] = Output("cancelled", t)
         \/ CloseBegin /\ ~closed /\ ~Streaming /\ future'[t] = Output("closed", t)
         \/ ~Streaming /\ future'[t] \in posted[t]
         \/ /\ StreamNext(t) /\ channel[t] # << >> /\ Terminal(Head(channel[t]))
            /\ channel'[t] = Tail(channel[t]) /\ future'[t] = Head(channel[t])
<1> DEFINE Moves == \/ future'[t] = future[t]
                    \/ TaskAdd(t) /\ future'[t] = Output("pending", t)
                    \/ future'[t] = Output("cancelled", t)
                    \/ CloseBegin /\ ~closed /\ ~Streaming /\ future'[t] = Output("closed", t)
                    \/ ~Streaming /\ future'[t] \in posted[t]
                    \/ /\ StreamNext(t) /\ channel[t] # << >> /\ Terminal(Head(channel[t]))
                       /\ channel'[t] = Tail(channel[t]) /\ future'[t] = Head(channel[t])
<1>1. ClientTypes
  BY TypeParts DEF EngineInv
<1>2. future' = future => Moves
  OBVIOUS
<1>3. ASSUME NEW u \in Tasks, TaskAdd(u) \/ CancelAndAbort(u)
      PROVE  Moves
  <2>1. \/ future' = future
        \/ TaskAdd(u) /\ future' = [future EXCEPT ![u] = Output("pending", u)]
        \/ future' = [future EXCEPT ![u] = Output("cancelled", u)]
    BY <1>3 DEF TaskAdd, CancelAndAbort
  <2> QED BY <1>1, <2>1 DEF ClientTypes
<1>4. ASSUME NEW u \in Tasks, RunCallback(u)
      PROVE  Moves
  <2>1. ~Streaming
    BY <1>4 DEF RunCallback, EngineInv, AnswersInPlace
  <2> QED BY <1>1, <1>4, <2>1 DEF RunCallback, ClientTypes
<1>5. ASSUME NEW u \in Tasks, StreamNext(u)
      PROVE  Moves
  <2>1. \/ future' = future
        \/ /\ channel[u] # << >> /\ Terminal(Head(channel[u]))
           /\ channel' = [channel EXCEPT ![u] = Tail(@)]
           /\ future' = [future EXCEPT ![u] = Head(channel[u])]
    BY <1>5 DEF StreamNext
  <2> QED BY <1>1, <1>5, <2>1 DEF ClientTypes
<1>6. CASE CloseBegin
  <2>1. closed => future' = future
    BY <1>6 DEF CloseBegin
  <2> QED BY <1>1, <1>6, <2>1, CloseBeginFacts
<1>7. \A u \in Tasks : TaskLookup(u) \/ StreamCleanup(u) => future' = future
  BY DEF TaskLookup, StreamCleanup
<1>8. \A r \in Requests :
        DeliverResult(r) \/ StreamFinalize(r) => future' = future
  BY DEF DeliverResult, StreamFinalize
<1>9. CloseFinish \/ StreamPut \/ UNCHANGED clientVars => future' = future
  BY DEF CloseFinish, StreamPut, clientVars
<1> HIDE DEF Moves
<1> QED BY <1>2, <1>3, <1>4, <1>5, <1>6, <1>7, <1>8, <1>9, WhoTouchesClients DEF Moves

(* No id is used by two calls.                                              *)
IdsUnique == \A t, u \in Tasks : ReqId[t] = ReqId[u] => t = u

(* The output in hand is the last one of the call it came from, whose       *)
(* request the scheduler has forgotten.                                     *)
InHandInPlace ==
  \A h \in inHand : /\ h.req \notin Known /\ Terminal(h.out) /\ h.out.kind # "closed"
                    /\ ReqId[h.out.origin] = h.req /\ task[h.out.origin] # "new"

IsAnswered(t) == future[t].kind \in EngineOutputKinds

(* A stream that is still owed a final output has none, neither in its      *)
(* queue nor taken by its reader.                                           *)
StreamsOpen ==
  \A r \in DOMAIN outQueue :
    r \in Known \/ (\E h \in inHand : h.req = r) =>
      /\ \A i \in 1..Len(channel[outQueue[r]]) : ~Terminal(channel[outQueue[r]][i])
      /\ ~IsAnswered(outQueue[r])

(* What is about to be put in a queue is not the answer of close(), which   *)
(* is all that the queue may have got since it was looked up; and a final   *)
(* output is the last of its request.                                       *)
PutsInOrder ==
  \A p \in putting :
    LET queue == channel[p.to]
    IN  /\ p.out.kind # "closed"
        /\ Terminal(p.out) => ReqId[p.to] \notin Known
        /\ \A i \in 1..Len(queue) :
             Terminal(queue[i]) => queue[i].kind = "closed" /\ i = Len(queue)
        /\ IsAnswered(p.to) => future[p.to].kind = "closed" /\ queue = << >>

(* What has been put and taken is in the order that AnsweredOnce states,    *)
(* and nobody is told "closed" before close().                              *)
InOrder(queue) ==
  /\ \A i, j \in 1..Len(queue) : i < j => Follows(queue[i], queue[j])
  /\ \A i \in 1..Len(queue) : queue[i].kind = "closed" => closed /\ Len(queue) <= i + 1

TakenInOrder(out, queue) ==
  /\ out.kind \in EngineOutputKinds => \A i \in 1..Len(queue) : Follows(out, queue[i])
  /\ out.kind = "closed" => closed /\ Len(queue) <= 1

StreamsInOrder ==
  Streaming => \A t \in Tasks : InOrder(channel[t]) /\ TakenInOrder(future[t], channel[t])

OwnInv == OwnOutputsOnly /\ StreamsInOrder /\ PutsInOrder /\ InHandInPlace /\ StreamsOpen

LEMMA InHandKept ==
  ASSUME EngineInv, InHandInPlace, ~Streaming \/ IdsUnique, [Next]_vars
  PROVE  InHandInPlace'
<1> SUFFICES ASSUME NEW h \in inHand'
             PROVE  /\ h.req \notin Known' /\ Terminal(h.out) /\ h.out.kind # "closed"
                    /\ ReqId[h.out.origin] = h.req /\ task'[h.out.origin] # "new"
  BY DEF InHandInPlace, Terminal
<1>1. CASE \E r \in Requests : StreamFinalize(r)
  <2>1. PICK r \in Requests : StreamFinalize(r)
    BY <1>1
  <2>2. PopRequestState(r) /\ h = [req |-> r, out |-> FinalOutput(r)]
    BY <2>1 DEF StreamFinalize
  <2>3. r \in Known /\ r \notin Known'
    BY <2>2, PopFacts
  <2>4. /\ Terminal(FinalOutput(r)) /\ FinalOutput(r).kind # "closed"
        /\ FinalOutput(r).origin = owner[r]
    BY <2>3, FinalOutputFacts
  <2>5. owner[r] \in Tasks /\ ReqId[owner[r]] = r /\ task[owner[r]] # "new"
    BY <2>3 DEF EngineInv, OwnersKnown
  <2> QED BY <2>2, <2>3, <2>4, <2>5, StaysStarted
<1>2. CASE \A r \in Requests : ~StreamFinalize(r)
  <2>1. h \in inHand
    BY <1>2, WhoDelivers
    DEF IdleSchedule, Update, StreamLookup, StreamPut, DeliverResult, StreamChunk
  <2>2. loop = "deliver" /\ Streaming
    BY <2>1 DEF EngineInv, LoopInPlace
  <2>3. h.out.origin \in Tasks /\ h.req \in Requests
    BY <2>1 DEF EngineInv, EngineTypeOK, Outputs
  <2>4. /\ h.req \notin Known /\ Terminal(h.out) /\ h.out.kind # "closed"
        /\ ReqId[h.out.origin] = h.req /\ task[h.out.origin] # "new"
    BY <2>1 DEF InHandInPlace
  <2>5. h.req \notin Known'
    <3>1. ASSUME NEW t \in Tasks, TaskAdd(t)
          PROVE  h.req \notin Known'
      <4>1. CASE Refused(t)
        BY <2>4, <4>1, SchedulerFrame DEF Refused
      <4>2. CASE Added(t)
        <5>1. Known' = Known \cup {ReqId[t]}
          BY <4>2, AddFacts DEF Added
        <5>2. ReqId[t] # h.req
          BY <2>2, <2>3, <2>4, <3>1 DEF TaskAdd, IdsUnique
        <5> QED BY <2>4, <5>1, <5>2
      <4> QED BY <3>1, <4>1, <4>2, TaskAddFacts
    <3>2. \A r \in Requests : ~DeliverResult(r)
      BY <2>2 DEF DeliverResult
    <3>3. CloseFinish => Known' = {}
      BY DEF CloseFinish, SchedulerClose, Known
    <3> QED BY <1>2, <2>4, <3>1, <3>2, <3>3, WhoRegisters
  <2> QED BY <2>3, <2>4, <2>5, StaysStarted
<1> QED BY <1>1, <1>2

(* Whatever is put in a queue or posted is of the task that will get it.    *)
LEMMA OwnKept ==
  ASSUME EngineInv, OwnInv, ~Streaming \/ IdsUnique, [Next]_vars
  PROVE  OwnOutputsOnly'
<1> SUFFICES ASSUME NEW t \in Tasks
             PROVE  /\ \A out \in posted'[t] : out.origin = t
                    /\ \A i \in 1..Len(channel'[t]) : channel'[t][i].origin = t
                    /\ \A p \in putting' : p.to = t => p.out.origin = t
                    /\ future'[t].origin = t
  BY DEF OwnOutputsOnly
<1>1. /\ \A out \in posted[t] : out.origin = t
      /\ \A i \in 1..Len(channel[t]) : channel[t][i].origin = t
      /\ \A p \in putting : p.to = t => p.out.origin = t
      /\ future[t].origin = t
      /\ channel[t] \in Seq(Outputs) /\ Len(channel[t]) \in Nat
  BY LenProperties DEF OwnInv, OwnOutputsOnly, EngineInv, EngineTypeOK
<1>2. \A r \in DOMAIN outQueue : ReqId[outQueue[r]] = r
  BY DEF EngineInv, QueueInPlace
<1>3. \A out \in posted'[t] : out.origin = t
  <2> SUFFICES ASSUME NEW r \in Requests, ~Streaming, r \in Known,
                      r \in DOMAIN outQueue, outQueue[r] = t
               PROVE  FinalOutput(r).origin = t
    BY <1>1, PostedMoves
  <2>1. owner[r] = t
    BY DEF EngineInv, QueueInPlace
  <2> QED BY <2>1, FinalOutputFacts
<1>4. ASSUME NEW out \in Outputs, out.origin = t, channel'[t] = Append(channel[t], out)
      PROVE  \A i \in 1..Len(channel'[t]) : channel'[t][i].origin = t
  BY <1>1, <1>4, AppendProperties
<1>5. \A i \in 1..Len(channel'[t]) : channel'[t][i].origin = t
  <2>1. CASE channel'[t] = channel[t]
    BY <1>1, <2>1
  <2>2. CASE channel[t] # << >> /\ channel'[t] = Tail(channel[t])
    BY <1>1, <2>2, HeadTailProperties
  <2>3. CASE channel'[t] = Append(channel[t], Output("closed", t))
    <3>1. Output("closed", t) \in Outputs /\ Output("closed", t).origin = t
      BY OutputTypes DEF EngineOutputKinds, Output
    <3> QED BY <1>4, <2>3, <3>1
  <2>4. ASSUME NEW p \in putting, p.to = t, p.out \in Outputs,
               channel'[t] = Append(channel[t], p.out)
        PROVE  \A i \in 1..Len(channel'[t]) : channel'[t][i].origin = t
    BY <1>1, <1>4, <2>4
  <2> QED BY <2>1, <2>2, <2>3, <2>4, ChannelMoves
<1>7. ASSUME NEW p \in putting', p.to = t
      PROVE  p.out.origin = t
  <2>1. ASSUME NEW h \in inHand, Streaming, h.out \in Outputs, h.req \in DOMAIN outQueue,
               p = [to |-> outQueue[h.req], out |-> h.out]
        PROVE  p.out.origin = t
    <3>1. h.out.origin \in Tasks /\ ReqId[h.out.origin] = h.req
      BY <2>1 DEF Outputs, OwnInv, InHandInPlace
    <3> QED BY <1>2, <1>7, <2>1, <3>1 DEF IdsUnique
  <2>2. ASSUME NEW r \in Requests, Streaming, r \in Known, owner[r] \in Tasks,
               r \in DOMAIN outQueue,
               p = [to |-> outQueue[r], out |-> Output("chunk", owner[r])]
        PROVE  p.out.origin = t
    <3>1. ReqId[owner[r]] = r
      BY <2>2 DEF EngineInv, OwnersKnown
    <3> QED BY <1>2, <1>7, <2>2, <3>1 DEF IdsUnique, Output
  <2> QED BY <1>1, <1>7, <2>1, <2>2, PutMoves
<1>6. future'[t].origin = t
  <2>1. \A k : Output(k, t).origin = t
    BY DEF Output
  <2>2. channel[t] # << >> => Head(channel[t]).origin = t
    <3> SUFFICES ASSUME channel[t] # << >> PROVE Head(channel[t]).origin = t
      OBVIOUS
    <3>1. Head(channel[t]) = channel[t][1] /\ 1 \in 1..Len(channel[t])
      BY <1>1, EmptySeq
    <3> QED BY <1>1, <3>1
  <2> QED BY <1>1, <2>1, <2>2, FutureMoves
<1> QED BY <1>3, <1>5, <1>6, <1>7

(* Who is in the queue was there before, or has just been added.            *)
LEMMA QueueMoves ==
  ASSUME EngineInv, [Next]_vars, NEW r \in DOMAIN outQueue'
  PROVE  \/ r \in DOMAIN outQueue /\ outQueue'[r] = outQueue[r]
         \/ \E t \in Tasks : TaskAdd(t) /\ Added(t) /\ r = ReqId[t] /\ outQueue'[r] = t
<1> DEFINE Moves == \/ r \in DOMAIN outQueue /\ outQueue'[r] = outQueue[r]
                    \/ \E t \in Tasks : /\ TaskAdd(t) /\ Added(t)
                                        /\ r = ReqId[t] /\ outQueue'[r] = t
<1>1. ClientTypes
  BY TypeParts DEF EngineInv
<1>2. outQueue' = outQueue => Moves
  OBVIOUS
<1>3. ASSUME NEW t \in Tasks, TaskAdd(t)
      PROVE  Moves
  <2>1. Refused(t) => outQueue' = outQueue
    BY DEF Refused
  <2>2. Added(t) => \/ r = ReqId[t] /\ outQueue'[r] = t
                    \/ r \in DOMAIN outQueue /\ outQueue'[r] = outQueue[r]
    BY DEF Added
  <2> QED BY <1>2, <1>3, <2>1, <2>2, TaskAddFacts
<1>4. ASSUME NEW t \in Tasks, StreamNext(t) \/ StreamCleanup(t)
      PROVE  Moves
  <2>1. outQueue' = outQueue \/ ForgetQueue(t)
    BY <1>4 DEF StreamNext, StreamCleanup
  <2> QED BY <1>1, <1>2, <2>1, ForgetQueueFacts
<1>5. ASSUME NEW q \in Requests, DeliverResult(q)
      PROVE  Moves
  BY <1>2, <1>5, DeliverFacts DEF Skipped, Answered
<1>6. CASE CloseBegin
  <2>1. closed => outQueue' = outQueue
    BY <1>6 DEF CloseBegin
  <2> QED BY <1>1, <1>2, <1>6, <2>1, CloseBeginFacts
<1>7. \A t \in Tasks : TaskLookup(t) \/ RunCallback(t) \/ CancelAndAbort(t) => outQueue' = outQueue
  BY DEF TaskLookup, RunCallback, CancelAndAbort
<1>8. \A q \in Requests : StreamFinalize(q) => outQueue' = outQueue
  BY DEF StreamFinalize
<1>9. CloseFinish \/ StreamPut \/ UNCHANGED clientVars => outQueue' = outQueue
  BY DEF CloseFinish, StreamPut, clientVars
<1> HIDE DEF Moves
<1> QED BY <1>2, <1>3, <1>4, <1>5, <1>6, <1>7, <1>8, <1>9, WhoTouchesClients DEF Moves

(* Who is owed a final output was known before, or owed one, or has just    *)
(* been added.                                                              *)
Owed(r) == r \in Known \/ \E h \in inHand : h.req = r

LEMMA OwedMoves ==
  ASSUME EngineInv, [Next]_vars, NEW r, Owed(r)'
  PROVE  Owed(r) \/ \E t \in Tasks : TaskAdd(t) /\ Added(t) /\ r = ReqId[t]
<1>1. CASE r \in Known'
  <2>1. ASSUME NEW t \in Tasks, TaskAdd(t)
        PROVE  Owed(r) \/ \E u \in Tasks : TaskAdd(u) /\ Added(u) /\ r = ReqId[u]
    <3>1. CASE Refused(t)
      BY <1>1, <3>1, SchedulerFrame DEF Refused, Owed
    <3>2. CASE Added(t)
      BY <1>1, <2>1, <3>2, AddFacts DEF Added, Owed
    <3> QED BY <2>1, <3>1, <3>2, TaskAddFacts
  <2>2. ASSUME NEW q \in Requests, DeliverResult(q) \/ StreamFinalize(q)
        PROVE  Known' \subseteq Known
    BY <2>2, PopFacts, SchedulerFrame DEF DeliverResult, StreamFinalize
  <2>3. CloseFinish => Known' = {}
    BY DEF CloseFinish, SchedulerClose, Known
  <2> QED BY <1>1, <2>1, <2>2, <2>3, WhoRegisters DEF Owed
<1>2. CASE \E h \in inHand' : h.req = r
  <2>1. PICK h \in inHand' : h.req = r
    BY <1>2
  <2>2. ASSUME NEW q \in Requests, StreamFinalize(q)
        PROVE  Owed(r)
    BY <2>1, <2>2 DEF StreamFinalize, PopRequestState, Owed
  <2> QED BY <2>1, <2>2, WhoDelivers
          DEF IdleSchedule, Update, StreamLookup, StreamPut, DeliverResult, StreamChunk, Owed
<1> QED BY <1>1, <1>2 DEF Owed

LEMMA StreamsOpenKept ==
  ASSUME EngineInv, OwnInv, ~Streaming \/ IdsUnique, [Next]_vars
  PROVE  StreamsOpen'
<1> SUFFICES ASSUME NEW r \in DOMAIN outQueue', Owed(r)'
             PROVE  /\ \A i \in 1..Len(channel'[outQueue'[r]]) :
                         ~Terminal(channel'[outQueue'[r]][i])
                    /\ future'[outQueue'[r]].kind \notin EngineOutputKinds
  BY DEF StreamsOpen, Owed, Terminal, IsAnswered
<1> DEFINE t == outQueue'[r]
<1>1. CASE \E u \in Tasks : TaskAdd(u) /\ Added(u) /\ r = ReqId[u]
  <2>1. PICK u \in Tasks : TaskAdd(u) /\ Added(u) /\ r = ReqId[u]
    BY <1>1
  <2>2. t = u /\ channel' = channel /\ task[u] = "new" /\ future'[u] = Output("pending", u)
    BY <2>1 DEF TaskAdd, Added, EngineInv, EngineTypeOK
  <2>3. channel'[t] = << >>
    BY <2>2 DEF EngineInv, AnswersInPlace
  <2> QED BY <2>2, <2>3, EmptySeq DEF Output, EngineOutputKinds
<1>2. CASE ~\E u \in Tasks : TaskAdd(u) /\ Added(u) /\ r = ReqId[u]
  <2>1. r \in DOMAIN outQueue /\ t = outQueue[r] /\ Owed(r)
    BY <1>2, QueueMoves, OwedMoves
  <2>2. /\ t \in Tasks /\ ReqId[t] = r /\ posted[t] = {}
        /\ channel[t] \in Seq(Outputs) /\ Len(channel[t]) \in Nat
        /\ \A i \in 1..Len(channel[t]) : ~Terminal(channel[t][i])
        /\ future[t].kind \notin EngineOutputKinds
    BY <2>1, LenProperties
    DEF EngineInv, EngineTypeOK, QueueInPlace, OwnInv, StreamsOpen, Owed, IsAnswered
  <2>3. ~(CloseBegin /\ ~closed)
    <3>1. ClientTypes
      BY TypeParts DEF EngineInv
    <3> QED BY <3>1, CloseBeginFacts
  <2> HIDE DEF t
  <2> SUFFICES /\ \A i \in 1..Len(channel'[t]) : ~Terminal(channel'[t][i])
               /\ future'[t].kind \notin EngineOutputKinds
    BY DEF t
  <2>4. \A i \in 1..Len(channel'[t]) : ~Terminal(channel'[t][i])
    <3>1. CASE channel'[t] = channel[t]
      BY <2>2, <3>1
    <3>2. CASE channel[t] # << >> /\ channel'[t] = Tail(channel[t])
      <4>1. /\ Len(channel'[t]) = Len(channel[t]) - 1
            /\ \A i \in 1..Len(channel'[t]) : channel'[t][i] = channel[t][i + 1]
        BY <2>2, <3>2, HeadTailProperties
      <4>2. ASSUME NEW i \in 1..Len(channel'[t])
            PROVE  i + 1 \in 1..Len(channel[t]) /\ channel'[t][i] = channel[t][i + 1]
        BY <2>2, <4>1
      <4> QED BY <2>2, <4>2
    <3>3. ASSUME NEW p \in putting, p.to = t, p.out \in Outputs, inHand = {},
                 channel'[t] = Append(channel[t], p.out)
          PROVE  \A i \in 1..Len(channel'[t]) : ~Terminal(channel'[t][i])
      <4>1. ~Terminal(p.out)
        BY <2>1, <2>2, <3>3 DEF OwnInv, PutsInOrder, Owed
      <4> QED BY <2>2, <3>3, <4>1, AppendProperties
    <3> QED BY <2>2, <2>3, <3>1, <3>2, <3>3, ChannelMoves
  <2>5. future'[t].kind \notin EngineOutputKinds
    <3>1. \A k \in {"pending", "cancelled"} : Output(k, t).kind \notin EngineOutputKinds
      BY DEF Output, EngineOutputKinds
    <3>2. channel[t] # << >> => ~Terminal(Head(channel[t]))
      <4> SUFFICES ASSUME channel[t] # << >> PROVE ~Terminal(Head(channel[t]))
        OBVIOUS
      <4>1. Head(channel[t]) = channel[t][1] /\ 1 \in 1..Len(channel[t])
        BY <2>2, EmptySeq
      <4> QED BY <2>2, <4>1
    <3> QED BY <2>2, <2>3, <3>1, <3>2, FutureMoves
  <2> QED BY <2>4, <2>5
<1> QED BY <1>1, <1>2

(* A step of the reader of a stream.                                        *)
LEMMA NextFacts ==
  ASSUME EngineInv, NEW t \in Tasks, StreamNext(t)
  PROVE  /\ channel[t] \in Seq(Outputs) /\ Len(channel[t]) \in Nat \ {0}
         /\ Head(channel[t]) = channel[t][1] /\ channel'[t] \in Seq(Outputs)
         /\ Len(channel'[t]) = Len(channel[t]) - 1
         /\ \A i \in 1..Len(channel'[t]) : channel'[t][i] = channel[t][i + 1]
         /\ IF Terminal(channel[t][1]) THEN future'[t] = channel[t][1]
                                       ELSE future'[t] = future[t]
<1>1. /\ channel[t] \in Seq(Outputs) /\ channel[t] # << >> /\ channel'[t] = Tail(channel[t])
      /\ future \in [Tasks -> Unanswered \cup Outputs]
  BY DEF StreamNext, EngineInv, EngineTypeOK
<1>2. /\ Len(channel[t]) \in Nat \ {0} /\ Head(channel[t]) = channel[t][1]
  BY <1>1, EmptySeq, LenProperties
<1>3. IF Terminal(channel[t][1]) THEN future'[t] = channel[t][1] ELSE future'[t] = future[t]
  BY <1>1, <1>2 DEF StreamNext
<1> QED BY <1>1, <1>2, <1>3, HeadTailProperties

(* Nobody but the reader of a stream gives its task an output.              *)
LEMMA TakenMoves ==
  ASSUME EngineInv, Streaming, [Next]_vars, NEW t \in Tasks, ~StreamNext(t)
  PROVE  future'[t] = future[t] \/ ~IsAnswered(t)'
<1>1. \A k \in {"pending", "cancelled"} : Output(k, t).kind \notin EngineOutputKinds
  BY DEF Output, EngineOutputKinds
<1> QED BY <1>1, FutureMoves DEF IsAnswered

LEMMA PutsInOrderKept ==
  ASSUME EngineInv, OwnInv, ~Streaming \/ IdsUnique, [Next]_vars
  PROVE  PutsInOrder'
<1> DEFINE InPlace(p) ==
             /\ p.out.kind # "closed"
             /\ Terminal(p.out) => ReqId[p.to] \notin Known
             /\ \A i \in 1..Len(channel[p.to]) :
                  Terminal(channel[p.to][i]) =>
                    channel[p.to][i].kind = "closed" /\ i = Len(channel[p.to])
             /\ IsAnswered(p.to) => future[p.to].kind = "closed" /\ channel[p.to] = << >>
<1> SUFFICES ASSUME NEW p \in putting'
             PROVE  InPlace(p)'
  BY DEF PutsInOrder
<1>1. ASSUME NEW r \in DOMAIN outQueue, Owed(r), p.to = outQueue[r], p.out.kind # "closed",
             Terminal(p.out) => ReqId[p.to] \notin Known,
             UNCHANGED schedulerVars, UNCHANGED clientVars
      PROVE  InPlace(p)'
  <2>1. /\ channel' = channel /\ future' = future /\ Known' = Known
        /\ \A i \in 1..Len(channel[p.to]) : ~Terminal(channel[p.to][i])
        /\ ~IsAnswered(p.to)
    BY <1>1, SchedulerFrame DEF clientVars, OwnInv, StreamsOpen, Owed
  <2> QED BY <1>1, <2>1 DEF IsAnswered, Terminal
<1>2. ASSUME NEW h \in inHand, StreamLookup, h.req \in DOMAIN outQueue,
             p = [to |-> outQueue[h.req], out |-> h.out]
      PROVE  InPlace(p)'
  <2>1. h.req \notin Known /\ h.out.kind # "closed" /\ ReqId[p.to] = h.req /\ Owed(h.req)
    BY <1>2 DEF OwnInv, InHandInPlace, EngineInv, QueueInPlace, Owed
  <2> QED BY <1>1, <1>2, <2>1 DEF StreamLookup
<1>3. ASSUME NEW r \in Requests, StreamChunk(r), r \in Known, r \in DOMAIN outQueue,
             p = [to |-> outQueue[r], out |-> Output("chunk", owner[r])]
      PROVE  InPlace(p)'
  BY <1>1, <1>3 DEF StreamChunk, Owed, Output, Terminal
<1>4. ASSUME p \in putting, ~StreamPut
      PROVE  InPlace(p)'
  <2> DEFINE t == p.to
             queue == channel[t]
  <2>1. /\ Streaming /\ IdsUnique /\ t \in Tasks /\ task[t] # "new" /\ InPlace(p)
        /\ queue \in Seq(Outputs) /\ Len(queue) \in Nat
    BY <1>4, LenProperties
    DEF EngineInv, LoopInPlace, EngineTypeOK, PutsInPlace, OwnInv, PutsInOrder
  <2>2. Terminal(p.out) => ReqId[t] \notin Known'
    <3> SUFFICES ASSUME ReqId[t] \notin Known PROVE ReqId[t] \notin Known'
      BY <2>1
    <3>1. ASSUME NEW u \in Tasks, TaskAdd(u)
          PROVE  ReqId[t] \notin Known'
      <4>1. CASE Refused(u)
        BY <4>1, SchedulerFrame DEF Refused
      <4>2. CASE Added(u)
        <5>1. Known' = Known \cup {ReqId[u]}
          BY <4>2, AddFacts DEF Added
        <5>2. ReqId[u] # ReqId[t]
          BY <2>1, <3>1 DEF TaskAdd, IdsUnique
        <5> QED BY <5>1, <5>2
      <4> QED BY <3>1, <4>1, <4>2, TaskAddFacts
    <3>2. ASSUME NEW r \in Requests, DeliverResult(r) \/ StreamFinalize(r)
          PROVE  Known' \subseteq Known
      BY <3>2, PopFacts, SchedulerFrame DEF DeliverResult, StreamFinalize
    <3>3. CloseFinish => Known' = {}
      BY DEF CloseFinish, SchedulerClose, Known
    <3> QED BY <3>1, <3>2, <3>3, WhoRegisters
  <2> SUFFICES /\ \A i \in 1..Len(channel'[t]) :
                    Terminal(channel'[t][i]) =>
                      channel'[t][i].kind = "closed" /\ i = Len(channel'[t])
               /\ IsAnswered(t)' => future'[t].kind = "closed" /\ channel'[t] = << >>
    BY <2>1, <2>2 DEF IsAnswered, Terminal
  <2> HIDE DEF t
  <2>3. CASE StreamNext(t)
    <3>1. ASSUME NEW i \in 1..Len(channel'[t]), Terminal(channel'[t][i])
          PROVE  channel'[t][i].kind = "closed" /\ i = Len(channel'[t])
      <4>1. i + 1 \in 1..Len(queue) /\ channel'[t][i] = queue[i + 1]
        BY <2>1, <2>3, <3>1, NextFacts
      <4> QED BY <2>1, <2>3, <3>1, <4>1, NextFacts DEF t
    <3>2. CASE Terminal(queue[1])
      <4>1. queue[1].kind = "closed" /\ Len(queue) = 1
        <5>1. 1 \in 1..Len(queue)
          BY <2>1, <2>3, NextFacts
        <5> QED BY <2>1, <3>2, <5>1 DEF t
      <4>2. future'[t] = queue[1] /\ channel'[t] = << >>
        BY <2>1, <2>3, <3>2, <4>1, NextFacts, EmptySeq
      <4> QED BY <3>1, <4>1, <4>2
    <3>3. CASE ~Terminal(queue[1])
      <4>1. future'[t] = future[t] /\ ~IsAnswered(t)
        BY <2>1, <2>3, <3>3, NextFacts, EmptySeq DEF t
      <4> QED BY <3>1, <4>1 DEF IsAnswered
    <3> QED BY <3>2, <3>3
  <2>4. CASE ~StreamNext(t)
    <3>1. future'[t] = future[t] \/ ~IsAnswered(t)'
      BY <2>1, <2>4, TakenMoves
    <3>2. CASE channel'[t] = queue
      BY <2>1, <3>1, <3>2 DEF IsAnswered, t
    <3>3. CASE CloseBegin /\ ~closed /\ channel'[t] = Append(queue, Output("closed", t))
      <4>1. \A i \in 1..Len(queue) : ~Terminal(queue[i])
        BY <2>1, <3>3 DEF OwnInv, StreamsInOrder, InOrder, t
      <4>2. ~IsAnswered(t)
        BY <2>1, <3>3 DEF OwnInv, StreamsInOrder, TakenInOrder, t
      <4>3. Output("closed", t) \in Outputs /\ Output("closed", t).kind = "closed"
        BY <2>1, OutputTypes DEF EngineOutputKinds, Output
      <4> QED BY <2>1, <3>1, <3>3, <4>1, <4>2, <4>3, AppendProperties DEF IsAnswered
    <3> QED BY <1>4, <2>1, <2>4, <3>2, <3>3, ChannelMoves
  <2> QED BY <2>3, <2>4
<1> HIDE DEF InPlace
<1> QED BY <1>2, <1>3, <1>4, PutMoves

LEMMA StreamsInOrderKept ==
  ASSUME EngineInv, OwnInv, [Next]_vars
  PROVE  StreamsInOrder'
<1> SUFFICES ASSUME Streaming, NEW t \in Tasks
             PROVE  InOrder(channel[t])' /\ TakenInOrder(future[t], channel[t])'
  BY DEF StreamsInOrder
<1> DEFINE queue == channel[t]
           n == Len(queue)
<1>1. /\ queue \in Seq(Outputs) /\ n \in Nat /\ ClientTypes
      /\ InOrder(queue) /\ TakenInOrder(future[t], queue)
  BY LenProperties, TypeParts DEF OwnInv, StreamsInOrder, EngineInv, EngineTypeOK
<1>2. closed => closed'
  BY WhoOpensAndCloses DEF StartLoop, CloseBegin, CloseFinish, CloseDefer, lifeVars
<1>3. CASE StreamNext(t)
  <2>1. /\ Len(channel'[t]) = n - 1 /\ n \in Nat \ {0}
        /\ \A i \in 1..(n - 1) : i + 1 \in 1..n /\ channel'[t][i] = queue[i + 1]
        /\ future'[t] = future[t] \/ (Terminal(queue[1]) /\ future'[t] = queue[1])
    BY <1>3, NextFacts
  <2> HIDE DEF n, queue
  <2>2. InOrder(channel[t])'
    <3>1. ASSUME NEW i \in 1..(n - 1), NEW j \in 1..(n - 1), i < j
          PROVE  Follows(channel'[t][i], channel'[t][j])
      <4>1. i + 1 \in 1..n /\ j + 1 \in 1..n /\ i + 1 < j + 1
        BY <2>1, <3>1
      <4>2. Follows(queue[i + 1], queue[j + 1])
        BY <1>1, <4>1 DEF InOrder, queue, n
      <4> QED BY <2>1, <4>2
    <3>2. ASSUME NEW i \in 1..(n - 1), channel'[t][i].kind = "closed"
          PROVE  closed' /\ n - 1 <= i + 1
      <4>1. closed /\ n <= i + 2
        <5>1. i \in Nat /\ i + 1 \in 1..n
          BY <2>1
        <5>2. queue[i + 1].kind = "closed"
          BY <2>1, <3>2
        <5>3. \A k \in 1..n : queue[k].kind = "closed" => closed /\ n <= k + 1
          BY <1>1 DEF InOrder, queue, n
        <5>4. closed /\ n <= (i + 1) + 1
          BY <5>1, <5>2, <5>3
        <5> QED BY <5>1, <5>4, <2>1
      <4> QED BY <1>2, <2>1, <4>1
    <3> QED BY <2>1, <3>1, <3>2 DEF InOrder, Follows, Terminal
  <2>3. CASE future'[t] = future[t]
    <3>1. future[t].kind \in EngineOutputKinds =>
            \A i \in 1..(n - 1) : Follows(future[t], channel'[t][i])
      BY <1>1, <2>1 DEF TakenInOrder, queue, n
    <3>2. future[t].kind = "closed" => closed' /\ n - 1 <= 1
      BY <1>1, <1>2, <2>1 DEF TakenInOrder, queue, n
    <3>3. n - 1 = Len(channel'[t])
      BY <2>1
    <3>4. /\ future'[t].kind \in EngineOutputKinds =>
               \A i \in 1..Len(channel'[t]) : Follows(future'[t], channel'[t][i])
          /\ future'[t].kind = "closed" => closed' /\ Len(channel'[t]) <= 1
      BY <2>3, <3>1, <3>2, <3>3
    <3> QED BY <2>2, <3>4 DEF TakenInOrder, Follows, Terminal
  <2>4. CASE Terminal(queue[1]) /\ future'[t] = queue[1]
    <3>1. \A i \in 1..(n - 1) : Follows(queue[1], channel'[t][i])
      <4> SUFFICES ASSUME NEW i \in 1..(n - 1) PROVE Follows(queue[1], channel'[t][i])
        OBVIOUS
      <4>1. 1 \in 1..n /\ i + 1 \in 1..n /\ 1 < i + 1
        BY <2>1
      <4> QED BY <1>1, <2>1, <4>1 DEF InOrder, queue, n
    <3>2. queue[1].kind = "closed" => closed' /\ n - 1 <= 1
      <4>1. 1 \in 1..n
        BY <2>1
      <4>2. queue[1].kind = "closed" => closed /\ n <= 1 + 1
        BY <1>1, <4>1 DEF InOrder, queue, n
      <4> QED BY <1>2, <2>1, <4>2
    <3>3. n - 1 = Len(channel'[t])
      BY <2>1
    <3>4. /\ \A i \in 1..Len(channel'[t]) : Follows(future'[t], channel'[t][i])
          /\ future'[t].kind = "closed" => closed' /\ Len(channel'[t]) <= 1
      BY <2>4, <3>1, <3>2, <3>3
    <3> QED BY <2>2, <3>4 DEF TakenInOrder, Follows, Terminal
  <2> QED BY <2>1, <2>2, <2>3, <2>4
<1>4. ASSUME NEW out \in Outputs, channel'[t] = Append(queue, out), future'[t] = future[t],
             \A i \in 1..n : Follows(queue[i], out),
             \A i \in 1..n : queue[i].kind = "closed" => i = n,
             out.kind = "closed" => closed',
             IsAnswered(t) => Follows(future[t], out),
             future[t].kind = "closed" => n = 0
      PROVE  InOrder(channel[t])' /\ TakenInOrder(future[t], channel[t])'
  <2>1. /\ Len(channel'[t]) = n + 1 /\ channel'[t][n + 1] = out
        /\ \A i \in 1..n : channel'[t][i] = queue[i]
    BY <1>1, <1>4, AppendProperties
  <2>2. \A i \in 1..(n + 1) : i \in 1..n \/ i = n + 1
    BY <1>1
  <2> HIDE DEF n, queue
  <2>3. ASSUME NEW i \in 1..(n + 1), NEW j \in 1..(n + 1), i < j
        PROVE  Follows(channel'[t][i], channel'[t][j])
    <3>1. i \in 1..n
      BY <1>1, <2>3
    <3> QED BY <1>1, <1>4, <2>1, <2>2, <2>3, <3>1 DEF InOrder
  <2>4. ASSUME NEW i \in 1..(n + 1), channel'[t][i].kind = "closed"
        PROVE  closed' /\ n + 1 <= i + 1
    BY <1>1, <1>2, <1>4, <2>1, <2>2, <2>4 DEF InOrder
  <2>5. TakenInOrder(future[t], channel[t])'
    BY <1>1, <1>2, <1>4, <2>1, <2>2 DEF TakenInOrder, IsAnswered, Follows, Terminal
  <2> QED BY <2>1, <2>3, <2>4, <2>5 DEF InOrder, Follows, Terminal
<1>5. CASE CloseBegin /\ ~closed /\ channel'[t] = Append(queue, Output("closed", t))
  <2>1. Output("closed", t) \in Outputs /\ Output("closed", t).kind = "closed"
    BY OutputTypes DEF EngineOutputKinds, Output
  <2>2. future'[t] = future[t] /\ closed'
    BY <1>1, <1>5, CloseBeginFacts
  <2> HIDE DEF n
  <2> QED BY <1>1, <1>4, <1>5, <2>1, <2>2 DEF InOrder, TakenInOrder, Follows, n
<1>6. ASSUME NEW p \in putting, StreamPut, p.to = t, p.out \in Outputs,
             channel'[t] = Append(queue, p.out)
      PROVE  InOrder(channel[t])' /\ TakenInOrder(future[t], channel[t])'
  <2>1. /\ p.out.kind # "closed" /\ future'[t] = future[t]
        /\ \A i \in 1..n : Terminal(queue[i]) => queue[i].kind = "closed" /\ i = n
        /\ IsAnswered(t) => future[t].kind = "closed" /\ queue = << >>
    BY <1>6 DEF OwnInv, PutsInOrder, StreamPut
  <2>2. queue = << >> => n = 0
    BY EmptySeq
  <2>3. \A i \in 1..n : Follows(queue[i], p.out) /\ (queue[i].kind = "closed" => i = n)
    BY <2>1 DEF Follows, Terminal
  <2>4. /\ IsAnswered(t) => Follows(future[t], p.out)
        /\ future[t].kind = "closed" => n = 0
    BY <2>1, <2>2 DEF IsAnswered, Follows, EngineOutputKinds
  <2> HIDE DEF n, queue
  <2> QED BY <1>4, <1>6, <2>1, <2>3, <2>4
<1>7. CASE channel'[t] = queue /\ ~StreamNext(t)
  <2>1. InOrder(channel[t])'
    BY <1>1, <1>2, <1>7 DEF InOrder, Follows, Terminal
  <2>2. future'[t] = future[t] \/ ~IsAnswered(t)'
    BY <1>7, TakenMoves
  <2> QED BY <1>1, <1>2, <1>7, <2>1, <2>2
          DEF TakenInOrder, IsAnswered, EngineOutputKinds, Follows, Terminal
<1> QED BY <1>3, <1>5, <1>6, <1>7, ChannelMoves

LEMMA OwnInvAlways == ~Streaming \/ IdsUnique => (Spec => []OwnInv)
<1> SUFFICES ASSUME ~Streaming \/ IdsUnique PROVE Spec => []OwnInv
  OBVIOUS
<1>1. Init => OwnInv
  <2> SUFFICES ASSUME Init PROVE OwnInv
    OBVIOUS
  <2>1. \A t \in Tasks : /\ posted[t] = {} /\ channel[t] = << >> /\ Len(channel[t]) = 0
                         /\ future[t].origin = t
    BY EmptySeq DEF Init, Output
  <2>2. OwnOutputsOnly /\ StreamsInOrder
    BY <2>1
    DEF Init, OwnOutputsOnly, StreamsInOrder, InOrder, TakenInOrder, EngineOutputKinds, Output
  <2> QED BY <2>2 DEF Init, OwnInv, InHandInPlace, StreamsOpen, PutsInOrder
<1>2. EngineInv /\ OwnInv /\ [Next]_vars => OwnInv'
  BY OwnKept, StreamsInOrderKept, PutsInOrderKept, InHandKept, StreamsOpenKept DEF OwnInv
<1> QED BY <1>1, <1>2, EngineInvAlways, PTL DEF Spec

(* A task only ever sees outputs of the request it submitted: always when   *)
(* results come by callback, and with streaming if no id is used again.     *)
THEOREM OwnOutputsAlways == ~Streaming \/ IdsUnique => (Spec => []OwnOutputsOnly)
<1> SUFFICES ASSUME ~Streaming \/ IdsUnique PROVE Spec => []OwnOutputsOnly
  OBVIOUS
<1>1. OwnInv => OwnOutputsOnly
  BY DEF OwnInv
<1> QED BY <1>1, OwnInvAlways, PTL

(* Under the same condition a request is answered once: the busy loop and   *)
(* close() never both complete a future; of the outcome of a stream and the *)
(* answer of close() the reader takes the one put first, and the other,     *)
(* with at most the one output that was being put when close() came, is all *)
(* that can follow it.                                                      *)
THEOREM AnsweredAtMostOnceEver == ~Streaming \/ IdsUnique => (Spec => []AnsweredOnce)
<1> SUFFICES ASSUME ~Streaming \/ IdsUnique PROVE Spec => []AnsweredOnce
  OBVIOUS
<1>1. EngineInv /\ OwnInv => AnsweredOnce
  <2> SUFFICES ASSUME EngineInv, OwnInv, NEW t \in Tasks
               PROVE  LET answered == future[t].kind \in EngineOutputKinds
                          n == Len(channel[t])
                      IN  /\ Cardinality(posted[t]) + (IF answered THEN 1 ELSE 0) <= 1
                          /\ \A i, j \in 1..n : i < j => Follows(channel[t][i], channel[t][j])
                          /\ answered => \A i \in 1..n : Follows(future[t], channel[t][i])
                          /\ future[t].kind = "closed" => n <= 1
                          /\ \A i \in 1..n : channel[t][i].kind = "closed" => n <= i + 1
    BY DEF AnsweredOnce
  <2>1. CompletedOnce
    BY CompletedFacts
  <2>2. CASE Streaming
    BY <2>1, <2>2 DEF CompletedOnce, OwnInv, StreamsInOrder, InOrder, TakenInOrder
  <2>3. CASE ~Streaming
    <3>1. channel[t] = << >> /\ Len(channel[t]) = 0
      BY <2>3, EmptySeq DEF EngineInv, AnswersInPlace
    <3> QED BY <2>1, <3>1 DEF CompletedOnce
  <2> QED BY <2>2, <2>3
<1> QED BY <1>1, OwnInvAlways, EngineInvAlways, PTL

-----------------------------------------------------------------------------
(* Nobody waits in vain.                                                    *)

(* The tasks that await an answer, or are about to.                         *)
Awaiting(t) ==
  /\ future[t].kind = "pending"
  /\ task[t] = "waiting" \/ (task[t] = "added" /\ ReqId[t] \in DOMAIN outQueue)

(* An id waits to be aborted only when its caller has given up.             *)
AbortsAreOver ==
  \A t \in Tasks : ReqId[t] \in abortQueue => task[t] \in {"cancelling", "cancelled"}

(* Its request is known, and if it has ended the busy loop will deliver it. *)
Registered(t) ==
  /\ ReqId[t] \in DOMAIN outQueue /\ outQueue[ReqId[t]] = t
  /\ ReqId[t] \in Known
  /\ IsFinished(ReqId[t]) => ReqId[t] \in finishing

WaiterInv ==
  /\ AbortsAreOver
  /\ \A t \in Tasks : Awaiting(t) => OnItsWay(t) \/ Registered(t)

(* How the coroutine of a request goes on.                                  *)
LEMMA TaskMoves ==
  ASSUME EngineInv, [Next]_vars, NEW t \in Tasks
  PROVE  \/ task'[t] = task[t]
         \/ TaskAdd(t) /\ task[t] = "new" /\ task'[t] \in {"added", "refused"}
         \/ /\ TaskLookup(t) /\ task[t] = "added"
            /\ task'[t] = IF ReqId[t] \in DOMAIN outQueue THEN "waiting" ELSE "notfound"
         \/ task[t] = "waiting" /\ task'[t] \in {"done", "cancelling", "cancelled"}
         \/ task[t] = "cancelling" /\ task'[t] = "cancelled"
<1> DEFINE Moves == \/ task'[t] = task[t]
                    \/ TaskAdd(t) /\ task[t] = "new" /\ task'[t] \in {"added", "refused"}
                    \/ /\ TaskLookup(t) /\ task[t] = "added"
                       /\ task'[t] = IF ReqId[t] \in DOMAIN outQueue
                                     THEN "waiting" ELSE "notfound"
                    \/ task[t] = "waiting" /\ task'[t] \in {"done", "cancelling", "cancelled"}
                    \/ task[t] = "cancelling" /\ task'[t] = "cancelled"
<1>1. ClientTypes
  BY TypeParts DEF EngineInv
<1>2. task' = task => Moves
  OBVIOUS
<1>3. ASSUME NEW u \in Tasks, TaskAdd(u)
      PROVE  Moves
  <2>1. task[u] = "new" /\ \E s \in {"added", "refused"} : task' = [task EXCEPT ![u] = s]
    BY <1>3 DEF TaskAdd
  <2> QED BY <1>1, <1>3, <2>1 DEF ClientTypes
<1>4. ASSUME NEW u \in Tasks, TaskLookup(u)
      PROVE  Moves
  <2>1. /\ task[u] = "added"
        /\ task' = [task EXCEPT ![u] = IF ReqId[u] \in DOMAIN outQueue
                                       THEN "waiting" ELSE "notfound"]
    BY <1>4 DEF TaskLookup
  <2> QED BY <1>1, <1>4, <2>1 DEF ClientTypes
<1>5. ASSUME NEW u \in Tasks, RunCallback(u) \/ StreamNext(u) \/ CancelAndAbort(u)
      PROVE  Moves
  <2>1. \/ task' = task
        \/ /\ task[u] = "waiting"
           /\ \E s \in {"done", "cancelling", "cancelled"} : task' = [task EXCEPT ![u] = s]
    <3>1. RunCallback(u) =>
            \/ task' = task
            \/ task[u] = "waiting" /\ task' = [task EXCEPT ![u] = "done"]
      BY <1>1 DEF RunCallback, ClientTypes
    <3>2. StreamNext(u) =>
            \/ task' = task
            \/ task[u] = "waiting" /\ task' = [task EXCEPT ![u] = "done"]
      BY DEF StreamNext
    <3>3. CancelAndAbort(u) =>
            /\ task[u] = "waiting"
            /\ \E s \in {"cancelling", "cancelled"} : task' = [task EXCEPT ![u] = s]
      BY DEF CancelAndAbort
    <3> QED BY <1>5, <3>1, <3>2, <3>3
  <2> QED BY <1>1, <2>1 DEF ClientTypes
<1>6. ASSUME NEW u \in Tasks, StreamCleanup(u)
      PROVE  Moves
  BY <1>1, <1>6 DEF StreamCleanup, ClientTypes
<1>7. CASE CloseBegin
  <2>1. closed => task' = task
    BY <1>7 DEF CloseBegin
  <2> QED BY <1>1, <1>7, <2>1, CloseBeginFacts
<1>8. \A r \in Requests :
        DeliverResult(r) \/ StreamFinalize(r) => task' = task
  BY DEF DeliverResult, StreamFinalize
<1>9. CloseFinish \/ StreamPut \/ UNCHANGED clientVars => task' = task
  BY DEF CloseFinish, StreamPut, clientVars
<1> HIDE DEF Moves
<1> QED BY <1>2, <1>3, <1>4, <1>5, <1>6, <1>7, <1>8, <1>9, WhoTouchesClients DEF Moves

LEMMA AbortsOverKept ==
  ASSUME EngineInv, AbortsAreOver, ~PlainAborts, IdsUnique, [Next]_vars
  PROVE  AbortsAreOver'
<1> SUFFICES ASSUME NEW t \in Tasks, ReqId[t] \in abortQueue'
             PROVE  task'[t] \in {"cancelling", "cancelled"}
  BY DEF AbortsAreOver
<1>1. CASE ReqId[t] \in abortQueue
  <2>1. task[t] \in {"cancelling", "cancelled"}
    BY <1>1 DEF AbortsAreOver
  <2> QED BY <2>1, TaskMoves
<1>2. CASE ReqId[t] \notin abortQueue
  <2>1. PICK u \in Tasks : CancelAndAbort(u)
    BY <1>2, WhoAborts DEF Abort, DrainAbort
  <2>2. u = t
    BY <1>2, <2>1 DEF CancelAndAbort, QueueAbort, IdsUnique
  <2>3. task' = [task EXCEPT ![t] = IF Streaming THEN "cancelling" ELSE "cancelled"]
    BY <2>1, <2>2 DEF CancelAndAbort
  <2> QED BY <2>3 DEF EngineInv, EngineTypeOK
<1> QED BY <1>1, <1>2

(* A task awaits an answer from the moment it is added.                     *)
LEMMA AwaitingMoves ==
  ASSUME EngineInv, IdsUnique, [Next]_vars, NEW t \in Tasks, Awaiting(t)'
  PROVE  Awaiting(t) \/ (TaskAdd(t) /\ Added(t))
<1>1. task'[t] \in {"waiting", "added"} /\ future'[t].kind = "pending"
  BY DEF Awaiting
<1>2. CASE TaskAdd(t)
  <2>1. Refused(t) => task'[t] = "refused"
    BY DEF Refused, EngineInv, EngineTypeOK
  <2> QED BY <1>1, <1>2, <2>1, TaskAddFacts
<1>3. CASE ~TaskAdd(t)
  <2>1. future[t].kind = "pending"
    <3>1. Output("cancelled", t).kind # "pending" /\ Output("closed", t).kind # "pending"
      BY DEF Output
    <3>2. \A out \in Outputs : out.kind # "pending"
      BY DEF Outputs, EngineOutputKinds
    <3>3. posted[t] \subseteq Outputs /\ (channel[t] # << >> => Head(channel[t]) \in Outputs)
      BY HeadTailProperties DEF EngineInv, EngineTypeOK
    <3> QED BY <1>1, <1>3, <3>1, <3>2, <3>3, FutureMoves
  <2>2. task[t] = "waiting" \/ (task[t] = "added" /\ ReqId[t] \in DOMAIN outQueue)
    <3>1. CASE task'[t] = task[t]
      <4>1. CASE task[t] = "waiting"
        BY <4>1
      <4>2. CASE task[t] = "added"
        <5>1. ReqId[t] \in DOMAIN outQueue'
          BY <3>1, <4>2 DEF Awaiting
        <5>2. \A u \in Tasks : TaskAdd(u) => ReqId[u] # ReqId[t]
          BY <1>3 DEF IdsUnique
        <5> QED BY <4>2, <5>1, <5>2, QueueMoves
      <4> QED BY <1>1, <3>1, <4>1, <4>2
    <3>2. CASE task'[t] # task[t]
      BY <1>1, <1>3, <3>2, TaskMoves
    <3> QED BY <3>1, <3>2
  <2> QED BY <2>1, <2>2 DEF Awaiting
<1> QED BY <1>2, <1>3

(* How a task leaves the queue.                                             *)
LEMMA QueueLoses ==
  ASSUME EngineInv, [Next]_vars, NEW r \in DOMAIN outQueue
  PROVE  \/ r \in DOMAIN outQueue' /\ outQueue'[r] = outQueue[r]
         \/ \E t \in Tasks : TaskAdd(t) /\ ReqId[t] = r
         \/ task'[outQueue[r]] = "done" \/ task[outQueue[r]] = "cancelling"
         \/ DeliverResult(r) /\ Answered(r)
         \/ CloseBegin /\ ~closed
<1> DEFINE Loses == \/ r \in DOMAIN outQueue' /\ outQueue'[r] = outQueue[r]
                    \/ \E t \in Tasks : TaskAdd(t) /\ ReqId[t] = r
                    \/ task'[outQueue[r]] = "done" \/ task[outQueue[r]] = "cancelling"
                    \/ DeliverResult(r) /\ Answered(r)
                    \/ CloseBegin /\ ~closed
<1>1. ClientTypes /\ outQueue[r] \in Tasks
  BY TypeParts DEF EngineInv, ClientTypes
<1>2. outQueue' = outQueue => Loses
  OBVIOUS
<1>3. ASSUME NEW t \in Tasks, TaskAdd(t)
      PROVE  Loses
  <2>1. Refused(t) => outQueue' = outQueue
    BY DEF Refused
  <2>2. Added(t) /\ r # ReqId[t] => r \in DOMAIN outQueue' /\ outQueue'[r] = outQueue[r]
    BY DEF Added
  <2> QED BY <1>2, <1>3, <2>1, <2>2, TaskAddFacts
<1>4. ASSUME NEW t \in Tasks, ForgetQueue(t), task'[t] = "done" \/ task[t] = "cancelling"
      PROVE  Loses
  BY <1>1, <1>4, ForgetQueueFacts
<1>5. ASSUME NEW t \in Tasks, StreamNext(t)
      PROVE  Loses
  <2>1. outQueue' = outQueue \/ (ForgetQueue(t) /\ task'[t] = "done")
    BY <1>1, <1>5 DEF StreamNext, ClientTypes
  <2> QED BY <1>2, <1>4, <2>1
<1>6. ASSUME NEW t \in Tasks, StreamCleanup(t)
      PROVE  Loses
  BY <1>4, <1>6 DEF StreamCleanup
<1>7. ASSUME NEW q \in Requests, DeliverResult(q)
      PROVE  Loses
  <2>1. Skipped(q) => outQueue' = outQueue
    BY DEF Skipped
  <2>2. Answered(q) /\ q # r => r \in DOMAIN outQueue' /\ outQueue'[r] = outQueue[r]
    BY DEF Answered
  <2> QED BY <1>2, <1>7, <2>1, <2>2, DeliverFacts
<1>8. CASE CloseBegin
  <2>1. closed => outQueue' = outQueue
    BY <1>8 DEF CloseBegin
  <2> QED BY <1>2, <1>8, <2>1
<1>9. \A t \in Tasks : TaskLookup(t) \/ RunCallback(t) \/ CancelAndAbort(t) => outQueue' = outQueue
  BY DEF TaskLookup, RunCallback, CancelAndAbort
<1>10. \A q \in Requests : StreamFinalize(q) => outQueue' = outQueue
  BY DEF StreamFinalize
<1>11. CloseFinish \/ StreamPut \/ UNCHANGED clientVars => outQueue' = outQueue
  BY DEF CloseFinish, StreamPut, clientVars
<1> HIDE DEF Loses
<1> QED BY <1>2, <1>3, <1>5, <1>6, <1>7, <1>8, <1>9, <1>10, <1>11, WhoTouchesClients DEF Loses

(* Whoever takes a waiting task out of the queue has an answer for it.      *)
LEMMA QueueKeeps ==
  ASSUME EngineInv, IdsUnique, [Next]_vars, NEW t \in Tasks, Awaiting(t), Awaiting(t)',
         ReqId[t] \in DOMAIN outQueue, outQueue[ReqId[t]] = t
  PROVE  \/ ReqId[t] \in DOMAIN outQueue' /\ outQueue'[ReqId[t]] = t
         \/ OnItsWay(t)'
<1>1. ClientTypes /\ channel[t] \in Seq(Outputs)
  BY TypeParts DEF EngineInv, ClientTypes
<1>2. \A u \in Tasks : TaskAdd(u) => ReqId[u] # ReqId[t]
  BY DEF TaskAdd, Awaiting, IdsUnique
<1>3. task'[t] # "done" /\ task[t] # "cancelling"
  BY DEF Awaiting
<1>4. Answered(ReqId[t]) => OnItsWay(t)'
  BY DEF Answered, Awaiting, OnItsWay
<1>5. ASSUME CloseBegin, ~closed
      PROVE  OnItsWay(t)'
  <2>1. Evicted(t)
    BY DEF Evicted
  <2>2. CASE ~Streaming
    <3>1. future'[t] = Output("closed", t)
      BY <1>1, <1>5, <2>1, <2>2, CloseBeginFacts DEF Awaiting
    <3> QED BY <3>1 DEF Awaiting, Output
  <2>3. CASE Streaming
    <3>1. channel'[t] = Append(channel[t], Output("closed", t))
      BY <1>1, <1>5, <2>1, <2>3, CloseBeginFacts
    <3>2. Output("closed", t) \in Outputs /\ Terminal(Output("closed", t))
      BY OutputTypes DEF EngineOutputKinds, Output, Terminal
    <3>3. /\ Len(channel[t]) \in Nat /\ Len(channel'[t]) = Len(channel[t]) + 1
          /\ channel'[t][Len(channel[t]) + 1] = Output("closed", t)
      BY <1>1, <3>1, <3>2, AppendProperties, LenProperties
    <3>4. Len(channel[t]) + 1 \in 1..Len(channel'[t])
      BY <3>3
    <3> QED BY <3>2, <3>3, <3>4 DEF OnItsWay, Terminal
  <2> QED BY <2>2, <2>3
<1> QED BY <1>2, <1>3, <1>4, <1>5, QueueLoses

(* A posted callback stays until the event loop runs it.                    *)
LEMMA PostedKeeps ==
  ASSUME EngineInv, [Next]_vars, NEW t \in Tasks
  PROVE  posted[t] \subseteq posted'[t] \/ RunCallback(t)
<1>1. ClientTypes
  BY TypeParts DEF EngineInv
<1>2. ASSUME NEW u \in Tasks, RunCallback(u)
      PROVE  posted[t] \subseteq posted'[t] \/ u = t
  BY <1>1, <1>2 DEF RunCallback, ClientTypes
<1>3. ASSUME NEW r \in Requests, DeliverResult(r)
      PROVE  posted[t] \subseteq posted'[t]
  BY <1>3, DeliverFacts DEF Skipped, Answered
<1>4. \A u \in Tasks :
        TaskAdd(u) \/ TaskLookup(u) \/ StreamNext(u) \/ CancelAndAbort(u) \/ StreamCleanup(u)
          => posted' = posted
  BY DEF TaskAdd, TaskLookup, StreamNext, CancelAndAbort, StreamCleanup
<1>5. \A r \in Requests : StreamFinalize(r) => posted' = posted
  BY DEF StreamFinalize
<1>6. CloseBegin \/ CloseFinish \/ StreamPut \/ UNCHANGED clientVars => posted' = posted
  BY DEF CloseBegin, CloseFinish, StreamPut, clientVars
<1> QED BY <1>2, <1>3, <1>4, <1>5, <1>6, WhoTouchesClients

(* An answer on its way is not lost: it arrives, or goes on.                *)
LEMMA OnItsWayKept ==
  ASSUME EngineInv, OwnInv, IdsUnique, [Next]_vars,
         NEW t \in Tasks, Awaiting(t), Awaiting(t)', OnItsWay(t)
  PROVE  OnItsWay(t)'
<1>1. /\ ClientTypes /\ channel[t] \in Seq(Outputs) /\ Len(channel[t]) \in Nat
      /\ posted[t] \subseteq Outputs /\ future[t].kind = "pending"
  BY TypeParts, LenProperties DEF EngineInv, ClientTypes, Awaiting
<1>2. ASSUME NEW out \in Outputs, Terminal(out), channel'[t] = Append(channel[t], out)
      PROVE  OnItsWay(t)'
  <2>1. /\ Len(channel'[t]) = Len(channel[t]) + 1 /\ channel'[t][Len(channel[t]) + 1] = out
        /\ Len(channel[t]) + 1 \in 1..Len(channel'[t])
    BY <1>1, <1>2, AppendProperties
  <2> QED BY <1>2, <2>1 DEF OnItsWay, Terminal
<1>3. CASE posted[t] # {}
  <2>1. ~RunCallback(t)
    <3>1. RunCallback(t) => future'[t] \in posted[t]
      BY <1>1 DEF RunCallback, ClientTypes
    <3> QED BY <1>1, <3>1 DEF Awaiting, Outputs, EngineOutputKinds
  <2> QED BY <1>3, <2>1, PostedKeeps DEF OnItsWay
<1>4. CASE \E i \in 1..Len(channel[t]) : Terminal(channel[t][i])
  <2>1. PICK i \in 1..Len(channel[t]) : Terminal(channel[t][i])
    BY <1>4
  <2>2. CASE channel'[t] = channel[t]
    BY <2>1, <2>2 DEF OnItsWay, Terminal
  <2>3. CASE StreamNext(t) /\ channel[t] # << >> /\ channel'[t] = Tail(channel[t])
    <3>1. ~Terminal(Head(channel[t]))
      <4>1. Terminal(Head(channel[t])) => task'[t] = "done"
        BY <1>1, <2>3 DEF StreamNext, ClientTypes
      <4> QED BY <4>1 DEF Awaiting
    <3>2. i # 1
      BY <1>1, <2>1, <2>3, <3>1
    <3>3. i - 1 \in 1..Len(channel'[t]) /\ channel'[t][i - 1] = channel[t][i]
      BY <1>1, <2>3, <3>2, HeadTailProperties
    <3> QED BY <2>1, <3>3 DEF OnItsWay, Terminal
  <2>4. ASSUME NEW out \in Outputs, channel'[t] = Append(channel[t], out)
        PROVE  OnItsWay(t)'
    <3>1. i \in 1..Len(channel'[t]) /\ channel'[t][i] = channel[t][i]
      BY <1>1, <2>4, AppendProperties
    <3> QED BY <2>1, <3>1 DEF OnItsWay, Terminal
  <2>5. Output("closed", t) \in Outputs
    BY OutputTypes DEF EngineOutputKinds
  <2> QED BY <2>2, <2>3, <2>4, <2>5, ChannelMoves
<1>5. CASE \E h \in inHand : h.req \in DOMAIN outQueue /\ outQueue[h.req] = t
  <2>1. PICK h \in inHand : h.req \in DOMAIN outQueue /\ outQueue[h.req] = t
    BY <1>5
  <2>2. ReqId[t] = h.req /\ Terminal(h.out) /\ h.out \in Outputs
    BY <2>1 DEF EngineInv, EngineTypeOK, QueueInPlace, OwnInv, InHandInPlace
  <2>3. CASE StreamLookup
    <3>1. LookUpQueue(h.req, h.out)
      BY <2>1, <2>3 DEF StreamLookup, EngineInv, LoopInPlace
    <3>2. [to |-> t, out |-> h.out] \in putting'
      BY <2>1, <3>1 DEF LookUpQueue
    <3> QED BY <2>2, <3>2 DEF OnItsWay, Terminal
  <2>4. CASE ~StreamLookup
    <3>1. h \in inHand'
      BY <2>1, <2>4, WhoDelivers
      DEF IdleSchedule, Update, DeliverResult, StreamPut, StreamFinalize, StreamChunk
    <3> QED BY <2>1, <2>2, <3>1, QueueKeeps DEF OnItsWay
  <2> QED BY <2>3, <2>4
<1>6. CASE \E p \in putting : p.to = t /\ Terminal(p.out)
  <2>1. PICK p \in putting : p.to = t /\ Terminal(p.out)
    BY <1>6
  <2>2. CASE StreamPut
    BY <1>2, <2>1, <2>2, StreamPutFacts
  <2>3. CASE ~StreamPut
    <3>1. p \in putting'
      BY <2>1, <2>3, WhoDelivers
      DEF EngineInv, LoopInPlace, IdleSchedule, Update, DeliverResult, StreamLookup,
          StreamFinalize, StreamChunk
    <3> QED BY <2>1, <3>1 DEF OnItsWay, Terminal
  <2> QED BY <2>2, <2>3
<1> QED BY <1>3, <1>4, <1>5, <1>6 DEF OnItsWay

(* A request ends by an update, which says so, or by an abort.              *)
LEMMA EndsByUpdate ==
  ASSUME EngineInv, [Next]_vars, NEW r \in Known, r \in Known', ~IsFinished(r), IsFinished(r)'
  PROVE  r \in finishing' \/ DrainAbort(r)
<1>1. \A q \in Requests : DrainAbort(q) => q = r \/ ~IsFinished(r)'
  <2> SUFFICES ASSUME NEW q \in Requests, DrainAbort(q), q # r
               PROVE  IsFinished(r)' = IsFinished(r)
    OBVIOUS
  <2>1. FinishRequest(q, "FINISHED_ABORTED") => StatusOf(r)' = StatusOf(r)
    BY FinishFacts
  <2>2. UNCHANGED schedulerVars => StatusOf(r)' = StatusOf(r)
    BY SchedulerFrame
  <2> QED BY <2>1, <2>2 DEF DrainAbort, IsFinished
<1>2. \A t \in Tasks : TaskAdd(t) => StatusOf(r)' = StatusOf(r)
  <2> SUFFICES ASSUME NEW t \in Tasks, TaskAdd(t)
               PROVE  StatusOf(r)' = StatusOf(r)
    OBVIOUS
  <2>1. Refused(t) => StatusOf(r)' = StatusOf(r)
    BY SchedulerFrame DEF Refused
  <2>2. Added(t) => StatusOf(r)' = StatusOf(r)
    BY AddFacts DEF Added
  <2> QED BY <2>1, <2>2, TaskAddFacts
<1>3. \A q \in Requests : DeliverResult(q) \/ StreamFinalize(q) => StatusOf(r)' = StatusOf(r)
  <2> SUFFICES ASSUME NEW q \in Requests, DeliverResult(q) \/ StreamFinalize(q)
               PROVE  StatusOf(r)' = StatusOf(r)
    OBVIOUS
  <2>1. PopRequestState(q) \/ UNCHANGED schedulerVars
    BY DEF DeliverResult, StreamFinalize
  <2> QED BY <2>1, PopFacts, SchedulerFrame
<1>4. IdleSchedule => ~IsFinished(r)'
  BY ScheduleFacts DEF IsFinished, FinishedStatus
<1>5. Update => r \in finishing' \/ ~IsFinished(r)'
  BY UpdateFacts DEF Update, Surfaced, IsFinished
<1>6. ~CloseFinish
  BY DEF CloseFinish, SchedulerClose, Known
<1>7. UNCHANGED schedulerVars => StatusOf(r)' = StatusOf(r)
  BY SchedulerFrame
<1> QED BY <1>1, <1>2, <1>3, <1>4, <1>5, <1>6, <1>7, WhoUsesScheduler DEF IsFinished

(* A registered request stays so until its answer is on its way.            *)
LEMMA RegisteredKept ==
  ASSUME EngineInv, AbortsAreOver, IdsUnique, [Next]_vars,
         NEW t \in Tasks, Awaiting(t), Awaiting(t)', Registered(t)
  PROVE  OnItsWay(t)' \/ Registered(t)'
<1> DEFINE r == ReqId[t]
<1>1. /\ r \in DOMAIN outQueue /\ outQueue[r] = t /\ r \in Known /\ r \in Requests
      /\ IsFinished(r) => r \in finishing
  BY TasksAssumption DEF Registered
<1> SUFFICES ASSUME r \in DOMAIN outQueue', outQueue'[r] = t, ~OnItsWay(t)'
             PROVE  r \in Known' /\ (IsFinished(r)' => r \in finishing')
  BY <1>1, QueueKeeps DEF Registered, IsFinished, StatusOf
<1> HIDE DEF r
<1>2. ~StreamFinalize(r)
  <2>1. StreamFinalize(r) => \E h \in inHand' : h.req = r
    BY DEF StreamFinalize
  <2> QED BY <2>1 DEF OnItsWay
<1>3. ~DeliverResult(r)
  BY <1>1, DeliverFacts DEF Skipped, Answered
<1>4. r \in Known'
  <2>1. \A u \in Tasks : TaskAdd(u) => r \in Known'
    <3> SUFFICES ASSUME NEW u \in Tasks, TaskAdd(u) PROVE r \in Known'
      OBVIOUS
    <3>1. Refused(u) => Known' = Known
      BY SchedulerFrame DEF Refused
    <3>2. Added(u) => Known' = Known \cup {ReqId[u]}
      BY AddFacts DEF Added
    <3> QED BY <1>1, <3>1, <3>2, TaskAddFacts
  <2>2. \A q \in Requests : DeliverResult(q) \/ StreamFinalize(q) => r \in Known'
    <3> SUFFICES ASSUME NEW q \in Requests, DeliverResult(q) \/ StreamFinalize(q)
                 PROVE  r \in Known'
      OBVIOUS
    <3>1. q # r /\ (PopRequestState(q) \/ UNCHANGED schedulerVars)
      BY <1>2, <1>3 DEF DeliverResult, StreamFinalize
    <3> QED BY <1>1, <3>1, PopFacts, SchedulerFrame
  <2>3. ~CloseFinish
    BY <1>1 DEF CloseFinish, EngineInv, ClosedInPlace
  <2> QED BY <1>1, <2>1, <2>2, <2>3, WhoRegisters
<1>5. CASE ~IsFinished(r)
  <2>1. ~DrainAbort(r)
    BY DEF r, DrainAbort, AbortsAreOver, Awaiting
  <2> QED BY <1>1, <1>4, <1>5, <2>1, EndsByUpdate
<1>6. CASE IsFinished(r)
  <2>1. r \in finishing /\ loop = "deliver"
    BY <1>1, <1>6 DEF EngineInv, LoopInPlace
  <2>2. r \in finishing'
    BY <1>2, <1>3, <2>1, WhoDelivers
    DEF IdleSchedule, Update, StreamLookup, StreamPut, DeliverResult, StreamFinalize, StreamChunk
  <2> QED BY <1>4, <2>2
<1> QED BY <1>5, <1>6

LEMMA WaiterInvNext ==
  ASSUME EngineInv, OwnInv, WaiterInv, ~PlainAborts, IdsUnique, [Next]_vars
  PROVE  WaiterInv'
<1>1. AbortsAreOver'
  BY AbortsOverKept DEF WaiterInv
<1> SUFFICES ASSUME NEW t \in Tasks, Awaiting(t)'
             PROVE  OnItsWay(t)' \/ Registered(t)'
  BY <1>1 DEF WaiterInv
<1>2. CASE TaskAdd(t) /\ Added(t)
  <2>1. ReqId[t] \in Known' /\ StatusOf(ReqId[t])' = "WAITING"
    BY <1>2, AddFacts DEF Added
  <2> QED BY <1>2, <2>1 DEF Added, Registered, IsFinished, FinishedStatus, StatusOf
<1>3. CASE Awaiting(t)
  BY <1>3, OnItsWayKept, RegisteredKept DEF WaiterInv
<1> QED BY <1>2, <1>3, AwaitingMoves

(* Whoever awaits its request will be given an answer, as long as the ids   *)
(* of requests are not used again and only a caller that has given up       *)
(* aborts its request: no wake-up is lost between the event loop, the busy  *)
(* loop, RPCs and close().                                                  *)
THEOREM NoWaiterEverLost == ~PlainAborts /\ IdsUnique => (Spec => []NoLostWaiter)
<1> SUFFICES ASSUME ~PlainAborts, IdsUnique PROVE Spec => []NoLostWaiter
  OBVIOUS
<1>1. Spec => []OwnInv
  BY OwnInvAlways
<1>2. Init => WaiterInv
  <2>1. Init => AbortsAreOver
    BY DEF Init, AbortsAreOver
  <2>2. ASSUME Init, NEW t \in Tasks PROVE ~Awaiting(t)
    BY <2>2 DEF Init, Awaiting
  <2> QED BY <2>1, <2>2 DEF WaiterInv
<1>3. EngineInv /\ OwnInv /\ WaiterInv /\ [Next]_vars => WaiterInv'
  BY WaiterInvNext
<1>4. WaiterInv => NoLostWaiter
  BY DEF WaiterInv, Awaiting, Registered, NoLostWaiter
<1> QED BY <1>1, <1>2, <1>3, <1>4, EngineInvAlways, PTL DEF Spec
=============================================================================
