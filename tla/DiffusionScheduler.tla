-------------------------- MODULE DiffusionScheduler --------------------------
(***************************************************************************)
(* The diffusion schedulers: the queues and request states shared by        *)
(* _BaseScheduler (sched/base_scheduler.py) and the two ways of reading a   *)
(* runner output, RequestScheduler (one result ends the request) and        *)
(* StepScheduler (one denoise step per update).                             *)
(*                                                                          *)
(* One action per method.  The list _running is a set here: the code only   *)
(* reads its length, its membership and the key its members share.  The     *)
(* deque _waiting is a sequence.  Error texts, step ids and the KV prefetch *)
(* hint of schedule() are left out.  A definition named Mut... is a wrong   *)
(* variant of the definition that follows it: the property it is listed     *)
(* with in PROJECT.json catches it.                                         *)
(***************************************************************************)
EXTENDS Integers, Sequences, FiniteSets

CONSTANTS
  Requests,    \* request ids
  Keys,        \* values of SamplingParamsKey
  NoKey,       \* key of a request with several prompts: it runs alone
  MaxRunning,  \* max_num_running_reqs
  StepMode,    \* TRUE: StepScheduler, FALSE: RequestScheduler
  TotalSteps   \* denoise steps of a request in step mode

ASSUME NoKeyAssumption == NoKey \notin Keys
ASSUME MaxRunningAssumption == MaxRunning \in Nat \ {0}
ASSUME StepModeAssumption == StepMode \in BOOLEAN
ASSUME TotalStepsAssumption == TotalSteps \in Nat \ {0}

VARIABLES
  requestStates,   \* _request_states: [ids -> [key, status]], a partial function
  waiting,         \* _waiting
  running,         \* _running
  runningKey,      \* _running_sampling_params_key
  finishedReqIds,  \* _finished_req_ids: ended since the last schedule()
  progress,        \* _request_progress: [ids -> current_step] in step mode
  schedOutput      \* the DiffusionSchedulerOutput its caller is working on

schedulerVars ==
  <<requestStates, waiting, running, runningKey, finishedReqIds, progress, schedOutput>>

-----------------------------------------------------------------------------
FinishedStatus == {"FINISHED_COMPLETED", "FINISHED_ABORTED", "FINISHED_ERROR"}
Status == {"WAITING", "RUNNING", "PREEMPTED"} \cup FinishedStatus

Known == DOMAIN requestStates
StatusOf(r) == requestStates[r].status
IsFinished(r) == StatusOf(r) \in FinishedStatus
HasRequests == waiting # <<>> \/ running # {}

NoOutput == [new |-> {}, cached |-> {}, finished |-> {}]
Scheduled == schedOutput.new \cup schedOutput.cached

(* What the runner reports for one request: nothing ("absent"), neither     *)
(* result nor step index ("empty"), an error, an intermediate step without  *)
(* ("step") or with a partial result ("chunk"), or the end ("final").       *)
OutputKinds == {"absent", "empty", "error", "step", "chunk", "final"}
RunnerOutput == [kind : OutputKinds, step : 0..TotalSteps]

(* RequestScheduler.update_from_output: any result without an error ends    *)
(* the request well, everything else ends it badly.                         *)
RequestVerdict(out) ==
  IF out.kind \in {"chunk", "final"} THEN "FINISHED_COMPLETED" ELSE "FINISHED_ERROR"

(* StepScheduler.update_from_output: a step without an error keeps the      *)
(* request running until the runner says it is finished.                    *)
StepVerdict(out) ==
  CASE out.kind \in {"absent", "empty", "error"} -> "FINISHED_ERROR"
    [] out.kind = "final" -> "FINISHED_COMPLETED"
    [] OTHER -> "RUNNING"

Verdict(out) == IF StepMode THEN StepVerdict(out) ELSE RequestVerdict(out)

(* The runner reported a step index and no error: lines 107-108.            *)
Advances(out) == StepMode /\ out.kind \in {"step", "chunk", "final"}

(* The progress it then records.                                            *)
MutNewStep(out) == out.step + 1
NewStep(out) == out.step

(* The queue without one of its members.                                    *)
MutWithout(q, r) == q
Without(q, r) ==
  IF \E i \in 1..Len(q) : q[i] = r
  THEN LET p == CHOOSE i \in 1..Len(q) : q[i] = r
       IN  [i \in 1..(Len(q) - 1) |-> IF i < p THEN q[i] ELSE q[i + 1]]
  ELSE q

Queued == {waiting[i] : i \in 1..Len(waiting)}

-----------------------------------------------------------------------------
SchedulerInit ==
  /\ requestStates = << >>
  /\ waiting = << >>
  /\ running = {}
  /\ runningKey = NoKey
  /\ finishedReqIds = {}
  /\ progress = << >>
  /\ schedOutput = NoOutput

(* add_request: a request whose id is still known is refused (ValueError),  *)
(* one that resumes from a checkpoint starts at the step it reached.        *)
MutAddRequest(r, k, step) ==
  /\ r \notin Known
  /\ requestStates' = [q \in Known \cup {r} |->
                         IF q = r THEN [key |-> k, status |-> "WAITING"]
                                  ELSE requestStates[q]]
  /\ waiting' = <<r>> \o waiting
  /\ progress' = [q \in DOMAIN progress \cup {r} |-> IF q = r THEN step ELSE progress[q]]
  /\ UNCHANGED <<running, runningKey, finishedReqIds, schedOutput>>
AddRequest(r, k, step) ==
  /\ r \notin Known
  /\ StepMode => step < TotalSteps
  /\ requestStates' = [q \in Known \cup {r} |->
                         IF q = r THEN [key |-> k, status |-> "WAITING"]
                                  ELSE requestStates[q]]
  /\ waiting' = Append(waiting, r)
  /\ progress' = IF StepMode
                 THEN [q \in DOMAIN progress \cup {r} |-> IF q = r THEN step ELSE progress[q]]
                 ELSE progress
  /\ UNCHANGED <<running, runningKey, finishedReqIds, schedOutput>>

(* The key the batch shares: _current_sampling_params_key, and, while the   *)
(* batch is empty, the key of the request that will open it.                *)
BatchKey ==
  IF running = {} THEN requestStates[waiting[1]].key
  ELSE IF runningKey # NoKey THEN runningKey
  ELSE requestStates[CHOOSE r \in running : TRUE].key

(* _can_schedule_waiting for the i-th request of the queue, once the ones   *)
(* ahead of it have been admitted.                                          *)
MutCanSchedule(i) == (i = 1 /\ running = {}) \/ BatchKey # NoKey
CanSchedule(i) ==
  \/ i = 1 /\ running = {}
  \/ BatchKey # NoKey /\ requestStates[waiting[i]].key = BatchKey

(* How many requests the admission loop takes from the head of the queue:   *)
(* it stops at the first one that cannot join and when the batch is full.   *)
MutAdmissible(n) ==
  n = 0 \/ (n + Cardinality(running) <= MaxRunning + 1 /\ \A i \in 1..n : CanSchedule(i))
Admissible(n) ==
  n = 0 \/ (n + Cardinality(running) <= MaxRunning /\ \A i \in 1..n : CanSchedule(i))

NumAdmitted ==
  CHOOSE n \in 0..Len(waiting) :
    Admissible(n) /\ \A m \in 0..Len(waiting) : Admissible(m) => m <= n

(* schedule(): requests already running are sent again by id, requests that *)
(* ran before and were preempted too, new ones with their payload.  The ids *)
(* that ended since the last call are handed over once, then forgotten.     *)
Schedule ==
  LET admitted == {waiting[i] : i \in 1..NumAdmitted}
      new == {r \in admitted : StatusOf(r) = "WAITING"}
  IN  /\ schedOutput' = [new |-> new,
                         cached |-> running \cup (admitted \ new),
                         finished |-> finishedReqIds]
      /\ requestStates' = [r \in Known |->
                             IF r \in admitted
                             THEN [requestStates[r] EXCEPT !.status = "RUNNING"]
                             ELSE requestStates[r]]
      /\ waiting' = SubSeq(waiting, NumAdmitted + 1, Len(waiting))
      /\ running' = running \cup admitted
      /\ runningKey' = IF running = {} /\ admitted # {} THEN BatchKey ELSE runningKey
      /\ finishedReqIds' = {}
      /\ UNCHANGED progress

(* The key of the batch after the requests in S left it.                    *)
KeyAfter(S) == IF S \cap running # {} /\ running \subseteq S THEN NoKey ELSE runningKey

(* The scheduled requests whose output counts: not popped, not ended while  *)
(* the runner was working.                                                  *)
MutLive(S) == {r \in S : r \in Known /\ (StepMode => r \in DOMAIN progress)}
Live(S) == {r \in S : /\ r \in Known
                      /\ ~IsFinished(r)
                      /\ StepMode => r \in DOMAIN progress}

Ended(out) == {r \in Live(Scheduled) : Verdict(out[r]) \in FinishedStatus}

(* The set update_from_output returns: the requests this output ends, and   *)
(* the scheduled ones that were aborted while the runner was working.       *)
MutSurfaced(out) == Scheduled \cap finishedReqIds
Surfaced(out) == (Scheduled \cap finishedReqIds) \cup Ended(out)

UpdateFromOutput(out) ==
  /\ requestStates' = [r \in Known |->
                         IF r \in Ended(out)
                         THEN [requestStates[r] EXCEPT !.status = Verdict(out[r])]
                         ELSE requestStates[r]]
  /\ running' = running \ Ended(out)
  /\ runningKey' = KeyAfter(Ended(out))
  /\ finishedReqIds' = finishedReqIds \cup Ended(out)
  /\ progress' = [r \in DOMAIN progress |->
                    IF r \in Live(Scheduled) /\ Advances(out[r])
                    THEN NewStep(out[r]) ELSE progress[r]]
  /\ schedOutput' = NoOutput
  /\ UNCHANGED waiting

(* finish_requests for one id; ids unknown or already finished are skipped. *)
MutFinishInBatch(r, status) ==
  /\ r \in Known
  /\ ~IsFinished(r)
  /\ requestStates' = [requestStates EXCEPT ![r].status = status]
  /\ waiting' = Without(waiting, r)
  /\ finishedReqIds' = finishedReqIds \cup {r}
  /\ UNCHANGED <<running, runningKey, progress, schedOutput>>
MutFinishUnreported(r, status) ==
  /\ r \in Known
  /\ ~IsFinished(r)
  /\ requestStates' = [requestStates EXCEPT ![r].status = status]
  /\ running' = running \ {r}
  /\ runningKey' = KeyAfter({r})
  /\ waiting' = Without(waiting, r)
  /\ UNCHANGED <<finishedReqIds, progress, schedOutput>>
FinishRequest(r, status) ==
  /\ r \in Known
  /\ ~IsFinished(r)
  /\ requestStates' = [requestStates EXCEPT ![r].status = status]
  /\ running' = running \ {r}
  /\ runningKey' = KeyAfter({r})
  /\ waiting' = Without(waiting, r)
  /\ finishedReqIds' = finishedReqIds \cup {r}
  /\ UNCHANGED <<progress, schedOutput>>

(* preempt_request puts a running request back at the head of the queue.    *)
PreemptRequest(r) ==
  /\ r \in running
  /\ running' = running \ {r}
  /\ runningKey' = KeyAfter({r})
  /\ waiting' = <<r>> \o waiting
  /\ requestStates' = [requestStates EXCEPT ![r].status = "PREEMPTED"]
  /\ UNCHANGED <<finishedReqIds, progress, schedOutput>>

(* pop_request_state, as the engine calls it: for a request that ended.     *)
PopRequestState(r) ==
  /\ r \in Known
  /\ IsFinished(r)
  /\ requestStates' = [q \in Known \ {r} |-> requestStates[q]]
  /\ progress' = [q \in DOMAIN progress \ {r} |-> progress[q]]
  /\ UNCHANGED <<waiting, running, runningKey, finishedReqIds, schedOutput>>

SchedulerClose ==
  /\ requestStates' = << >>
  /\ waiting' = << >>
  /\ running' = {}
  /\ runningKey' = NoKey
  /\ finishedReqIds' = {}
  /\ progress' = << >>
  /\ schedOutput' = NoOutput

-----------------------------------------------------------------------------
(* The scheduler under any caller that respects the engine's protocol:      *)
(* schedule() and update_from_output() alternate, a request is popped only  *)
(* once its last output has been applied, and the runner reports steps one  *)
(* by one.  preempt_request has no caller in the package; its test calls it *)
(* between two cycles.                                                      *)
PossibleOutput(r) ==
  IF StepMode /\ r \in DOMAIN progress
  THEN LET s == progress[r] + 1
       IN  {o \in RunnerOutput :
              CASE o.kind \in {"step", "chunk"} -> o.step = s /\ s < TotalSteps
                [] o.kind = "final" -> o.step = s /\ s = TotalSteps
                [] OTHER -> o.step = 0}
  ELSE {o \in RunnerOutput : o.kind \notin {"step", "chunk"} /\ o.step = 0}

RunnerOutputs ==
  {out \in [Scheduled -> RunnerOutput] : \A r \in Scheduled : out[r] \in PossibleOutput(r)}

Add == \E r \in Requests, k \in Keys \cup {NoKey}, step \in 0..(TotalSteps - 1) :
         AddRequest(r, k, step)
StartCycle == Scheduled = {} /\ Schedule
EndCycle == Scheduled # {} /\ \E out \in RunnerOutputs : UpdateFromOutput(out)
Finish == \E r \in Requests, status \in FinishedStatus : FinishRequest(r, status)
Preempt == Scheduled = {} /\ \E r \in Requests : PreemptRequest(r)
Pop == \E r \in Requests \ Scheduled : PopRequestState(r)

SchedulerNext ==
  \/ Add
  \/ StartCycle
  \/ EndCycle
  \/ Finish
  \/ Preempt
  \/ Pop
  \/ SchedulerClose

SchedulerSpec == SchedulerInit /\ [][SchedulerNext]_schedulerVars

(* Serving without interruption: requests arrive, run to their end and are  *)
(* popped, for ever.  The engine's busy loop keeps cycling while there are  *)
(* requests and the executor answers, so its two calls are weakly fair.     *)
(* Nothing in the package preempts; an abort only shortens a wait.          *)
ServeNext == Add \/ StartCycle \/ EndCycle \/ Pop

FairSchedulerSpec ==
  /\ SchedulerInit
  /\ [][ServeNext]_schedulerVars
  /\ WF_schedulerVars(HasRequests /\ StartCycle)
  /\ WF_schedulerVars(EndCycle)

-----------------------------------------------------------------------------
(* Every variable has its type.                                             *)
SchedulerTypeOK ==
  /\ Known \subseteq Requests
  /\ requestStates \in [Known -> [key : Keys \cup {NoKey}, status : Status]]
  /\ waiting \in Seq(Requests)
  /\ running \subseteq Requests
  /\ runningKey \in Keys \cup {NoKey}
  /\ finishedReqIds \subseteq Requests
  /\ DOMAIN progress \subseteq Requests
  /\ progress \in [DOMAIN progress -> 0..TotalSteps]
  /\ schedOutput \in [new : SUBSET Requests, cached : SUBSET Requests, finished : SUBSET Requests]

(* The two queues and the statuses tell the same story: the batch holds     *)
(* exactly the RUNNING requests, the deque exactly the WAITING and          *)
(* PREEMPTED ones, each once.  Then schedule() never meets an id without    *)
(* state (its lines 100-102) and no live request is out of both queues,     *)
(* where nothing would ever run or finish it.                               *)
QueuesMatchStatus ==
  /\ running = {r \in Known : StatusOf(r) = "RUNNING"}
  /\ Queued = {r \in Known : StatusOf(r) \in {"WAITING", "PREEMPTED"}}
  /\ \A i, j \in 1..Len(waiting) : waiting[i] = waiting[j] => i = j

(* The batch fits, and it is homogeneous: all its members have the key the  *)
(* scheduler remembers, and a request without a key runs alone.             *)
BatchIsLegal ==
  /\ Cardinality(running) <= MaxRunning
  /\ \A r \in running : requestStates[r].key = runningKey
  /\ running = {} => runningKey = NoKey
  /\ runningKey = NoKey => \A q, r \in running : q = r

(* In step mode a request has a progress entry for as long as it has a      *)
(* state: update_from_output skips a request without one, and would skip it *)
(* for ever (step_scheduler.py, line 78).                                   *)
ProgressCoversStates == StepMode => DOMAIN progress = Known

(* An id that was handed to the runner as ended is never among the ids sent *)
(* without payload in the same output: the runner first drops the state of  *)
(* the former, then looks up the state of the latter.                       *)
CachedNotFinished == schedOutput.cached \cap schedOutput.finished = {}

(* A request that ended keeps its verdict until the engine pops it: an      *)
(* output that arrives after an abort changes nothing.                      *)
VerdictIsFinal ==
  [][\A r \in Known : IsFinished(r) /\ r \in DOMAIN requestStates'
                        => requestStates'[r] = requestStates[r]]_schedulerVars

(* No request waits for ever, however many compatible requests keep         *)
(* arriving behind an incompatible one: the head of the queue is never      *)
(* overtaken.                                                               *)
NoStarvation ==
  \A r \in Requests :
    (r \in Known /\ StatusOf(r) = "WAITING") ~> ~(r \in Known /\ StatusOf(r) = "WAITING")

(* The scheduler implements the lifecycle contract of its interface.        *)
Lifecycle ==
  INSTANCE BatchLifecycle WITH
    status <- [r \in Requests |-> IF r \in Known THEN StatusOf(r) ELSE "ABSENT"],
    key <- [r \in Requests |-> IF r \in Known THEN requestStates[r].key ELSE NoKey]

LifecycleSpec == Lifecycle!Spec
=============================================================================
