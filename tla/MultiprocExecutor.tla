-------------------------- MODULE MultiprocExecutor --------------------------
(***************************************************************************)
(* MultiprocDiffusionExecutor (executor/multiproc_executor.py) and the loop *)
(* of its worker processes (WorkerProc, worker/diffusion_worker.py).  Calls *)
(* go to every worker over one broadcast queue; the answers of rank 0 come  *)
(* back over one result queue, and say nothing of the call they belong to.  *)
(* The engine makes one call at a time: from its busy loop, or under its    *)
(* lock (diffusion_engine.py 773-785).  A monitor thread shuts the executor *)
(* down when a worker dies, and the engine's close() may do so at any time. *)
(*                                                                          *)
(* The queues are vLLM's shared-memory MessageQueue, taken as reliable      *)
(* FIFOs.  Payloads, shared-memory packing and the sleep and wake-up        *)
(* messages, which nothing in the package sends, are left out.              *)
(***************************************************************************)
EXTENDS Naturals, Sequences, FiniteSets

CONSTANTS
  Workers,     \* the worker processes
  Leader,      \* rank 0, the one with the result queue
  Calls,       \* calls of collective_rpc
  AllRanks,    \* those every rank executes (exec_all_ranks)
  Gathered,    \* those that collect the status of every rank (no unique_reply_rank)
  TimedCalls,  \* those with a timeout
  Stop,        \* SHUTDOWN_MESSAGE
  None         \* no call

ASSUME LeaderAssumption == Leader \in Workers
ASSUME CallsAssumption == Gathered \subseteq AllRanks /\ AllRanks \cup TimedCalls \subseteq Calls
ASSUME MarkersAssumption == {Stop, None} \cap Calls = {} /\ Stop # None

VARIABLES
  inbox,     \* the broadcast queue, as each worker still has to read it
  results,   \* the result queue: [call, ok]
  worker,    \* what each process does
  job,       \* the call it works on
  went,      \* [Calls -> SUBSET Workers]: the ranks whose part went well
  caller,    \* the call in progress
  call,      \* the state of each call
  reply,     \* the answer a call was given: [call, ok]
  isFailed,  \* is_failed
  closed,    \* _closed
  open,      \* _broadcast_mq, _result_mq and _processes are still there
  finalized, \* the finalizer has run: it runs once
  signalled, \* the processes it has sent SIGTERM
  thread     \* the monitor, the thread in shutdown() for the engine, and one in check_health()

callVars == <<caller, call, reply>>
workerVars == <<inbox, worker, job, went>>
lifeVars == <<isFailed, closed, open, finalized, signalled, thread>>
vars == <<callVars, workerVars, results, lifeVars>>

(* How a process has ended; its clean-up is part of that, and ends.         *)
Over == {"exited", "terminated", "dead"}
NoReply == [call |-> None, ok |-> FALSE]

Init ==
  /\ inbox = [w \in Workers |-> << >>]
  /\ results = << >>
  /\ worker = [w \in Workers |-> "idle"]
  /\ job = [w \in Workers |-> None]
  /\ went = [c \in Calls |-> {}]
  /\ caller = None
  /\ call = [c \in Calls |-> "new"]
  /\ reply = [c \in Calls |-> NoReply]
  /\ isFailed = FALSE
  /\ closed = FALSE
  /\ open = TRUE
  /\ finalized = FALSE
  /\ signalled = {}
  /\ thread = [monitor |-> "watching", closer |-> "idle", checker |-> "idle"]

Broadcast(m) == inbox' = [w \in Workers |-> Append(inbox[w], m)]

-----------------------------------------------------------------------------
(* collective_rpc.  A definition Mut... is the next one with a mistake a    *)
(* programmer could make: the properties must tell the two apart.           *)

EndCall(c, outcome) ==
  /\ call' = [call EXCEPT ![c] = outcome]
  /\ caller' = None

(* _ensure_open                                                             *)
CallBegins(c) ==
  /\ caller = None
  /\ call[c] = "new"
  /\ IF closed \/ ~open
     THEN EndCall(c, "refused")
     ELSE caller' = c /\ call' = [call EXCEPT ![c] = "sending"]
  /\ UNCHANGED <<reply, workerVars, results, lifeVars>>

(* The request is broadcast, unless a shutdown() has taken the queue away   *)
(* since.  It may also come after that shutdown's stop message.             *)
CallIsSent(c) ==
  /\ call[c] = "sending"
  /\ IF open
     THEN Broadcast(c) /\ call' = [call EXCEPT ![c] = "waiting"] /\ UNCHANGED caller
     ELSE EndCall(c, "error") /\ UNCHANGED inbox
  /\ UNCHANGED <<reply, worker, job, went, results, lifeVars>>

(* The call takes the next message of the result queue for its answer.      *)
CallIsAnswered(c) ==
  /\ call[c] = "waiting"
  /\ results # << >>
  /\ results' = Tail(results)
  /\ reply' = [reply EXCEPT ![c] = Head(results)]
  /\ EndCall(c, "answered")
  /\ UNCHANGED <<workerVars, lifeVars>>

(* _dequeue_one_with_failure_polling, after five seconds without a message  *)
(* (one may have come since).                                               *)
MutOutage == isFailed
Outage == isFailed \/ ~open

CallPolls(c) ==
  /\ call[c] = "waiting"
  /\ Outage
  /\ EndCall(c, IF isFailed THEN "engine dead" ELSE "error")
  /\ UNCHANGED <<reply, workerVars, results, lifeVars>>

(* Its deadline passes.  The request is still under way.                    *)
CallTimesOut(c) ==
  /\ c \in TimedCalls
  /\ call[c] = "waiting"
  /\ EndCall(c, "timeout")
  /\ UNCHANGED <<reply, workerVars, results, lifeVars>>

-----------------------------------------------------------------------------
(* worker_busy_loop and execute_rpc.                                        *)

MutExecutes(w, c) == w = Leader
Executes(w, c) == c \in AllRanks \/ w = Leader

Goto(w, point, c) ==
  /\ worker' = [worker EXCEPT ![w] = point]
  /\ job' = [job EXCEPT ![w] = c]

IsStop(m) == m = Stop

(* The next message: stop, a request, or a request for another rank.        *)
WorkerReads(w) ==
  /\ worker[w] = "idle"
  /\ inbox[w] # << >>
  /\ inbox' = [inbox EXCEPT ![w] = Tail(@)]
  /\ LET m == Head(inbox[w])
     IN  \/ IsStop(m) /\ Goto(w, "exited", None)
         \/ ~IsStop(m) /\ Executes(w, m) /\ Goto(w, "running", m)
         \/ ~IsStop(m) /\ ~Executes(w, m) /\ UNCHANGED <<worker, job>>
  /\ UNCHANGED <<went, results, callVars, lifeVars>>

(* Only rank 0 made a result queue: self.result_mq is not None.             *)
MutHasResultQueue(w) == TRUE
HasResultQueue(w) == w = Leader

Leave(w, c) ==
  IF HasResultQueue(w) THEN Goto(w, "replying", c) ELSE Goto(w, "idle", None)

(* The method returns or raises; with statuses to collect, the rank goes to *)
(* the gather either way.                                                   *)
WorkerRuns(w) ==
  /\ worker[w] = "running"
  /\ \/ went' = [went EXCEPT ![job[w]] = @ \cup {w}]
     \/ UNCHANGED went
  /\ IF job[w] \in Gathered THEN Goto(w, "gathering", job[w]) ELSE Leave(w, job[w])
  /\ UNCHANGED <<inbox, results, callVars, lifeVars>>

(* _gather_rpc_rank_statuses: nobody leaves before all have come.           *)
WorkersGather ==
  /\ \A w \in Workers : worker[w] = "gathering"
  /\ worker' = [w \in Workers |-> IF HasResultQueue(w) THEN "replying" ELSE "idle"]
  /\ job' = [w \in Workers |-> IF HasResultQueue(w) THEN job[w] ELSE None]
  /\ UNCHANGED <<inbox, went, results, callVars, lifeVars>>

(* A peer is gone and the collective raises.                                *)
GatherFails(w) ==
  /\ worker[w] = "gathering"
  /\ \E v \in Workers : worker[v] \in Over
  /\ went' = [went EXCEPT ![job[w]] = @ \ {w}]
  /\ Leave(w, job[w])
  /\ UNCHANGED <<inbox, results, callVars, lifeVars>>

(* return_result, with a result, an error, or the envelope of all statuses, *)
(* of which _unwrap_rpc_result_envelope makes one success or one failure.   *)
MutAnswerOk(w, c) == w \in went[c]
AnswerOk(w, c) == IF c \in Gathered THEN went[c] = Workers ELSE w \in went[c]

WorkerReplies(w) ==
  /\ worker[w] = "replying"
  /\ results' = Append(results, [call |-> job[w], ok |-> AnswerOk(w, job[w])])
  /\ Goto(w, "idle", None)
  /\ UNCHANGED <<inbox, went, callVars, lifeVars>>

(* The handler of SIGTERM raises SystemExit in the Python code of a worker, *)
(* at once or when the native code it is in returns.                        *)
WorkerStops(w) ==
  /\ w \in signalled
  /\ worker[w] \notin Over
  /\ Goto(w, "terminated", None)
  /\ UNCHANGED <<inbox, went, results, callVars, lifeVars>>

(* A signalled worker that dies is among those that WorkerStops ends.       *)
WorkerDies(w) ==
  /\ worker[w] \notin Over
  /\ w \notin signalled
  /\ Goto(w, "dead", None)
  /\ UNCHANGED <<inbox, went, results, callVars, lifeVars>>

-----------------------------------------------------------------------------
(* The monitor thread, shutdown() and check_health().                       *)

SetThread(t, point) == thread' = [thread EXCEPT ![t] = point]

(* connection.wait(sentinels) returns, and the thread looks at _closed.     *)
MutExpected == isFailed
Expected == closed

MonitorWakes ==
  /\ thread.monitor = "watching"
  /\ \E w \in Workers : worker[w] \in Over
  /\ SetThread("monitor", IF Expected THEN "returned" ELSE "checking")
  /\ UNCHANGED <<isFailed, closed, open, finalized, signalled, callVars, workerVars, results>>

(* dead is empty when a shutdown() has cleared _processes meanwhile.        *)
MonitorMarks ==
  /\ thread.monitor = "checking"
  /\ isFailed' = (isFailed \/ open)
  /\ SetThread("monitor", "stopping")
  /\ UNCHANGED <<closed, open, finalized, signalled, callVars, workerVars, results>>

CloserComes ==
  /\ thread.closer = "idle"
  /\ SetThread("closer", "stopping")
  /\ UNCHANGED <<isFailed, closed, open, finalized, signalled, callVars, workerVars, results>>

(* shutdown() and, the first time, BackgroundResources.__call__: the stop   *)
(* message may find the ring buffer full.  A second shutdown() finds the    *)
(* finalizer dead and takes the queues away at once.                        *)
ShutdownBegins(t) ==
  /\ thread[t] = "stopping"
  /\ closed' = TRUE
  /\ \/ /\ ~finalized
        /\ finalized' = TRUE
        /\ \/ Broadcast(Stop)
           \/ (\E w \in Workers : inbox[w] # << >>) /\ UNCHANGED inbox
        /\ SetThread(t, "joining")
        /\ UNCHANGED open
     \/ /\ finalized
        /\ open' = FALSE
        /\ SetThread(t, "stopped")
        /\ UNCHANGED <<inbox, finalized>>
  /\ UNCHANGED <<isFailed, signalled, worker, job, went, callVars, results>>

(* The finalizer takes the processes one after the other, rank 0 first:    *)
(* join(5), terminate() for one that is still alive, and join(5) again.  It *)
(* goes on with the next when the process is over, and after the second     *)
(* join(5) even if it is not: nobody looks.                                 *)
MutPassed(w) == \E v \in Workers : worker[v] \in Over
Passed(w) == worker[w] \in Over \/ w \in signalled

Terminate(w) ==
  /\ \E t \in DOMAIN thread : thread[t] = "joining"
  /\ ~Passed(w)
  /\ w = Leader \/ Passed(Leader)
  /\ signalled' = signalled \cup {w}
  /\ UNCHANGED <<isFailed, closed, open, finalized, thread, callVars, workerVars, results>>

ShutdownEnds(t) ==
  /\ thread[t] = "joining"
  /\ \A w \in Workers : Passed(w)
  /\ open' = FALSE
  /\ SetThread(t, "stopped")
  /\ UNCHANGED <<isFailed, closed, finalized, signalled, callVars, workerVars, results>>

(* The failure callbacks.                                                   *)
MonitorNotifies ==
  /\ thread.monitor = "stopped"
  /\ SetThread("monitor", "notified")
  /\ UNCHANGED <<isFailed, closed, open, finalized, signalled, callVars, workerVars, results>>

(* check_health(): _ensure_open first, then a look at the processes.        *)
HealthCheckBegins ==
  /\ thread.checker = "idle"
  /\ ~isFailed /\ ~closed /\ open
  /\ SetThread("checker", "looking")
  /\ UNCHANGED <<isFailed, closed, open, finalized, signalled, callVars, workerVars, results>>

HealthCheckLooks ==
  /\ thread.checker = "looking"
  /\ isFailed' = (isFailed \/ (open /\ \E w \in Workers : worker[w] \in Over))
  /\ SetThread("checker", "idle")
  /\ UNCHANGED <<closed, open, finalized, signalled, callVars, workerVars, results>>

-----------------------------------------------------------------------------
Caller ==
  \E c \in Calls :
    CallBegins(c) \/ CallIsSent(c) \/ CallIsAnswered(c) \/ CallPolls(c) \/ CallTimesOut(c)

Worker(w) ==
  /\ w \notin signalled
  /\ WorkerReads(w) \/ WorkerRuns(w) \/ GatherFails(w) \/ WorkerReplies(w)

(* A signalled worker in native code that need not return: a method that    *)
(* hangs, or a gather that such a rank does not come to.                    *)
Stuck(w) ==
  \/ worker[w] = "running"
  \/ /\ worker[w] = "gathering"
     /\ \E v \in Workers : worker[v] = "running"
     /\ \A v \in Workers : worker[v] \notin Over

Shutdown(t) == ShutdownBegins(t) \/ ShutdownEnds(t)

Monitor == MonitorWakes \/ MonitorMarks \/ Shutdown("monitor") \/ MonitorNotifies

Next ==
  \/ Caller
  \/ \E w \in Workers : Worker(w) \/ WorkerStops(w) \/ WorkerDies(w) \/ Terminate(w)
  \/ WorkersGather
  \/ Monitor
  \/ CloserComes \/ Shutdown("closer")
  \/ HealthCheckBegins \/ HealthCheckLooks

Spec == Init /\ [][Next]_vars

(* Threads that have begun something go on with it, and a join(5) ends; a   *)
(* method returns or raises, unless the worker has been sent SIGTERM: that  *)
(* ends it unless it is stuck.  Nobody has to make a call, to close the     *)
(* executor, to check its health, or to die.                                *)
Fairness ==
  /\ \A c \in Calls :
       /\ WF_vars(CallIsSent(c))
       /\ WF_vars(CallIsAnswered(c))
       /\ WF_vars(CallPolls(c))
  /\ \A w \in Workers : WF_vars(Worker(w) \/ (~Stuck(w) /\ WorkerStops(w)))
  /\ WF_vars(\E w \in Workers : Terminate(w))
  /\ WF_vars(WorkersGather)
  /\ WF_vars(Monitor)
  /\ WF_vars(Shutdown("closer"))

FairSpec == Spec /\ Fairness

-----------------------------------------------------------------------------
CallStates == {"new", "sending", "waiting", "refused", "error", "answered", "engine dead", "timeout"}

(* Every variable of the executor has its type.                             *)
ExecutorTypeOK ==
  /\ inbox \in [Workers -> Seq(Calls \cup {Stop})]
  /\ results \in Seq([call : Calls, ok : BOOLEAN])
  /\ worker \in [Workers -> {"idle", "running", "gathering", "replying"} \cup Over]
  /\ job \in [Workers -> Calls \cup {None}]
  /\ went \in [Calls -> SUBSET Workers]
  /\ caller \in Calls \cup {None}
  /\ call \in [Calls -> CallStates]
  /\ reply \in [Calls -> [call : Calls \cup {None}, ok : BOOLEAN]]
  /\ {isFailed, closed, open, finalized} \subseteq BOOLEAN
  /\ signalled \subseteq Workers
  /\ thread \in [monitor : {"watching", "returned", "checking", "stopping", "joining",
                            "stopped", "notified"},
                 closer : {"idle", "stopping", "joining", "stopped"},
                 checker : {"idle", "looking"}]

(* While no call has given up (timed out, or found a worker dead), each is  *)
(* answered with its own answer, though nothing in a message says whose it  *)
(* is: the calls are serialised and one rank answers each of them once.     *)
GaveUp == {c \in Calls : call[c] \in {"timeout", "engine dead"}}

AnswersAreOwn ==
  GaveUp = {} => \A c \in Calls : call[c] = "answered" => reply[c].call = c

(* A call that every rank reports on succeeds only if it went well on every *)
(* rank: whatever ranks die or raise, none is left behind unnoticed.        *)
SuccessMeansAllRanks ==
  \A c \in Calls :
    reply[c].ok /\ reply[c].call \in Gathered => went[reply[c].call] = Workers

(* The monitor reports a failure, to is_failed and to the callbacks, only   *)
(* of a worker that died by itself: never of the exits a shutdown() causes. *)
OnlyDeathsAreReported ==
  [][thread.monitor = "checking" /\ thread'.monitor = "stopping" =>
       \E w \in Workers : worker[w] = "dead"]_vars

(* Once the executor is closed, the processes end and stay over, whether    *)
(* the stop message reached them or not and whoever dies meanwhile; only    *)
(* one that hangs in native code, signalled, may be left, and ranks that    *)
(* wait for it in a gather.                                                 *)
WorkersEnd ==
  closed ~> [](\A w \in Workers : worker[w] \in Over \/ (w \in signalled /\ Stuck(w)))

(* A call ends, whatever workers die and whoever shuts the executor down    *)
(* meanwhile.                                                               *)
CallsEnd == \A c \in Calls : call[c] \in {"sending", "waiting"} ~> caller # c

(* A worker has something to do and does not wait for another one to come.  *)
Proceeds(w) ==
  \/ w \notin signalled /\ worker[w] = "idle" /\ inbox[w] # << >>
  \/ w \notin signalled /\ worker[w] \in {"running", "replying"}
  \/ /\ worker[w] = "gathering"
     /\ \/ \A v \in Workers : worker[v] = "gathering"
        \/ w \notin signalled /\ \E v \in Workers : worker[v] \in Over

(* Nobody is left waiting for everybody else: while a call waits, there is  *)
(* an answer for it, a worker goes on, a death is still to be reported, or  *)
(* a shutdown is under way or over and lets the call find the queues gone.  *)
CallsNeverDeadlock ==
  (\E c \in Calls : call[c] = "waiting") =>
    \/ results # << >> \/ Outage
    \/ \E w \in Workers : Proceeds(w)
    \/ thread.monitor = "watching" /\ \E w \in Workers : worker[w] \in Over
    \/ thread.monitor = "checking"
    \/ \E t \in {"monitor", "closer"} : thread[t] \in {"stopping", "joining"}

(* A worker that dies is reported to the engine, which learns it from the   *)
(* callbacks, unless the engine is itself closing the executor.             *)
DeathsAreReported ==
  \A w \in Workers :
    (worker[w] = "dead" /\ thread.closer = "idle")
      ~> (thread.monitor = "notified" \/ thread.closer # "idle")

(* ---- What the repository says and the code does not do ----              *)

(* test_diffusion_engine_rpc_routing.py 243-244: "each caller must get its  *)
(* own result back - not another caller's."                                 *)
ResultsAreRouted == \A c \in Calls : call[c] = "answered" => reply[c].call = c
=============================================================================
