----------------------- MODULE MultiprocExecutor_proofs -----------------------
(***************************************************************************)
(* Theorems about MultiprocExecutor, for every set of workers and calls,    *)
(* and every choice of the calls that all ranks execute, that collect       *)
(* statuses and that have a timeout.                                        *)
(***************************************************************************)
EXTENDS MultiprocExecutor, SequenceTheorems, TLAPS

-----------------------------------------------------------------------------
(* Lemmas about queues.                                                     *)
In(s, x) == \E i \in 1..Len(s) : s[i] = x

LEMMA ConsFacts ==
  ASSUME NEW S, NEW s \in Seq(S), NEW x \in S
  PROVE  /\ <<x>> \o s \in Seq(S)
         /\ <<x>> \o s # << >>
         /\ Head(<<x>> \o s) = x
         /\ Tail(<<x>> \o s) = s
         /\ Len(<<x>> \o s) = Len(s) + 1
         /\ \A i \in 1..(Len(s) + 1) : (<<x>> \o s)[i] = IF i = 1 THEN x ELSE s[i - 1]
<1> DEFINE p == <<x>> \o s
<1>1. <<x>> \in Seq(S) /\ Len(<<x>>) = 1 /\ <<x>>[1] = x
  OBVIOUS
<1>2. p \in Seq(S) /\ Len(p) = Len(s) + 1 /\ Len(s) \in Nat
  BY <1>1, ConcatProperties, LenProperties
<1>3. \A i \in 1..(Len(s) + 1) : p[i] = IF i = 1 THEN x ELSE s[i - 1]
  BY <1>1, <1>2, ConcatProperties
<1>4. p # << >> /\ Head(p) = x
  BY <1>2, <1>3
<1>5. Tail(p) \in Seq(S) /\ Len(Tail(p)) = Len(s) /\ \A i \in 1..Len(s) : Tail(p)[i] = p[i + 1]
  BY <1>2, <1>4, HeadTailProperties
<1>6. \A i \in 1..Len(s) : Tail(p)[i] = s[i]
  BY <1>2, <1>3, <1>5
<1>7. Tail(p) = s
  BY <1>5, <1>6, SeqEqual
<1> QED BY <1>2, <1>3, <1>4, <1>7

LEMMA HeadIsIn ==
  ASSUME NEW S, NEW s \in Seq(S), s # << >>
  PROVE  /\ Head(s) \in S /\ In(s, Head(s))
         /\ <<Head(s)>> \o Tail(s) = s
<1>1. Head(s) \in S /\ Tail(s) \in Seq(S) /\ Len(s) \in Nat \ {0} /\ Head(s) = s[1]
  BY HeadTailProperties, LenProperties, EmptySeq
<1>2. Len(Tail(s)) = Len(s) - 1 /\ \A i \in 1..Len(Tail(s)) : Tail(s)[i] = s[i + 1]
  BY HeadTailProperties
<1>3. /\ <<Head(s)>> \o Tail(s) \in Seq(S)
      /\ Len(<<Head(s)>> \o Tail(s)) = Len(s)
      /\ \A i \in 1..Len(s) : (<<Head(s)>> \o Tail(s))[i] = s[i]
  BY <1>1, <1>2, ConsFacts
<1>4. <<Head(s)>> \o Tail(s) = s
  BY <1>3, SeqEqual
<1> QED BY <1>1, <1>4 DEF In

LEMMA TailIn ==
  ASSUME NEW S, NEW s \in Seq(S), s # << >>
  PROVE  /\ Tail(s) \in Seq(S)
         /\ Len(s) \in Nat \ {0} /\ Len(Tail(s)) = Len(s) - 1
         /\ \A i \in 1..Len(Tail(s)) : Tail(s)[i] = s[i + 1]
         /\ \A x : In(Tail(s), x) => In(s, x)
<1>1. /\ Tail(s) \in Seq(S)
      /\ Len(s) \in Nat \ {0} /\ Len(Tail(s)) = Len(s) - 1
      /\ \A i \in 1..Len(Tail(s)) : Tail(s)[i] = s[i + 1]
  BY HeadTailProperties, LenProperties, EmptySeq
<1>2. ASSUME NEW x, In(Tail(s), x) PROVE In(s, x)
  <2>1. PICK i \in 1..Len(Tail(s)) : Tail(s)[i] = x
    BY <1>2 DEF In
  <2>2. i + 1 \in 1..Len(s) /\ s[i + 1] = x
    BY <1>1, <2>1
  <2> QED BY <2>2 DEF In
<1> QED BY <1>1, <1>2

LEMMA AppendIn ==
  ASSUME NEW S, NEW s \in Seq(S), NEW m \in S
  PROVE  /\ Append(s, m) \in Seq(S)
         /\ Len(s) \in Nat /\ Len(Append(s, m)) = Len(s) + 1
         /\ \A i \in 1..Len(s) : Append(s, m)[i] = s[i]
         /\ Append(s, m)[Len(s) + 1] = m
         /\ \A x : In(Append(s, m), x) <=> In(s, x) \/ x = m
<1>1. /\ Append(s, m) \in Seq(S)
      /\ Len(s) \in Nat /\ Len(Append(s, m)) = Len(s) + 1
      /\ \A i \in 1..Len(s) : Append(s, m)[i] = s[i]
      /\ Append(s, m)[Len(s) + 1] = m
  BY AppendProperties, LenProperties
<1>2. \A x : In(s, x) => In(Append(s, m), x)
  BY <1>1 DEF In
<1>3. In(Append(s, m), m)
  BY <1>1 DEF In
<1>4. \A x : In(Append(s, m), x) => In(s, x) \/ x = m
  BY <1>1 DEF In
<1> QED BY <1>1, <1>2, <1>3, <1>4

LEMMA AppendCons ==
  ASSUME NEW S, NEW s \in Seq(S), NEW x \in S, NEW m \in S
  PROVE  Append(<<x>> \o s, m) = <<x>> \o Append(s, m)
<1> DEFINE a == Append(<<x>> \o s, m)
           b == <<x>> \o Append(s, m)
<1>1. /\ <<x>> \o s \in Seq(S) /\ Len(<<x>> \o s) = Len(s) + 1 /\ Len(s) \in Nat
      /\ \A i \in 1..(Len(s) + 1) : (<<x>> \o s)[i] = IF i = 1 THEN x ELSE s[i - 1]
  BY ConsFacts, LenProperties
<1>2. /\ a \in Seq(S) /\ Len(a) = Len(s) + 2
      /\ \A i \in 1..(Len(s) + 1) : a[i] = IF i = 1 THEN x ELSE s[i - 1]
      /\ a[Len(s) + 2] = m
  BY <1>1, AppendProperties
<1>3. /\ Append(s, m) \in Seq(S) /\ Len(Append(s, m)) = Len(s) + 1
      /\ \A i \in 1..Len(s) : Append(s, m)[i] = s[i]
      /\ Append(s, m)[Len(s) + 1] = m
  BY AppendProperties
<1>4. /\ b \in Seq(S) /\ Len(b) = Len(s) + 2
      /\ \A i \in 1..(Len(s) + 2) : b[i] = IF i = 1 THEN x ELSE Append(s, m)[i - 1]
  BY <1>1, <1>3, ConsFacts
<1>5. \A i \in 1..(Len(s) + 2) : a[i] = b[i]
  BY <1>1, <1>2, <1>3, <1>4
<1> QED BY <1>2, <1>4, <1>5, SeqEqual

-----------------------------------------------------------------------------
(* Types, and what the processes and the threads may be doing.              *)
JobInv ==
  \A w \in Workers :
    /\ worker[w] \in {"running", "gathering", "replying"} => job[w] \in Calls
    /\ worker[w] = "gathering" => job[w] \in Gathered
    /\ worker[w] = "replying" => w = Leader

Stoppers == {"monitor", "closer"}

(* A stop message, a signal, an orderly exit and a termination all come     *)
(* from a shutdown(), whose first thread joins until every process is over  *)
(* or has been sent the signal.                                             *)
LifeInv ==
  /\ closed => finalized
  /\ finalized => (\E t \in Stoppers : thread[t] = "joining") \/ \A w \in Workers : Passed(w)
  /\ signalled # {} => closed
  /\ \A w \in Workers : worker[w] \in {"exited", "terminated"} => closed
  /\ \A w \in Workers : In(inbox[w], Stop) => closed
  /\ \A t \in Stoppers : thread[t] = "joining" => closed
  /\ thread.monitor = "checking" => \E w \in Workers : worker[w] = "dead"

BaseInv == ExecutorTypeOK /\ JobInv

LEMMA BaseInit == Init => BaseInv
<1> SUFFICES ASSUME Init PROVE BaseInv
  OBVIOUS
<1>1. /\ inbox \in [Workers -> Seq(Calls \cup {Stop})]
      /\ results \in Seq([call : Calls, ok : BOOLEAN])
  BY EmptySeq DEF Init
<1>2. reply \in [Calls -> [call : Calls \cup {None}, ok : BOOLEAN]]
  BY DEF Init, NoReply
<1>3. thread \in [monitor : {"watching", "returned", "checking", "stopping", "joining",
                             "stopped", "notified"},
                  closer : {"idle", "stopping", "joining", "stopped"},
                  checker : {"idle", "looking"}]
  BY DEF Init
<1> QED
  BY <1>1, <1>2, <1>3 DEF Init, BaseInv, ExecutorTypeOK, JobInv, CallStates

Messages == Calls \cup {Stop}
Points == {"idle", "running", "gathering", "replying"} \cup Over

LEMMA BroadcastType ==
  ASSUME BaseInv, NEW m \in Messages, Broadcast(m)
  PROVE  /\ inbox' \in [Workers -> Seq(Messages)]
         /\ \A w \in Workers : inbox'[w] = Append(inbox[w], m)
<1>1. inbox' = [w \in Workers |-> Append(inbox[w], m)]
  BY DEF Broadcast
<1>2. \A w \in Workers : Append(inbox[w], m) \in Seq(Messages)
  BY AppendProperties DEF BaseInv, ExecutorTypeOK, Messages
<1> QED BY <1>1, <1>2

(* What a worker's step does to it and to nobody else.                      *)
LEMMA GotoFacts ==
  ASSUME BaseInv, NEW w \in Workers, NEW p \in Points, NEW c \in Calls \cup {None},
         Goto(w, p, c)
  PROVE  /\ worker' \in [Workers -> Points] /\ worker'[w] = p
         /\ job' \in [Workers -> Calls \cup {None}] /\ job'[w] = c
         /\ \A v \in Workers \ {w} : worker'[v] = worker[v] /\ job'[v] = job[v]
BY DEF Goto, BaseInv, ExecutorTypeOK, Points

LEMMA GotoKeepsJobs ==
  ASSUME BaseInv, NEW w \in Workers, NEW p \in Points, NEW c \in Calls \cup {None},
         Goto(w, p, c),
         p \in {"running", "gathering", "replying"} => c \in Calls,
         p = "gathering" => c \in Gathered,
         p = "replying" => w = Leader
  PROVE  JobInv'
<1>1. /\ worker'[w] = p /\ job'[w] = c
      /\ \A v \in Workers \ {w} : worker'[v] = worker[v] /\ job'[v] = job[v]
  BY GotoFacts
<1> QED BY <1>1 DEF BaseInv, JobInv

(* The steps of the caller.                                                 *)
LEMMA BaseCaller ==
  ASSUME BaseInv, Caller
  PROVE  BaseInv'
<1>1. PICK c \in Calls :
        CallBegins(c) \/ CallIsSent(c) \/ CallIsAnswered(c) \/ CallPolls(c) \/ CallTimesOut(c)
  BY DEF Caller
<1>2. CASE CallBegins(c)
  BY <1>2 DEF CallBegins, EndCall, BaseInv, ExecutorTypeOK, JobInv, CallStates, lifeVars, workerVars
<1>3. CASE CallIsSent(c)
  <2>1. inbox' \in [Workers -> Seq(Messages)]
    BY <1>3, BroadcastType DEF CallIsSent, EndCall, Messages, BaseInv, ExecutorTypeOK
  <2>2. caller' \in Calls \cup {None} /\ call' \in [Calls -> CallStates]
    BY <1>3 DEF CallIsSent, EndCall, BaseInv, ExecutorTypeOK, CallStates
  <2> QED
    BY <1>3, <2>1, <2>2 DEF CallIsSent, BaseInv, ExecutorTypeOK, JobInv, Messages, lifeVars
<1>4. CASE CallIsAnswered(c)
  <2>1. /\ Head(results) \in [call : Calls, ok : BOOLEAN]
        /\ results' \in Seq([call : Calls, ok : BOOLEAN])
    BY <1>4, HeadTailProperties DEF CallIsAnswered, BaseInv, ExecutorTypeOK
  <2>2. Head(results) \in [call : Calls \cup {None}, ok : BOOLEAN]
    BY <2>1
  <2>3. reply' \in [Calls -> [call : Calls \cup {None}, ok : BOOLEAN]]
    BY <1>4, <2>2 DEF CallIsAnswered, BaseInv, ExecutorTypeOK
  <2> QED
    BY <1>4, <2>1, <2>3
    DEF CallIsAnswered, EndCall, BaseInv, ExecutorTypeOK, JobInv, CallStates, lifeVars, workerVars
<1>5. CASE CallPolls(c)
  BY <1>5 DEF CallPolls, EndCall, BaseInv, ExecutorTypeOK, JobInv, CallStates, lifeVars, workerVars
<1>6. CASE CallTimesOut(c)
  BY <1>6 DEF CallTimesOut, EndCall, BaseInv, ExecutorTypeOK, JobInv, CallStates, lifeVars, workerVars
<1> QED BY <1>1, <1>2, <1>3, <1>4, <1>5, <1>6

(* The steps of a worker.                                                   *)
LEMMA BaseWorker ==
  ASSUME BaseInv, NEW w \in Workers, Worker(w) \/ WorkerStops(w) \/ WorkerDies(w)
  PROVE  BaseInv'
<1> DEFINE Moves(p, c) == /\ p \in Points /\ c \in Calls \cup {None} /\ Goto(w, p, c)
                          /\ p \in {"running", "gathering", "replying"} => c \in Calls
                          /\ p = "gathering" => c \in Gathered
                          /\ p = "replying" => w = Leader
<1>a. ASSUME NEW p, NEW c, Moves(p, c)
      PROVE  /\ worker' \in [Workers -> Points]
             /\ job' \in [Workers -> Calls \cup {None}]
             /\ JobInv'
  BY <1>a, GotoFacts, GotoKeepsJobs
<1>b. inbox[w] \in Seq(Messages) /\ job[w] \in Calls \cup {None}
  BY DEF BaseInv, ExecutorTypeOK, Messages
<1>c. ASSUME NEW c \in Calls, Leave(w, c)
      PROVE  Moves("replying", c) \/ Moves("idle", None)
  BY <1>c DEF Leave, HasResultQueue, Points
<1>1. CASE WorkerReads(w)
  <2>1. Head(inbox[w]) \in Messages /\ Tail(inbox[w]) \in Seq(Messages)
    BY <1>1, <1>b, HeadTailProperties DEF WorkerReads
  <2>2. inbox' \in [Workers -> Seq(Messages)]
    BY <1>1, <2>1 DEF WorkerReads, BaseInv, ExecutorTypeOK, Messages
  <2>3. \/ Moves("exited", None)
        \/ Moves("running", Head(inbox[w]))
        \/ UNCHANGED <<worker, job>>
    BY <1>1, <2>1 DEF WorkerReads, IsStop, Messages, Points, Over
  <2>4. /\ worker' \in [Workers -> Points]
        /\ job' \in [Workers -> Calls \cup {None}]
        /\ JobInv'
    BY <2>3, <1>a DEF BaseInv, ExecutorTypeOK, JobInv, Points
  <2> QED
    BY <1>1, <2>2, <2>4
    DEF WorkerReads, BaseInv, ExecutorTypeOK, Messages, Points, callVars, lifeVars
<1>2. CASE WorkerRuns(w)
  <2>1. job[w] \in Calls
    BY <1>2 DEF WorkerRuns, BaseInv, JobInv
  <2>2. Moves("gathering", job[w]) \/ Moves("replying", job[w]) \/ Moves("idle", None)
    BY <1>2, <1>c, <2>1 DEF WorkerRuns, Points
  <2>3. went' \in [Calls -> SUBSET Workers]
    <3>1. went \in [Calls -> SUBSET Workers]
      BY DEF BaseInv, ExecutorTypeOK
    <3>2. went' = [went EXCEPT ![job[w]] = @ \cup {w}] \/ went' = went
      BY <1>2 DEF WorkerRuns
    <3> QED BY <2>1, <3>1, <3>2
  <2>4. /\ worker' \in [Workers -> Points]
        /\ job' \in [Workers -> Calls \cup {None}]
        /\ JobInv'
    BY <1>a, <2>2
  <2>5. UNCHANGED <<inbox, results, callVars, lifeVars>>
    BY <1>2 DEF WorkerRuns
  <2> QED
    BY <2>3, <2>4, <2>5 DEF BaseInv, ExecutorTypeOK, Points, callVars, lifeVars
<1>3. CASE GatherFails(w)
  <2>1. job[w] \in Calls
    BY <1>3 DEF GatherFails, BaseInv, JobInv
  <2>2. Moves("replying", job[w]) \/ Moves("idle", None)
    BY <1>3, <1>c, <2>1 DEF GatherFails
  <2>3. went' \in [Calls -> SUBSET Workers]
    BY <1>3, <2>1 DEF GatherFails, BaseInv, ExecutorTypeOK
  <2> QED
    BY <1>3, <1>a, <2>2, <2>3
    DEF GatherFails, BaseInv, ExecutorTypeOK, Points, callVars, lifeVars
<1>4. CASE WorkerReplies(w)
  <2>1. job[w] \in Calls
    BY <1>4 DEF WorkerReplies, BaseInv, JobInv
  <2>2. AnswerOk(w, job[w]) \in BOOLEAN
    <3>1. CASE job[w] \in Gathered
      BY <3>1 DEF AnswerOk
    <3>2. CASE job[w] \notin Gathered
      BY <3>2 DEF AnswerOk
    <3> QED BY <3>1, <3>2
  <2>3. results' \in Seq([call : Calls, ok : BOOLEAN])
    <3>1. [call |-> job[w], ok |-> AnswerOk(w, job[w])] \in [call : Calls, ok : BOOLEAN]
      BY <2>1, <2>2
    <3> QED
      BY <1>4, <3>1, AppendProperties DEF WorkerReplies, BaseInv, ExecutorTypeOK
  <2>4. Moves("idle", None)
    BY <1>4 DEF WorkerReplies, Points
  <2> QED
    BY <1>4, <1>a, <2>3, <2>4
    DEF WorkerReplies, BaseInv, ExecutorTypeOK, Points, callVars, lifeVars
<1>5. CASE WorkerDies(w)
  <2>1. Moves("dead", None)
    BY <1>5 DEF WorkerDies, Points, Over
  <2> QED
    BY <1>5, <1>a, <2>1 DEF WorkerDies, BaseInv, ExecutorTypeOK, Points, callVars, lifeVars
<1>6. CASE WorkerStops(w)
  <2>1. Moves("terminated", None)
    BY <1>6 DEF WorkerStops, Points, Over
  <2> QED
    BY <1>6, <1>a, <2>1 DEF WorkerStops, BaseInv, ExecutorTypeOK, Points, callVars, lifeVars
<1> QED BY <1>1, <1>2, <1>3, <1>4, <1>5, <1>6 DEF Worker

LEMMA BaseGather ==
  ASSUME BaseInv, WorkersGather
  PROVE  BaseInv'
BY DEF WorkersGather, HasResultQueue, BaseInv, ExecutorTypeOK, JobInv, callVars, lifeVars, Over

(* The steps of the threads.                                                *)
LEMMA BaseThreads ==
  ASSUME BaseInv,
         \/ Monitor \/ CloserComes \/ Shutdown("closer")
         \/ HealthCheckBegins \/ HealthCheckLooks
         \/ \E w \in Workers : Terminate(w)
  PROVE  BaseInv'
<1> USE DEF BaseInv, ExecutorTypeOK, JobInv, SetThread, callVars, workerVars
<1>1. CASE MonitorWakes
  BY <1>1 DEF MonitorWakes, Expected
<1>2. CASE MonitorMarks
  BY <1>2 DEF MonitorMarks
<1>3. ASSUME NEW t \in Stoppers, ShutdownBegins(t) PROVE BaseInv'
  <2>1. inbox' \in [Workers -> Seq(Messages)]
    BY <1>3, BroadcastType DEF ShutdownBegins, Messages
  <2>2. /\ thread' \in [monitor : {"watching", "returned", "checking", "stopping", "joining",
                                   "stopped", "notified"},
                        closer : {"idle", "stopping", "joining", "stopped"},
                        checker : {"idle", "looking"}]
    BY <1>3 DEF ShutdownBegins, Stoppers
  <2> QED BY <1>3, <2>1, <2>2 DEF ShutdownBegins, Messages
<1>4. ASSUME NEW t \in Stoppers, ShutdownEnds(t) PROVE BaseInv'
  BY <1>4 DEF ShutdownEnds, Stoppers
<1>5. CASE MonitorNotifies
  BY <1>5 DEF MonitorNotifies
<1>6. CASE CloserComes
  BY <1>6 DEF CloserComes
<1>7. CASE HealthCheckBegins
  BY <1>7 DEF HealthCheckBegins
<1>8. CASE HealthCheckLooks
  BY <1>8 DEF HealthCheckLooks
<1>9. ASSUME NEW w \in Workers, Terminate(w) PROVE BaseInv'
  BY <1>9 DEF Terminate
<1> QED
  BY <1>1, <1>2, <1>3, <1>4, <1>5, <1>6, <1>7, <1>8, <1>9 DEF Monitor, Shutdown, Stoppers

LEMMA BaseNext == BaseInv /\ [Next]_vars => BaseInv'
<1> SUFFICES ASSUME BaseInv, [Next]_vars PROVE BaseInv'
  OBVIOUS
<1>1. CASE UNCHANGED vars
  BY <1>1 DEF vars, callVars, workerVars, lifeVars, BaseInv, ExecutorTypeOK, JobInv
<1> QED
  BY <1>1, BaseCaller, BaseWorker, BaseGather, BaseThreads DEF Next

LEMMA LifeInit == Init => LifeInv
  BY DEF Init, LifeInv, In, Stoppers

(* A step that leaves the flags and the threads alone keeps LifeInv when it *)
(* brings no stop message and no exit of a process before a shutdown().     *)
LEMMA LifeKept ==
  ASSUME LifeInv, UNCHANGED <<closed, finalized, signalled, thread>>,
         \A w \in Workers : worker[w] \in Over => worker'[w] = worker[w],
         \A w \in Workers : worker'[w] \in {"exited", "terminated"} => closed,
         \A w \in Workers : In(inbox'[w], Stop) => In(inbox[w], Stop) \/ closed
  PROVE  LifeInv'
BY DEF LifeInv, Passed, Over, Stoppers

LEMMA LifeCaller ==
  ASSUME BaseInv, LifeInv, Caller
  PROVE  LifeInv'
<1>1. PICK c \in Calls :
        CallBegins(c) \/ CallIsSent(c) \/ CallIsAnswered(c) \/ CallPolls(c) \/ CallTimesOut(c)
  BY DEF Caller
<1>2. CASE CallIsSent(c) /\ open
  <2>1. \A w \in Workers : inbox'[w] = Append(inbox[w], c) /\ inbox[w] \in Seq(Messages)
    BY <1>2, BroadcastType DEF CallIsSent, Messages, BaseInv, ExecutorTypeOK
  <2>2. ASSUME NEW w \in Workers, In(inbox'[w], Stop) PROVE In(inbox[w], Stop)
    <3>1. inbox[w] \in Seq(Messages) /\ c \in Messages /\ Stop # c
      BY <2>1, MarkersAssumption DEF Messages
    <3>2. In(Append(inbox[w], c), Stop) <=> In(inbox[w], Stop) \/ Stop = c
      BY <3>1, AppendIn
    <3> QED BY <2>1, <2>2, <3>1, <3>2
  <2> QED BY <1>2, <2>2, LifeKept DEF CallIsSent, lifeVars, LifeInv
<1>3. CASE UNCHANGED <<workerVars, lifeVars>>
  BY <1>3, LifeKept DEF LifeInv, workerVars, lifeVars
<1> QED
  BY <1>1, <1>2, <1>3
  DEF CallBegins, CallIsSent, CallIsAnswered, CallPolls, CallTimesOut, workerVars

LEMMA LifeWorker ==
  ASSUME BaseInv, LifeInv, NEW w \in Workers, Worker(w) \/ WorkerStops(w) \/ WorkerDies(w)
  PROVE  LifeInv'
<1>1. inbox[w] \in Seq(Messages) /\ inbox \in [Workers -> Seq(Messages)]
  BY DEF BaseInv, ExecutorTypeOK, Messages
<1>2. UNCHANGED <<closed, finalized, signalled, thread>>
  BY DEF Worker, WorkerReads, WorkerRuns, GatherFails, WorkerReplies, WorkerDies, WorkerStops, lifeVars
<1>3. worker \in [Workers -> Points]
  BY DEF BaseInv, ExecutorTypeOK, Points
<1>4. ASSUME NEW v \in Workers, In(inbox'[v], Stop) PROVE In(inbox[v], Stop)
  <2>1. CASE WorkerReads(w)
    BY <1>1, <1>4, <2>1, TailIn DEF WorkerReads
  <2>2. CASE UNCHANGED inbox
    BY <1>4, <2>2
  <2> QED
    BY <2>1, <2>2 DEF Worker, WorkerRuns, GatherFails, WorkerReplies, WorkerDies, WorkerStops
<1>5. worker[w] \notin Over
  BY DEF Worker, WorkerReads, WorkerRuns, GatherFails, WorkerReplies, WorkerDies, WorkerStops, Over
<1>6. \A v \in Workers \ {w} : worker'[v] = worker[v]
  BY <1>3
  DEF Worker, WorkerReads, WorkerRuns, GatherFails, WorkerReplies, WorkerDies, WorkerStops, Goto, Leave
<1>7. worker'[w] \in {"exited", "terminated"} => closed
  <2>1. CASE WorkerReads(w)
    <3>1. In(inbox[w], Head(inbox[w]))
      BY <1>1, <2>1, HeadIsIn DEF WorkerReads
    <3> QED BY <1>3, <1>5, <2>1, <3>1 DEF WorkerReads, IsStop, Goto, LifeInv, Over
  <2>2. CASE WorkerStops(w)
    BY <2>2 DEF WorkerStops, LifeInv, Stoppers, BaseInv, ExecutorTypeOK
  <2>3. CASE WorkerRuns(w) \/ GatherFails(w) \/ WorkerReplies(w) \/ WorkerDies(w)
    BY <1>3, <2>3
    DEF WorkerRuns, GatherFails, WorkerReplies, WorkerDies, Goto, Leave
  <2> QED BY <2>1, <2>2, <2>3 DEF Worker
<1> QED
  BY <1>2, <1>4, <1>5, <1>6, <1>7, LifeKept DEF LifeInv

LEMMA LifeGather ==
  ASSUME BaseInv, LifeInv, WorkersGather
  PROVE  LifeInv'
BY LifeKept DEF WorkersGather, LifeInv, lifeVars, Over

LEMMA LifeThreads ==
  ASSUME BaseInv, LifeInv,
         \/ Monitor \/ CloserComes \/ Shutdown("closer")
         \/ HealthCheckBegins \/ HealthCheckLooks
         \/ \E w \in Workers : Terminate(w)
  PROVE  LifeInv'
<1> USE DEF SetThread, workerVars
<1>0. thread \in [monitor : {"watching", "returned", "checking", "stopping", "joining",
                             "stopped", "notified"},
                  closer : {"idle", "stopping", "joining", "stopped"},
                  checker : {"idle", "looking"}]
  BY DEF BaseInv, ExecutorTypeOK
<1>1. CASE MonitorWakes
  BY <1>0, <1>1 DEF MonitorWakes, Expected, LifeInv, Passed, Over, Stoppers
<1>2. CASE MonitorMarks \/ MonitorNotifies \/ CloserComes \/ HealthCheckBegins \/ HealthCheckLooks
  BY <1>0, <1>2
  DEF MonitorMarks, MonitorNotifies, CloserComes, HealthCheckBegins, HealthCheckLooks,
      LifeInv, Passed, Stoppers
<1>3. ASSUME NEW t \in Stoppers, ShutdownBegins(t) PROVE LifeInv'
  <2>1. closed' = TRUE /\ finalized' = TRUE
    BY <1>3 DEF ShutdownBegins, BaseInv, ExecutorTypeOK
  <2>2. (\E u \in Stoppers : thread'[u] = "joining") \/ \A w \in Workers : Passed(w)'
    <3>1. CASE ~finalized
      BY <1>0, <1>3, <3>1 DEF ShutdownBegins, Stoppers
    <3>2. CASE finalized
      BY <1>0, <1>3, <3>2 DEF ShutdownBegins, LifeInv, Passed, Stoppers
    <3> QED BY <3>1, <3>2
  <2>3. thread'.monitor = "checking" => \E w \in Workers : worker'[w] = "dead"
    BY <1>0, <1>3 DEF ShutdownBegins, LifeInv, Stoppers
  <2> QED BY <2>1, <2>2, <2>3 DEF LifeInv
<1>4. ASSUME NEW t \in Stoppers, ShutdownEnds(t) PROVE LifeInv'
  BY <1>0, <1>4 DEF ShutdownEnds, LifeInv, Passed, Stoppers
<1>5. ASSUME NEW w \in Workers, Terminate(w) PROVE LifeInv'
  <2>1. \E t \in Stoppers : thread[t] = "joining"
    BY <1>0, <1>5 DEF Terminate, Stoppers
  <2>2. closed
    BY <2>1 DEF LifeInv
  <2> QED BY <1>0, <1>5, <2>1, <2>2 DEF Terminate, LifeInv, Stoppers
<1> QED
  BY <1>1, <1>2, <1>3, <1>4, <1>5 DEF Monitor, Shutdown, Stoppers

LEMMA LifeNext == BaseInv /\ LifeInv /\ [Next]_vars => LifeInv'
<1> SUFFICES ASSUME BaseInv, LifeInv, [Next]_vars PROVE LifeInv'
  OBVIOUS
<1>1. CASE UNCHANGED vars
  BY <1>1, LifeKept DEF vars, workerVars, lifeVars, LifeInv
<1> QED
  BY <1>1, LifeCaller, LifeWorker, LifeGather, LifeThreads DEF Next

-----------------------------------------------------------------------------
(* What a worker has still to do, the call it works on included.  All       *)
(* workers go through the same messages in the same order: two of them have *)
(* a message in common just when it is as far from the end for both.        *)
Rem(w) ==
  IF worker[w] \in {"running", "gathering"} THEN <<job[w]>> \o inbox[w] ELSE inbox[w]

SameOrder ==
  \A w, v \in Workers : \A i \in 1..Len(Rem(w)), j \in 1..Len(Rem(v)) :
    Rem(w)[i] = Rem(v)[j] <=> Len(Rem(w)) - i = Len(Rem(v)) - j

(* Each worker has as much to do as before, or finishes with one message.   *)
Consumes ==
  \A w \in Workers : \/ Rem(w)' = Rem(w)
                     \/ Rem(w) # << >> /\ Rem(w)' = Tail(Rem(w))

Receives(m) == \A w \in Workers : Rem(w)' = Append(Rem(w), m)

LEMMA RemType ==
  ASSUME BaseInv, NEW w \in Workers
  PROVE  /\ Rem(w) \in Seq(Messages) /\ Len(Rem(w)) \in Nat
         /\ inbox[w] \in Seq(Messages)
         /\ worker[w] \in {"running", "gathering"} =>
              /\ Rem(w) # << >> /\ Head(Rem(w)) = job[w] /\ Tail(Rem(w)) = inbox[w]
<1>1. inbox[w] \in Seq(Messages)
  BY DEF BaseInv, ExecutorTypeOK, Messages
<1>2. CASE worker[w] \in {"running", "gathering"}
  <2>1. job[w] \in Messages /\ Rem(w) = <<job[w]>> \o inbox[w]
    BY <1>2 DEF BaseInv, JobInv, Messages, Rem
  <2> QED BY <1>1, <2>1, ConsFacts, LenProperties
<1>3. CASE worker[w] \notin {"running", "gathering"}
  BY <1>1, <1>3, LenProperties DEF Rem
<1> QED BY <1>2, <1>3

LEMMA WorkerConsumes ==
  ASSUME BaseInv, NEW w \in Workers, Worker(w) \/ WorkerStops(w) \/ WorkerDies(w)
  PROVE  Consumes
<1>1. /\ inbox \in [Workers -> Seq(Messages)]
      /\ worker \in [Workers -> Points] /\ job \in [Workers -> Calls \cup {None}]
  BY DEF BaseInv, ExecutorTypeOK, Messages, Points
<1>2. ASSUME NEW v \in Workers \ {w} PROVE Rem(v)' = Rem(v)
  <2>1. worker'[v] = worker[v] /\ job'[v] = job[v]
    BY <1>1
    DEF Worker, WorkerReads, WorkerRuns, GatherFails, WorkerReplies, WorkerDies, WorkerStops,
        Goto, Leave
  <2>2. inbox'[v] = inbox[v]
    BY <1>1
    DEF Worker, WorkerReads, WorkerRuns, GatherFails, WorkerReplies, WorkerDies, WorkerStops
  <2> QED BY <2>1, <2>2 DEF Rem
<1>3. ASSUME NEW p, NEW c, Goto(w, p, c) PROVE worker'[w] = p /\ job'[w] = c
  BY <1>1, <1>3 DEF Goto
<1>4. CASE WorkerReads(w)
  <2>1. /\ Rem(w) = inbox[w] /\ inbox[w] # << >> /\ inbox'[w] = Tail(inbox[w])
    BY <1>1, <1>4 DEF WorkerReads, Rem
  <2>2. ASSUME worker'[w] = "running" PROVE Rem(w)' = Rem(w)
    <3>1. job'[w] = Head(inbox[w])
      BY <1>3, <1>4, <2>2 DEF WorkerReads
    <3>2. <<Head(inbox[w])>> \o Tail(inbox[w]) = inbox[w]
      BY <1>1, <2>1, HeadIsIn
    <3> QED BY <2>1, <2>2, <3>1, <3>2 DEF Rem
  <2>3. ASSUME worker'[w] # "running" PROVE Rem(w)' = Tail(Rem(w))
    <3>1. worker'[w] \notin {"running", "gathering"}
      BY <1>3, <1>4, <2>3 DEF WorkerReads
    <3> QED BY <2>1, <3>1 DEF Rem
  <2> QED BY <1>2, <2>1, <2>2, <2>3 DEF Consumes
<1>5. CASE UNCHANGED inbox /\ worker'[w] \notin {"running", "gathering"}
  <2>1. Rem(w)' = inbox[w]
    BY <1>5 DEF Rem
  <2> QED BY <1>2, <2>1, RemType DEF Consumes, Rem
<1>6. CASE WorkerRuns(w) /\ worker'[w] = "gathering"
  <2>1. job'[w] = job[w]
    BY <1>3, <1>6 DEF WorkerRuns, Leave
  <2>2. Rem(w)' = Rem(w)
    BY <1>6, <2>1 DEF WorkerRuns, Rem
  <2> QED BY <1>2, <2>2 DEF Consumes
<1>7. ASSUME NEW c, Leave(w, c) PROVE worker'[w] \in {"replying", "idle"}
  BY <1>3, <1>7 DEF Leave
<1>8. CASE WorkerRuns(w)
  <2>1. worker'[w] \in {"gathering", "replying", "idle"} /\ UNCHANGED inbox
    BY <1>3, <1>7, <1>8 DEF WorkerRuns
  <2> QED BY <1>5, <1>6, <1>8, <2>1
<1>9. CASE GatherFails(w)
  BY <1>5, <1>7, <1>9 DEF GatherFails
<1>10. CASE WorkerReplies(w) \/ WorkerStops(w) \/ WorkerDies(w)
  BY <1>3, <1>5, <1>10 DEF WorkerReplies, WorkerDies, WorkerStops
<1> QED BY <1>4, <1>8, <1>9, <1>10 DEF Worker

LEMMA OrderKept ==
  ASSUME BaseInv, SameOrder, Consumes
  PROVE  SameOrder'
<1>1. ASSUME NEW w \in Workers
      PROVE  \E d \in {0, 1} :
               /\ Len(Rem(w)') = Len(Rem(w)) - d
               /\ \A i \in 1..Len(Rem(w)') : i + d \in 1..Len(Rem(w)) /\ Rem(w)'[i] = Rem(w)[i + d]
  <2>1. CASE Rem(w)' = Rem(w)
    BY <2>1, RemType
  <2>2. CASE Rem(w) # << >> /\ Rem(w)' = Tail(Rem(w))
    <3>1. /\ Len(Rem(w)) \in Nat \ {0} /\ Len(Tail(Rem(w))) = Len(Rem(w)) - 1
          /\ \A i \in 1..Len(Tail(Rem(w))) : Tail(Rem(w))[i] = Rem(w)[i + 1]
      BY <2>2, RemType, TailIn
    <3>2. Len(Rem(w)') = Len(Rem(w)) - 1
      BY <2>2, <3>1
    <3>3. ASSUME NEW i \in 1..Len(Rem(w)')
          PROVE  i + 1 \in 1..Len(Rem(w)) /\ Rem(w)'[i] = Rem(w)[i + 1]
      BY <2>2, <3>1, <3>2
    <3> WITNESS 1 \in {0, 1}
    <3> QED BY <3>2, <3>3
  <2> QED BY <2>1, <2>2 DEF Consumes
<1>2. SUFFICES ASSUME NEW w \in Workers, NEW v \in Workers,
                      NEW i \in 1..Len(Rem(w)'), NEW j \in 1..Len(Rem(v)')
               PROVE  Rem(w)'[i] = Rem(v)'[j] <=> Len(Rem(w)') - i = Len(Rem(v)') - j
  BY DEF SameOrder
<1>3. PICK d \in {0, 1} :
        /\ Len(Rem(w)') = Len(Rem(w)) - d
        /\ i + d \in 1..Len(Rem(w)) /\ Rem(w)'[i] = Rem(w)[i + d]
  BY <1>1
<1>4. PICK e \in {0, 1} :
        /\ Len(Rem(v)') = Len(Rem(v)) - e
        /\ j + e \in 1..Len(Rem(v)) /\ Rem(v)'[j] = Rem(v)[j + e]
  BY <1>1
<1>5. Rem(w)[i + d] = Rem(v)[j + e] <=> Len(Rem(w)) - (i + d) = Len(Rem(v)) - (j + e)
  BY <1>3, <1>4 DEF SameOrder
<1>6. Len(Rem(w)) \in Nat /\ Len(Rem(v)) \in Nat /\ i \in Int /\ j \in Int
  BY RemType
<1>7. /\ Len(Rem(w)') - i = Len(Rem(w)) - (i + d)
      /\ Len(Rem(v)') - j = Len(Rem(v)) - (j + e)
  <2>1. /\ Len(Rem(w)') = Len(Rem(w)) - d /\ d \in Int
        /\ Len(Rem(v)') = Len(Rem(v)) - e /\ e \in Int
    BY <1>3, <1>4
  <2> QED BY <1>6, <2>1
<1>8. Rem(w)'[i] = Rem(w)[i + d] /\ Rem(v)'[j] = Rem(v)[j + e]
  BY <1>3, <1>4
<1> QED BY <1>5, <1>7, <1>8

LEMMA OrderExtended ==
  ASSUME BaseInv, SameOrder, NEW m \in Messages, Receives(m),
         \A w \in Workers : ~In(Rem(w), m)
  PROVE  SameOrder'
<1>1. ASSUME NEW w \in Workers
      PROVE  /\ Len(Rem(w)) \in Nat /\ Len(Rem(w)') = Len(Rem(w)) + 1
             /\ \A i \in 1..Len(Rem(w)) : Rem(w)'[i] = Rem(w)[i] /\ Rem(w)[i] # m
             /\ Rem(w)'[Len(Rem(w)) + 1] = m
  BY RemType, AppendIn DEF Receives, In
<1>2. SUFFICES ASSUME NEW w \in Workers, NEW v \in Workers,
                      NEW i \in 1..Len(Rem(w)'), NEW j \in 1..Len(Rem(v)')
               PROVE  Rem(w)'[i] = Rem(v)'[j] <=> Len(Rem(w)') - i = Len(Rem(v)') - j
  BY DEF SameOrder
<1>3. /\ Len(Rem(w)) \in Nat /\ Len(Rem(w)') = Len(Rem(w)) + 1
      /\ Len(Rem(v)) \in Nat /\ Len(Rem(v)') = Len(Rem(v)) + 1
  BY <1>1
<1>4. /\ \/ i = Len(Rem(w)) + 1 /\ Rem(w)'[i] = m
         \/ i \in 1..Len(Rem(w)) /\ Rem(w)'[i] = Rem(w)[i] /\ Rem(w)[i] # m
      /\ \/ j = Len(Rem(v)) + 1 /\ Rem(v)'[j] = m
         \/ j \in 1..Len(Rem(v)) /\ Rem(v)'[j] = Rem(v)[j] /\ Rem(v)[j] # m
  BY <1>1, <1>3
<1>5. i \in 1..Len(Rem(w)) /\ j \in 1..Len(Rem(v)) =>
        (Rem(w)[i] = Rem(v)[j] <=> Len(Rem(w)) - i = Len(Rem(v)) - j)
  BY DEF SameOrder
<1> QED BY <1>3, <1>4, <1>5

-----------------------------------------------------------------------------
(* A success of a call that collects statuses is a success of every rank.   *)
Replies == [call : Calls \cup {None}, ok : BOOLEAN]

SentCalls == {c \in Calls : call[c] \notin {"new", "sending"}}

(* Calls whose part went well on every rank and which nobody works on.      *)
DoneCalls == {c \in Calls : went[c] = Workers /\ \A w \in Workers : ~In(Rem(w), c)}

SoundReplies ==
  {r \in Replies :
     r.call \in Calls =>
       /\ r.call \in SentCalls
       /\ r.ok /\ r.call \in Gathered => r.call \in DoneCalls}

(* As long as all ranks are there, a gathered call awaits all or none.      *)
AllAwaited ==
  (\A w \in Workers : worker[w] \notin Over) =>
    \A c \in Gathered : \A w, v \in Workers : In(Rem(w), c) => In(Rem(v), c)

OnlySentCalls == \A w \in Workers : \A c \in Calls : In(Rem(w), c) => c \in SentCalls

LeaderReplies ==
  worker[Leader] = "replying" =>
    /\ job[Leader] \in SentCalls
    /\ job[Leader] \in Gathered /\ Leader \in went[job[Leader]] =>
         \A w \in Workers : ~In(Rem(w), job[Leader])

RepliesAreSound ==
  /\ \A i \in 1..Len(results) : results[i] \in SoundReplies
  /\ \A c \in Calls : reply[c] \in SoundReplies

GatherInv ==
  SameOrder /\ OnlySentCalls /\ AllAwaited /\ LeaderReplies /\ RepliesAreSound

LEMMA GatherInit == Init => GatherInv
<1> SUFFICES ASSUME Init PROVE GatherInv
  OBVIOUS
<1>1. \A w \in Workers : Rem(w) = << >>
  BY DEF Init, Rem
<1>2. \A w \in Workers : Len(Rem(w)) = 0 /\ \A x : ~In(Rem(w), x)
  BY <1>1, EmptySeq DEF In
<1>3. SameOrder /\ OnlySentCalls /\ AllAwaited
  BY <1>2 DEF SameOrder, OnlySentCalls, AllAwaited
<1>4. LeaderReplies
  BY LeaderAssumption DEF Init, LeaderReplies
<1>5. RepliesAreSound
  BY MarkersAssumption DEF Init, RepliesAreSound, SoundReplies, Replies, NoReply
<1> QED BY <1>3, <1>4, <1>5 DEF GatherInv

(* Nothing new comes to do: what was in order stays in order.               *)
LEMMA ConsumesIn ==
  ASSUME BaseInv, Consumes, NEW w \in Workers, NEW x
  PROVE  In(Rem(w)', x) => In(Rem(w), x)
<1>1. CASE Rem(w)' = Rem(w)
  BY <1>1
<1>2. CASE Rem(w) # << >> /\ Rem(w)' = Tail(Rem(w))
  BY <1>2, RemType, TailIn
<1> QED BY <1>1, <1>2 DEF Consumes

LEMMA SoundKept ==
  ASSUME SentCalls \subseteq SentCalls', SentCalls \cap DoneCalls \subseteq DoneCalls'
  PROVE  SoundReplies \subseteq SoundReplies'
BY DEF SoundReplies, Replies

LEMMA ConsumesKeeps ==
  ASSUME BaseInv, GatherInv, Consumes,
         SentCalls \subseteq SentCalls',
         \A c \in DoneCalls : went'[c] = went[c]
  PROVE  SameOrder' /\ OnlySentCalls' /\ SoundReplies \subseteq SoundReplies'
<1>1. SameOrder'
  BY OrderKept DEF GatherInv
<1>2. OnlySentCalls'
  BY ConsumesIn DEF GatherInv, OnlySentCalls
<1>3. DoneCalls \subseteq DoneCalls'
  BY ConsumesIn DEF DoneCalls
<1> QED BY <1>1, <1>2, <1>3, SoundKept

(* The steps that leave the workers alone.                                  *)
LEMMA SentKept ==
  ASSUME BaseInv, Caller
  PROVE  SentCalls \subseteq SentCalls'
BY DEF Caller, CallBegins, CallIsSent, CallIsAnswered, CallPolls, CallTimesOut, EndCall,
       BaseInv, ExecutorTypeOK, SentCalls

LEMMA WorkersUntouched ==
  ASSUME BaseInv, GatherInv, UNCHANGED workerVars,
         SentCalls \subseteq SentCalls',
         \A i \in 1..Len(results') : results'[i] \in SoundReplies,
         \A c \in Calls : reply'[c] \in SoundReplies
  PROVE  GatherInv'
<1>1. \A w \in Workers : Rem(w)' = Rem(w)
  BY DEF Rem, workerVars
<1>2. Consumes /\ UNCHANGED <<worker, job, went>>
  BY <1>1 DEF Consumes, workerVars
<1>3. SameOrder' /\ OnlySentCalls' /\ SoundReplies \subseteq SoundReplies'
  BY <1>2, ConsumesKeeps
<1>4. AllAwaited' /\ LeaderReplies'
  BY <1>1, <1>2, LeaderAssumption DEF GatherInv, AllAwaited, LeaderReplies
<1>5. RepliesAreSound'
  BY <1>3 DEF RepliesAreSound
<1> QED BY <1>3, <1>4, <1>5 DEF GatherInv

(* A new message for everybody.                                             *)
LEMMA ReceivesKeeps ==
  ASSUME BaseInv, GatherInv, NEW m \in Messages,
         \A w \in Workers : inbox'[w] = Append(inbox[w], m),
         UNCHANGED <<worker, job, went, results, reply>>,
         \A w \in Workers : ~In(Rem(w), m),
         m \in Calls => m \notin SentCalls /\ m \in SentCalls',
         SentCalls \subseteq SentCalls'
  PROVE  GatherInv'
<1>1. Receives(m)
  <2> SUFFICES ASSUME NEW w \in Workers PROVE Rem(w)' = Append(Rem(w), m)
    BY DEF Receives
  <2>1. CASE worker[w] \in {"running", "gathering"}
    <3>1. inbox[w] \in Seq(Messages) /\ job[w] \in Messages
      BY <2>1, RemType DEF BaseInv, JobInv, Messages
    <3> QED BY <2>1, <3>1, AppendCons DEF Rem
  <2>2. CASE worker[w] \notin {"running", "gathering"}
    BY <2>2 DEF Rem
  <2> QED BY <2>1, <2>2
<1>2. ASSUME NEW w \in Workers, NEW x PROVE In(Rem(w)', x) <=> In(Rem(w), x) \/ x = m
  <2>1. Rem(w) \in Seq(Messages) /\ Rem(w)' = Append(Rem(w), m)
    BY <1>1, RemType DEF Receives
  <2>2. In(Append(Rem(w), m), x) <=> In(Rem(w), x) \/ x = m
    BY <2>1, AppendIn
  <2> QED BY <2>1, <2>2
<1>3. SameOrder'
  BY <1>1, OrderExtended DEF GatherInv
<1>4. OnlySentCalls'
  BY <1>2 DEF GatherInv, OnlySentCalls
<1>5. AllAwaited'
  BY <1>2 DEF GatherInv, AllAwaited
<1>6. LeaderReplies'
  <2> SUFFICES ASSUME worker[Leader] = "replying"
               PROVE  /\ job[Leader] \in SentCalls'
                      /\ job[Leader] \in Gathered /\ Leader \in went[job[Leader]] =>
                           \A w \in Workers : ~In(Rem(w)', job[Leader])
    BY DEF LeaderReplies
  <2>1. job[Leader] \in SentCalls
    BY DEF GatherInv, LeaderReplies
  <2>2. job[Leader] # m
    BY <2>1 DEF SentCalls
  <2> QED BY <1>2, <2>1, <2>2 DEF GatherInv, LeaderReplies
<1>7. SentCalls \cap DoneCalls \subseteq DoneCalls'
  BY <1>2 DEF DoneCalls
<1>8. RepliesAreSound'
  BY <1>7, SoundKept DEF GatherInv, RepliesAreSound
<1> QED BY <1>3, <1>4, <1>5, <1>6, <1>8 DEF GatherInv

(* Reading and running lose no call that collects statuses: every rank      *)
(* executes it and goes to the gather.                                      *)
LEMMA ReadKeepsGathered ==
  ASSUME BaseInv, NEW w \in Workers, WorkerReads(w), worker'[w] \notin Over,
         NEW c \in Gathered, In(Rem(w), c)
  PROVE  In(Rem(w)', c)
<1>1. /\ worker \in [Workers -> Points] /\ job \in [Workers -> Calls \cup {None}]
      /\ inbox \in [Workers -> Seq(Messages)]
  BY DEF BaseInv, ExecutorTypeOK, Points, Messages
<1>2. /\ Rem(w) = inbox[w] /\ inbox[w] # << >> /\ inbox'[w] = Tail(inbox[w])
  BY <1>1 DEF WorkerReads, Rem
<1>3. inbox[w] = <<Head(inbox[w])>> \o Tail(inbox[w])
  BY <1>1, <1>2, HeadIsIn
<1>4. CASE Executes(w, Head(inbox[w]))
  <2>1. worker'[w] = "running" /\ job'[w] = Head(inbox[w])
    BY <1>1, <1>4 DEF WorkerReads, IsStop, Goto, Over
  <2>2. Rem(w)' = Rem(w)
    BY <1>2, <1>3, <2>1 DEF Rem
  <2> QED BY <2>2
<1>5. CASE ~Executes(w, Head(inbox[w]))
  <2>1. worker'[w] = "idle" /\ c # Head(inbox[w])
    BY <1>1, <1>5, CallsAssumption DEF WorkerReads, IsStop, Goto, Over, Executes
  <2>2. Rem(w)' = Tail(inbox[w])
    BY <1>2, <2>1 DEF Rem
  <2>3. Tail(inbox[w]) \in Seq(Messages) /\ Head(inbox[w]) \in Messages
    BY <1>1, <1>2, HeadTailProperties
  <2>4. In(Tail(inbox[w]), c)
    <3>1. PICK i \in 1..Len(inbox[w]) : inbox[w][i] = c
      BY <1>2 DEF In
    <3>2. /\ Len(inbox[w]) = Len(Tail(inbox[w])) + 1 /\ Len(Tail(inbox[w])) \in Nat
          /\ inbox[w][i] = IF i = 1 THEN Head(inbox[w]) ELSE Tail(inbox[w])[i - 1]
      BY <1>3, <2>3, <3>1, ConsFacts, LenProperties
    <3>3. i - 1 \in 1..Len(Tail(inbox[w])) /\ Tail(inbox[w])[i - 1] = c
      BY <2>1, <3>1, <3>2
    <3> QED BY <3>3 DEF In
  <2> QED BY <2>2, <2>4
<1> QED BY <1>4, <1>5

LEMMA RunKeepsGathered ==
  ASSUME BaseInv, NEW w \in Workers, WorkerRuns(w), NEW c \in Gathered, In(Rem(w), c)
  PROVE  In(Rem(w)', c)
<1>1. worker \in [Workers -> Points] /\ job \in [Workers -> Calls \cup {None}]
  BY DEF BaseInv, ExecutorTypeOK, Points
<1>2. CASE job[w] \in Gathered
  <2>1. worker'[w] = "gathering" /\ job'[w] = job[w] /\ UNCHANGED inbox /\ worker[w] = "running"
    BY <1>1, <1>2 DEF WorkerRuns, Goto
  <2> QED BY <2>1 DEF Rem
<1>3. CASE job[w] \notin Gathered
  <2>1. worker'[w] \in {"replying", "idle"} /\ UNCHANGED inbox /\ worker[w] = "running"
    BY <1>1, <1>3 DEF WorkerRuns, Leave, Goto
  <2>2. Rem(w) = <<job[w]>> \o inbox[w] /\ Rem(w)' = inbox[w]
    BY <2>1 DEF Rem
  <2>3. inbox[w] \in Seq(Messages) /\ job[w] \in Messages
    BY <2>1 DEF BaseInv, ExecutorTypeOK, JobInv, Messages
  <2>4. PICK i \in 1..Len(Rem(w)) : Rem(w)[i] = c
    BY DEF In
  <2>5. /\ Len(Rem(w)) = Len(inbox[w]) + 1 /\ Len(inbox[w]) \in Nat
        /\ Rem(w)[i] = IF i = 1 THEN job[w] ELSE inbox[w][i - 1]
    BY <2>2, <2>3, <2>4, ConsFacts, LenProperties
  <2>6. i - 1 \in 1..Len(inbox[w]) /\ inbox[w][i - 1] = c
    BY <1>3, <2>4, <2>5
  <2> QED BY <2>2, <2>6 DEF In
<1> QED BY <1>2, <1>3

(* A worker's step: it works on what is at the head of what it has to do.   *)
LEMMA WorkerKeepsGather ==
  ASSUME BaseInv, GatherInv, NEW w \in Workers, Worker(w) \/ WorkerStops(w) \/ WorkerDies(w)
  PROVE  GatherInv'
<1>1. /\ worker \in [Workers -> Points] /\ job \in [Workers -> Calls \cup {None}]
      /\ went \in [Calls -> SUBSET Workers]
      /\ results \in Seq([call : Calls, ok : BOOLEAN])
  BY DEF BaseInv, ExecutorTypeOK, Points
<1>2. Consumes
  BY WorkerConsumes
<1>3. UNCHANGED callVars /\ SentCalls' = SentCalls
  BY DEF Worker, WorkerReads, WorkerRuns, GatherFails, WorkerReplies, WorkerDies, WorkerStops,
         callVars, SentCalls
<1>4. ASSUME worker[w] \in {"running", "gathering"}
      PROVE  job[w] \in Calls /\ In(Rem(w), job[w]) /\ job[w] \notin DoneCalls
  <2>1. job[w] \in Calls /\ Rem(w) \in Seq(Messages) /\ Rem(w) # << >> /\ Head(Rem(w)) = job[w]
    BY <1>4, RemType DEF BaseInv, JobInv
  <2>2. In(Rem(w), job[w])
    BY <2>1, HeadIsIn
  <2> QED BY <2>1, <2>2 DEF DoneCalls
<1>5. ASSUME NEW c \in Calls, went'[c] # went[c]
      PROVE  worker[w] \in {"running", "gathering"} /\ c = job[w]
  BY <1>1, <1>5
  DEF Worker, WorkerReads, WorkerRuns, GatherFails, WorkerReplies, WorkerDies, WorkerStops
<1>6. SameOrder' /\ OnlySentCalls' /\ SoundReplies \subseteq SoundReplies'
  <2>1. \A c \in DoneCalls : went'[c] = went[c]
    BY <1>4, <1>5 DEF DoneCalls
  <2> QED BY <1>2, <1>3, <2>1, ConsumesKeeps
<1>7. AllAwaited'
  <2>1. CASE \E v \in Workers : worker'[v] \in Over
    BY <2>1 DEF AllAwaited
  <2>2. CASE \A v \in Workers : worker'[v] \notin Over
    <3>1. \A v \in Workers : worker[v] \notin Over
      <4>1. \A v \in Workers \ {w} : worker'[v] = worker[v]
        BY <1>1
        DEF Worker, WorkerReads, WorkerRuns, GatherFails, WorkerReplies, WorkerDies, WorkerStops,
            Goto, Leave
      <4>2. worker[w] \notin Over
        BY DEF Worker, WorkerReads, WorkerRuns, GatherFails, WorkerReplies, WorkerDies,
               WorkerStops, Over
      <4> QED BY <2>2, <4>1, <4>2
    <3>2. ASSUME NEW v \in Workers, NEW c \in Gathered, In(Rem(v), c)
          PROVE  In(Rem(v)', c)
      <4>1. CASE v # w
        <5>1. worker'[v] = worker[v] /\ job'[v] = job[v] /\ inbox'[v] = inbox[v]
          BY <1>1, <4>1
          DEF Worker, WorkerReads, WorkerRuns, GatherFails, WorkerReplies, WorkerDies,
              WorkerStops, Goto, Leave, BaseInv, ExecutorTypeOK
        <5> QED BY <3>2, <5>1 DEF Rem
      <4>2. CASE v = w
        <5>1. CASE WorkerReads(w)
          BY <2>2, <3>2, <4>2, <5>1, ReadKeepsGathered
        <5>2. CASE WorkerRuns(w)
          BY <3>2, <4>2, <5>2, RunKeepsGathered
        <5>3. CASE GatherFails(w)
          BY <3>1, <5>3 DEF GatherFails
        <5>4. CASE WorkerReplies(w)
          <6>1. worker'[w] = "idle" /\ worker[w] = "replying" /\ UNCHANGED inbox
            BY <1>1, <5>4 DEF WorkerReplies, Goto
          <6> QED BY <3>2, <4>2, <6>1 DEF Rem
        <5>5. CASE WorkerStops(w) \/ WorkerDies(w)
          BY <1>1, <2>2, <5>5 DEF WorkerDies, WorkerStops, Goto, Over
        <5> QED BY <5>1, <5>2, <5>3, <5>4, <5>5 DEF Worker
      <4> QED BY <4>1, <4>2
    <3> QED BY <1>2, <3>1, <3>2, ConsumesIn, CallsAssumption DEF GatherInv, AllAwaited
  <2> QED BY <2>1, <2>2
<1>8. LeaderReplies'
  <2> SUFFICES ASSUME worker'[Leader] = "replying"
               PROVE  /\ job'[Leader] \in SentCalls
                      /\ job'[Leader] \in Gathered /\ Leader \in went'[job'[Leader]] =>
                           \A v \in Workers : ~In(Rem(v)', job'[Leader])
    BY <1>3 DEF LeaderReplies
  <2>1. CASE worker[Leader] = "replying"
    <3>1. UNCHANGED <<worker, job>> \/ w # Leader \/ worker'[w] # "replying"
      BY <1>1, <2>1
      DEF Worker, WorkerReads, WorkerRuns, GatherFails, WorkerReplies, WorkerDies, WorkerStops,
          Goto, Leave, Over
    <3>2. w # Leader
      BY <1>1, <2>1
      DEF Worker, WorkerReads, WorkerRuns, GatherFails, WorkerReplies, WorkerDies, WorkerStops,
          Goto, Leave, Over
    <3>3. job'[Leader] = job[Leader]
      BY <1>1, <3>2, LeaderAssumption
      DEF Worker, WorkerReads, WorkerRuns, GatherFails, WorkerReplies, WorkerDies, WorkerStops,
          Goto, Leave
    <3>4. Leader \in went'[job[Leader]] => Leader \in went[job[Leader]]
      <4>1. job[Leader] \in Calls
        BY <2>1, LeaderAssumption DEF BaseInv, JobInv
      <4> QED
        BY <1>1, <3>2, <4>1
        DEF Worker, WorkerReads, WorkerRuns, GatherFails, WorkerReplies, WorkerDies, WorkerStops
    <3> QED BY <1>2, <2>1, <3>3, <3>4, ConsumesIn DEF GatherInv, LeaderReplies
  <2>2. CASE worker[Leader] # "replying"
    <3>1. w = Leader /\ worker[w] \in {"running", "gathering"} /\ job'[w] = job[w]
      BY <1>1, <2>2, LeaderAssumption
      DEF Worker, WorkerReads, WorkerRuns, GatherFails, WorkerReplies, WorkerDies, WorkerStops,
          Goto, Leave, HasResultQueue
    <3>2. job[w] \in Calls /\ In(Rem(w), job[w])
      BY <1>4, <3>1
    <3>3. job[w] \in SentCalls
      BY <3>2 DEF GatherInv, OnlySentCalls
    <3>4. ASSUME job[w] \in Gathered PROVE Leader \notin went'[job[w]]
      <4>1. GatherFails(w)
        BY <1>1, <2>2, <3>1, <3>4, LeaderAssumption
        DEF Worker, WorkerReads, WorkerRuns, GatherFails, WorkerReplies, WorkerDies, WorkerStops,
            Goto
      <4> QED BY <1>1, <3>1, <3>2, <4>1 DEF GatherFails
    <3> QED BY <3>1, <3>3, <3>4
  <2> QED BY <2>1, <2>2
<1>9. RepliesAreSound'
  <2>1. \A i \in 1..Len(results') : results'[i] \in SoundReplies'
    <3>1. CASE WorkerReplies(w)
      <4> DEFINE r == [call |-> job[w], ok |-> AnswerOk(w, job[w])]
      <4>1. w = Leader /\ job[w] \in Calls /\ worker[w] = "replying"
        BY <3>1 DEF WorkerReplies, BaseInv, JobInv
      <4>2. AnswerOk(w, job[w]) \in BOOLEAN
        <5>1. CASE job[w] \in Gathered
          BY <5>1 DEF AnswerOk
        <5>2. CASE job[w] \notin Gathered
          BY <5>2 DEF AnswerOk
        <5> QED BY <5>1, <5>2
      <4>3. r \in [call : Calls, ok : BOOLEAN] /\ r \in Replies
        BY <4>1, <4>2 DEF Replies
      <4>4. r \in SoundReplies
        <5>1. r.call = job[w] /\ r.call \in SentCalls
          BY <4>1 DEF GatherInv, LeaderReplies
        <5>2. ASSUME r.ok, r.call \in Gathered PROVE r.call \in DoneCalls
          <6>1. went[job[w]] = Workers
            BY <5>1, <5>2 DEF AnswerOk
          <6> QED
            BY <4>1, <5>1, <5>2, <6>1, LeaderAssumption DEF GatherInv, LeaderReplies, DoneCalls
        <5> HIDE DEF r
        <5> QED BY <4>3, <5>1, <5>2 DEF SoundReplies
      <4>5. results' = Append(results, r)
        BY <3>1 DEF WorkerReplies
      <4> HIDE DEF r
      <4>6. \A i \in 1..Len(results') : results'[i] \in SoundReplies
        BY <1>1, <4>3, <4>4, <4>5, AppendIn DEF GatherInv, RepliesAreSound
      <4> QED BY <1>6, <4>6
    <3>2. CASE UNCHANGED results
      BY <1>6, <3>2 DEF GatherInv, RepliesAreSound
    <3> QED
      BY <3>1, <3>2 DEF Worker, WorkerReads, WorkerRuns, GatherFails, WorkerDies, WorkerStops
  <2>2. \A c \in Calls : reply'[c] \in SoundReplies'
    BY <1>3, <1>6 DEF GatherInv, RepliesAreSound, callVars
  <2> QED BY <2>1, <2>2 DEF RepliesAreSound
<1> QED BY <1>6, <1>7, <1>8, <1>9 DEF GatherInv

(* All leave the gather together: it is the same call for each of them, for *)
(* the call of one is awaited by the other, and not behind its own.         *)
LEMMA SameJob ==
  ASSUME BaseInv, GatherInv, \A w \in Workers : worker[w] = "gathering",
         NEW w \in Workers, NEW v \in Workers
  PROVE  job[w] = job[v] /\ Len(Rem(w)) = Len(Rem(v))
<1>1. ASSUME NEW u \in Workers
      PROVE  /\ job[u] \in Gathered /\ Len(Rem(u)) \in Nat \ {0} /\ Rem(u)[1] = job[u]
             /\ In(Rem(u), job[u])
  <2>1. Rem(u) \in Seq(Messages) /\ Rem(u) # << >> /\ Head(Rem(u)) = job[u]
    BY RemType
  <2>2. Len(Rem(u)) \in Nat \ {0} /\ Rem(u)[1] = job[u]
    BY <2>1, LenProperties, EmptySeq, HeadTailProperties
  <2> QED BY <2>2 DEF BaseInv, JobInv, In
<1>2. ASSUME NEW x \in Workers, NEW u \in Workers
      PROVE  \E k \in 1..Len(Rem(u)) : Rem(u)[k] = job[x] /\ Len(Rem(x)) - 1 = Len(Rem(u)) - k
  <2>1. In(Rem(u), job[x])
    BY <1>1 DEF GatherInv, AllAwaited, Over
  <2>2. PICK k \in 1..Len(Rem(u)) : Rem(u)[k] = job[x]
    BY <2>1 DEF In
  <2>3. 1 \in 1..Len(Rem(x)) /\ Rem(x)[1] = Rem(u)[k]
    BY <1>1, <2>2
  <2> QED BY <2>2, <2>3 DEF GatherInv, SameOrder
<1>3. PICK k \in 1..Len(Rem(v)) : Rem(v)[k] = job[w] /\ Len(Rem(w)) - 1 = Len(Rem(v)) - k
  BY <1>2
<1>4. PICK l \in 1..Len(Rem(w)) : Rem(w)[l] = job[v] /\ Len(Rem(v)) - 1 = Len(Rem(w)) - l
  BY <1>2
<1>5. k = 1 /\ Len(Rem(w)) = Len(Rem(v))
  BY <1>1, <1>3, <1>4
<1> QED BY <1>1, <1>3, <1>5

LEMMA GatherGather ==
  ASSUME BaseInv, GatherInv, WorkersGather
  PROVE  GatherInv'
<1>1. \A w \in Workers : worker[w] = "gathering"
  BY DEF WorkersGather
<1>2. ASSUME NEW w \in Workers
      PROVE  /\ Rem(w) \in Seq(Messages) /\ Rem(w) # << >> /\ Rem(w)' = Tail(Rem(w))
             /\ Len(Rem(w)) \in Nat \ {0} /\ Len(Rem(w)') = Len(Rem(w)) - 1
             /\ \A i \in 1..Len(Rem(w)') : Rem(w)'[i] = Rem(w)[i + 1]
             /\ Rem(w)[1] = job[w]
  <2>1. Rem(w) \in Seq(Messages) /\ Rem(w) # << >> /\ Tail(Rem(w)) = inbox[w] /\ Head(Rem(w)) = job[w]
    BY <1>1, RemType
  <2>2. worker'[w] \in {"replying", "idle"} /\ UNCHANGED inbox
    BY DEF WorkersGather
  <2>3. Rem(w)' = Tail(Rem(w))
    BY <2>1, <2>2 DEF Rem
  <2> HIDE DEF Rem
  <2>4. /\ Len(Rem(w)) \in Nat \ {0} /\ Len(Tail(Rem(w))) = Len(Rem(w)) - 1
        /\ \A i \in 1..Len(Tail(Rem(w))) : Tail(Rem(w))[i] = Rem(w)[i + 1]
    BY <2>1, TailIn
  <2>5. Rem(w)[1] = Head(Rem(w))
    BY <2>1, HeadTailProperties
  <2>6. \A i \in 1..Len(Rem(w)') : Rem(w)'[i] = Rem(w)[i + 1]
    BY <2>3, <2>4
  <2> QED BY <2>1, <2>3, <2>4, <2>5, <2>6
<1>3. Consumes
  BY <1>2 DEF Consumes
<1>4. UNCHANGED <<went, results, callVars>> /\ SentCalls' = SentCalls
  BY DEF WorkersGather, callVars, SentCalls
<1>5. SameOrder' /\ OnlySentCalls' /\ SoundReplies \subseteq SoundReplies'
  BY <1>3, <1>4, ConsumesKeeps
<1>6. ASSUME NEW w \in Workers, NEW v \in Workers, NEW c \in Gathered, In(Rem(w)', c)
      PROVE  In(Rem(v)', c)
  <2>1. PICK i \in 1..Len(Rem(w)') : Rem(w)'[i] = c
    BY <1>6 DEF In
  <2>2. i + 1 \in 1..Len(Rem(w)) /\ Rem(w)[i + 1] = c
    BY <1>2, <2>1
  <2>3. PICK j \in 1..Len(Rem(v)) : Rem(v)[j] = c
    BY <1>1, <2>2 DEF GatherInv, AllAwaited, In, Over
  <2>4. Len(Rem(w)) - (i + 1) = Len(Rem(v)) - j
    BY <2>2, <2>3 DEF GatherInv, SameOrder
  <2>5. j = i + 1
    BY <1>1, <1>2, <2>1, <2>4, SameJob
  <2>6. i \in 1..Len(Rem(v)') /\ Rem(v)'[i] = c
    <3>1. i \in 1..(Len(Rem(v)) - 1)
      BY <1>2, <2>1, <2>3, <2>5
    <3>2. i \in 1..Len(Rem(v)')
      BY <1>2, <3>1
    <3> QED BY <1>2, <2>3, <2>5, <3>2
  <2> QED BY <2>6 DEF In
<1>7. AllAwaited'
  BY <1>6 DEF AllAwaited
<1>8. LeaderReplies'
  <2>1. job'[Leader] = job[Leader] /\ job[Leader] \in Gathered /\ job[Leader] \in Calls
    BY <1>1, LeaderAssumption, CallsAssumption
    DEF WorkersGather, HasResultQueue, BaseInv, JobInv
  <2>2. 1 \in 1..Len(Rem(Leader)) /\ Rem(Leader)[1] = job[Leader]
    BY <1>2, LeaderAssumption
  <2>3. job[Leader] \in SentCalls
    BY <2>1, <2>2, LeaderAssumption DEF GatherInv, OnlySentCalls, In
  <2>4. ASSUME NEW w \in Workers, In(Rem(w)', job[Leader]) PROVE FALSE
    <3>1. PICK i \in 1..Len(Rem(w)') : Rem(w)'[i] = job[Leader]
      BY <2>4 DEF In
    <3>2. i + 1 \in 1..Len(Rem(w)) /\ Rem(w)[i + 1] = job[Leader]
      BY <1>2, <3>1
    <3>3. 1 \in 1..Len(Rem(w)) /\ Rem(w)[1] = job[Leader]
      BY <1>1, <1>2, SameJob, LeaderAssumption
    <3>4. Len(Rem(w)) - (i + 1) = Len(Rem(w)) - 1
      BY <3>2, <3>3 DEF GatherInv, SameOrder
    <3> QED BY <1>2, <3>1, <3>4
  <2> QED BY <1>4, <2>1, <2>3, <2>4 DEF LeaderReplies
<1>9. RepliesAreSound'
  BY <1>4, <1>5 DEF GatherInv, RepliesAreSound, callVars
<1> QED BY <1>5, <1>7, <1>8, <1>9 DEF GatherInv

LEMMA GatherCaller ==
  ASSUME BaseInv, GatherInv, Caller
  PROVE  GatherInv'
<1>1. PICK c \in Calls :
        CallBegins(c) \/ CallIsSent(c) \/ CallIsAnswered(c) \/ CallPolls(c) \/ CallTimesOut(c)
  BY DEF Caller
<1>2. SentCalls \subseteq SentCalls'
  BY SentKept
<1>3. CASE CallIsSent(c) /\ open
  <2>1. \A w \in Workers : inbox'[w] = Append(inbox[w], c)
    BY <1>3, BroadcastType DEF CallIsSent, Messages
  <2>2. c \notin SentCalls /\ c \in SentCalls'
    BY <1>3 DEF CallIsSent, SentCalls, BaseInv, ExecutorTypeOK
  <2>3. \A w \in Workers : ~In(Rem(w), c)
    BY <2>2 DEF GatherInv, OnlySentCalls
  <2> QED BY <1>2, <1>3, <2>1, <2>2, <2>3, ReceivesKeeps DEF CallIsSent, Messages
<1>4. CASE CallIsAnswered(c)
  <2>1. /\ results \in Seq([call : Calls, ok : BOOLEAN]) /\ results # << >>
        /\ results' = Tail(results)
    BY <1>4 DEF CallIsAnswered, BaseInv, ExecutorTypeOK
  <2>2. \A i \in 1..Len(results') : results'[i] \in SoundReplies
    <3>1. /\ Len(results) \in Nat \ {0} /\ Len(Tail(results)) = Len(results) - 1
          /\ \A i \in 1..Len(Tail(results)) : Tail(results)[i] = results[i + 1]
      BY <2>1, TailIn
    <3> QED BY <2>1, <3>1 DEF GatherInv, RepliesAreSound
  <2>3. Head(results) \in SoundReplies
    BY <2>1, LenProperties, EmptySeq, HeadTailProperties DEF GatherInv, RepliesAreSound
  <2>4. \A d \in Calls : reply'[d] \in SoundReplies
    BY <1>4, <2>3 DEF CallIsAnswered, GatherInv, RepliesAreSound, BaseInv, ExecutorTypeOK
  <2> QED BY <1>2, <1>4, <2>2, <2>4, WorkersUntouched DEF CallIsAnswered
<1>5. CASE UNCHANGED <<workerVars, results, reply>>
  BY <1>2, <1>5, WorkersUntouched DEF GatherInv, RepliesAreSound
<1> QED
  BY <1>1, <1>3, <1>4, <1>5
  DEF CallBegins, CallIsSent, CallPolls, CallTimesOut, workerVars

LEMMA GatherThreads ==
  ASSUME BaseInv, LifeInv, GatherInv,
         \/ Monitor \/ CloserComes \/ Shutdown("closer")
         \/ HealthCheckBegins \/ HealthCheckLooks
         \/ \E w \in Workers : Terminate(w)
  PROVE  GatherInv'
<1>1. UNCHANGED <<worker, job, went, results, callVars>> /\ SentCalls' = SentCalls
  BY DEF Monitor, Shutdown, MonitorWakes, MonitorMarks, MonitorNotifies, ShutdownBegins,
         ShutdownEnds, Terminate, CloserComes, HealthCheckBegins, HealthCheckLooks, workerVars,
         callVars, SentCalls
<1>2. CASE UNCHANGED inbox
  BY <1>1, <1>2, WorkersUntouched DEF GatherInv, RepliesAreSound, workerVars, callVars
<1>3. CASE ~finalized /\ Broadcast(Stop)
  <2>1. \A w \in Workers : inbox'[w] = Append(inbox[w], Stop)
    BY <1>3, BroadcastType DEF Messages
  <2>2. ASSUME NEW w \in Workers, In(Rem(w), Stop) PROVE FALSE
    <3>1. ~In(inbox[w], Stop)
      BY <1>3 DEF LifeInv
    <3>2. worker[w] \in {"running", "gathering"} /\ job[w] \in Messages /\ job[w] # Stop
      BY <2>2, <3>1, MarkersAssumption DEF Rem, BaseInv, JobInv, Messages
    <3>3. /\ Rem(w) = <<job[w]>> \o inbox[w] /\ inbox[w] \in Seq(Messages)
      BY <3>2, RemType DEF Rem
    <3>4. PICK i \in 1..Len(Rem(w)) : Rem(w)[i] = Stop
      BY <2>2 DEF In
    <3>5. /\ Len(Rem(w)) = Len(inbox[w]) + 1 /\ Len(inbox[w]) \in Nat
          /\ Rem(w)[i] = IF i = 1 THEN job[w] ELSE inbox[w][i - 1]
      BY <3>2, <3>3, <3>4, ConsFacts, LenProperties
    <3>6. i - 1 \in 1..Len(inbox[w]) /\ inbox[w][i - 1] = Stop
      BY <3>2, <3>4, <3>5
    <3> QED BY <3>1, <3>6 DEF In
  <2> QED
    BY <1>1, <2>1, <2>2, ReceivesKeeps, MarkersAssumption DEF Messages, callVars
<1> QED
  BY <1>2, <1>3
  DEF Monitor, Shutdown, MonitorWakes, MonitorMarks, MonitorNotifies, ShutdownBegins,
      ShutdownEnds, Terminate, CloserComes, HealthCheckBegins, HealthCheckLooks, workerVars

LEMMA GatherNext == BaseInv /\ LifeInv /\ GatherInv /\ [Next]_vars => GatherInv'
<1> SUFFICES ASSUME BaseInv, LifeInv, GatherInv, [Next]_vars PROVE GatherInv'
  OBVIOUS
<1>1. CASE UNCHANGED vars
  BY <1>1, WorkersUntouched
  DEF vars, workerVars, callVars, SentCalls, GatherInv, RepliesAreSound
<1> QED
  BY <1>1, GatherCaller, WorkerKeepsGather, GatherGather, GatherThreads DEF Next

-----------------------------------------------------------------------------
(* Whose answer comes next.  The calls under way: those the leader has      *)
(* still to do, the one it answers, and those whose answer is queued.       *)
Queued == {c \in Calls : In(Rem(Leader), c)}
InReply == IF worker[Leader] = "replying" THEN {job[Leader]} ELSE {}
Answers == {results[i].call : i \in 1..Len(results)}
UnderWay == Queued \cup InReply \cup Answers

(* One call at a time; a call that ended in an error found the queues gone, *)
(* and none can follow it.                                                  *)
CallerInv ==
  /\ \A c \in Calls : call[c] \in {"sending", "waiting"} <=> caller = c
  /\ \A c \in Calls : call[c] = "error" => ~open /\ caller = None

(* A call is under way in one place only.                                   *)
OnePlace ==
  /\ \A i, j \in 1..Len(results) : results[i].call = results[j].call => i = j
  /\ Queued \cap InReply = {}
  /\ Queued \cap Answers = {}
  /\ InReply \cap Answers = {}

(* Only an abandoned call leaves something behind.                          *)
NothingStale ==
  GaveUp = {} => \A c \in UnderWay : call[c] \in {"waiting", "error"}

OwnInv == CallerInv /\ OnePlace /\ NothingStale /\ AnswersAreOwn

LEMMA UnderWayIsSent ==
  ASSUME BaseInv, GatherInv
  PROVE  UnderWay \subseteq SentCalls
<1>1. Queued \subseteq SentCalls
  BY LeaderAssumption DEF Queued, GatherInv, OnlySentCalls
<1>2. InReply \subseteq SentCalls
  BY DEF InReply, GatherInv, LeaderReplies
<1>3. ASSUME NEW i \in 1..Len(results) PROVE results[i].call \in SentCalls
  <2>1. results \in Seq([call : Calls, ok : BOOLEAN])
    BY DEF BaseInv, ExecutorTypeOK
  <2>2. results[i] \in [call : Calls, ok : BOOLEAN]
    BY <2>1, ElementOfSeq
  <2>3. results[i].call \in Calls
    BY <2>2
  <2> QED BY <2>3 DEF GatherInv, RepliesAreSound, SoundReplies
<1> QED BY <1>1, <1>2, <1>3 DEF UnderWay, Answers

LEMMA HeadNotBehind ==
  ASSUME BaseInv, SameOrder, NEW w \in Workers, Rem(w) # << >>
  PROVE  ~In(Tail(Rem(w)), Head(Rem(w)))
<1>1. /\ Rem(w) \in Seq(Messages) /\ Len(Rem(w)) \in Nat \ {0} /\ Head(Rem(w)) = Rem(w)[1]
      /\ Len(Tail(Rem(w))) = Len(Rem(w)) - 1
      /\ \A i \in 1..Len(Tail(Rem(w))) : Tail(Rem(w))[i] = Rem(w)[i + 1]
  BY RemType, TailIn, HeadTailProperties
<1>2. SUFFICES ASSUME NEW i \in 1..Len(Tail(Rem(w))), Tail(Rem(w))[i] = Head(Rem(w))
               PROVE  FALSE
  BY DEF In
<1>3. 1 \in 1..Len(Rem(w)) /\ i + 1 \in 1..Len(Rem(w)) /\ Rem(w)[i + 1] = Rem(w)[1]
  BY <1>1, <1>2
<1>4. Len(Rem(w)) - (i + 1) = Len(Rem(w)) - 1
  BY <1>3 DEF SameOrder
<1> QED BY <1>1, <1>2, <1>4

(* What a step of the workers can do to the calls under way: nothing new,   *)
(* the leader done with a call, or its answer put on the queue.             *)
Finishes ==
  /\ Rem(Leader) # << >> /\ Rem(Leader)' = Tail(Rem(Leader))
  /\ InReply' = {Head(Rem(Leader))} /\ UNCHANGED results

Answering ==
  /\ Rem(Leader)' = Rem(Leader) /\ InReply' = {}
  /\ \E r \in [call : Calls, ok : BOOLEAN] :
       InReply = {r.call} /\ results' = Append(results, r)

LEMMA LeaderSteps ==
  ASSUME BaseInv, NEW w \in Workers, Worker(w) \/ WorkerStops(w) \/ WorkerDies(w)
  PROVE  \/ InReply' \subseteq InReply /\ UNCHANGED results
         \/ Finishes
         \/ Answering
<1>1. /\ worker \in [Workers -> Points] /\ job \in [Workers -> Calls \cup {None}]
  BY DEF BaseInv, ExecutorTypeOK, Points
<1>2. CASE WorkerReplies(w)
  <2>1. w = Leader /\ job[w] \in Calls /\ worker[w] = "replying"
    BY <1>2 DEF WorkerReplies, BaseInv, JobInv
  <2>2. worker'[w] = "idle" /\ UNCHANGED inbox
    BY <1>1, <1>2 DEF WorkerReplies, Goto
  <2>3. AnswerOk(w, job[w]) \in BOOLEAN
    <3>1. CASE job[w] \in Gathered
      BY <3>1 DEF AnswerOk
    <3>2. CASE job[w] \notin Gathered
      BY <3>2 DEF AnswerOk
    <3> QED BY <3>1, <3>2
  <2>4. PICK r \in [call : Calls, ok : BOOLEAN] :
          r.call = job[w] /\ results' = Append(results, r)
    <3>1. [call |-> job[w], ok |-> AnswerOk(w, job[w])] \in [call : Calls, ok : BOOLEAN]
      BY <2>1, <2>3
    <3> QED BY <1>2, <3>1 DEF WorkerReplies
  <2>5. Rem(Leader)' = Rem(Leader)
    BY <2>1, <2>2 DEF Rem
  <2>6. InReply' = {} /\ InReply = {r.call}
    BY <2>1, <2>2, <2>4 DEF InReply
  <2> QED BY <2>4, <2>5, <2>6 DEF Answering
<1>3. CASE ~WorkerReplies(w)
  <2>1. UNCHANGED results
    BY <1>3 DEF Worker, WorkerReads, WorkerRuns, GatherFails, WorkerDies, WorkerStops
  <2>2. CASE w # Leader
    <3>1. worker'[Leader] = worker[Leader] /\ job'[Leader] = job[Leader]
      BY <1>1, <2>2, LeaderAssumption
      DEF Worker, WorkerReads, WorkerRuns, GatherFails, WorkerReplies, WorkerDies, WorkerStops,
          Goto, Leave
    <3> QED BY <2>1, <3>1 DEF InReply
  <2>3. CASE w = Leader /\ worker'[Leader] # "replying"
    BY <2>1, <2>3 DEF InReply
  <2>4. CASE w = Leader /\ worker'[Leader] = "replying"
    <3>1. /\ worker[w] \in {"running", "gathering"} /\ job'[w] = job[w] /\ UNCHANGED inbox
      BY <1>1, <1>3, <2>4
      DEF Worker, WorkerReads, WorkerRuns, GatherFails, WorkerDies, WorkerStops,
          Goto, Leave, HasResultQueue, Over
    <3>2. Rem(w) # << >> /\ Head(Rem(w)) = job[w] /\ Tail(Rem(w)) = inbox[w]
      BY <3>1, RemType
    <3>3. Rem(w)' = Tail(Rem(w))
      BY <2>4, <3>1, <3>2 DEF Rem
    <3>4. InReply' = {Head(Rem(w))}
      BY <2>4, <3>1, <3>2 DEF InReply
    <3> QED BY <2>1, <2>4, <3>2, <3>3, <3>4 DEF Finishes
  <2> QED BY <2>2, <2>3, <2>4
<1> QED BY <1>2, <1>3

LEMMA LeaderGathers ==
  ASSUME BaseInv, WorkersGather
  PROVE  Finishes /\ Consumes
<1>1. ASSUME NEW w \in Workers PROVE Rem(w) # << >> /\ Rem(w)' = Tail(Rem(w))
  <2>1. Rem(w) # << >> /\ Tail(Rem(w)) = inbox[w]
    BY RemType DEF WorkersGather
  <2>2. worker'[w] \in {"replying", "idle"} /\ UNCHANGED inbox
    BY DEF WorkersGather
  <2> QED BY <2>1, <2>2 DEF Rem
<1>2. Head(Rem(Leader)) = job[Leader]
  BY RemType, LeaderAssumption DEF WorkersGather
<1>3. InReply' = {Head(Rem(Leader))}
  BY <1>2, LeaderAssumption DEF InReply, WorkersGather, HasResultQueue
<1>4. UNCHANGED results
  BY DEF WorkersGather
<1> QED BY <1>1, <1>3, <1>4, LeaderAssumption DEF Finishes, Consumes

(* The steps of the workers.                                                *)
LEMMA WorkersKeepPlaces ==
  ASSUME BaseInv, BaseInv', GatherInv, OnePlace, Consumes,
         \/ InReply' \subseteq InReply /\ UNCHANGED results
         \/ Finishes
         \/ Answering
  PROVE  OnePlace' /\ UnderWay' \subseteq UnderWay
<1>1. Queued' \subseteq Queued
  BY ConsumesIn, LeaderAssumption DEF Queued
<1>2. CASE InReply' \subseteq InReply /\ UNCHANGED results
  BY <1>1, <1>2 DEF OnePlace, UnderWay, Answers
<1>3. CASE Finishes
  <2>1. /\ Rem(Leader) \in Seq(Messages) /\ Rem(Leader) # << >>
        /\ Rem(Leader)' = Tail(Rem(Leader)) /\ InReply' = {Head(Rem(Leader))}
    BY <1>3, RemType, LeaderAssumption DEF Finishes
  <2>2. In(Rem(Leader), Head(Rem(Leader)))
    BY <2>1, HeadIsIn
  <2>3. ~In(Rem(Leader)', Head(Rem(Leader)))
    BY <2>1, HeadNotBehind, LeaderAssumption DEF GatherInv
  <2>4. Answers' = Answers /\ Answers \subseteq Calls
    <3>1. Answers' = Answers
      BY <1>3 DEF Finishes, Answers
    <3>2. results \in Seq([call : Calls, ok : BOOLEAN])
      BY DEF BaseInv, ExecutorTypeOK
    <3>3. \A i \in 1..Len(results) : results[i] \in [call : Calls, ok : BOOLEAN]
      BY <3>2, ElementOfSeq
    <3> QED BY <3>1, <3>3 DEF Answers
  <2>5. Queued' \cap InReply' = {}
    BY <2>1, <2>3 DEF Queued
  <2>6. InReply' \cap Calls \subseteq Queued
    BY <2>1, <2>2 DEF Queued
  <2>7. InReply' \subseteq Calls
    <3>1. CASE worker'[Leader] = "replying"
      <4>1. job'[Leader] \in Calls
        <5>1. JobInv'
          BY DEF BaseInv
        <5> QED BY <3>1, <5>1, LeaderAssumption DEF JobInv
      <4> QED BY <3>1, <4>1 DEF InReply
    <3>2. CASE worker'[Leader] # "replying"
      BY <3>2 DEF InReply
    <3> QED BY <3>1, <3>2
  <2> QED
    BY <1>1, <1>3, <2>4, <2>5, <2>6, <2>7 DEF OnePlace, UnderWay, Finishes
<1>4. CASE Answering
  <2>1. PICK r \in [call : Calls, ok : BOOLEAN] :
          InReply = {r.call} /\ results' = Append(results, r)
    BY <1>4 DEF Answering
  <2>2. /\ Len(results) \in Nat /\ Len(results') = Len(results) + 1
        /\ \A i \in 1..Len(results) : results'[i] = results[i]
        /\ results'[Len(results) + 1] = r
    BY <2>1, AppendIn DEF BaseInv, ExecutorTypeOK
  <2>3. Answers' = Answers \cup {r.call}
    BY <2>2 DEF Answers
  <2>4. \A i \in 1..Len(results) : results[i].call # r.call
    BY <2>1 DEF OnePlace, Answers
  <2>5. ASSUME NEW i \in 1..Len(results'), NEW j \in 1..Len(results'),
               results'[i].call = results'[j].call
        PROVE  i = j
    BY <2>2, <2>4, <2>5 DEF OnePlace
  <2>6. Queued' = Queued /\ InReply' = {}
    BY <1>4 DEF Answering, Queued
  <2> QED BY <2>1, <2>3, <2>5, <2>6 DEF OnePlace, UnderWay
<1> QED BY <1>2, <1>3, <1>4

LEMMA OwnWorkers ==
  ASSUME BaseInv, BaseInv', GatherInv, OwnInv, UNCHANGED <<callVars, open>>, Consumes,
         \/ InReply' \subseteq InReply /\ UNCHANGED results
         \/ Finishes
         \/ Answering
  PROVE  OwnInv'
<1>1. OnePlace' /\ UnderWay' \subseteq UnderWay
  BY WorkersKeepPlaces DEF OwnInv
<1>2. UNCHANGED <<caller, call, reply, open, GaveUp>>
  BY DEF callVars, GaveUp
<1> QED BY <1>1, <1>2 DEF OwnInv, CallerInv, NothingStale, AnswersAreOwn

(* A message for everybody that the leader has not yet: a call or the stop. *)
LEMMA BroadcastKeepsPlaces ==
  ASSUME BaseInv, BaseInv', GatherInv, OnePlace, NEW m \in Messages,
         Broadcast(m), UNCHANGED <<worker, job, results>>, m \notin SentCalls
  PROVE  OnePlace' /\ UnderWay' \subseteq UnderWay \cup {m} /\ (m = Stop => UnderWay' \subseteq UnderWay)
<1>1. ASSUME NEW c \in Calls, In(Rem(Leader)', c) PROVE In(Rem(Leader), c) \/ c = m
  <2>1. Rem(Leader)' = Append(Rem(Leader), m)
    <3>1. inbox'[Leader] = Append(inbox[Leader], m)
      BY BroadcastType, LeaderAssumption
    <3>2. CASE worker[Leader] \in {"running", "gathering"}
      <4>1. inbox[Leader] \in Seq(Messages) /\ job[Leader] \in Messages
        BY <3>2, RemType, LeaderAssumption DEF BaseInv, JobInv, Messages
      <4> QED BY <3>1, <3>2, <4>1, AppendCons DEF Rem
    <3>3. CASE worker[Leader] \notin {"running", "gathering"}
      BY <3>1, <3>3 DEF Rem
    <3> QED BY <3>2, <3>3
  <2>2. In(Append(Rem(Leader), m), c) <=> In(Rem(Leader), c) \/ c = m
    BY RemType, AppendIn, LeaderAssumption
  <2> QED BY <1>1, <2>1, <2>2
<1>2. Queued' \subseteq Queued \cup {m} /\ (m = Stop => Queued' \subseteq Queued)
  BY <1>1, MarkersAssumption DEF Queued
<1>3. InReply' = InReply /\ Answers' = Answers
  BY DEF InReply, Answers
<1>4. m \notin InReply /\ m \notin Answers
  BY UnderWayIsSent DEF UnderWay
<1> QED BY <1>2, <1>3, <1>4 DEF OnePlace, UnderWay

LEMMA PlacesUntouched ==
  ASSUME OnePlace, UNCHANGED <<inbox, worker, job, results>>
  PROVE  OnePlace' /\ UnderWay' = UnderWay
<1>1. Rem(Leader)' = Rem(Leader)
  BY DEF Rem
<1>2. Queued' = Queued /\ InReply' = InReply /\ Answers' = Answers
  BY <1>1 DEF Queued, InReply, Answers
<1> QED BY <1>2 DEF OnePlace, UnderWay

(* The call takes the next answer: it is its own, for no other is under way.*)
LEMMA OwnAnswered ==
  ASSUME BaseInv, OwnInv, NEW c \in Calls, CallIsAnswered(c)
  PROVE  OwnInv'
<1>1. call[c] = "waiting" /\ caller = c /\ caller # None
  BY MarkersAssumption DEF CallIsAnswered, OwnInv, CallerInv
<1>2. /\ call \in [Calls -> CallStates]
      /\ reply \in [Calls -> [call : Calls \cup {None}, ok : BOOLEAN]]
      /\ call' = [call EXCEPT ![c] = "answered"] /\ caller' = None
      /\ reply' = [reply EXCEPT ![c] = Head(results)]
      /\ UNCHANGED <<inbox, worker, job, open>>
  BY DEF CallIsAnswered, EndCall, BaseInv, ExecutorTypeOK, workerVars, lifeVars
<1>3. CallerInv'
  BY <1>1, <1>2, MarkersAssumption DEF OwnInv, CallerInv
<1>4. /\ Len(results) \in Nat \ {0} /\ Len(results') = Len(results) - 1
      /\ \A i \in 1..Len(results') : results'[i] = results[i + 1]
      /\ Head(results) = results[1]
  BY TailIn, HeadTailProperties DEF CallIsAnswered, BaseInv, ExecutorTypeOK
<1>5. Queued' = Queued /\ InReply' = InReply
  <2>1. Rem(Leader)' = Rem(Leader)
    BY <1>2 DEF Rem
  <2> QED BY <1>2, <2>1 DEF Queued, InReply
<1>6. Answers' \subseteq Answers /\ Head(results).call \in Answers /\ Head(results).call \notin Answers'
  <2>1. ASSUME NEW i \in 1..Len(results')
        PROVE  i + 1 \in 1..Len(results) /\ results'[i] = results[i + 1]
               /\ results[i + 1].call # results[1].call
    <3>1. i + 1 \in 1..Len(results) /\ 1 \in 1..Len(results) /\ i + 1 # 1
      BY <1>4
    <3> QED BY <1>4, <3>1 DEF OwnInv, OnePlace
  <2>2. Head(results).call \in Answers
    <3>1. 1 \in 1..Len(results) /\ Head(results).call = results[1].call
      BY <1>4
    <3> QED BY <3>1 DEF Answers
  <2>3. Answers' \subseteq Answers
    BY <2>1 DEF Answers
  <2>4. \A i \in 1..Len(results') : results'[i].call # Head(results).call
    BY <1>4, <2>1
  <2> QED BY <2>2, <2>3, <2>4 DEF Answers
<1>7. OnePlace'
  <2>1. ASSUME NEW i \in 1..Len(results'), NEW j \in 1..Len(results'),
               results'[i].call = results'[j].call
        PROVE  i = j
    <3>1. i + 1 \in 1..Len(results) /\ j + 1 \in 1..Len(results)
          /\ results[i + 1].call = results[j + 1].call
      BY <1>4, <2>1
    <3>2. i + 1 = j + 1
      BY <3>1 DEF OwnInv, OnePlace
    <3> QED BY <3>2
  <2> QED BY <1>5, <1>6, <2>1 DEF OwnInv, OnePlace
<1>8. ASSUME GaveUp' = {}
      PROVE  /\ GaveUp = {} /\ Head(results).call = c
             /\ \A d \in UnderWay' : call'[d] \in {"waiting", "error"}
  <2>1. GaveUp = {}
    BY <1>1, <1>2, <1>8 DEF GaveUp
  <2>2. \A d \in UnderWay : call[d] \in {"waiting", "error"}
    BY <2>1 DEF OwnInv, NothingStale
  <2>3. UnderWay \subseteq Calls
    <3>1. results \in Seq([call : Calls, ok : BOOLEAN])
      BY DEF BaseInv, ExecutorTypeOK
    <3>2. \A i \in 1..Len(results) : results[i] \in [call : Calls, ok : BOOLEAN]
      BY <3>1, ElementOfSeq
    <3> QED
      BY <3>2, LeaderAssumption DEF UnderWay, Queued, InReply, Answers, BaseInv, JobInv
  <2>4. \A d \in UnderWay : d = c
    BY <1>1, <2>2, <2>3 DEF OwnInv, CallerInv
  <2>5. Head(results).call = c
    BY <1>6, <2>4 DEF UnderWay
  <2>6. c \notin UnderWay' /\ UnderWay' \subseteq UnderWay
    BY <1>5, <1>6, <2>5 DEF UnderWay, OwnInv, OnePlace
  <2> QED BY <2>1, <2>4, <2>5, <2>6
<1>9. NothingStale'
  BY <1>8 DEF NothingStale
<1>10. AnswersAreOwn'
  BY <1>2, <1>8 DEF OwnInv, AnswersAreOwn
<1> QED BY <1>3, <1>7, <1>9, <1>10 DEF OwnInv

LEMMA OwnCaller ==
  ASSUME BaseInv, BaseInv', GatherInv, OwnInv, Caller
  PROVE  OwnInv'
<1>1. PICK c \in Calls :
        CallBegins(c) \/ CallIsSent(c) \/ CallIsAnswered(c) \/ CallPolls(c) \/ CallTimesOut(c)
  BY DEF Caller
<1>2. CASE CallIsAnswered(c)
  BY <1>2, OwnAnswered
<1>3. CASE ~CallIsAnswered(c)
  <2>0. call \in [Calls -> CallStates] /\ caller \in Calls \cup {None}
    BY DEF BaseInv, ExecutorTypeOK
  <2>1. /\ \A d \in Calls \ {c} : call'[d] = call[d]
        /\ call[c] \in {"new", "sending", "waiting"} /\ call'[c] # "answered"
        /\ UNCHANGED <<reply, open, worker, job, results>>
    BY <1>1, <1>3, <2>0
    DEF CallBegins, CallIsSent, CallPolls, CallTimesOut, EndCall, workerVars, lifeVars
  <2>2. CallerInv'
    <3> USE <2>0, MarkersAssumption DEF EndCall, lifeVars, OwnInv, CallerInv
    <3>1. CASE CallBegins(c)
      BY <3>1 DEF CallBegins
    <3>2. CASE CallIsSent(c)
      BY <3>2 DEF CallIsSent
    <3>3. CASE CallPolls(c)
      BY <3>3 DEF CallPolls, Outage
    <3>4. CASE CallTimesOut(c)
      BY <3>4 DEF CallTimesOut
    <3> QED BY <1>1, <1>3, <3>1, <3>2, <3>3, <3>4
  <2>3. GaveUp' = {} => GaveUp = {}
    BY <2>1 DEF GaveUp
  <2>4. AnswersAreOwn'
    BY <2>1, <2>3 DEF OwnInv, AnswersAreOwn
  <2>5. CASE CallIsSent(c) /\ open
    <3>1. c \notin SentCalls /\ call'[c] = "waiting"
      BY <2>0, <2>5 DEF CallIsSent, SentCalls
    <3>2. OnePlace' /\ UnderWay' \subseteq UnderWay \cup {c}
      BY <2>1, <2>5, <3>1, BroadcastKeepsPlaces DEF CallIsSent, OwnInv, Messages
    <3>3. UnderWay \subseteq Calls
      BY UnderWayIsSent DEF SentCalls
    <3>4. NothingStale'
      BY <2>1, <2>3, <3>1, <3>2, <3>3 DEF OwnInv, NothingStale
    <3> QED BY <2>2, <2>4, <3>2, <3>4 DEF OwnInv
  <2>6. CASE UNCHANGED inbox
    <3>1. OnePlace' /\ UnderWay' = UnderWay
      BY <2>1, <2>6, PlacesUntouched DEF OwnInv
    <3>2. UnderWay \subseteq SentCalls
      BY UnderWayIsSent
    <3>3. GaveUp' = {} => call[c] \in {"new", "sending"} \/ call'[c] = "error"
      BY <1>1, <1>3, <2>0
      DEF CallBegins, CallIsSent, CallPolls, CallTimesOut, EndCall, GaveUp
    <3>4. NothingStale'
      BY <2>1, <2>3, <3>1, <3>2, <3>3 DEF OwnInv, NothingStale, SentCalls
    <3> QED BY <2>2, <2>4, <3>1, <3>4 DEF OwnInv
  <2> QED
    BY <1>1, <1>3, <2>5, <2>6
    DEF CallBegins, CallIsSent, CallPolls, CallTimesOut, workerVars
<1> QED BY <1>2, <1>3

LEMMA OwnThreads ==
  ASSUME BaseInv, BaseInv', GatherInv, OwnInv,
         \/ Monitor \/ CloserComes \/ Shutdown("closer")
         \/ HealthCheckBegins \/ HealthCheckLooks
         \/ \E w \in Workers : Terminate(w)
  PROVE  OwnInv'
<1>1. /\ UNCHANGED <<worker, job, results, callVars>> /\ (open' = open \/ open' = FALSE)
      /\ (UNCHANGED inbox \/ Broadcast(Stop))
  BY DEF Monitor, Shutdown, MonitorWakes, MonitorMarks, MonitorNotifies, ShutdownBegins,
         ShutdownEnds, Terminate, CloserComes, HealthCheckBegins, HealthCheckLooks, workerVars
<1>2. OnePlace' /\ UnderWay' \subseteq UnderWay
  <2>1. CASE UNCHANGED inbox
    BY <1>1, <2>1, PlacesUntouched DEF OwnInv
  <2>2. CASE Broadcast(Stop)
    <3>1. Stop \notin SentCalls
      BY MarkersAssumption DEF SentCalls
    <3> QED BY <1>1, <2>2, <3>1, BroadcastKeepsPlaces DEF OwnInv, Messages
  <2> QED BY <1>1, <2>1, <2>2
<1>3. UNCHANGED <<caller, call, reply, GaveUp>>
  BY <1>1 DEF callVars, GaveUp
<1> QED BY <1>1, <1>2, <1>3 DEF OwnInv, CallerInv, NothingStale, AnswersAreOwn

LEMMA OwnNext ==
  BaseInv /\ BaseInv' /\ GatherInv /\ OwnInv /\ [Next]_vars => OwnInv'
<1> SUFFICES ASSUME BaseInv, BaseInv', GatherInv, OwnInv, [Next]_vars PROVE OwnInv'
  OBVIOUS
<1>1. CASE UNCHANGED vars
  <2>1. OnePlace' /\ UnderWay' = UnderWay
    BY <1>1, PlacesUntouched DEF vars, workerVars, OwnInv
  <2>2. UNCHANGED <<caller, call, reply, open, GaveUp>>
    BY <1>1 DEF vars, callVars, lifeVars, GaveUp
  <2> QED BY <2>1, <2>2 DEF OwnInv, CallerInv, NothingStale, AnswersAreOwn
<1>2. ASSUME NEW w \in Workers, Worker(w) \/ WorkerStops(w) \/ WorkerDies(w) PROVE OwnInv'
  <2>1. UNCHANGED <<callVars, open>>
    BY <1>2
    DEF Worker, WorkerReads, WorkerRuns, GatherFails, WorkerReplies, WorkerDies, WorkerStops, lifeVars
  <2> QED BY <1>2, <2>1, WorkerConsumes, LeaderSteps, OwnWorkers
<1>3. CASE WorkersGather
  <2>1. UNCHANGED <<callVars, open>>
    BY <1>3 DEF WorkersGather, lifeVars
  <2> QED BY <1>3, <2>1, LeaderGathers, OwnWorkers
<1> QED BY <1>1, <1>2, <1>3, OwnCaller, OwnThreads DEF Next

LEMMA OwnInit == Init => OwnInv
<1> SUFFICES ASSUME Init PROVE OwnInv
  OBVIOUS
<1>1. CallerInv /\ AnswersAreOwn
  BY MarkersAssumption DEF Init, CallerInv, AnswersAreOwn
<1>2. Queued = {} /\ InReply = {} /\ Answers = {}
  <2>1. Rem(Leader) = << >>
    BY LeaderAssumption DEF Init, Rem
  <2>2. Len(Rem(Leader)) = 0 /\ Len(results) = 0
    BY <2>1, EmptySeq DEF Init
  <2> QED BY <2>2, LeaderAssumption DEF Init, Queued, InReply, Answers, In
<1>3. OnePlace
  BY <1>2, EmptySeq DEF Init, OnePlace
<1> QED BY <1>1, <1>2, <1>3 DEF OwnInv, NothingStale, UnderWay

-----------------------------------------------------------------------------
(* Somebody always goes on.  While a call waits, its answer is under way,   *)
(* unless the leader is gone; and the flags and threads remember whose turn *)
(* it is when a process is gone.                                            *)
Awaited == \A c \in Calls : call[c] = "waiting" => c \in UnderWay \/ worker[Leader] \in Over

ThreadsFollow ==
  /\ finalized => (\E t \in Stoppers : thread[t] = "joining") \/ ~open
  /\ thread.monitor = "returned" => closed
  /\ thread.monitor \in {"stopped", "notified"} => ~open

ProgressInv == Awaited /\ ThreadsFollow

(* Only the threads in shutdown() and the monitor touch these flags.        *)
LEMMA FollowKept ==
  ASSUME BaseInv, ThreadsFollow, UNCHANGED <<closed, open, finalized, thread>>
  PROVE  ThreadsFollow'
BY DEF ThreadsFollow, Stoppers

(* Every step of a thread leaves somebody to go on.                         *)
LEMMA FollowThreads ==
  ASSUME BaseInv, LifeInv, ThreadsFollow,
         \/ Monitor \/ CloserComes \/ Shutdown("closer")
         \/ HealthCheckBegins \/ HealthCheckLooks
         \/ \E w \in Workers : Terminate(w)
  PROVE  ThreadsFollow'
<1> USE DEF SetThread
<1>0. /\ thread \in [monitor : {"watching", "returned", "checking", "stopping", "joining",
                                "stopped", "notified"},
                     closer : {"idle", "stopping", "joining", "stopped"},
                     checker : {"idle", "looking"}]
      /\ open \in BOOLEAN /\ finalized \in BOOLEAN /\ closed \in BOOLEAN
  BY DEF BaseInv, ExecutorTypeOK
<1>1. CASE MonitorWakes
  BY <1>0, <1>1 DEF MonitorWakes, Expected, ThreadsFollow, Stoppers
<1>2. CASE MonitorMarks \/ MonitorNotifies \/ CloserComes \/ HealthCheckBegins \/ HealthCheckLooks
  BY <1>0, <1>2
  DEF MonitorMarks, MonitorNotifies, CloserComes, HealthCheckBegins, HealthCheckLooks,
      ThreadsFollow, Stoppers
<1>3. ASSUME NEW t \in Stoppers, ShutdownBegins(t) PROVE ThreadsFollow'
  <2>1. CASE ~finalized
    BY <1>0, <1>3, <2>1 DEF ShutdownBegins, ThreadsFollow, Stoppers
  <2>2. CASE finalized
    BY <1>0, <1>3, <2>2 DEF ShutdownBegins, ThreadsFollow, Stoppers
  <2> QED BY <2>1, <2>2
<1>4. ASSUME NEW t \in Stoppers, ShutdownEnds(t) PROVE ThreadsFollow'
  BY <1>0, <1>4 DEF ShutdownEnds, ThreadsFollow, Stoppers
<1>5. ASSUME NEW w \in Workers, Terminate(w) PROVE ThreadsFollow'
  BY <1>5, FollowKept DEF Terminate
<1> QED
  BY <1>1, <1>2, <1>3, <1>4, <1>5 DEF Monitor, Shutdown, Stoppers

(* A new message for everybody leaves what is under way under way, and is   *)
(* under way itself if it is a call.                                        *)
LEMMA BroadcastAdds ==
  ASSUME BaseInv, NEW m \in Messages, Broadcast(m), UNCHANGED <<worker, job, results>>
  PROVE  UnderWay \cup ({m} \cap Calls) \subseteq UnderWay'
<1>1. Rem(Leader)' = Append(Rem(Leader), m)
  <2>1. inbox'[Leader] = Append(inbox[Leader], m)
    BY BroadcastType, LeaderAssumption
  <2>2. CASE worker[Leader] \in {"running", "gathering"}
    <3>1. inbox[Leader] \in Seq(Messages) /\ job[Leader] \in Messages
      BY <2>2, RemType, LeaderAssumption DEF BaseInv, JobInv, Messages
    <3> QED BY <2>1, <2>2, <3>1, AppendCons DEF Rem
  <2>3. CASE worker[Leader] \notin {"running", "gathering"}
    BY <2>1, <2>3 DEF Rem
  <2> QED BY <2>2, <2>3
<1>2. \A x : In(Rem(Leader)', x) <=> In(Rem(Leader), x) \/ x = m
  <2>1. Rem(Leader) \in Seq(Messages)
    BY RemType, LeaderAssumption
  <2> QED BY <1>1, <2>1, AppendIn
<1>3. InReply' = InReply /\ Answers' = Answers
  BY DEF InReply, Answers
<1>4. Queued \cup ({m} \cap Calls) \subseteq Queued'
  BY <1>2 DEF Queued
<1> QED BY <1>3, <1>4 DEF UnderWay

(* What the leader is done with it answers, and its answer is queued.       *)
LEMMA AnswersFollow ==
  ASSUME BaseInv, OnePlace,
         \/ Rem(Leader)' = Rem(Leader) /\ InReply' = InReply /\ UNCHANGED results
         \/ Finishes /\ InReply = {}
         \/ Answering
  PROVE  UnderWay \subseteq UnderWay'
<1>1. CASE Rem(Leader)' = Rem(Leader) /\ InReply' = InReply /\ UNCHANGED results
  <2>1. Queued' = Queued /\ Answers' = Answers
    BY <1>1 DEF Queued, Answers
  <2> QED BY <1>1, <2>1 DEF UnderWay
<1>2. CASE Finishes /\ InReply = {}
  <2>1. /\ Rem(Leader) \in Seq(Messages) /\ Rem(Leader) # << >>
        /\ Rem(Leader)' = Tail(Rem(Leader)) /\ InReply' = {Head(Rem(Leader))}
        /\ Answers' = Answers
    BY <1>2, RemType, LeaderAssumption DEF Finishes, Answers
  <2>2. ASSUME NEW c \in Queued PROVE c \in Queued' \/ c = Head(Rem(Leader))
    <3>1. PICK i \in 1..Len(Rem(Leader)) : Rem(Leader)[i] = c
      BY <2>2 DEF Queued, In
    <3>2. /\ Len(Rem(Leader)) \in Nat \ {0} /\ Head(Rem(Leader)) = Rem(Leader)[1]
          /\ Len(Tail(Rem(Leader))) = Len(Rem(Leader)) - 1
          /\ \A j \in 1..Len(Tail(Rem(Leader))) : Tail(Rem(Leader))[j] = Rem(Leader)[j + 1]
      BY <2>1, TailIn, HeadTailProperties
    <3>3. CASE i = 1
      BY <3>1, <3>2, <3>3
    <3>4. CASE i # 1
      <4>1. i - 1 \in 1..Len(Tail(Rem(Leader))) /\ i = (i - 1) + 1
        BY <3>1, <3>2, <3>4
      <4>2. Tail(Rem(Leader))[i - 1] = c
        BY <3>1, <3>2, <4>1
      <4>3. In(Rem(Leader)', c)
        BY <2>1, <4>1, <4>2 DEF In
      <4> QED BY <4>3, <2>2 DEF Queued
    <3> QED BY <3>3, <3>4
  <2> QED BY <1>2, <2>1, <2>2 DEF UnderWay
<1>3. CASE Answering
  <2>1. PICK r \in [call : Calls, ok : BOOLEAN] :
          InReply = {r.call} /\ results' = Append(results, r)
    BY <1>3 DEF Answering
  <2>2. /\ Len(results) \in Nat /\ Len(results') = Len(results) + 1
        /\ \A i \in 1..Len(results) : results'[i] = results[i]
        /\ results'[Len(results) + 1] = r
    BY <2>1, AppendIn DEF BaseInv, ExecutorTypeOK
  <2>3. Answers' = Answers \cup {r.call}
    BY <2>2 DEF Answers
  <2>4. Queued' = Queued
    BY <1>3 DEF Answering, Queued
  <2> QED BY <2>1, <2>3, <2>4 DEF UnderWay
<1> QED BY <1>1, <1>2, <1>3

(* Unless the leader is gone afterwards, a step of a worker loses no call.  *)
LEMMA LeaderKeepsCalls ==
  ASSUME BaseInv, NEW w \in Workers, Worker(w) \/ WorkerStops(w) \/ WorkerDies(w),
         worker'[Leader] \notin Over
  PROVE  \/ Rem(Leader)' = Rem(Leader) /\ InReply' = InReply /\ UNCHANGED results
         \/ Finishes /\ InReply = {}
         \/ Answering
<1>1. /\ worker \in [Workers -> Points] /\ job \in [Workers -> Calls \cup {None}]
      /\ inbox \in [Workers -> Seq(Messages)]
  BY DEF BaseInv, ExecutorTypeOK, Points, Messages
<1>2. CASE WorkerReplies(w)
  <2>1. InReply' # {} => FALSE
    <3>1. w = Leader /\ worker'[w] = "idle"
      BY <1>1, <1>2 DEF WorkerReplies, Goto, BaseInv, JobInv
    <3> QED BY <3>1 DEF InReply
  <2>2. w = Leader /\ worker[w] = "replying" /\ results' # results
    <3>1. w = Leader /\ worker[w] = "replying" /\ results \in Seq([call : Calls, ok : BOOLEAN])
      BY <1>2 DEF WorkerReplies, BaseInv, JobInv, ExecutorTypeOK
    <3>2. job[w] \in Calls /\ AnswerOk(w, job[w]) \in BOOLEAN
      <4>1. job[w] \in Calls
        BY <3>1 DEF BaseInv, JobInv
      <4>2. CASE job[w] \in Gathered
        BY <4>1, <4>2 DEF AnswerOk
      <4>3. CASE job[w] \notin Gathered
        BY <4>1, <4>3 DEF AnswerOk
      <4> QED BY <4>1, <4>2, <4>3
    <3>3. [call |-> job[w], ok |-> AnswerOk(w, job[w])] \in [call : Calls, ok : BOOLEAN]
      BY <3>2
    <3>4. Len(results') = Len(results) + 1 /\ Len(results) \in Nat
      BY <1>2, <3>1, <3>3, AppendIn DEF WorkerReplies
    <3> QED BY <3>1, <3>4
  <2>3. InReply # {}
    BY <2>2 DEF InReply
  <2> QED BY <1>2, <2>1, <2>2, <2>3, LeaderSteps DEF Finishes
<1>3. CASE ~WorkerReplies(w) /\ w # Leader
  <2>1. worker'[Leader] = worker[Leader] /\ job'[Leader] = job[Leader] /\ UNCHANGED results
        /\ inbox'[Leader] = inbox[Leader]
    BY <1>1, <1>3, LeaderAssumption
    DEF Worker, WorkerReads, WorkerRuns, GatherFails, WorkerReplies, WorkerDies, WorkerStops,
        Goto, Leave
  <2> QED BY <2>1 DEF Rem, InReply
<1>4. CASE ~WorkerReplies(w) /\ w = Leader
  <2>1. /\ UNCHANGED results /\ worker[w] \in {"idle", "running", "gathering"}
        /\ ~WorkerDies(w) /\ ~WorkerStops(w)
    BY <1>1, <1>4
    DEF Worker, WorkerReads, WorkerRuns, GatherFails, WorkerReplies, WorkerDies, WorkerStops,
        Goto, Over
  <2>2. InReply = {}
    BY <1>4, <2>1 DEF InReply
  <2>3. CASE WorkerReads(w)
    <3>1. worker[w] = "idle" /\ inbox[w] # << >> /\ inbox'[w] = Tail(inbox[w])
      BY <1>1, <2>3 DEF WorkerReads
    <3>2. worker'[w] = "running" /\ job'[w] = Head(inbox[w])
      BY <1>1, <1>4, <2>3 DEF WorkerReads, Executes, Goto, Over
    <3>3. <<Head(inbox[w])>> \o Tail(inbox[w]) = inbox[w]
      BY <1>1, <3>1, HeadIsIn
    <3>4. Rem(w)' = Rem(w)
      BY <3>1, <3>2, <3>3 DEF Rem
    <3> QED BY <1>4, <2>1, <2>2, <3>2, <3>4 DEF InReply
  <2>4. CASE worker'[w] = "gathering" /\ WorkerRuns(w)
    <3>1. job'[w] = job[w] /\ UNCHANGED inbox /\ worker[w] = "running"
      BY <1>1, <1>4, <2>4 DEF WorkerRuns, Goto, Leave, HasResultQueue
    <3>2. Rem(w)' = Rem(w)
      BY <2>4, <3>1 DEF Rem
    <3> QED BY <1>4, <2>1, <2>2, <2>4, <3>2 DEF InReply
  <2>5. CASE worker'[w] = "replying" /\ (WorkerRuns(w) \/ GatherFails(w))
    <3>1. /\ job'[w] = job[w] /\ UNCHANGED inbox /\ worker[w] \in {"running", "gathering"}
      BY <1>1, <1>4, <2>5 DEF WorkerRuns, GatherFails, Goto, Leave, HasResultQueue
    <3>2. Rem(w) # << >> /\ Head(Rem(w)) = job[w] /\ Tail(Rem(w)) = inbox[w]
      BY <3>1, RemType
    <3>3. Rem(w)' = Tail(Rem(w)) /\ InReply' = {Head(Rem(w))}
      BY <1>4, <2>5, <3>1, <3>2 DEF Rem, InReply
    <3> QED BY <1>4, <2>1, <2>2, <3>2, <3>3 DEF Finishes
  <2>6. WorkerRuns(w) \/ GatherFails(w) => worker'[w] \in {"gathering", "replying"}
    BY <1>1, <1>4 DEF WorkerRuns, GatherFails, Goto, Leave, HasResultQueue
  <2>7. GatherFails(w) => worker'[w] = "replying"
    BY <1>1, <1>4 DEF GatherFails, Goto, Leave, HasResultQueue
  <2> QED BY <1>4, <2>1, <2>3, <2>4, <2>5, <2>6, <2>7 DEF Worker
<1> QED BY <1>2, <1>3, <1>4

(* A process that is gone stays gone, and one that is not keeps the call.   *)
LEMMA AwaitedWorkers ==
  ASSUME BaseInv, OwnInv, Awaited, UNCHANGED call,
         \/ \E w \in Workers : Worker(w) \/ WorkerStops(w) \/ WorkerDies(w)
         \/ WorkersGather
  PROVE  Awaited'
<1>1. worker[Leader] \in Over => worker'[Leader] \in Over
  <2>1. worker \in [Workers -> Points]
    BY DEF BaseInv, ExecutorTypeOK, Points
  <2> QED
    BY <2>1, LeaderAssumption
    DEF Worker, WorkerReads, WorkerRuns, GatherFails, WorkerReplies, WorkerDies, WorkerStops,
        WorkersGather, Goto, Leave, Over
<1>2. worker'[Leader] \in Over \/ UnderWay \subseteq UnderWay'
  <2>1. CASE WorkersGather
    <3>1. InReply = {}
      BY <2>1, LeaderAssumption DEF WorkersGather, InReply
    <3> QED BY <2>1, <3>1, LeaderGathers, AnswersFollow DEF OwnInv
  <2>2. ASSUME NEW w \in Workers, Worker(w) \/ WorkerStops(w) \/ WorkerDies(w),
               worker'[Leader] \notin Over
        PROVE  UnderWay \subseteq UnderWay'
    BY <2>2, LeaderKeepsCalls, AnswersFollow DEF OwnInv
  <2> QED BY <2>1, <2>2
<1> QED BY <1>1, <1>2 DEF Awaited

(* Every step keeps the two.                                                *)
LEMMA ProgressNext ==
  ASSUME BaseInv, LifeInv, OwnInv, OwnInv', ProgressInv, [Next]_vars
  PROVE  ProgressInv'
<1>1. CASE UNCHANGED vars
  <2>1. UnderWay' = UnderWay /\ UNCHANGED <<call, worker>>
    BY <1>1, PlacesUntouched DEF vars, workerVars, callVars, OwnInv
  <2> QED BY <1>1, <2>1, FollowKept DEF vars, lifeVars, ProgressInv, Awaited
<1>2. ASSUME NEW w \in Workers, Worker(w) \/ WorkerStops(w) \/ WorkerDies(w) PROVE ProgressInv'
  <2>1. UNCHANGED <<callVars, lifeVars>>
    BY <1>2
    DEF Worker, WorkerReads, WorkerRuns, GatherFails, WorkerReplies, WorkerDies, WorkerStops
  <2> QED BY <1>2, <2>1, AwaitedWorkers, FollowKept DEF ProgressInv, callVars, lifeVars
<1>3. CASE WorkersGather
  <2>1. UNCHANGED <<callVars, lifeVars>>
    BY <1>3 DEF WorkersGather
  <2> QED BY <1>3, <2>1, AwaitedWorkers, FollowKept DEF ProgressInv, callVars, lifeVars
<1>4. CASE \/ Monitor \/ CloserComes \/ Shutdown("closer")
           \/ HealthCheckBegins \/ HealthCheckLooks
         \/ \E w \in Workers : Terminate(w)
  <2>1. /\ UNCHANGED <<worker, job, results, call>> /\ (UNCHANGED inbox \/ Broadcast(Stop))
    BY <1>4
    DEF Monitor, Shutdown, MonitorWakes, MonitorMarks, MonitorNotifies, ShutdownBegins,
        ShutdownEnds, Terminate, CloserComes, HealthCheckBegins, HealthCheckLooks, workerVars,
        callVars
  <2>2. UnderWay \subseteq UnderWay'
    BY <2>1, PlacesUntouched, BroadcastAdds DEF OwnInv, Messages
  <2>3. Awaited'
    BY <2>1, <2>2 DEF ProgressInv, Awaited
  <2> QED BY <1>4, <2>3, FollowThreads DEF ProgressInv
<1>5. CASE Caller
  <2>1. PICK c \in Calls :
          CallBegins(c) \/ CallIsSent(c) \/ CallIsAnswered(c) \/ CallPolls(c) \/ CallTimesOut(c)
    BY <1>5 DEF Caller
  <2>2. UNCHANGED <<closed, open, finalized, thread, worker, job>>
    BY <2>1
    DEF CallBegins, CallIsSent, CallIsAnswered, CallPolls, CallTimesOut, lifeVars, workerVars
  <2>3. ASSUME NEW d \in Calls, call'[d] = "waiting"
        PROVE  d = c /\ CallIsSent(c) /\ open
    <3>1. call \in [Calls -> CallStates] /\ caller' = d
      BY <2>3 DEF BaseInv, ExecutorTypeOK, OwnInv, CallerInv
    <3>2. caller' # None
      BY <3>1, MarkersAssumption
    <3> QED BY <2>1, <2>3, <3>1, <3>2
            DEF CallBegins, CallIsSent, CallIsAnswered, CallPolls, CallTimesOut, EndCall,
                OwnInv, CallerInv
  <2>4. ASSUME CallIsSent(c), open PROVE c \in UnderWay'
    <3>1. UnderWay \cup ({c} \cap Calls) \subseteq UnderWay'
      BY <2>2, <2>4, BroadcastAdds DEF CallIsSent, Messages
    <3> QED BY <3>1
  <2> QED BY <2>2, <2>3, <2>4, FollowKept DEF ProgressInv, Awaited
<1> QED BY <1>1, <1>2, <1>3, <1>4, <1>5 DEF Next

(* A gather all of whose ranks are there is not waited for in vain: a rank  *)
(* that has not come has still to read, or to run, what it is about.        *)
LEMMA GatherComes ==
  ASSUME BaseInv, GatherInv, worker[Leader] = "gathering", signalled = {}
  PROVE  \E w \in Workers : Proceeds(w)
<1> SUFFICES ASSUME \A w \in Workers : ~Proceeds(w) PROVE FALSE
  OBVIOUS
<1>1. worker \in [Workers -> Points]
  BY DEF BaseInv, ExecutorTypeOK, Points
<1>2. \A v \in Workers : worker[v] \notin Over
  BY LeaderAssumption DEF Proceeds
<1>3. PICK v \in Workers : worker[v] # "gathering"
  BY LeaderAssumption DEF Proceeds
<1>4. worker[v] = "idle" /\ inbox[v] = << >>
  BY <1>1, <1>2, <1>3 DEF Proceeds, Points
<1>5. job[Leader] \in Gathered /\ In(Rem(Leader), job[Leader])
  <2>1. Rem(Leader) \in Seq(Messages) /\ Rem(Leader) # << >> /\ Head(Rem(Leader)) = job[Leader]
    BY RemType, LeaderAssumption
  <2> QED BY <2>1, HeadIsIn, LeaderAssumption DEF BaseInv, JobInv
<1>6. In(Rem(v), job[Leader])
  BY <1>2, <1>5, LeaderAssumption DEF GatherInv, AllAwaited
<1>7. Rem(v) = << >> /\ Len(Rem(v)) = 0
  BY <1>4, EmptySeq DEF Rem
<1> QED BY <1>6, <1>7 DEF In

-----------------------------------------------------------------------------
(* The theorems.                                                            *)
ExecutorInv == BaseInv /\ LifeInv /\ GatherInv /\ OwnInv

(* The four parts together are inductive.                                   *)
THEOREM ExecutorInvAlways == Spec => []ExecutorInv
<1>1. Init => ExecutorInv
  BY BaseInit, LifeInit, GatherInit, OwnInit DEF ExecutorInv
<1>2. ExecutorInv /\ [Next]_vars => ExecutorInv'
  BY BaseNext, LifeNext, GatherNext, OwnNext DEF ExecutorInv
<1> QED BY <1>1, <1>2, PTL DEF Spec

(* Every variable of the executor has its type.                             *)
THEOREM ExecutorTypeCorrect == Spec => []ExecutorTypeOK
<1>1. ExecutorInv => ExecutorTypeOK
  BY DEF ExecutorInv, BaseInv
<1> QED BY <1>1, ExecutorInvAlways, PTL

(* When the finalizer is over, no worker takes up a call, completes one or  *)
(* answers one again, whatever a caller that saw the queues open still      *)
(* sends, though the bounded joins do not see to it that no process is      *)
(* left.                                                                    *)
FinalizerOver == finalized /\ \A t \in Stoppers : thread[t] # "joining"

NothingRunsAfterShutdown ==
  [][FinalizerOver => /\ \A w \in Workers : job'[w] \in {job[w], None}
                      /\ UNCHANGED went
                      /\ results' = results \/ results' = Tail(results)]_vars

THEOREM ShutdownIsFinal == Spec => NothingRunsAfterShutdown
<1> DEFINE Done == /\ \A w \in Workers : job'[w] \in {job[w], None}
                   /\ UNCHANGED went
                   /\ results' = results \/ results' = Tail(results)
<1>1. ASSUME ExecutorInv, Next, FinalizerOver PROVE Done
  <2>1. worker \in [Workers -> Points] /\ job \in [Workers -> Calls \cup {None}]
    BY <1>1 DEF ExecutorInv, BaseInv, ExecutorTypeOK, Points
  <2>2. \A w \in Workers : worker[w] \in Over \/ w \in signalled
    BY <1>1 DEF ExecutorInv, LifeInv, FinalizerOver, Passed
  <2>3. ASSUME NEW w \in Workers PROVE ~Worker(w)
    BY <2>2, <2>3 DEF Worker, WorkerReads, WorkerRuns, GatherFails, WorkerReplies, Over
  <2>4. ASSUME NEW w \in Workers, WorkerStops(w) \/ WorkerDies(w) PROVE Done
    BY <2>1, <2>4 DEF WorkerStops, WorkerDies, Goto
  <2>5. CASE WorkersGather
    BY <2>1, <2>5 DEF WorkersGather, HasResultQueue
  <2>6. CASE \/ Monitor \/ CloserComes \/ Shutdown("closer")
             \/ HealthCheckBegins \/ HealthCheckLooks
             \/ \E w \in Workers : Terminate(w)
    BY <2>6
    DEF Monitor, Shutdown, MonitorWakes, MonitorMarks, MonitorNotifies, ShutdownBegins,
        ShutdownEnds, Terminate, CloserComes, HealthCheckBegins, HealthCheckLooks, workerVars
  <2>7. CASE Caller
    BY <2>7
    DEF Caller, CallBegins, CallIsSent, CallIsAnswered, CallPolls, CallTimesOut, workerVars
  <2> QED BY <1>1, <2>3, <2>4, <2>5, <2>6, <2>7 DEF Next
<1>2. ExecutorInv /\ [Next]_vars => [FinalizerOver => Done]_vars
  BY <1>1
<1> QED BY <1>2, ExecutorInvAlways, PTL DEF Spec, NothingRunsAfterShutdown

(* The monitor declares the executor failed only when a worker died by      *)
(* itself, never because of the exits of a shutdown.                        *)
THEOREM ReportsAreOfDeaths == Spec => OnlyDeathsAreReported
<1>1. ExecutorInv /\ [Next]_vars =>
        [thread.monitor = "checking" /\ thread'.monitor = "stopping" =>
           \E w \in Workers : worker[w] = "dead"]_vars
  BY DEF ExecutorInv, LifeInv
<1> QED BY <1>1, ExecutorInvAlways, PTL DEF Spec, OnlyDeathsAreReported

(* A call that collects the statuses of all ranks is reported as a success  *)
(* only when it went well on every rank, whatever ranks die on the way.     *)
THEOREM SuccessAlwaysOfAllRanks == Spec => []SuccessMeansAllRanks
<1>1. ExecutorInv => SuccessMeansAllRanks
  BY CallsAssumption
  DEF ExecutorInv, GatherInv, RepliesAreSound, SoundReplies, DoneCalls, SuccessMeansAllRanks
<1> QED BY <1>1, ExecutorInvAlways, PTL

(* As long as no call has been abandoned, each call is answered with its    *)
(* own answer, though a message does not say which call it answers.         *)
THEOREM AnswersAlwaysOwn == Spec => []AnswersAreOwn
<1>1. ExecutorInv => AnswersAreOwn
  BY DEF ExecutorInv, OwnInv
<1> QED BY <1>1, ExecutorInvAlways, PTL

(* While a call waits there is an answer, or somebody goes on: the ranks in *)
(* the gather, the monitor and two shutdowns never wait for one another.    *)
THEOREM CallsAlwaysProceed == Spec => []CallsNeverDeadlock
<1>1. Init => ProgressInv
  BY DEF Init, ProgressInv, Awaited, ThreadsFollow
<1>2. ExecutorInv /\ ExecutorInv' /\ ProgressInv /\ [Next]_vars => ProgressInv'
  BY ProgressNext DEF ExecutorInv
<1>3. ExecutorInv /\ ProgressInv => CallsNeverDeadlock
  <2> SUFFICES ASSUME ExecutorInv, ProgressInv, NEW c \in Calls, call[c] = "waiting",
                      results = << >>, ~Outage, \A w \in Workers : ~Proceeds(w),
                      \A t \in {"monitor", "closer"} : thread[t] \notin {"stopping", "joining"},
                      thread.monitor # "checking"
               PROVE  thread.monitor = "watching" /\ \E w \in Workers : worker[w] \in Over
    BY DEF CallsNeverDeadlock
  <2>1. ~finalized /\ ~closed /\ open /\ signalled = {}
    <3>1. open /\ ~finalized
      BY DEF Outage, ProgressInv, ThreadsFollow, Stoppers
    <3> QED BY <3>1 DEF ExecutorInv, LifeInv
  <2>2. worker[Leader] \in Over
    <3> SUFFICES ASSUME worker[Leader] \notin Over PROVE FALSE
      OBVIOUS
    <3>1. c \in Queued \/ c \in InReply
      <4>1. Len(results) = 0
        BY EmptySeq
      <4> QED BY <4>1 DEF ProgressInv, Awaited, UnderWay, Answers
    <3>2. worker[Leader] # "replying" /\ worker[Leader] # "running"
      BY <2>1, LeaderAssumption DEF Proceeds
    <3>3. worker[Leader] # "gathering"
      BY <2>1, GatherComes DEF ExecutorInv
    <3>4. worker[Leader] = "idle" /\ inbox[Leader] = << >>
      BY <2>1, <3>2, <3>3, LeaderAssumption DEF Proceeds, ExecutorInv, BaseInv, ExecutorTypeOK
    <3>5. In(Rem(Leader), c)
      BY <3>1, <3>2 DEF Queued, InReply
    <3>6. Rem(Leader) = << >> /\ Len(Rem(Leader)) = 0
      BY <3>4, EmptySeq DEF Rem
    <3> QED BY <3>5, <3>6 DEF In
  <2>3. thread.monitor = "watching"
    <3>1. thread.monitor \in {"watching", "returned", "checking", "stopping", "joining",
                              "stopped", "notified"}
      BY DEF ExecutorInv, BaseInv, ExecutorTypeOK
    <3> QED BY <2>1, <3>1 DEF ProgressInv, ThreadsFollow
  <2> QED BY <2>2, <2>3, LeaderAssumption
<1> QED BY <1>1, <1>2, <1>3, ExecutorInvAlways, PTL DEF Spec

=============================================================================
