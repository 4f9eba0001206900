---------------------- MODULE DiffusionScheduler_proofs ----------------------
(***************************************************************************)
(* Theorems about DiffusionScheduler, for every set of requests and keys,   *)
(* every batch size and every number of steps.                              *)
(***************************************************************************)
EXTENDS DiffusionScheduler, FiniteSetTheorems, SequenceTheorems, WellFoundedInduction, TLAPS

-----------------------------------------------------------------------------
(* Lemmas about the deque.                                                  *)
Elements(q) == {q[i] : i \in 1..Len(q)}
Distinct(q) == \A i, j \in 1..Len(q) : q[i] = q[j] => i = j

(* Appending a new id, as add_request does.                                 *)
LEMMA AppendElements ==
  ASSUME NEW S, NEW q \in Seq(S), NEW r \in S, r \notin Elements(q), Distinct(q)
  PROVE  /\ Append(q, r) \in Seq(S)
         /\ Elements(Append(q, r)) = Elements(q) \cup {r}
         /\ Distinct(Append(q, r))
  BY AppendProperties, LenProperties DEF Elements, Distinct

(* Putting an id at the head, as preempt_request does.                      *)
LEMMA PrependElements ==
  ASSUME NEW S, NEW q \in Seq(S), NEW r \in S, r \notin Elements(q), Distinct(q)
  PROVE  /\ <<r>> \o q \in Seq(S)
         /\ Elements(<<r>> \o q) = Elements(q) \cup {r}
         /\ Distinct(<<r>> \o q)
<1> DEFINE p == <<r>> \o q
<1>1. <<r>> \in Seq(S) /\ Len(<<r>>) = 1 /\ <<r>>[1] = r
  OBVIOUS
<1>2. p \in Seq(S) /\ Len(p) = Len(q) + 1 /\ Len(q) \in Nat
  BY <1>1, ConcatProperties, LenProperties
<1>3. \A i \in 1..Len(p) : p[i] = IF i = 1 THEN r ELSE q[i - 1]
  BY <1>1, <1>2, ConcatProperties
<1>4. Elements(p) \subseteq Elements(q) \cup {r}
  BY <1>2, <1>3 DEF Elements
<1>5. Elements(q) \cup {r} \subseteq Elements(p)
  <2>1. r = p[1] /\ 1 \in 1..Len(p)
    BY <1>2, <1>3
  <2>2. \A i \in 1..Len(q) : q[i] = p[i + 1] /\ i + 1 \in 1..Len(p)
    BY <1>2, <1>3
  <2> QED BY <2>1, <2>2 DEF Elements
<1>6. Distinct(p)
  BY <1>2, <1>3 DEF Elements, Distinct
<1> QED BY <1>2, <1>4, <1>5, <1>6

(* What remains of the deque once its first n ids have been admitted.       *)
LEMMA SuffixElements ==
  ASSUME NEW S, NEW q \in Seq(S), Distinct(q), NEW n \in 0..Len(q)
  PROVE  /\ SubSeq(q, n + 1, Len(q)) \in Seq(S)
         /\ Elements(SubSeq(q, n + 1, Len(q))) = Elements(q) \ {q[i] : i \in 1..n}
         /\ Distinct(SubSeq(q, n + 1, Len(q)))
<1> DEFINE p == SubSeq(q, n + 1, Len(q))
<1>1. Len(q) \in Nat /\ \A i \in 1..Len(q) : q[i] \in S
  BY LenProperties, ElementOfSeq
<1>2. /\ p \in Seq(S)
      /\ Len(p) = Len(q) - n
      /\ \A i \in 1..(Len(q) - n) : p[i] = q[n + i]
  <2>1. \A i \in (n + 1)..Len(q) : q[i] \in S
    BY <1>1
  <2>2. /\ p \in Seq(S)
        /\ Len(p) = IF n + 1 <= Len(q) THEN Len(q) - (n + 1) + 1 ELSE 0
        /\ \A i \in 1..(Len(q) - (n + 1) + 1) : p[i] = q[n + 1 + i - 1]
    BY <1>1, <2>1, SubSeqProperties
  <2> QED BY <1>1, <2>2
<1>3. Elements(p) \subseteq Elements(q) \ {q[i] : i \in 1..n}
  BY <1>1, <1>2 DEF Elements, Distinct
<1>4. Elements(q) \ {q[i] : i \in 1..n} \subseteq Elements(p)
  <2> SUFFICES ASSUME NEW k \in 1..Len(q), k \notin 1..n
               PROVE  q[k] \in Elements(p)
    BY DEF Elements
  <2>1. k - n \in 1..Len(p) /\ p[k - n] = q[k]
    BY <1>1, <1>2
  <2> QED BY <2>1 DEF Elements
<1>5. Distinct(p)
  BY <1>1, <1>2 DEF Distinct
<1> QED BY <1>2, <1>3, <1>4, <1>5

(* Removing an id, as _finish_requests does.                                *)
LEMMA WithoutElements ==
  ASSUME NEW S, NEW q \in Seq(S), Distinct(q), NEW r
  PROVE  /\ Without(q, r) \in Seq(S)
         /\ Elements(Without(q, r)) = Elements(q) \ {r}
         /\ Distinct(Without(q, r))
<1>1. Len(q) \in Nat /\ \A i \in 1..Len(q) : q[i] \in S
  BY LenProperties, ElementOfSeq
<1>2. CASE ~ \E i \in 1..Len(q) : q[i] = r
  BY <1>2 DEF Without, Elements
<1>3. CASE \E i \in 1..Len(q) : q[i] = r
  <2> DEFINE p == CHOOSE i \in 1..Len(q) : q[i] = r
             w == [i \in 1..(Len(q) - 1) |-> IF i < p THEN q[i] ELSE q[i + 1]]
  <2>1. p \in 1..Len(q) /\ q[p] = r
    BY <1>3
  <2>2. Without(q, r) = w
    BY <1>3 DEF Without
  <2> HIDE DEF p
  <2>3. w \in [1..(Len(q) - 1) -> S] /\ Len(q) - 1 \in Nat
    BY <1>1, <2>1
  <2>4. w \in Seq(S) /\ Len(w) = Len(q) - 1
    <3>1. w \in Seq(S)
      BY <2>3, SeqDef
    <3> QED BY <2>3, <3>1, LenProperties
  <2>5. \A i \in 1..(Len(q) - 1) : w[i] = IF i < p THEN q[i] ELSE q[i + 1]
    OBVIOUS
  <2> HIDE DEF w
  <2>6. Elements(w) \subseteq Elements(q) \ {r}
    BY <1>1, <2>1, <2>4, <2>5 DEF Elements, Distinct
  <2>7. Elements(q) \ {r} \subseteq Elements(w)
    <3> SUFFICES ASSUME NEW k \in 1..Len(q), q[k] # r
                 PROVE  q[k] \in Elements(w)
      BY DEF Elements
    <3>1. CASE k < p
      BY <1>1, <2>1, <2>4, <2>5, <3>1 DEF Elements
    <3>2. CASE k > p
      <4>1. k - 1 \in 1..Len(w) /\ w[k - 1] = q[k]
        BY <1>1, <2>1, <2>4, <2>5, <3>2
      <4> QED BY <4>1 DEF Elements
    <3> QED BY <1>1, <2>1, <3>1, <3>2
  <2>8. Distinct(w)
    <3> DEFINE o(i) == IF i < p THEN i ELSE i + 1
    <3> SUFFICES ASSUME NEW i \in 1..(Len(q) - 1), NEW j \in 1..(Len(q) - 1), w[i] = w[j]
                 PROVE  i = j
      BY <2>4 DEF Distinct
    <3>1. w[i] = q[o(i)] /\ o(i) \in 1..Len(q)
      BY <1>1, <2>1, <2>5
    <3>2. w[j] = q[o(j)] /\ o(j) \in 1..Len(q)
      BY <1>1, <2>1, <2>5
    <3>3. o(i) = o(j)
      BY <3>1, <3>2 DEF Distinct
    <3> QED BY <1>1, <2>1, <3>3
  <2> QED BY <2>2, <2>4, <2>6, <2>7, <2>8
<1> QED BY <1>2, <1>3

-----------------------------------------------------------------------------
(* The admission loop stops: there is a largest admissible number.          *)
LEMMA NumAdmittedExists ==
  ASSUME Len(waiting) \in Nat
  PROVE  /\ NumAdmitted \in 0..Len(waiting)
         /\ Admissible(NumAdmitted)
         /\ \A m \in 0..Len(waiting) : Admissible(m) => m <= NumAdmitted
<1> DEFINE L == Len(waiting)
           T == {d \in 0..L : Admissible(L - d)}
           R == OpToRel(<, Nat)
<1>1. L \in T
  <2>1. Admissible(0)
    BY DEF Admissible
  <2> QED BY <2>1
<1>2. PICK d \in T : \A y \in T : ~ (<<y, d>> \in R)
  <2>1. T \subseteq Nat /\ T # {}
    BY <1>1
  <2> QED BY <2>1, NatLessThanWellFounded, WFMin
<1>3. \A y \in T : ~ (y < d)
  <2>1. \A y \in T : <<y, d>> \in Nat \X Nat
    OBVIOUS
  <2> QED BY <1>2, <2>1 DEF OpToRel
<1>4. \A m \in 0..L : Admissible(m) => m <= L - d
  <2> SUFFICES ASSUME NEW m \in 0..L, Admissible(m)
               PROVE  m <= L - d
    OBVIOUS
  <2>1. L - (L - m) = m /\ L - m \in 0..L
    OBVIOUS
  <2>2. L - m \in T
    BY <2>1
  <2>3. ~ (L - m < d)
    BY <1>3, <2>2
  <2>4. d \in 0..L
    OBVIOUS
  <2> HIDE DEF T, R
  <2> QED BY <2>3, <2>4
<1>5. L - d \in 0..L /\ Admissible(L - d)
  OBVIOUS
<1>6. \E n \in 0..L : Admissible(n) /\ \A m \in 0..L : Admissible(m) => m <= n
  BY <1>4, <1>5
<1> QED BY <1>6 DEF NumAdmitted

-----------------------------------------------------------------------------
(* The inductive invariant.  QueuesMatchStatus alone is not inductive: an   *)
(* output can only be applied safely if every scheduled request is still    *)
(* known and has not gone back to the deque, and the ids reported as ended  *)
(* must not belong to requests that run or will run without payload.        *)
ScheduledAreRunning ==
  \A r \in Scheduled : r \in Known /\ StatusOf(r) \in {"RUNNING"} \cup FinishedStatus

StartedNotEnded ==
  \A r \in Known : StatusOf(r) \in {"RUNNING", "PREEMPTED"} => r \notin finishedReqIds

SchedulerInv ==
  /\ SchedulerTypeOK
  /\ QueuesMatchStatus
  /\ IsFiniteSet(running) /\ BatchIsLegal
  /\ ProgressCoversStates
  /\ ScheduledAreRunning
  /\ StartedNotEnded
  /\ CachedNotFinished

(* The queue facts in the vocabulary of the lemmas.                         *)
LEMMA QueueFacts ==
  ASSUME SchedulerTypeOK, QueuesMatchStatus
  PROVE  /\ waiting \in Seq(Requests) /\ Distinct(waiting) /\ Queued = Elements(waiting)
         /\ \A r \in Known : /\ r \in running <=> StatusOf(r) = "RUNNING"
                             /\ r \in Queued <=> StatusOf(r) \in {"WAITING", "PREEMPTED"}
         /\ running \subseteq Known /\ Queued \subseteq Known
  BY DEF SchedulerTypeOK, QueuesMatchStatus, Queued, Elements, Distinct

(* What leaving the batch does to it, in update_from_output,                *)
(* finish_requests and preempt_request.                                     *)
LEMMA LeaveBatch ==
  ASSUME NEW S, IsFiniteSet(running), BatchIsLegal,
         running' = running \ S, runningKey' = KeyAfter(S),
         \A r \in running \ S : requestStates'[r].key = requestStates[r].key
  PROVE  IsFiniteSet(running)' /\ BatchIsLegal'
<1>1. IsFiniteSet(running') /\ Cardinality(running') <= Cardinality(running)
  BY FS_Subset
<1>2. Cardinality(running) \in Nat /\ Cardinality(running') \in Nat
  BY <1>1, FS_CardinalityType
<1>3. Cardinality(running') <= MaxRunning
  BY <1>1, <1>2, MaxRunningAssumption DEF BatchIsLegal
<1>4. \A r \in running' : requestStates'[r].key = runningKey'
  BY DEF BatchIsLegal, KeyAfter
<1>5. running' = {} => runningKey' = NoKey
  BY DEF BatchIsLegal, KeyAfter
<1>6. runningKey' = NoKey => \A q, r \in running' : q = r
  BY DEF BatchIsLegal, KeyAfter
<1> QED BY <1>1, <1>3, <1>4, <1>5, <1>6 DEF BatchIsLegal

LEMMA InvInit == SchedulerInit => SchedulerInv
<1> SUFFICES ASSUME SchedulerInit PROVE SchedulerInv
  OBVIOUS
<1> USE DEF SchedulerInit, Known
<1>1. DOMAIN requestStates = {} /\ DOMAIN progress = {} /\ Len(waiting) = 0
  OBVIOUS
<1>2. SchedulerTypeOK
  BY <1>1 DEF SchedulerTypeOK, NoOutput
<1>3. QueuesMatchStatus
  BY <1>1 DEF QueuesMatchStatus, Queued
<1>4. IsFiniteSet(running) /\ BatchIsLegal
  BY FS_EmptySet, MaxRunningAssumption DEF BatchIsLegal
<1>5. ProgressCoversStates /\ ScheduledAreRunning /\ StartedNotEnded /\ CachedNotFinished
  BY <1>1 DEF ProgressCoversStates, ScheduledAreRunning, StartedNotEnded, CachedNotFinished,
              Scheduled, NoOutput
<1> QED BY <1>2, <1>3, <1>4, <1>5 DEF SchedulerInv

LEMMA InvAdd ==
  ASSUME SchedulerInv, NEW r \in Requests, NEW k \in Keys \cup {NoKey},
         NEW step \in 0..(TotalSteps - 1), AddRequest(r, k, step)
  PROVE  SchedulerInv'
<1> USE DEF SchedulerInv
<1>1. r \notin Known
  BY DEF AddRequest
<1>2. /\ Known' = Known \cup {r}
      /\ requestStates'[r] = [key |-> k, status |-> "WAITING"]
      /\ \A q \in Known : requestStates'[q] = requestStates[q]
  BY <1>1 DEF AddRequest, Known
<1>3. /\ waiting' \in Seq(Requests)
      /\ Elements(waiting') = Elements(waiting) \cup {r}
      /\ Distinct(waiting')
  BY <1>1, QueueFacts, AppendElements DEF AddRequest
<1>4. SchedulerTypeOK'
  <2>1. requestStates' \in [Known' -> [key : Keys \cup {NoKey}, status : Status]]
    BY <1>1, <1>2 DEF SchedulerTypeOK, AddRequest, Status, Known
  <2>2. /\ DOMAIN progress' \subseteq Requests
        /\ progress' \in [DOMAIN progress' -> 0..TotalSteps]
    BY TotalStepsAssumption DEF SchedulerTypeOK, AddRequest
  <2> QED BY <1>2, <1>3, <2>1, <2>2 DEF SchedulerTypeOK, AddRequest
<1>5. QueuesMatchStatus'
  <2>1. Queued' = Queued \cup {r}
    BY <1>3, QueueFacts DEF Queued, Elements
  <2>2. \A q \in Known' : StatusOf(q)' = IF q = r THEN "WAITING" ELSE StatusOf(q)
    BY <1>1, <1>2 DEF StatusOf
  <2>3. running' = {q \in Known' : StatusOf(q)' = "RUNNING"}
    BY <1>1, <1>2, <2>2 DEF QueuesMatchStatus, AddRequest
  <2>4. Queued' = {q \in Known' : StatusOf(q)' \in {"WAITING", "PREEMPTED"}}
    BY <1>1, <1>2, <2>1, <2>2 DEF QueuesMatchStatus
  <2> QED BY <1>3, <2>3, <2>4 DEF QueuesMatchStatus, Distinct
<1>6. (IsFiniteSet(running) /\ BatchIsLegal)'
  BY <1>2, QueueFacts DEF BatchIsLegal, AddRequest
<1>7. ProgressCoversStates'
  BY <1>2 DEF ProgressCoversStates, AddRequest
<1>8. ScheduledAreRunning'
  BY <1>2 DEF ScheduledAreRunning, Scheduled, AddRequest, StatusOf
<1>9. StartedNotEnded'
  BY <1>2 DEF StartedNotEnded, AddRequest, StatusOf
<1>10. CachedNotFinished'
  BY DEF CachedNotFinished, AddRequest
<1> QED BY <1>4, <1>5, <1>6, <1>7, <1>8, <1>9, <1>10

LEMMA InvFinish ==
  ASSUME SchedulerInv, NEW r \in Requests, NEW status \in FinishedStatus,
         FinishRequest(r, status)
  PROVE  SchedulerInv'
<1> USE DEF SchedulerInv
<1>1. r \in Known /\ ~IsFinished(r)
  BY DEF FinishRequest
<1>2. /\ Known' = Known
      /\ requestStates'[r].status = status
      /\ \A q \in Known : requestStates'[q].key = requestStates[q].key
      /\ \A q \in Known \ {r} : requestStates'[q] = requestStates[q]
  BY <1>1 DEF FinishRequest, Known, SchedulerTypeOK
<1>3. /\ waiting' \in Seq(Requests)
      /\ Elements(waiting') = Elements(waiting) \ {r}
      /\ Distinct(waiting')
  BY QueueFacts, WithoutElements DEF FinishRequest
<1>4. SchedulerTypeOK'
  <2>1. requestStates' \in [Known' -> [key : Keys \cup {NoKey}, status : Status]]
    BY <1>1, <1>2 DEF SchedulerTypeOK, FinishRequest, Status, Known
  <2>2. runningKey' \in Keys \cup {NoKey}
    BY DEF SchedulerTypeOK, FinishRequest, KeyAfter
  <2> QED BY <1>2, <1>3, <2>1, <2>2 DEF SchedulerTypeOK, FinishRequest
<1>5. QueuesMatchStatus'
  <2>1. Queued' = Queued \ {r}
    BY <1>3, QueueFacts DEF Queued, Elements
  <2>2. \A q \in Known' : StatusOf(q)' = IF q = r THEN status ELSE StatusOf(q)
    BY <1>1, <1>2 DEF StatusOf
  <2>3. running' = {q \in Known' : StatusOf(q)' = "RUNNING"}
    BY <1>1, <1>2, <2>2 DEF QueuesMatchStatus, FinishRequest, FinishedStatus
  <2>4. Queued' = {q \in Known' : StatusOf(q)' \in {"WAITING", "PREEMPTED"}}
    BY <1>1, <1>2, <2>1, <2>2 DEF QueuesMatchStatus, FinishedStatus
  <2> QED BY <1>3, <2>3, <2>4 DEF QueuesMatchStatus, Distinct
<1>6. (IsFiniteSet(running) /\ BatchIsLegal)'
  <2>1. \A q \in running \ {r} : requestStates'[q].key = requestStates[q].key
    BY <1>2, QueueFacts
  <2>2. running' = running \ {r} /\ runningKey' = KeyAfter({r})
    BY DEF FinishRequest
  <2> QED BY <2>1, <2>2, LeaveBatch
<1>7. ProgressCoversStates'
  BY <1>2 DEF ProgressCoversStates, FinishRequest
<1>8. ScheduledAreRunning'
  BY <1>1, <1>2 DEF ScheduledAreRunning, Scheduled, FinishRequest, StatusOf
<1>9. StartedNotEnded'
  BY <1>1, <1>2 DEF StartedNotEnded, FinishRequest, StatusOf, FinishedStatus
<1>10. CachedNotFinished'
  BY DEF CachedNotFinished, FinishRequest
<1> QED BY <1>4, <1>5, <1>6, <1>7, <1>8, <1>9, <1>10

LEMMA InvPreempt ==
  ASSUME SchedulerInv, NEW r \in Requests, Scheduled = {}, PreemptRequest(r)
  PROVE  SchedulerInv'
<1> USE DEF SchedulerInv
<1>1. r \in Known /\ StatusOf(r) = "RUNNING" /\ r \notin Queued
  BY QueueFacts DEF PreemptRequest
<1>2. /\ Known' = Known
      /\ requestStates'[r].status = "PREEMPTED"
      /\ \A q \in Known : requestStates'[q].key = requestStates[q].key
      /\ \A q \in Known \ {r} : requestStates'[q] = requestStates[q]
  BY <1>1 DEF PreemptRequest, Known, SchedulerTypeOK
<1>3. /\ waiting' \in Seq(Requests)
      /\ Elements(waiting') = Elements(waiting) \cup {r}
      /\ Distinct(waiting')
  BY <1>1, QueueFacts, PrependElements DEF PreemptRequest
<1>4. SchedulerTypeOK'
  <2>1. requestStates' \in [Known' -> [key : Keys \cup {NoKey}, status : Status]]
    BY <1>1, <1>2 DEF SchedulerTypeOK, PreemptRequest, Status, Known
  <2>2. runningKey' \in Keys \cup {NoKey}
    BY DEF SchedulerTypeOK, PreemptRequest, KeyAfter
  <2> QED BY <1>2, <1>3, <2>1, <2>2 DEF SchedulerTypeOK, PreemptRequest
<1>5. QueuesMatchStatus'
  <2>1. Queued' = Queued \cup {r}
    BY <1>3, QueueFacts DEF Queued, Elements
  <2>2. \A q \in Known' : StatusOf(q)' = IF q = r THEN "PREEMPTED" ELSE StatusOf(q)
    BY <1>1, <1>2 DEF StatusOf
  <2>3. running' = {q \in Known' : StatusOf(q)' = "RUNNING"}
    BY <1>1, <1>2, <2>2 DEF QueuesMatchStatus, PreemptRequest
  <2>4. Queued' = {q \in Known' : StatusOf(q)' \in {"WAITING", "PREEMPTED"}}
    BY <1>1, <1>2, <2>1, <2>2 DEF QueuesMatchStatus
  <2> QED BY <1>3, <2>3, <2>4 DEF QueuesMatchStatus, Distinct
<1>6. (IsFiniteSet(running) /\ BatchIsLegal)'
  <2>1. \A q \in running \ {r} : requestStates'[q].key = requestStates[q].key
    BY <1>2, QueueFacts
  <2>2. running' = running \ {r} /\ runningKey' = KeyAfter({r})
    BY DEF PreemptRequest
  <2> QED BY <2>1, <2>2, LeaveBatch
<1>7. ProgressCoversStates'
  BY <1>2 DEF ProgressCoversStates, PreemptRequest
<1>8. ScheduledAreRunning'
  BY DEF ScheduledAreRunning, Scheduled, PreemptRequest
<1>9. StartedNotEnded'
  BY <1>1, <1>2 DEF StartedNotEnded, PreemptRequest, StatusOf
<1>10. CachedNotFinished'
  BY DEF CachedNotFinished, PreemptRequest
<1> QED BY <1>4, <1>5, <1>6, <1>7, <1>8, <1>9, <1>10

LEMMA InvPop ==
  ASSUME SchedulerInv, NEW r \in Requests \ Scheduled, PopRequestState(r)
  PROVE  SchedulerInv'
<1> USE DEF SchedulerInv
<1>1. r \in Known /\ r \notin running /\ r \notin Queued
  BY QueueFacts DEF PopRequestState, IsFinished, FinishedStatus
<1>2. Known' = Known \ {r} /\ \A q \in Known' : requestStates'[q] = requestStates[q]
  BY <1>1 DEF PopRequestState, Known
<1>3. SchedulerTypeOK'
  <2>1. requestStates' \in [Known' -> [key : Keys \cup {NoKey}, status : Status]]
    BY <1>1, <1>2 DEF SchedulerTypeOK, PopRequestState, Known
  <2>2. /\ DOMAIN progress' \subseteq Requests
        /\ progress' \in [DOMAIN progress' -> 0..TotalSteps]
    BY DEF SchedulerTypeOK, PopRequestState
  <2> QED BY <1>2, <2>1, <2>2 DEF SchedulerTypeOK, PopRequestState
<1>4. QueuesMatchStatus'
  <2>1. \A q \in Known' : StatusOf(q)' = StatusOf(q)
    BY <1>2 DEF StatusOf
  <2>2. Queued' = Queued
    BY DEF Queued, PopRequestState
  <2>3. running' = {q \in Known' : StatusOf(q)' = "RUNNING"}
    BY <1>1, <1>2, <2>1 DEF QueuesMatchStatus, PopRequestState
  <2>4. Queued' = {q \in Known' : StatusOf(q)' \in {"WAITING", "PREEMPTED"}}
    BY <1>1, <1>2, <2>1, <2>2 DEF QueuesMatchStatus
  <2> QED BY <2>3, <2>4 DEF QueuesMatchStatus, PopRequestState
<1>5. (IsFiniteSet(running) /\ BatchIsLegal)'
  BY <1>1, <1>2, QueueFacts DEF BatchIsLegal, PopRequestState
<1>6. ProgressCoversStates'
  BY <1>2 DEF ProgressCoversStates, PopRequestState
<1>7. ScheduledAreRunning'
  BY <1>2 DEF ScheduledAreRunning, Scheduled, PopRequestState, StatusOf
<1>8. StartedNotEnded'
  BY <1>2 DEF StartedNotEnded, PopRequestState, StatusOf
<1>9. CachedNotFinished'
  BY DEF CachedNotFinished, PopRequestState
<1> QED BY <1>3, <1>4, <1>5, <1>6, <1>7, <1>8, <1>9

LEMMA InvClose == SchedulerClose => SchedulerInv'
<1> SUFFICES ASSUME SchedulerClose PROVE SchedulerInv'
  OBVIOUS
<1> USE DEF SchedulerClose, Known
<1>1. DOMAIN requestStates' = {} /\ DOMAIN progress' = {} /\ Len(waiting') = 0
  OBVIOUS
<1>2. SchedulerTypeOK'
  BY <1>1 DEF SchedulerTypeOK, NoOutput
<1>3. QueuesMatchStatus'
  BY <1>1 DEF QueuesMatchStatus, Queued
<1>4. (IsFiniteSet(running) /\ BatchIsLegal)'
  BY FS_EmptySet, MaxRunningAssumption DEF BatchIsLegal
<1>5. (ProgressCoversStates /\ ScheduledAreRunning /\ StartedNotEnded /\ CachedNotFinished)'
  BY <1>1 DEF ProgressCoversStates, ScheduledAreRunning, StartedNotEnded, CachedNotFinished,
              Scheduled, NoOutput
<1> QED BY <1>2, <1>3, <1>4, <1>5 DEF SchedulerInv

(* The requests an output ends were running: this is where the strengthened *)
(* invariant is needed.                                                     *)
LEMMA EndedWereRunning ==
  ASSUME SchedulerInv, NEW out
  PROVE  /\ Ended(out) \subseteq running
         /\ \A r \in Ended(out) : Verdict(out[r]) \in FinishedStatus
  BY QueueFacts DEF SchedulerInv, ScheduledAreRunning, Ended, Live, IsFinished

LEMMA InvUpdate ==
  ASSUME SchedulerInv, NEW out \in [Scheduled -> RunnerOutput], UpdateFromOutput(out)
  PROVE  SchedulerInv'
<1> USE DEF SchedulerInv
<1> DEFINE E == Ended(out)
<1>1. E \subseteq running /\ E \subseteq Known /\ \A r \in E : Verdict(out[r]) \in FinishedStatus
  BY EndedWereRunning, QueueFacts
<1>2. /\ Known' = Known
      /\ \A r \in Known : requestStates'[r].key = requestStates[r].key
      /\ \A r \in E : requestStates'[r].status = Verdict(out[r])
      /\ \A r \in Known \ E : requestStates'[r] = requestStates[r]
  BY <1>1 DEF UpdateFromOutput, Known, SchedulerTypeOK
<1>3. /\ running' = running \ E
      /\ runningKey' = KeyAfter(E)
      /\ finishedReqIds' = finishedReqIds \cup E
      /\ schedOutput' = NoOutput
      /\ waiting' = waiting
  BY DEF UpdateFromOutput
<1>4. /\ DOMAIN progress' = DOMAIN progress
      /\ \A r \in DOMAIN progress : progress'[r] \in 0..TotalSteps
      /\ progress' \in [DOMAIN progress' -> 0..TotalSteps]
  <2>1. \A r \in Live(Scheduled) : out[r].step \in 0..TotalSteps
    BY DEF Live, RunnerOutput
  <2> QED BY <2>1 DEF UpdateFromOutput, SchedulerTypeOK, NewStep
<1> HIDE DEF E
<1>5. SchedulerTypeOK'
  <2>1. requestStates' \in [Known' -> [key : Keys \cup {NoKey}, status : Status]]
    <3>1. requestStates' \in [Known -> [key : Keys \cup {NoKey}, status : Status]]
      BY <1>1 DEF UpdateFromOutput, SchedulerTypeOK, Status, Known, E
    <3> QED BY <1>2, <3>1
  <2>2. runningKey' \in Keys \cup {NoKey}
    BY <1>3 DEF SchedulerTypeOK, KeyAfter
  <2>3. schedOutput' \in
          [new : SUBSET Requests, cached : SUBSET Requests, finished : SUBSET Requests]
    BY <1>3 DEF NoOutput
  <2> QED BY <1>1, <1>2, <1>3, <1>4, <2>1, <2>2, <2>3 DEF SchedulerTypeOK
<1>6. QueuesMatchStatus'
  <2>1. Queued' = Queued
    BY <1>3 DEF Queued
  <2>2. \A r \in Known' : StatusOf(r)' = IF r \in E THEN Verdict(out[r]) ELSE StatusOf(r)
    BY <1>1, <1>2 DEF StatusOf
  <2>3. running' = {r \in Known' : StatusOf(r)' = "RUNNING"}
    BY <1>1, <1>2, <1>3, <2>2 DEF QueuesMatchStatus, FinishedStatus
  <2>4. Queued' = {r \in Known' : StatusOf(r)' \in {"WAITING", "PREEMPTED"}}
    BY <1>1, <1>2, <2>1, <2>2 DEF QueuesMatchStatus, FinishedStatus
  <2> QED BY <1>3, <2>3, <2>4 DEF QueuesMatchStatus
<1>7. (IsFiniteSet(running) /\ BatchIsLegal)'
  <2>1. \A r \in running \ E : requestStates'[r].key = requestStates[r].key
    BY <1>2, QueueFacts
  <2> QED BY <1>3, <2>1, LeaveBatch
<1>8. ProgressCoversStates'
  BY <1>2, <1>4 DEF ProgressCoversStates
<1>9. ScheduledAreRunning' /\ CachedNotFinished'
  BY <1>3 DEF ScheduledAreRunning, CachedNotFinished, Scheduled, NoOutput
<1>10. StartedNotEnded'
  BY <1>1, <1>2, <1>3 DEF StartedNotEnded, StatusOf, FinishedStatus
<1> QED BY <1>5, <1>6, <1>7, <1>8, <1>9, <1>10

-----------------------------------------------------------------------------
(* The requests the admission loop takes.                                   *)
Admitted == {waiting[i] : i \in 1..NumAdmitted}

LEMMA AdmittedFacts ==
  ASSUME SchedulerInv
  PROVE  /\ NumAdmitted \in 0..Len(waiting) /\ Len(waiting) \in Nat
         /\ Admitted \subseteq Queued /\ Admitted \subseteq Known
         /\ Admitted \cap running = {}
         /\ IsFiniteSet(Admitted) /\ Cardinality(Admitted) <= NumAdmitted
         /\ NumAdmitted = 0 <=> Admitted = {}
<1> USE DEF SchedulerInv
<1>1. NumAdmitted \in 0..Len(waiting) /\ Len(waiting) \in Nat
  BY QueueFacts, LenProperties, NumAdmittedExists
<1>2. Admitted \subseteq Queued
  BY <1>1 DEF Admitted, Queued
<1>3. Admitted \subseteq Known /\ Admitted \cap running = {}
  BY <1>2, QueueFacts
<1>4. IsFiniteSet(Admitted) /\ Cardinality(Admitted) <= NumAdmitted
  <2> DEFINE f == [i \in 1..NumAdmitted |-> waiting[i]]
  <2>1. f \in Surjection(1..NumAdmitted, Admitted)
    BY DEF Surjection, Admitted
  <2>2. IsFiniteSet(1..NumAdmitted) /\ Cardinality(1..NumAdmitted) = NumAdmitted
    BY <1>1, FS_Interval
  <2> QED BY <2>1, <2>2, FS_Surjection
<1>5. NumAdmitted = 0 <=> Admitted = {}
  <2>1. CASE NumAdmitted = 0
    <3>1. 1..NumAdmitted = {}
      BY <2>1
    <3> QED BY <2>1, <3>1 DEF Admitted
  <2>2. CASE NumAdmitted # 0
    <3>1. 1 \in 1..NumAdmitted
      BY <1>1, <2>2
    <3> QED BY <2>2, <3>1 DEF Admitted
  <2> QED BY <2>1, <2>2
<1> QED BY <1>1, <1>2, <1>3, <1>4, <1>5

(* The batch after the admission loop has room and one key.                 *)
LEMMA AdmissionIsLegal ==
  ASSUME SchedulerInv, running' = running \cup Admitted,
         runningKey' = IF running = {} /\ Admitted # {} THEN BatchKey ELSE runningKey,
         \A r \in Known : requestStates'[r].key = requestStates[r].key
  PROVE  IsFiniteSet(running)' /\ BatchIsLegal'
<1> USE DEF SchedulerInv
<1>1. CASE Admitted = {}
  <2>1. running' = running /\ runningKey' = runningKey
    BY <1>1
  <2> QED BY <2>1, QueueFacts DEF BatchIsLegal
<1>2. CASE Admitted # {}
  <2>1. /\ NumAdmitted \in 1..Len(waiting) /\ Len(waiting) \in Nat
        /\ NumAdmitted + Cardinality(running) <= MaxRunning
        /\ \A i \in 1..NumAdmitted : CanSchedule(i)
    <3>1. NumAdmitted # 0 /\ NumAdmitted \in 0..Len(waiting) /\ Len(waiting) \in Nat
      BY <1>2, AdmittedFacts
    <3>2. Admissible(NumAdmitted)
      BY <3>1, NumAdmittedExists
    <3> QED BY <3>1, <3>2 DEF Admissible
  <2>2. IsFiniteSet(running') /\ Cardinality(running') <= MaxRunning
    <3>1. /\ IsFiniteSet(running \cup Admitted)
          /\ Cardinality(running \cup Admitted)
               = Cardinality(running) + Cardinality(Admitted) - Cardinality(running \cap Admitted)
      BY AdmittedFacts, FS_Union
    <3>2. Cardinality(running \cap Admitted) = 0
      <4>1. running \cap Admitted = {}
        BY AdmittedFacts
      <4> QED BY <4>1, FS_EmptySet, Zenon
    <3>3. /\ Cardinality(running) \in Nat /\ Cardinality(Admitted) \in Nat
          /\ Cardinality(Admitted) <= NumAdmitted
      BY AdmittedFacts, FS_CardinalityType
    <3> HIDE DEF SchedulerInv
    <3>4. Cardinality(running \cup Admitted) = Cardinality(running) + Cardinality(Admitted)
      BY <3>1, <3>2, <3>3
    <3> QED BY <2>1, <3>1, <3>3, <3>4, MaxRunningAssumption
  <2>3. running' # {}
    BY <1>2
  <2>4. CASE running = {}
    <3>1. runningKey' = BatchKey /\ BatchKey = requestStates[waiting[1]].key
      BY <1>2, <2>4 DEF BatchKey
    <3>2. \A i \in 1..NumAdmitted :
            /\ requestStates[waiting[i]].key = BatchKey
            /\ BatchKey = NoKey => i = 1
      BY <2>1, <3>1 DEF CanSchedule
    <3>3. \A r \in running' : requestStates'[r].key = runningKey'
      BY <2>4, <3>1, <3>2, AdmittedFacts DEF Admitted
    <3>4. runningKey' = NoKey => \A q, r \in running' : q = r
      BY <2>4, <3>1, <3>2 DEF Admitted
    <3> QED BY <2>2, <2>3, <3>3, <3>4 DEF BatchIsLegal
  <2>5. CASE running # {}
    <3>1. \A i \in 1..NumAdmitted : BatchKey # NoKey /\ requestStates[waiting[i]].key = BatchKey
      BY <2>1, <2>5 DEF CanSchedule
    <3>2. BatchKey # NoKey
      BY <2>1, <3>1
    <3>3. BatchKey = runningKey
      BY <2>5, <3>2 DEF BatchKey, BatchIsLegal
    <3>4. runningKey' = runningKey
      BY <2>5
    <3>5. \A r \in running' : requestStates'[r].key = runningKey'
      <4>1. \A r \in running : requestStates'[r].key = runningKey'
        BY <3>4, QueueFacts DEF BatchIsLegal
      <4>2. \A r \in Admitted : requestStates'[r].key = runningKey'
        BY <3>1, <3>3, <3>4, AdmittedFacts DEF Admitted
      <4> QED BY <4>1, <4>2
    <3> QED BY <2>2, <2>3, <3>2, <3>3, <3>4, <3>5 DEF BatchIsLegal
  <2> QED BY <2>4, <2>5
<1> QED BY <1>1, <1>2

LEMMA InvSchedule ==
  ASSUME SchedulerInv, Schedule
  PROVE  SchedulerInv'
<1> USE DEF SchedulerInv
<1> DEFINE new == {r \in Admitted : StatusOf(r) = "WAITING"}
<1>1. /\ schedOutput' = [new |-> new, cached |-> running \cup (Admitted \ new),
                         finished |-> finishedReqIds]
      /\ requestStates' = [r \in Known |->
                             IF r \in Admitted
                             THEN [requestStates[r] EXCEPT !.status = "RUNNING"]
                             ELSE requestStates[r]]
      /\ waiting' = SubSeq(waiting, NumAdmitted + 1, Len(waiting))
      /\ running' = running \cup Admitted
      /\ runningKey' = IF running = {} /\ Admitted # {} THEN BatchKey ELSE runningKey
      /\ finishedReqIds' = {}
      /\ progress' = progress
  BY DEF Schedule, Admitted
<1>2. /\ Known' = Known
      /\ \A r \in Known : requestStates'[r].key = requestStates[r].key
      /\ \A r \in Admitted : requestStates'[r].status = "RUNNING"
      /\ \A r \in Known \ Admitted : requestStates'[r] = requestStates[r]
  BY <1>1, AdmittedFacts DEF Known, SchedulerTypeOK
<1>3. /\ waiting' \in Seq(Requests)
      /\ Elements(waiting') = Elements(waiting) \ Admitted
      /\ Distinct(waiting')
  BY <1>1, AdmittedFacts, QueueFacts, SuffixElements DEF Admitted
<1>4. SchedulerTypeOK'
  <2>1. requestStates' \in [Known' -> [key : Keys \cup {NoKey}, status : Status]]
    BY <1>1, <1>2 DEF SchedulerTypeOK, Status, Known
  <2>2. runningKey' \in Keys \cup {NoKey}
    <3>1. CASE running = {} /\ Admitted # {}
      <4>1. 1 \in 1..Len(waiting)
        BY <3>1, AdmittedFacts
      <4>2. waiting[1] \in Known
        BY <4>1, QueueFacts DEF Queued
      <4>3. BatchKey = requestStates[waiting[1]].key
        BY <3>1 DEF BatchKey
      <4> QED BY <1>1, <3>1, <4>2, <4>3 DEF SchedulerTypeOK
    <3>2. CASE ~ (running = {} /\ Admitted # {})
      BY <1>1, <3>2 DEF SchedulerTypeOK
    <3> QED BY <3>1, <3>2
  <2>3. Admitted \subseteq Requests
    BY AdmittedFacts DEF SchedulerTypeOK
  <2>4. schedOutput' \in
          [new : SUBSET Requests, cached : SUBSET Requests, finished : SUBSET Requests]
    BY <1>1, <2>3 DEF SchedulerTypeOK
  <2> QED BY <1>1, <1>2, <1>3, <2>1, <2>2, <2>3, <2>4 DEF SchedulerTypeOK
<1>5. QueuesMatchStatus'
  <2>1. Queued' = Queued \ Admitted
    BY <1>3, QueueFacts DEF Queued, Elements
  <2>2. \A r \in Known' : StatusOf(r)' = IF r \in Admitted THEN "RUNNING" ELSE StatusOf(r)
    BY <1>2 DEF StatusOf
  <2>3. running' = {r \in Known' : StatusOf(r)' = "RUNNING"}
    BY <1>1, <1>2, <2>2, AdmittedFacts DEF QueuesMatchStatus
  <2>4. Queued' = {r \in Known' : StatusOf(r)' \in {"WAITING", "PREEMPTED"}}
    BY <1>2, <2>1, <2>2 DEF QueuesMatchStatus
  <2> QED BY <1>3, <2>3, <2>4 DEF QueuesMatchStatus, Distinct
<1>6. (IsFiniteSet(running) /\ BatchIsLegal)'
  BY <1>1, <1>2, AdmissionIsLegal
<1>7. ProgressCoversStates' /\ StartedNotEnded'
  BY <1>1, <1>2 DEF ProgressCoversStates, StartedNotEnded
<1>8. ScheduledAreRunning'
  <2>1. Scheduled' = running \cup Admitted
    BY <1>1 DEF Scheduled
  <2>2. \A r \in running \cup Admitted : r \in Known' /\ StatusOf(r)' = "RUNNING"
    BY <1>2, QueueFacts, AdmittedFacts DEF StatusOf
  <2> QED BY <2>1, <2>2 DEF ScheduledAreRunning
<1>9. CachedNotFinished'
  <2>1. \A r \in running \cup (Admitted \ new) :
          r \in Known /\ StatusOf(r) \in {"RUNNING", "PREEMPTED"}
    BY QueueFacts, AdmittedFacts
  <2> QED BY <1>1, <2>1 DEF CachedNotFinished, StartedNotEnded
<1> QED BY <1>4, <1>5, <1>6, <1>7, <1>8, <1>9

-----------------------------------------------------------------------------
(* Every step of the scheduler keeps the invariant.                         *)
LEMMA InvNext == SchedulerInv /\ [SchedulerNext]_schedulerVars => SchedulerInv'
<1> SUFFICES ASSUME SchedulerInv, [SchedulerNext]_schedulerVars
             PROVE  SchedulerInv'
  OBVIOUS
<1>1. CASE Add
  BY <1>1, InvAdd DEF Add
<1>2. CASE StartCycle
  BY <1>2, InvSchedule DEF StartCycle
<1>3. CASE EndCycle
  BY <1>3, InvUpdate DEF EndCycle, RunnerOutputs
<1>4. CASE Finish
  BY <1>4, InvFinish DEF Finish
<1>5. CASE Preempt
  BY <1>5, InvPreempt DEF Preempt
<1>6. CASE Pop
  BY <1>6, InvPop DEF Pop
<1>7. CASE SchedulerClose
  BY <1>7, InvClose
<1>8. CASE UNCHANGED schedulerVars
  BY <1>8 DEF schedulerVars, SchedulerInv, SchedulerTypeOK, QueuesMatchStatus, BatchIsLegal,
              ProgressCoversStates, ScheduledAreRunning, StartedNotEnded, CachedNotFinished,
              Known, StatusOf, Queued, Scheduled
<1> QED BY <1>1, <1>2, <1>3, <1>4, <1>5, <1>6, <1>7, <1>8 DEF SchedulerNext

THEOREM InvAlways == SchedulerSpec => []SchedulerInv
  BY InvInit, InvNext, PTL DEF SchedulerSpec

(* Every variable of the scheduler always has its type.                     *)
THEOREM SchedulerTypeCorrect == SchedulerSpec => []SchedulerTypeOK
<1>1. SchedulerInv => SchedulerTypeOK
  BY DEF SchedulerInv
<1> QED BY <1>1, InvAlways, PTL

(* The deque, the batch and the statuses never disagree, so that no live    *)
(* request is lost between the queues and none is in both.                  *)
THEOREM QueuesAlwaysMatchStatus == SchedulerSpec => []QueuesMatchStatus
<1>1. SchedulerInv => QueuesMatchStatus
  BY DEF SchedulerInv
<1> QED BY <1>1, InvAlways, PTL

(* A batch is never larger than max_num_running_reqs and never mixes        *)
(* sampling parameters, whatever the order of arrivals, aborts and ends.    *)
THEOREM BatchAlwaysLegal == SchedulerSpec => []BatchIsLegal
<1>1. SchedulerInv => BatchIsLegal
  BY DEF SchedulerInv
<1> QED BY <1>1, InvAlways, PTL

(* In step mode a known request always has a progress entry.                *)
THEOREM ProgressAlwaysCovers == SchedulerSpec => []ProgressCoversStates
<1>1. SchedulerInv => ProgressCoversStates
  BY DEF SchedulerInv
<1> QED BY <1>1, InvAlways, PTL

(* The runner is never told to forget a request and to continue it in the   *)
(* same output.                                                             *)
THEOREM CachedNeverFinished == SchedulerSpec => []CachedNotFinished
<1>1. SchedulerInv => CachedNotFinished
  BY DEF SchedulerInv
<1> QED BY <1>1, InvAlways, PTL

-----------------------------------------------------------------------------
(* One step never changes the entry of a request that ended.                *)
KeepsVerdicts ==
  \A r \in Known : IsFinished(r) /\ r \in DOMAIN requestStates'
                     => requestStates'[r] = requestStates[r]

LEMMA StepKeepsVerdicts == SchedulerInv /\ SchedulerNext => KeepsVerdicts
<1> SUFFICES ASSUME SchedulerInv, SchedulerNext,
                    NEW r \in Known, IsFinished(r), r \in DOMAIN requestStates'
             PROVE  requestStates'[r] = requestStates[r]
  BY DEF KeepsVerdicts
<1>1. r \notin running /\ r \notin Queued
  BY QueueFacts DEF SchedulerInv, IsFinished, FinishedStatus
<1>2. CASE Add
  BY <1>2 DEF Add, AddRequest, Known
<1>3. CASE StartCycle
  <2>1. r \notin Admitted
    BY <1>1, AdmittedFacts
  <2> QED BY <1>3, <2>1 DEF StartCycle, Schedule, Admitted, Known
<1>4. CASE EndCycle
  <2>1. PICK out : UpdateFromOutput(out)
    BY <1>4 DEF EndCycle
  <2>2. r \notin Ended(out)
    BY <1>1, EndedWereRunning
  <2> QED BY <2>1, <2>2 DEF UpdateFromOutput, Known
<1>5. CASE Finish
  BY <1>5 DEF Finish, FinishRequest, Known
<1>6. CASE Preempt
  BY <1>1, <1>6 DEF Preempt, PreemptRequest, Known
<1>7. CASE Pop
  BY <1>7 DEF Pop, PopRequestState, Known
<1>8. CASE SchedulerClose
  BY <1>8 DEF SchedulerClose
<1> QED BY <1>2, <1>3, <1>4, <1>5, <1>6, <1>7, <1>8 DEF SchedulerNext

(* A verdict is final: a late output, a second abort or a preemption never  *)
(* changes how a request ended.                                             *)
THEOREM VerdictsAreFinal == SchedulerSpec => VerdictIsFinal
<1>1. SchedulerInv /\ [SchedulerNext]_schedulerVars => [KeepsVerdicts]_schedulerVars
  BY StepKeepsVerdicts
<1>2. SchedulerSpec => [][KeepsVerdicts]_schedulerVars
  BY <1>1, InvAlways, PTL DEF SchedulerSpec
<1> QED BY <1>2 DEF VerdictIsFinal, KeepsVerdicts

-----------------------------------------------------------------------------
(* Refinement: the scheduler implements BatchLifecycle.                     *)
LifeStatus == [r \in Requests |-> IF r \in Known THEN StatusOf(r) ELSE "ABSENT"]
LifeKey == [r \in Requests |-> IF r \in Known THEN requestStates[r].key ELSE NoKey]

LEMMA LifeOf ==
  ASSUME NEW r \in Requests
  PROVE  /\ LifeStatus[r] = IF r \in Known THEN StatusOf(r) ELSE "ABSENT"
         /\ LifeKey[r] = IF r \in Known THEN requestStates[r].key ELSE NoKey
         /\ LifeStatus'[r] = IF r \in Known' THEN StatusOf(r)' ELSE "ABSENT"
         /\ LifeKey'[r] = IF r \in Known' THEN requestStates'[r].key ELSE NoKey
  BY DEF LifeStatus, LifeKey

LEMMA LifeInit == SchedulerInit => Lifecycle!Init
  BY DEF SchedulerInit, Lifecycle!Init, Known, StatusOf

LEMMA LifeAdd ==
  ASSUME SchedulerInv, NEW r \in Requests, NEW k \in Keys \cup {NoKey}, NEW step,
         AddRequest(r, k, step)
  PROVE  Lifecycle!Submit(r, k)
<1>1. r \notin Known /\ Known' = Known \cup {r}
  BY DEF AddRequest, Known
<1>2. /\ requestStates'[r] = [key |-> k, status |-> "WAITING"]
      /\ \A q \in Known : requestStates'[q] = requestStates[q]
  BY <1>1 DEF AddRequest, Known
<1>3. LifeStatus[r] = "ABSENT"
  BY <1>1, LifeOf
<1>4. LifeStatus' = [LifeStatus EXCEPT ![r] = "WAITING"]
  <2>1. \A q \in Requests : LifeStatus'[q] = IF q = r THEN "WAITING" ELSE LifeStatus[q]
    BY <1>1, <1>2, LifeOf DEF StatusOf
  <2> QED BY <2>1 DEF LifeStatus
<1>5. LifeKey' = [LifeKey EXCEPT ![r] = k]
  <2>1. \A q \in Requests : LifeKey'[q] = IF q = r THEN k ELSE LifeKey[q]
    BY <1>1, <1>2, LifeOf
  <2> QED BY <2>1 DEF LifeKey
<1> QED BY <1>3, <1>4, <1>5 DEF Lifecycle!Submit, LifeStatus, LifeKey

(* The keys of known requests never change.                                 *)
LEMMA LifeKeyKept ==
  ASSUME Known' = Known, \A q \in Known : requestStates'[q].key = requestStates[q].key
  PROVE  LifeKey' = LifeKey
<1>1. \A q \in Requests : LifeKey'[q] = LifeKey[q]
  BY LifeOf
<1> QED BY <1>1 DEF LifeKey

LEMMA LifeSchedule ==
  ASSUME SchedulerInv, SchedulerInv', Schedule, NEW S, S = Admitted
  PROVE  Lifecycle!Admit(S)
<1>1. /\ requestStates' = [r \in Known |->
                             IF r \in Admitted
                             THEN [requestStates[r] EXCEPT !.status = "RUNNING"]
                             ELSE requestStates[r]]
  BY DEF Schedule, Admitted
<1>2. /\ Known' = Known
      /\ \A r \in Known : requestStates'[r].key = requestStates[r].key
      /\ \A r \in Admitted : requestStates'[r].status = "RUNNING"
      /\ \A r \in Known \ Admitted : requestStates'[r] = requestStates[r]
  BY <1>1, AdmittedFacts DEF Known, SchedulerInv, SchedulerTypeOK
<1>3. Known \subseteq Requests /\ Admitted \subseteq Known
  BY AdmittedFacts DEF SchedulerInv, SchedulerTypeOK
<1>4. LifeKey' = LifeKey
  BY <1>2, LifeKeyKept
<1>5. LifeStatus' = [r \in Requests |-> IF r \in Admitted THEN "RUNNING" ELSE LifeStatus[r]]
  <2>1. \A r \in Requests :
          LifeStatus'[r] = IF r \in Admitted THEN "RUNNING" ELSE LifeStatus[r]
    BY <1>2, <1>3, LifeOf DEF StatusOf
  <2> QED BY <2>1 DEF LifeStatus
<1>6. \A r \in Admitted : LifeStatus[r] \in {"WAITING", "PREEMPTED"}
  BY <1>3, AdmittedFacts, QueueFacts, LifeOf DEF SchedulerInv
<1>7. {r \in Requests : LifeStatus'[r] = "RUNNING"} = running'
  <2>1. Known' \subseteq Requests /\ running' = {r \in Known' : StatusOf(r)' = "RUNNING"}
    BY DEF SchedulerInv, SchedulerTypeOK, QueuesMatchStatus
  <2>2. \A r \in Requests : LifeStatus'[r] = IF r \in Known' THEN StatusOf(r)' ELSE "ABSENT"
    BY LifeOf
  <2> QED BY <2>1, <2>2
<1>8. Cardinality(running') <= MaxRunning
  BY DEF SchedulerInv, BatchIsLegal
<1>9. \A q, r \in running' : q # r => LifeKey[q] = LifeKey[r] /\ LifeKey[q] # NoKey
  <2>1. \A r \in running' : r \in Requests /\ r \in Known' /\ LifeKey'[r] = runningKey'
    <3>1. \A r \in running' : r \in Requests /\ r \in Known'
      BY DEF SchedulerInv, SchedulerTypeOK, QueuesMatchStatus
    <3> QED BY <3>1, LifeOf DEF SchedulerInv, BatchIsLegal
  <2>2. runningKey' = NoKey => \A q, r \in running' : q = r
    BY DEF SchedulerInv, BatchIsLegal
  <2> QED BY <1>4, <2>1, <2>2
<1>10. Lifecycle!LegalBatch(LifeStatus', LifeKey)
  <2>1. Lifecycle!Cardinality(running') <= MaxRunning
    BY <1>8 DEF Cardinality, Lifecycle!Cardinality
  <2> QED BY <1>7, <1>9, <2>1 DEF Lifecycle!LegalBatch, Lifecycle!InBatch
<1>11. LifeStatus' = [r \in Requests |-> IF r \in S THEN "RUNNING" ELSE LifeStatus[r]]
  BY <1>5
<1> QED
  BY <1>4, <1>6, <1>10, <1>11 DEF Lifecycle!Admit, Lifecycle!Pending, LifeStatus, LifeKey

(* Both ways of ending requests: an output that ends a set of them, and     *)
(* finish_requests.                                                         *)
LEMMA LifeFinish ==
  ASSUME SchedulerInv, NEW S, S \subseteq Known, Known' = Known,
         \A r \in S : ~IsFinished(r) /\ requestStates'[r].status \in FinishedStatus,
         \A r \in Known : requestStates'[r].key = requestStates[r].key,
         \A r \in Known \ S : requestStates'[r] = requestStates[r]
  PROVE  Lifecycle!Finish(S)
<1>1. Known \subseteq Requests
  BY DEF SchedulerInv, SchedulerTypeOK
<1>2. \A r \in S : /\ LifeStatus[r] \in {"WAITING", "PREEMPTED", "RUNNING"}
                   /\ LifeStatus'[r] \in FinishedStatus
  <2>1. \A r \in S : StatusOf(r) \in {"WAITING", "PREEMPTED", "RUNNING"}
    BY DEF SchedulerInv, SchedulerTypeOK, StatusOf, IsFinished, Status
  <2> QED BY <1>1, <2>1, LifeOf DEF StatusOf
<1>3. \A r \in Requests \ S : LifeStatus'[r] = LifeStatus[r]
  BY LifeOf DEF StatusOf
<1>4. LifeKey' = LifeKey
  BY LifeKeyKept
<1>5. LifeStatus' = [r \in Requests |-> LifeStatus'[r]]
  BY DEF LifeStatus
<1> QED
  BY <1>2, <1>3, <1>4, <1>5
  DEF Lifecycle!Finish, Lifecycle!Pending, Lifecycle!Finished, FinishedStatus, LifeStatus, LifeKey

LEMMA LifePreempt ==
  ASSUME SchedulerInv, NEW r \in Requests, PreemptRequest(r)
  PROVE  Lifecycle!Preempt(r)
<1>1. r \in Known /\ StatusOf(r) = "RUNNING"
  BY QueueFacts DEF PreemptRequest, SchedulerInv
<1>2. /\ Known' = Known
      /\ requestStates'[r].status = "PREEMPTED"
      /\ \A q \in Known : requestStates'[q].key = requestStates[q].key
      /\ \A q \in Known \ {r} : requestStates'[q] = requestStates[q]
  BY <1>1 DEF PreemptRequest, Known, SchedulerInv, SchedulerTypeOK
<1>3. LifeStatus[r] = "RUNNING"
  BY <1>1, LifeOf
<1>4. LifeStatus' = [LifeStatus EXCEPT ![r] = "PREEMPTED"]
  <2>1. \A q \in Requests : LifeStatus'[q] = IF q = r THEN "PREEMPTED" ELSE LifeStatus[q]
    BY <1>1, <1>2, LifeOf DEF StatusOf
  <2> QED BY <2>1 DEF LifeStatus
<1>5. LifeKey' = LifeKey
  BY <1>2, LifeKeyKept
<1> QED BY <1>3, <1>4, <1>5 DEF Lifecycle!Preempt, LifeStatus, LifeKey

LEMMA LifePop ==
  ASSUME SchedulerInv, NEW r \in Requests, PopRequestState(r)
  PROVE  Lifecycle!Retire(r)
<1>1. r \in Known /\ StatusOf(r) \in FinishedStatus
  BY DEF PopRequestState, IsFinished
<1>2. Known' = Known \ {r} /\ \A q \in Known' : requestStates'[q] = requestStates[q]
  BY <1>1 DEF PopRequestState, Known
<1>3. LifeStatus[r] \in FinishedStatus
  BY <1>1, LifeOf
<1>4. LifeStatus' = [LifeStatus EXCEPT ![r] = "ABSENT"]
  <2>1. \A q \in Requests : LifeStatus'[q] = IF q = r THEN "ABSENT" ELSE LifeStatus[q]
    BY <1>2, LifeOf DEF StatusOf
  <2> QED BY <2>1 DEF LifeStatus
<1>5. LifeKey' = [LifeKey EXCEPT ![r] = NoKey]
  <2>1. \A q \in Requests : LifeKey'[q] = IF q = r THEN NoKey ELSE LifeKey[q]
    BY <1>2, LifeOf
  <2> QED BY <2>1 DEF LifeKey
<1> QED
  BY <1>3, <1>4, <1>5
  DEF Lifecycle!Retire, Lifecycle!Finished, FinishedStatus, LifeStatus, LifeKey

LEMMA LifeReset == SchedulerClose => Lifecycle!Reset
<1> SUFFICES ASSUME SchedulerClose PROVE Lifecycle!Reset
  OBVIOUS
<1>1. Known' = {}
  BY DEF SchedulerClose, Known
<1> QED BY <1>1 DEF Lifecycle!Reset

LEMMA LifeNext ==
  SchedulerInv /\ SchedulerInv' /\ [SchedulerNext]_schedulerVars
    => [Lifecycle!Next]_(Lifecycle!lifecycleVars)
<1> SUFFICES ASSUME SchedulerInv, SchedulerInv', [SchedulerNext]_schedulerVars
             PROVE  Lifecycle!Next \/ UNCHANGED Lifecycle!lifecycleVars
  OBVIOUS
<1>1. CASE Add
  BY <1>1, LifeAdd DEF Add, Lifecycle!Next
<1>2. CASE StartCycle
  <2>1. Admitted \in SUBSET Requests
    BY AdmittedFacts DEF SchedulerInv, SchedulerTypeOK
  <2>2. PICK S \in SUBSET Requests : S = Admitted
    BY <2>1
  <2>3. Lifecycle!Admit(S)
    BY <1>2, <2>2, LifeSchedule DEF StartCycle
  <2> QED BY <2>3 DEF Lifecycle!Next
<1>3. CASE EndCycle
  <2>1. PICK out \in RunnerOutputs : UpdateFromOutput(out)
    BY <1>3 DEF EndCycle
  <2>2. /\ Ended(out) \subseteq Known /\ Ended(out) \subseteq Requests
        /\ \A r \in Ended(out) : ~IsFinished(r) /\ Verdict(out[r]) \in FinishedStatus
    BY DEF Ended, Live, SchedulerInv, SchedulerTypeOK
  <2>3. /\ Known' = Known
        /\ \A r \in Known : requestStates'[r].key = requestStates[r].key
        /\ \A r \in Ended(out) : requestStates'[r].status = Verdict(out[r])
        /\ \A r \in Known \ Ended(out) : requestStates'[r] = requestStates[r]
    BY <2>1, <2>2 DEF UpdateFromOutput, Known, SchedulerInv, SchedulerTypeOK
  <2>4. PICK S \in SUBSET Requests : S = Ended(out)
    BY <2>2
  <2>5. Lifecycle!Finish(S)
    BY <2>2, <2>3, <2>4, LifeFinish
  <2> QED BY <2>5 DEF Lifecycle!Next
<1>4. CASE Finish
  <2>1. PICK r \in Requests, status \in FinishedStatus : FinishRequest(r, status)
    BY <1>4 DEF Finish
  <2>2. r \in Known /\ ~IsFinished(r)
    BY <2>1 DEF FinishRequest
  <2>3. /\ Known' = Known
        /\ requestStates'[r].status = status
        /\ \A q \in Known : requestStates'[q].key = requestStates[q].key
        /\ \A q \in Known \ {r} : requestStates'[q] = requestStates[q]
    BY <2>1, <2>2 DEF FinishRequest, Known, SchedulerInv, SchedulerTypeOK
  <2>4. Lifecycle!Finish({r})
    BY <2>2, <2>3, LifeFinish
  <2> QED BY <2>4 DEF Lifecycle!Next
<1>5. CASE Preempt
  BY <1>5, LifePreempt DEF Preempt, Lifecycle!Next
<1>6. CASE Pop
  BY <1>6, LifePop DEF Pop, Lifecycle!Next
<1>7. CASE SchedulerClose
  BY <1>7, LifeReset DEF Lifecycle!Next
<1>8. CASE UNCHANGED schedulerVars
  BY <1>8 DEF schedulerVars, Lifecycle!lifecycleVars, Known, StatusOf
<1> QED BY <1>1, <1>2, <1>3, <1>4, <1>5, <1>6, <1>7, <1>8 DEF SchedulerNext

(* Both schedulers implement the contract their engine relies on.           *)
THEOREM SchedulerImplementsLifecycle == SchedulerSpec => LifecycleSpec
<1>1. SchedulerSpec => []SchedulerInv
  BY InvAlways
<1>2. SchedulerInit => Lifecycle!Init
  BY LifeInit
<1> QED BY <1>1, <1>2, LifeNext, PTL DEF SchedulerSpec, LifecycleSpec, Lifecycle!Spec
=============================================================================
