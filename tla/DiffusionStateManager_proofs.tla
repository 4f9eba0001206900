-------------------- MODULE DiffusionStateManager_proofs --------------------
(***************************************************************************)
(* For any requests, sizes, budgets and file names: the state manager's    *)
(* types and budgets, that a stored checkpoint can be read whatever fails, *)
(* and that the tiers account for exactly the stored states and their      *)
(* bytes.  Of the thread at work the first invariant says which state it   *)
(* holds and that its file is written and is not the one about to be       *)
(* removed; the second what is charged and which files there are while the *)
(* new state is not yet in the store.                                      *)
(***************************************************************************)
EXTENDS DiffusionStateManager, TLAPS, FiniteSetTheorems, WellFoundedInduction

Working == {"materialize", "clean", "store"}

\* The request and the new state in the thread's hands.
HoldsState ==
  eng.at \in Working => eng.cur \in Requests /\ eng.next \in State

\* A caller of restore holds a request's state.
ReaderHolds ==
  reader.at # "idle" => reader.id \in Requests /\ reader.state \in State

\* The snapshots still to be captured are of requests that have made a step.
TodoHasSteps ==
  eng.at \in Working \cup {"capture"} => \A r \in eng.todo : steps[r] \in 1 .. Total

\* The new file exists, and the file about to be removed is another one.
NextWritten ==
  (eng.at \in {"clean", "store"} /\ eng.next.placement = "disk") =>
    /\ eng.next.file \in files[eng.cur]
    /\ eng.at = "clean" /\ OnDisk(store[eng.cur]) => store[eng.cur].file # eng.next.file

ManagerInv ==
  StateTypeOK /\ HoldsState /\ ReaderHolds /\ TodoHasSteps /\ NextWritten /\ PayloadExists

-----------------------------------------------------------------------------
(* The tiers.                                                              *)

LEMMA FreedType ==
  ASSUME NEW b \in Nat, NEW tier \in Tier(b), NEW r, NEW s \in State \cup {None}, NEW p
  PROVE  Freed(tier, r, s, p) \in Tier(b)
<1>1. tier.used \in 0 .. b /\ tier.held \subseteq Requests /\ tier.held \ {r} \subseteq Requests
  BY DEF Tier
<1>2. CASE s # None
  <2>1. s.size \in Nat
    BY <1>2, NumbersAssumption DEF State
  <2>2. (IF s.size > tier.used THEN 0 ELSE tier.used - s.size) \in 0 .. b
    BY <1>1, <2>1, SMT
  <2> QED BY <1>1, <2>2 DEF Freed, Tier
<1>3. CASE s = None
  BY <1>3 DEF Freed
<1> QED BY <1>2, <1>3

LEMMA ChargedType ==
  ASSUME NEW b \in Nat, NEW tier \in Tier(b), NEW r \in Requests, NEW size \in Sizes,
         Fits(tier, size, b)
  PROVE  Charged(tier, r, size) \in Tier(b)
<1>1. size \in Nat
  BY NumbersAssumption
<1>2. tier.used + size \in 0 .. b
  BY <1>1 DEF Fits, Tier
<1> QED BY <1>2 DEF Charged, Tier

LEMMA PlaceType ==
  ASSUME NEW r \in Requests, NEW size \in Sizes, NEW prev \in State \cup {None},
         gpu \in Tier(GpuBudget), cpu \in Tier(CpuBudget)
  PROVE  /\ Place(r, size, prev).placement \in {"gpu", "cpu", "disk"}
         /\ Place(r, size, prev).gpu \in Tier(GpuBudget)
         /\ Place(r, size, prev).cpu \in Tier(CpuBudget)
<1> DEFINE g == Freed(gpu, r, prev, "gpu")
           c == Freed(cpu, r, prev, "cpu")
<1>1. g \in Tier(GpuBudget) /\ c \in Tier(CpuBudget)
  BY FreedType, NumbersAssumption
<1>2. Fits(g, size, GpuBudget) => Charged(g, r, size) \in Tier(GpuBudget)
  BY <1>1, ChargedType, NumbersAssumption
<1>3. Fits(c, size, CpuBudget) => Charged(c, r, size) \in Tier(CpuBudget)
  BY <1>1, ChargedType, NumbersAssumption
<1> HIDE DEF g, c
<1>4. CASE Fits(g, size, GpuBudget)
  BY <1>1, <1>2, <1>4 DEF Place, g, c
<1>5. CASE ~Fits(g, size, GpuBudget) /\ Fits(c, size, CpuBudget)
  BY <1>1, <1>3, <1>5 DEF Place, g, c
<1>6. CASE ~Fits(g, size, GpuBudget) /\ ~Fits(c, size, CpuBudget)
  BY <1>1, <1>6 DEF Place, g, c
<1> QED BY <1>4, <1>5, <1>6

-----------------------------------------------------------------------------
(* The invariant.                                                          *)

LEMMA ManagerInit == Init => ManagerInv
<1> SUFFICES ASSUME Init PROVE ManagerInv
  OBVIOUS
<1>1. gpu \in Tier(GpuBudget) /\ cpu \in Tier(CpuBudget)
  BY NumbersAssumption DEF Init, Tier
<1>2. steps \in [Requests -> 0 .. Out]
  BY NumbersAssumption DEF Init, Out
<1>3. StateTypeOK
  BY <1>1, <1>2 DEF Init, StateTypeOK, Idle, NoReader
<1>4. HoldsState /\ ReaderHolds /\ TodoHasSteps /\ NextWritten
  BY DEF Init, HoldsState, ReaderHolds, NoReader, TodoHasSteps, NextWritten, Idle, Working
<1>5. PayloadExists
  BY DEF Init, PayloadExists, Stored
<1> QED BY <1>3, <1>4, <1>5 DEF ManagerInv

\* A fresh name is that of no file of the request and not that of its state.
LEMMA FreshFacts ==
  ASSUME NEW r \in Requests, NEW u \in FreshNames(r)
  PROVE  u \in Names /\ u \notin files[r] /\ (store[r] # None => store[r].file # u)
BY DEF FreshNames

LEMMA AddRequestStep ==
  ASSUME ManagerInv, NEW r \in Requests, AddRequest(r)
  PROVE  ManagerInv'
<1>1. StateTypeOK'
  BY DEF ManagerInv, StateTypeOK, AddRequest
<1>2. HoldsState'
  BY DEF ManagerInv, HoldsState, AddRequest
<1>3. TodoHasSteps'
  BY NumbersAssumption DEF ManagerInv, TodoHasSteps, AddRequest, Out
<1>4. NextWritten'
  BY DEF ManagerInv, NextWritten, AddRequest
<1>5. PayloadExists'
  BY DEF ManagerInv, PayloadExists, AddRequest, Stored
<1>6. ReaderHolds'
  BY DEF ManagerInv, ReaderHolds, AddRequest
<1> QED BY <1>1, <1>2, <1>3, <1>4, <1>5, <1>6 DEF ManagerInv

LEMMA LeaveEarlyStep ==
  ASSUME ManagerInv, NEW r \in Requests, LeaveEarly(r)
  PROVE  ManagerInv'
<1>1. StateTypeOK'
  BY NumbersAssumption DEF ManagerInv, StateTypeOK, LeaveEarly, Out
<1>2. HoldsState'
  BY DEF ManagerInv, HoldsState, LeaveEarly
<1>3. TodoHasSteps'
  BY DEF TodoHasSteps, LeaveEarly, Working
<1>4. NextWritten'
  BY DEF NextWritten, LeaveEarly
<1>5. PayloadExists'
  BY DEF ManagerInv, PayloadExists, LeaveEarly, Stored
<1>6. ReaderHolds'
  BY DEF ManagerInv, ReaderHolds, LeaveEarly
<1> QED BY <1>1, <1>2, <1>3, <1>4, <1>5, <1>6 DEF ManagerInv

LEMMA StepDoneStep ==
  ASSUME ManagerInv, StepDone
  PROVE  ManagerInv'
<1>1. StateTypeOK'
  <2>1. steps' \in [Requests -> 0 .. Out]
    BY NumbersAssumption DEF ManagerInv, StateTypeOK, StepDone, Out
  <2>2. PICK batch \in SUBSET Requests : \E todo \in SUBSET batch :
          eng' = [Idle EXCEPT !.at = "capture", !.batch = batch, !.todo = todo]
    BY DEF StepDone
  <2> QED BY <2>1, <2>2 DEF ManagerInv, StateTypeOK, StepDone, Idle
<1>2. HoldsState'
  BY DEF HoldsState, StepDone, Working
<1>3. TodoHasSteps'
  BY NumbersAssumption DEF ManagerInv, StateTypeOK, TodoHasSteps, StepDone
<1>4. NextWritten'
  BY DEF NextWritten, StepDone
<1>5. PayloadExists'
  BY DEF ManagerInv, PayloadExists, StepDone, Stored
<1>6. ReaderHolds'
  BY DEF ManagerInv, ReaderHolds, StepDone
<1> QED BY <1>1, <1>2, <1>3, <1>4, <1>5, <1>6 DEF ManagerInv

LEMMA CaptureStep ==
  ASSUME ManagerInv, NEW r \in Requests, Capture(r)
  PROVE  ManagerInv'
<1>0. PICK size \in Sizes :
        LET p == Place(r, size, store[r]) IN
        /\ gpu' = p.gpu /\ cpu' = p.cpu
        /\ eng' = [eng EXCEPT !.at = "materialize", !.cur = r, !.todo = @ \ {r},
                     !.next = [step |-> steps[r], size |-> size,
                               placement |-> p.placement, file |-> None]]
  BY DEF Capture
<1>a. /\ Place(r, size, store[r]).placement \in {"gpu", "cpu", "disk"}
      /\ Place(r, size, store[r]).gpu \in Tier(GpuBudget)
      /\ Place(r, size, store[r]).cpu \in Tier(CpuBudget)
  BY PlaceType DEF ManagerInv, StateTypeOK
<1>b. steps[r] \in 1 .. Total
  BY DEF Capture, ManagerInv, TodoHasSteps
<1>c. [step |-> steps[r], size |-> size, placement |-> Place(r, size, store[r]).placement,
       file |-> None] \in State
  BY <1>a, <1>b DEF State
<1>1. StateTypeOK'
  BY <1>0, <1>a, <1>c DEF ManagerInv, StateTypeOK, Capture
<1>2. HoldsState'
  BY <1>0, <1>c DEF ManagerInv, StateTypeOK, HoldsState
<1>3. TodoHasSteps'
  BY DEF ManagerInv, TodoHasSteps, Capture
<1>4. NextWritten'
  BY DEF NextWritten, Capture
<1>5. PayloadExists'
  BY DEF ManagerInv, PayloadExists, Capture, Stored
<1>6. ReaderHolds'
  BY DEF ManagerInv, ReaderHolds, Capture
<1> QED BY <1>1, <1>2, <1>3, <1>4, <1>5, <1>6 DEF ManagerInv

LEMMA MaterializeStep ==
  ASSUME ManagerInv, Materialize
  PROVE  ManagerInv'
<1>0. eng.cur \in Requests /\ eng.next \in State
  BY DEF Materialize, ManagerInv, HoldsState, Working
<1>a. CASE eng.next.placement # "disk"
  <2>1. eng' = [eng EXCEPT !.at = "clean"] /\ files' = files
    BY <1>a DEF Materialize
  <2>2. eng'.at = "clean" /\ eng'.cur = eng.cur /\ eng'.next = eng.next /\ eng'.todo = eng.todo
    BY <2>1 DEF ManagerInv, StateTypeOK
  <2>3. StateTypeOK'
    BY <2>1 DEF Materialize, ManagerInv, StateTypeOK
  <2>4. HoldsState' /\ NextWritten'
    BY <1>0, <1>a, <2>2 DEF HoldsState, NextWritten
  <2>5. TodoHasSteps'
    BY <2>2 DEF Materialize, ManagerInv, TodoHasSteps, Working
  <2>6. PayloadExists'
    BY <2>1, <2>2 DEF Materialize, ManagerInv, PayloadExists, Stored
  <2>7. ReaderHolds'
    BY DEF Materialize, ManagerInv, ReaderHolds
  <2> QED BY <2>3, <2>4, <2>5, <2>6, <2>7 DEF ManagerInv
<1>b. CASE eng.next.placement = "disk"
  <2>1. PICK u \in FreshNames(eng.cur) :
          /\ files' = [files EXCEPT ![eng.cur] = @ \cup {u}]
          /\ eng' = [eng EXCEPT !.at = "clean", !.next.file = u]
    BY <1>b DEF Materialize
  <2>2. u \in Names /\ u \notin files[eng.cur] /\ (store[eng.cur] # None => store[eng.cur].file # u)
    BY <1>0, FreshFacts
  <2>3. [eng.next EXCEPT !.file = u] \in State /\ [eng.next EXCEPT !.file = u].file = u
    BY <1>0, <2>2 DEF State
  <2>4. /\ eng' = [eng EXCEPT !.at = "clean", !.next = [eng.next EXCEPT !.file = u]]
        /\ eng'.at = "clean" /\ eng'.cur = eng.cur /\ eng'.todo = eng.todo
        /\ eng'.next = [eng.next EXCEPT !.file = u]
    BY <2>1 DEF ManagerInv, StateTypeOK
  <2>5. files' \in [Requests -> SUBSET Names] /\ u \in files'[eng.cur]
        /\ \A r \in Requests : files[r] \subseteq files'[r]
    BY <1>0, <2>1, <2>2 DEF ManagerInv, StateTypeOK
  <2>6. StateTypeOK'
    BY <2>3, <2>4, <2>5 DEF Materialize, ManagerInv, StateTypeOK
  <2>7. HoldsState'
    BY <1>0, <2>3, <2>4 DEF HoldsState
  <2>8. NextWritten'
    BY <1>0, <2>2, <2>3, <2>4, <2>5 DEF Materialize, NextWritten, OnDisk
  <2>9. TodoHasSteps'
    BY <2>4 DEF Materialize, ManagerInv, TodoHasSteps, Working
  <2>10. PayloadExists'
    BY <2>4, <2>5 DEF Materialize, ManagerInv, PayloadExists, Stored
  <2>11. ReaderHolds'
    BY DEF Materialize, ManagerInv, ReaderHolds
  <2> QED BY <2>6, <2>7, <2>8, <2>9, <2>10, <2>11 DEF ManagerInv
<1> QED BY <1>a, <1>b

LEMMA MaterializeFailsStep ==
  ASSUME ManagerInv, MaterializeFails
  PROVE  ManagerInv'
<1>1. StateTypeOK'
  BY DEF ManagerInv, StateTypeOK, MaterializeFails, FreshNames, Idle
<1>2. HoldsState'
  BY DEF HoldsState, MaterializeFails, Working
<1>3. TodoHasSteps'
  BY DEF TodoHasSteps, MaterializeFails, Working
<1>4. NextWritten'
  BY DEF NextWritten, MaterializeFails
<1>5. PayloadExists'
  BY DEF ManagerInv, StateTypeOK, PayloadExists, MaterializeFails, Stored
<1>6. ReaderHolds'
  BY DEF ManagerInv, ReaderHolds, MaterializeFails
<1> QED BY <1>1, <1>2, <1>3, <1>4, <1>5, <1>6 DEF ManagerInv

LEMMA CleanStep ==
  ASSUME ManagerInv, Clean
  PROVE  ManagerInv'
<1>1. StateTypeOK'
  BY DEF ManagerInv, StateTypeOK, Clean, Cleaned
<1>2. HoldsState'
  BY DEF ManagerInv, HoldsState, Clean, Working
<1>3. TodoHasSteps'
  BY DEF ManagerInv, TodoHasSteps, Clean, Working
<1>4. NextWritten'
  BY DEF ManagerInv, NextWritten, Clean, Cleaned
<1>5. PayloadExists'
  BY DEF ManagerInv, PayloadExists, Clean, Cleaned, Stored
<1>6. ReaderHolds'
  BY DEF ManagerInv, ReaderHolds, Clean
<1> QED BY <1>1, <1>2, <1>3, <1>4, <1>5, <1>6 DEF ManagerInv

LEMMA CleanFailsStep ==
  ASSUME ManagerInv, CleanFails
  PROVE  ManagerInv'
<1>1. StateTypeOK'
  BY DEF ManagerInv, StateTypeOK, CleanFails, Idle
<1>2. HoldsState'
  BY DEF HoldsState, CleanFails, Working
<1>3. TodoHasSteps'
  BY DEF TodoHasSteps, CleanFails, Working
<1>4. NextWritten'
  BY DEF NextWritten, CleanFails
<1>5. PayloadExists'
  BY DEF ManagerInv, PayloadExists, CleanFails, Stored
<1>6. ReaderHolds'
  BY DEF ManagerInv, ReaderHolds, CleanFails
<1> QED BY <1>1, <1>2, <1>3, <1>4, <1>5, <1>6 DEF ManagerInv

LEMMA StoreStep ==
  ASSUME ManagerInv, Store
  PROVE  ManagerInv'
<1>1. StateTypeOK'
  BY DEF ManagerInv, StateTypeOK, Store
<1>2. HoldsState'
  BY DEF HoldsState, Store, Working
<1>3. TodoHasSteps'
  BY DEF ManagerInv, TodoHasSteps, Store, Working
<1>4. NextWritten'
  BY DEF NextWritten, Store
<1>5. PayloadExists'
  BY DEF ManagerInv, StateTypeOK, PayloadExists, Store, Stored, NextWritten
<1>6. ReaderHolds'
  BY DEF ManagerInv, ReaderHolds, Store
<1> QED BY <1>1, <1>2, <1>3, <1>4, <1>5, <1>6 DEF ManagerInv

LEMMA StepEndsStep ==
  ASSUME ManagerInv, StepEnds
  PROVE  ManagerInv'
<1>1. StateTypeOK'
  <2>1. steps' \in [Requests -> 0 .. Out]
    BY NumbersAssumption DEF ManagerInv, StateTypeOK, StepEnds, Out
  <2>2. PICK todo \in SUBSET Requests : eng' = [Idle EXCEPT !.at = "finish", !.todo = todo]
    BY DEF StepEnds, ManagerInv, StateTypeOK
  <2> QED BY <2>1, <2>2 DEF ManagerInv, StateTypeOK, StepEnds, Idle
<1>2. HoldsState'
  BY DEF HoldsState, StepEnds, Working
<1>3. TodoHasSteps'
  BY DEF TodoHasSteps, StepEnds, Working
<1>4. NextWritten'
  BY DEF NextWritten, StepEnds
<1>5. PayloadExists'
  BY DEF ManagerInv, PayloadExists, StepEnds, Stored
<1>6. ReaderHolds'
  BY DEF ManagerInv, ReaderHolds, StepEnds
<1> QED BY <1>1, <1>2, <1>3, <1>4, <1>5, <1>6 DEF ManagerInv

LEMMA ReleaseStep ==
  ASSUME ManagerInv, NEW r \in Requests, Release(r)
  PROVE  ManagerInv'
<1>0. /\ Freed(gpu, r, store[r], "gpu") \in Tier(GpuBudget)
      /\ Freed(cpu, r, store[r], "cpu") \in Tier(CpuBudget)
  BY FreedType, NumbersAssumption DEF ManagerInv, StateTypeOK
<1>1. StateTypeOK'
  BY <1>0 DEF ManagerInv, StateTypeOK, Release, Drop, Cleaned
<1>2. HoldsState'
  BY DEF ManagerInv, HoldsState, Release
<1>3. TodoHasSteps'
  BY DEF ManagerInv, TodoHasSteps, Release
<1>4. NextWritten'
  BY DEF NextWritten, Release
<1>5. PayloadExists'
  BY DEF ManagerInv, StateTypeOK, PayloadExists, Release, Drop, Cleaned, Stored
<1>6. ReaderHolds'
  BY DEF ManagerInv, ReaderHolds, Release
<1> QED BY <1>1, <1>2, <1>3, <1>4, <1>5, <1>6 DEF ManagerInv

LEMMA ReleaseFailsStep ==
  ASSUME ManagerInv, NEW r \in Requests, ReleaseFails(r)
  PROVE  ManagerInv'
<1>0. /\ Freed(gpu, r, store[r], "gpu") \in Tier(GpuBudget)
      /\ Freed(cpu, r, store[r], "cpu") \in Tier(CpuBudget)
  BY FreedType, NumbersAssumption DEF ManagerInv, StateTypeOK
<1>1. StateTypeOK'
  BY <1>0 DEF ManagerInv, StateTypeOK, ReleaseFails, Drop, Idle
<1>2. HoldsState'
  BY DEF HoldsState, ReleaseFails, Working
<1>3. TodoHasSteps'
  BY DEF TodoHasSteps, ReleaseFails, Working
<1>4. NextWritten'
  BY DEF NextWritten, ReleaseFails
<1>5. PayloadExists'
  BY DEF ManagerInv, PayloadExists, ReleaseFails, Drop, Stored
<1>6. ReaderHolds'
  BY DEF ManagerInv, ReaderHolds, ReleaseFails
<1> QED BY <1>1, <1>2, <1>3, <1>4, <1>5, <1>6 DEF ManagerInv

LEMMA FinishEndsStep ==
  ASSUME ManagerInv, FinishEnds
  PROVE  ManagerInv'
<1>1. StateTypeOK'
  BY DEF ManagerInv, StateTypeOK, FinishEnds, Idle
<1>2. HoldsState'
  BY DEF HoldsState, FinishEnds, Working, Idle
<1>3. TodoHasSteps'
  BY DEF TodoHasSteps, FinishEnds, Idle
<1>4. NextWritten'
  BY DEF NextWritten, FinishEnds, Idle
<1>5. PayloadExists'
  BY DEF ManagerInv, PayloadExists, FinishEnds, Stored
<1>6. ReaderHolds'
  BY DEF ManagerInv, ReaderHolds, FinishEnds
<1> QED BY <1>1, <1>2, <1>3, <1>4, <1>5, <1>6 DEF ManagerInv

LEMMA CloseStep ==
  ASSUME ManagerInv, Close
  PROVE  ManagerInv'
<1>1. StateTypeOK'
  BY NumbersAssumption DEF ManagerInv, StateTypeOK, Close, Idle, Out
<1>2. HoldsState'
  BY DEF HoldsState, Close, Working
<1>3. TodoHasSteps'
  BY DEF TodoHasSteps, Close, Working
<1>4. NextWritten'
  BY DEF NextWritten, Close
<1>5. PayloadExists'
  BY DEF ManagerInv, PayloadExists, Close, Stored
<1>6. ReaderHolds'
  BY DEF ManagerInv, ReaderHolds, Close
<1> QED BY <1>1, <1>2, <1>3, <1>4, <1>5, <1>6 DEF ManagerInv

LEMMA ClearStep ==
  ASSUME ManagerInv, NEW r \in Requests, Clear(r)
  PROVE  ManagerInv'
<1>0. /\ Freed(gpu, r, store[r], "gpu") \in Tier(GpuBudget)
      /\ Freed(cpu, r, store[r], "cpu") \in Tier(CpuBudget)
  BY FreedType, NumbersAssumption DEF ManagerInv, StateTypeOK
<1>1. StateTypeOK'
  <2>1. files' \in [Requests -> SUBSET Names]
    BY DEF Clear, Cleaned, ManagerInv, StateTypeOK
  <2>2. eng' = eng \/ eng' = [Idle EXCEPT !.at = "closed"]
    BY DEF Clear
  <2>3. store' \in [Requests -> State \cup {None}]
    BY DEF Clear, Drop, ManagerInv, StateTypeOK
  <2>4. failed' \in BOOLEAN
    BY DEF Clear, ManagerInv, StateTypeOK
  <2>5. eng' \in [at : {"idle", "capture", "materialize", "clean", "store", "finish", "dead",
                         "clear", "closed"},
                   batch : SUBSET Requests, todo : SUBSET Requests,
                   cur : Requests \cup {None}, next : State \cup {None}]
    BY <2>2 DEF ManagerInv, StateTypeOK, Idle
  <2> QED BY <1>0, <2>1, <2>3, <2>4, <2>5 DEF Clear, Drop, ManagerInv, StateTypeOK
<1>2. HoldsState'
  BY DEF HoldsState, Clear, Working, Idle
<1>3. TodoHasSteps'
  BY DEF ManagerInv, TodoHasSteps, Clear, Idle
<1>4. NextWritten'
  BY DEF NextWritten, Clear, Idle
<1>5. PayloadExists'
  BY DEF ManagerInv, StateTypeOK, PayloadExists, Clear, Drop, Cleaned, Stored
<1>6. ReaderHolds'
  BY DEF ManagerInv, ReaderHolds, Clear
<1> QED BY <1>1, <1>2, <1>3, <1>4, <1>5, <1>6 DEF ManagerInv

LEMMA ClearedStep ==
  ASSUME ManagerInv, Cleared
  PROVE  ManagerInv'
<1>1. StateTypeOK'
  BY DEF ManagerInv, StateTypeOK, Cleared, Idle
<1>2. HoldsState'
  BY DEF HoldsState, Cleared, Working
<1>3. TodoHasSteps'
  BY DEF TodoHasSteps, Cleared, Working
<1>4. NextWritten'
  BY DEF NextWritten, Cleared
<1>5. PayloadExists'
  BY DEF PayloadExists, Cleared, Stored
<1>6. ReaderHolds'
  BY DEF ManagerInv, ReaderHolds, Cleared
<1> QED BY <1>1, <1>2, <1>3, <1>4, <1>5, <1>6 DEF ManagerInv

LEMMA ReadStateStep ==
  ASSUME ManagerInv, NEW r \in Requests, ReadState(r)
  PROVE  ManagerInv'
<1>1. StateTypeOK'
  BY DEF ManagerInv, StateTypeOK, ReadState
<1>2. HoldsState'
  BY DEF ManagerInv, HoldsState, ReadState
<1>3. TodoHasSteps'
  BY DEF ManagerInv, TodoHasSteps, ReadState
<1>4. NextWritten'
  BY DEF ManagerInv, NextWritten, ReadState
<1>5. PayloadExists'
  BY DEF ManagerInv, PayloadExists, ReadState, Stored
<1>6. ReaderHolds'
  BY DEF ManagerInv, StateTypeOK, ReaderHolds, ReadState
<1> QED BY <1>1, <1>2, <1>3, <1>4, <1>5, <1>6 DEF ManagerInv

LEMMA LoadPayloadStep ==
  ASSUME ManagerInv, LoadPayload
  PROVE  ManagerInv'
<1>1. StateTypeOK'
  BY DEF ManagerInv, StateTypeOK, LoadPayload, NoReader
<1>2. HoldsState'
  BY DEF ManagerInv, HoldsState, LoadPayload
<1>3. TodoHasSteps'
  BY DEF ManagerInv, TodoHasSteps, LoadPayload
<1>4. NextWritten'
  BY DEF ManagerInv, NextWritten, LoadPayload
<1>5. PayloadExists'
  BY DEF ManagerInv, PayloadExists, LoadPayload, Stored
<1>6. ReaderHolds'
  BY DEF ManagerInv, ReaderHolds, NoReader, LoadPayload
<1> QED BY <1>1, <1>2, <1>3, <1>4, <1>5, <1>6 DEF ManagerInv

LEMMA ResumeStep ==
  ASSUME ManagerInv, Resume
  PROVE  ManagerInv'
<1>1. StateTypeOK'
  <2>1. CASE steps' = steps
    BY <2>1 DEF Resume, ManagerInv, StateTypeOK, NoReader
  <2>2. CASE /\ steps[reader.id] = Out /\ reader.state.step < Total
             /\ steps' = [steps EXCEPT ![reader.id] = reader.state.step]
    <3>1. reader.id \in Requests /\ reader.state.step \in 0 .. Out
      BY NumbersAssumption DEF Resume, ManagerInv, ReaderHolds, State, Out
    <3> QED BY <2>2, <3>1 DEF Resume, ManagerInv, StateTypeOK, NoReader
  <2> QED BY <2>1, <2>2 DEF Resume
<1>2. HoldsState'
  BY DEF ManagerInv, HoldsState, Resume
<1>3. TodoHasSteps'
  BY NumbersAssumption DEF ManagerInv, StateTypeOK, TodoHasSteps, Resume, Out
<1>4. NextWritten'
  BY DEF ManagerInv, NextWritten, Resume
<1>5. PayloadExists'
  BY DEF ManagerInv, PayloadExists, Resume, Stored
<1>6. ReaderHolds'
  BY DEF ReaderHolds, NoReader, Resume
<1> QED BY <1>1, <1>2, <1>3, <1>4, <1>5, <1>6 DEF ManagerInv

-----------------------------------------------------------------------------
LEMMA ManagerNext == ManagerInv /\ [Next]_vars => ManagerInv'
<1> SUFFICES ASSUME ManagerInv, [Next]_vars PROVE ManagerInv'
  OBVIOUS
<1>1. CASE EngineNext
  BY <1>1, AddRequestStep, LeaveEarlyStep, CaptureStep, ReleaseStep, ReleaseFailsStep,
     ClearStep, StepDoneStep, MaterializeStep, MaterializeFailsStep, CleanStep,
     CleanFailsStep, StoreStep, StepEndsStep, FinishEndsStep, CloseStep, ClearedStep
  DEF EngineNext
<1>2. CASE (\E r \in Requests : ReadState(r)) \/ LoadPayload \/ Resume
  BY <1>2, ReadStateStep, LoadPayloadStep, ResumeStep
<1>3. CASE UNCHANGED vars
  BY <1>3 DEF vars, ManagerInv, StateTypeOK, HoldsState, ReaderHolds, TodoHasSteps,
              NextWritten, PayloadExists, Stored, OnDisk
<1> QED BY <1>1, <1>2, <1>3 DEF Next

\* The invariant holds in every state, whatever fails and however the two
\* threads interleave.
THEOREM ManagerInvAlways == Spec => []ManagerInv
BY ManagerInit, ManagerNext, PTL DEF Spec

\* The accounted bytes of a tier never exceed its budget and never go below 0,
\* and what the thread and the caller hold is always a state, whatever the
\* sizes, the budgets and the failures.
THEOREM StateTypeCorrect == Spec => []StateTypeOK
<1>1. ManagerInv => StateTypeOK
  BY DEF ManagerInv
<1> QED BY <1>1, ManagerInvAlways, PTL

\* A checkpoint kept on disk can be read at any moment, except between the
\* removal of the old file and the assignment of the new state, whatever write
\* or removal fails and wherever the engine's thread dies.
THEOREM PayloadAlwaysExists == Spec => []PayloadExists
<1>1. ManagerInv => PayloadExists
  BY DEF ManagerInv
<1> QED BY <1>1, ManagerInvAlways, PTL
-----------------------------------------------------------------------------
(* Bytes of a set.  The sum is a recursive function on the subsets of the  *)
(* set, that takes a chosen element first: that it exists, that any        *)
(* element may be taken first and that only the sizes of the set's own     *)
(* elements matter follow by a minimal counterexample.                     *)

SizeSum(st, S) == MapThenSumSet(LAMBDA r : st[r].size, S)

Pick(s) == CHOOSE x \in s : TRUE
IsSum(g, st, D) ==
  g = [s \in D |-> IF s = {} THEN 0 ELSE st[Pick(s)].size + g[s \ {Pick(s)}]]
SumFcn(st, S) == CHOOSE g : IsSum(g, st, SUBSET S)

LEMMA SizeSumFcn == \A st, S : SizeSum(st, S) = SumFcn(st, S)[S]
BY DEF SizeSum, SumFcn, IsSum, Pick, MapThenSumSet, MapThenFoldSet

LEMMA BytesNow == ASSUME NEW p PROVE Bytes(Stored(p)) = SizeSum(store, Stored(p))
BY DEF Bytes, SizeSum, MapThenSumSet, MapThenFoldSet

LEMMA BytesNext == ASSUME NEW p PROVE Bytes(Stored(p))' = SizeSum(store', Stored(p)')
BY DEF Bytes, SizeSum, MapThenSumSet, MapThenFoldSet

LEMMA LeastOf ==
  ASSUME NEW B \in SUBSET Nat, B # {}
  PROVE  \E n \in B : \A m \in B : n <= m
<1>1. PICK n \in B : \A m \in B : <<m, n>> \notin OpToRel(<, Nat)
  BY NatLessThanWellFounded, WFMin
<1>2. \A m \in B : ~ (m < n)
  BY <1>1 DEF OpToRel
<1> QED BY <1>2

LEMMA PickIn == ASSUME NEW s, s # {} PROVE Pick(s) \in s
BY DEF Pick

\* What a solution says of a set of its domain.
LEMMA SumStep ==
  ASSUME NEW g, NEW st, NEW D, IsSum(g, st, D), NEW s \in D
  PROVE  /\ s = {} => g[s] = 0
         /\ s # {} => g[s] = st[Pick(s)].size + g[s \ {Pick(s)}]
<1>1. \A t \in D : g[t] = IF t = {} THEN 0 ELSE st[Pick(t)].size + g[t \ {Pick(t)}]
  BY DEF IsSum
<1> QED BY <1>1

LEMMA SubsetStep ==
  ASSUME NEW g, NEW st, NEW S, IsSum(g, st, SUBSET S), NEW s, s \subseteq S
  PROVE  /\ s = {} => g[s] = 0
         /\ s # {} => g[s] = st[Pick(s)].size + g[s \ {Pick(s)}]
<1>1. s \in SUBSET S
  OBVIOUS
<1> QED BY <1>1, SumStep

LEMMA SmallerSet ==
  ASSUME NEW s, IsFiniteSet(s), NEW x \in s
  PROVE  /\ IsFiniteSet(s \ {x})
         /\ Cardinality(s) \in Nat /\ Cardinality(s \ {x}) \in Nat
         /\ Cardinality(s \ {x}) + 1 = Cardinality(s)
<1>1. /\ IsFiniteSet(s \ {x}) /\ Cardinality(s) \in Nat /\ Cardinality(s \ {x}) \in Nat
      /\ Cardinality(s \ {x}) = Cardinality(s) - 1
  BY FS_RemoveElement, FS_CardinalityType
<1> QED BY <1>1

\* The recursion has a solution: a solution for the sets of fewer than n
\* elements gives one for those of n.
LEMMA SumExists ==
  ASSUME NEW st, NEW S, IsFiniteSet(S)
  PROVE  \E g : IsSum(g, st, SUBSET S)
<1> DEFINE Small(n) == {s \in SUBSET S : Cardinality(s) <= n}
           B == {n \in Nat : ~ \E g : IsSum(g, st, Small(n))}
<1>0. \A s \in SUBSET S :
        IsFiniteSet(s) /\ Cardinality(s) \in Nat /\ Cardinality(s) <= Cardinality(S)
  BY FS_Subset, FS_CardinalityType
<1>1. B = {}
  <2> SUFFICES ASSUME B # {} PROVE FALSE
    OBVIOUS
  <2>1. PICK n \in B : \A m \in B : n <= m
    BY LeastOf
  <2>2. n \in Nat /\ ~ \E g : IsSum(g, st, Small(n))
    OBVIOUS
  <2>3. CASE n = 0
    <3>1. \A s \in Small(0) : s = {}
      BY <1>0, FS_EmptySet
    <3>2. IsSum([s \in Small(0) |-> 0], st, Small(0))
      BY <3>1 DEF IsSum
    <3> QED BY <2>2, <2>3, <3>2
  <2>4. CASE n # 0
    <3>0. n - 1 \in Nat /\ ~(n <= n - 1)
      BY <2>2, <2>4
    <3>1. n - 1 \in Nat /\ n - 1 \notin B
      BY <2>1, <3>0
    <3>2. PICK g : IsSum(g, st, Small(n - 1))
      BY <3>1
    <3> DEFINE h == [s \in Small(n) |->
                       IF s = {} THEN 0 ELSE st[Pick(s)].size + g[s \ {Pick(s)}]]
    <3>3. \A s \in Small(n) : s # {} => s \ {Pick(s)} \in Small(n - 1)
      <4> TAKE s \in Small(n)
      <4> HAVE s # {}
      <4>1. Pick(s) \in s
        BY PickIn
      <4>2. /\ IsFiniteSet(s) /\ s \in SUBSET S /\ Cardinality(s) <= n
        BY <1>0
      <4>3. /\ Cardinality(s) \in Nat /\ Cardinality(s \ {Pick(s)}) \in Nat
            /\ Cardinality(s \ {Pick(s)}) + 1 = Cardinality(s)
        BY <4>1, <4>2, SmallerSet
      <4>4. Cardinality(s \ {Pick(s)}) <= n - 1
        BY <2>2, <4>2, <4>3
      <4> QED BY <4>2, <4>4
    <3>4. \A t \in Small(n - 1) : t \in Small(n) /\ h[t] = g[t]
      <4> TAKE t \in Small(n - 1)
      <4>1. t \in Small(n)
        BY <1>0, <2>2
      <4>2. h[t] = IF t = {} THEN 0 ELSE st[Pick(t)].size + g[t \ {Pick(t)}]
        BY <4>1
      <4>3. g[t] = IF t = {} THEN 0 ELSE st[Pick(t)].size + g[t \ {Pick(t)}]
        BY <3>2, SumStep
      <4> QED BY <4>1, <4>2, <4>3
    <3>5. \A s \in Small(n) : s # {} => h[s \ {Pick(s)}] = g[s \ {Pick(s)}]
      BY <3>3, <3>4
    <3>6. h = [s \in Small(n) |-> IF s = {} THEN 0 ELSE st[Pick(s)].size + h[s \ {Pick(s)}]]
      BY <3>5
    <3>7. IsSum(h, st, Small(n))
      BY <3>6 DEF IsSum
    <3> QED BY <2>2, <3>7
  <2> QED BY <2>3, <2>4
<1>2. Small(Cardinality(S)) = SUBSET S /\ Cardinality(S) \in Nat
  BY <1>0
<1> QED BY <1>1, <1>2

LEMMA SumFcnIs == ASSUME NEW st, NEW S, IsFiniteSet(S) PROVE IsSum(SumFcn(st, S), st, SUBSET S)
BY SumExists DEF SumFcn

\* Two sums agree on a set where the sizes do.
LEMMA SumAgree ==
  ASSUME NEW st1, NEW st2, NEW S, NEW T, NEW g1, NEW g2,
         IsSum(g1, st1, SUBSET S), IsSum(g2, st2, SUBSET T),
         NEW U, U \subseteq S, U \subseteq T, IsFiniteSet(U),
         \A r \in U : st1[r].size = st2[r].size
  PROVE  g1[U] = g2[U]
<1> DEFINE B == {n \in Nat : \E s \in SUBSET U : Cardinality(s) = n /\ g1[s] # g2[s]}
<1>1. B = {}
  <2> SUFFICES ASSUME B # {} PROVE FALSE
    OBVIOUS
  <2>1. PICK n \in B : \A m \in B : n <= m
    BY LeastOf
  <2>2. PICK s \in SUBSET U : Cardinality(s) = n /\ g1[s] # g2[s]
    OBVIOUS
  <2>3. IsFiniteSet(s) /\ s \subseteq S /\ s \subseteq T
    BY FS_Subset
  <2>4. s # {}
    BY <2>2, <2>3, SubsetStep
  <2>5. Pick(s) \in s
    BY <2>4, PickIn
  <2>6. /\ g1[s] = st1[Pick(s)].size + g1[s \ {Pick(s)}]
        /\ g2[s] = st2[Pick(s)].size + g2[s \ {Pick(s)}]
    BY <2>3, <2>4, SubsetStep
  <2>7. g1[s \ {Pick(s)}] # g2[s \ {Pick(s)}]
    BY <2>2, <2>5, <2>6
  <2>8. /\ Cardinality(s) \in Nat /\ Cardinality(s \ {Pick(s)}) \in Nat
        /\ Cardinality(s \ {Pick(s)}) + 1 = Cardinality(s)
    BY <2>3, <2>5, SmallerSet
  <2>9. Cardinality(s \ {Pick(s)}) \in B
    BY <2>7, <2>8
  <2>10. n <= Cardinality(s \ {Pick(s)})
    BY <2>1, <2>9
  <2> QED BY <2>2, <2>8, <2>10
<1>2. Cardinality(U) \in Nat
  BY FS_CardinalityType
<1>3. Cardinality(U) \notin B
  BY <1>1
<1> QED BY <1>2, <1>3

\* Sums of naturals are naturals, and any element may be taken first.
LEMMA SumAny ==
  ASSUME NEW st, NEW S, IsFiniteSet(S), NEW g, IsSum(g, st, SUBSET S),
         \A r \in S : st[r].size \in Nat
  PROVE  /\ g[S] \in Nat
         /\ \A x \in S : g[S] = st[x].size + g[S \ {x}]
<1> DEFINE Good(s) == g[s] \in Nat /\ \A x \in s : g[s] = st[x].size + g[s \ {x}]
           B == {n \in Nat : \E s \in SUBSET S : Cardinality(s) = n /\ ~Good(s)}
<1>1. B = {}
  <2> SUFFICES ASSUME B # {} PROVE FALSE
    OBVIOUS
  <2>1. PICK n \in B : \A m \in B : n <= m
    BY LeastOf
  <2>2. PICK s \in SUBSET S : Cardinality(s) = n /\ ~Good(s)
    OBVIOUS
  <2>3. IsFiniteSet(s)
    BY FS_Subset
  <2>4. \A x \in s : Good(s \ {x})
    <3> TAKE x \in s
    <3>1. /\ Cardinality(s) \in Nat /\ Cardinality(s \ {x}) \in Nat
          /\ Cardinality(s \ {x}) + 1 = Cardinality(s)
      BY <2>3, SmallerSet
    <3>2. ~(n <= Cardinality(s \ {x}))
      BY <2>2, <3>1
    <3>3. Cardinality(s \ {x}) \notin B
      BY <2>1, <3>2
    <3>4. s \ {x} \in SUBSET S
      OBVIOUS
    <3> QED BY <3>1, <3>3, <3>4
  <2>5. s # {}
    <3>1. SUFFICES ASSUME s = {} PROVE FALSE
      OBVIOUS
    <3>2. g[s] = 0
      BY <3>1, SubsetStep
    <3> QED BY <2>2, <3>1, <3>2
  <2> DEFINE p == Pick(s)
  <2>6. p \in s
    BY <2>5, PickIn
  <2>7. g[s] = st[p].size + g[s \ {p}]
    BY <2>5, SubsetStep
  <2> HIDE DEF p
  <2>8. st[p].size \in Nat /\ g[s \ {p}] \in Nat
    BY <2>4, <2>6
  <2>9. g[s] \in Nat
    BY <2>7, <2>8
  <2>10. ASSUME NEW x \in s PROVE g[s] = st[x].size + g[s \ {x}]
    <3>1. CASE x = p
      BY <2>7, <3>1
    <3>2. CASE x # p
      <4> DEFINE a == (s \ {p}) \ {x}
      <4>1. a = (s \ {x}) \ {p}
        OBVIOUS
      <4>2. g[s \ {p}] = st[x].size + g[a]
        BY <2>4, <2>6, <3>2
      <4>3. g[s \ {x}] = st[p].size + g[a]
        <5>1. Good(s \ {x}) /\ p \in s \ {x}
          BY <2>4, <2>6, <3>2
        <5>2. g[s \ {x}] = st[p].size + g[(s \ {x}) \ {p}]
          BY <5>1
        <5> QED BY <4>1, <5>2
      <4>4. g[a] \in Nat
        <5>1. Good(s \ {p}) /\ x \in s \ {p}
          BY <2>4, <2>6, <3>2
        <5>2. \E c \in SUBSET S : c = a /\ Good(c)
          <6>1. /\ IsFiniteSet(a)
                /\ Cardinality(a) \in Nat /\ Cardinality(a) < Cardinality(s)
                /\ Cardinality(s) \in Nat
            <7>1. /\ IsFiniteSet(s \ {p}) /\ Cardinality(s) \in Nat
                  /\ Cardinality(s \ {p}) \in Nat /\ Cardinality(s \ {p}) + 1 = Cardinality(s)
              BY <2>3, <2>6, SmallerSet
            <7>2. /\ IsFiniteSet(a) /\ Cardinality(a) \in Nat
                  /\ Cardinality(a) + 1 = Cardinality(s \ {p})
              BY <5>1, <7>1, SmallerSet
            <7> QED BY <7>1, <7>2
          <6>2. ~(n <= Cardinality(a))
            BY <2>2, <6>1
          <6>3. Cardinality(a) \notin B
            BY <2>1, <6>2
          <6>4. a \in SUBSET S
            OBVIOUS
          <6> QED BY <6>1, <6>3, <6>4
        <5> QED BY <5>2
      <4>5. st[x].size \in Nat
        OBVIOUS
      <4> HIDE DEF a
      <4> QED BY <2>7, <2>8, <4>2, <4>3, <4>4, <4>5
    <3> QED BY <3>1, <3>2
  <2> QED BY <2>2, <2>9, <2>10
<1>2. Cardinality(S) \in Nat /\ Cardinality(S) \notin B
  BY <1>1, FS_CardinalityType
<1>3. Good(S)
  BY <1>2
<1> QED BY <1>3

LEMMA SumEmpty == ASSUME NEW st PROVE SizeSum(st, {}) = 0
<1>1. IsSum(SumFcn(st, {}), st, SUBSET {})
  BY FS_EmptySet, SumFcnIs
<1> QED BY <1>1, SubsetStep, SizeSumFcn

LEMMA SumType ==
  ASSUME NEW st, NEW S, IsFiniteSet(S), \A r \in S : st[r].size \in Nat
  PROVE  SizeSum(st, S) \in Nat
<1>1. IsSum(SumFcn(st, S), st, SUBSET S)
  BY SumFcnIs
<1>2. SumFcn(st, S)[S] \in Nat
  BY <1>1, SumAny
<1> QED BY <1>2, SizeSumFcn

LEMMA SumRemove ==
  ASSUME NEW st, NEW S, IsFiniteSet(S), \A r \in S : st[r].size \in Nat, NEW x \in S
  PROVE  SizeSum(st, S) = st[x].size + SizeSum(st, S \ {x})
<1> DEFINE R == S \ {x}
<1>0. IsFiniteSet(R) /\ R \subseteq S
  BY FS_RemoveElement
<1>1. SumFcn(st, S)[S] = st[x].size + SumFcn(st, S)[R]
  <2>1. IsSum(SumFcn(st, S), st, SUBSET S)
    BY SumFcnIs
  <2> QED BY <2>1, SumAny
<1> HIDE DEF R
<1>2. IsSum(SumFcn(st, S), st, SUBSET S) /\ IsSum(SumFcn(st, R), st, SUBSET R)
  BY <1>0, SumFcnIs
<1>3. SumFcn(st, S)[R] = SumFcn(st, R)[R]
  BY <1>0, <1>2, SumAgree
<1>4. SizeSum(st, S) = st[x].size + SizeSum(st, R)
  BY <1>1, <1>3, SizeSumFcn
<1> QED BY <1>4 DEF R

LEMMA SumSame ==
  ASSUME NEW st1, NEW st2, NEW S, IsFiniteSet(S), \A r \in S : st1[r].size = st2[r].size
  PROVE  SizeSum(st1, S) = SizeSum(st2, S)
<1>1. IsSum(SumFcn(st1, S), st1, SUBSET S) /\ IsSum(SumFcn(st2, S), st2, SUBSET S)
  BY SumFcnIs
<1>2. S \subseteq S
  OBVIOUS
<1>3. SumFcn(st1, S)[S] = SumFcn(st2, S)[S]
  BY <1>1, <1>2, SumAgree
<1> QED BY <1>3, SizeSumFcn

-----------------------------------------------------------------------------
(* The accounts.                                                           *)

\* The stored requests of a tier but for the one whose state the thread is
\* about to replace, and what the thread has charged for the new state.
Kept(p) == {r \in Stored(p) : ~(Capturing /\ r = eng.cur)}
Coming(p) == Capturing /\ eng.next.placement = p
TierMatches(tier, p) ==
  /\ tier.held = Kept(p) \cup (IF Coming(p) THEN {eng.cur} ELSE {})
  /\ tier.used = SizeSum(store, Kept(p)) + (IF Coming(p) THEN eng.next.size ELSE 0)

\* The old file is there until it is removed, the new one once it is written.
OldFile(r) ==
  IF r \in Stored("disk") /\ ~(eng.at = "store" /\ r = eng.cur) THEN {store[r].file} ELSE {}
NewFile(r) ==
  IF eng.at \in {"clean", "store"} /\ r = eng.cur /\ eng.next.placement = "disk"
  THEN {eng.next.file} ELSE {}
FilesMatch == \A r \in Requests : files[r] = OldFile(r) \cup NewFile(r)

\* Nothing is captured or released once an operation has failed.
FailedStops == failed => eng.at \in {"dead", "clear", "closed"}

HasState == {r \in Requests : store[r] # None}

AccountsInv ==
  /\ IsFiniteSet(HasState)
  /\ FailedStops
  /\ TiersFit
  /\ ~failed => TierMatches(gpu, "gpu") /\ TierMatches(cpu, "cpu") /\ FilesMatch

LEMMA StoredFacts ==
  ASSUME StateTypeOK, IsFiniteSet(HasState), NEW p, NEW S \in SUBSET Stored(p)
  PROVE  IsFiniteSet(S) /\ \A r \in S : r \in Requests /\ store[r] \in State /\ store[r].size \in Nat
<1>1. S \subseteq HasState
  BY DEF Stored, HasState
<1>2. \A r \in S : r \in Requests /\ store[r] \in State
  BY DEF Stored, StateTypeOK
<1>3. \A s \in State : s.size \in Nat
  BY NumbersAssumption DEF State
<1> QED BY <1>1, <1>2, <1>3, FS_Subset

\* A tier that accounts for its states still does when one is released.
LEMMA FreedMatches ==
  ASSUME StateTypeOK, IsFiniteSet(HasState), NEW r \in Requests, NEW p, NEW tier,
         tier.held = Stored(p), tier.used = SizeSum(store, Stored(p))
  PROVE  /\ Freed(tier, r, store[r], p).held = Stored(p) \ {r}
         /\ Freed(tier, r, store[r], p).used = SizeSum(store, Stored(p) \ {r})
<1>1. CASE r \in Stored(p)
  <2>1. store[r] # None /\ store[r].placement = p
    BY <1>1 DEF Stored
  <2>2. IsFiniteSet(Stored(p)) /\ \A q \in Stored(p) : store[q].size \in Nat
    BY StoredFacts
  <2>3. SizeSum(store, Stored(p)) = store[r].size + SizeSum(store, Stored(p) \ {r})
    BY <1>1, <2>2, SumRemove
  <2>4. SizeSum(store, Stored(p) \ {r}) \in Nat /\ store[r].size \in Nat
    BY <1>1, <2>2, FS_RemoveElement, SumType
  <2>5. (IF store[r].size > tier.used THEN 0 ELSE tier.used - store[r].size)
        = SizeSum(store, Stored(p) \ {r})
    BY <2>3, <2>4
  <2> QED BY <1>1, <2>1, <2>5 DEF Freed
<1>2. CASE r \notin Stored(p)
  <2>1. Stored(p) \ {r} = Stored(p)
    BY <1>2
  <2>2. Freed(tier, r, store[r], p) = tier
    BY <1>2 DEF Freed
  <2> QED BY <2>1, <2>2
<1> QED BY <1>1, <1>2

\* Between two captures a tier accounts for exactly its stored states.
LEMMA QuietMatches ==
  ASSUME StateTypeOK, IsFiniteSet(HasState), ~Capturing, NEW tier, NEW p
  PROVE  /\ Kept(p) = Stored(p) /\ ~Coming(p)
         /\ TierMatches(tier, p) <=>
              tier.held = Stored(p) /\ tier.used = SizeSum(store, Stored(p))
<1>1. Kept(p) = Stored(p) /\ ~Coming(p)
  BY DEF Kept, Coming
<1>2. SizeSum(store, Stored(p)) \in Nat
  BY StoredFacts, SumType
<1> HIDE DEF Capturing
<1>3. SizeSum(store, Stored(p)) + 0 = SizeSum(store, Stored(p))
  BY <1>2
<1> QED BY <1>1, <1>3 DEF TierMatches

\* The same of the next state.
LEMMA QuietMatchesNext ==
  ASSUME StateTypeOK', IsFiniteSet(HasState)', ~Capturing', NEW p
  PROVE  /\ (gpu'.held = Stored(p)' /\ gpu'.used = SizeSum(store', Stored(p)'))
              => TierMatches(gpu, p)'
         /\ (cpu'.held = Stored(p)' /\ cpu'.used = SizeSum(store', Stored(p)'))
              => TierMatches(cpu, p)'
<1>1. Kept(p)' = Stored(p)' /\ ~Coming(p)'
  BY DEF Kept, Coming
<1>2. IsFiniteSet(Stored(p)') /\ \A r \in Stored(p)' : store'[r].size \in Nat
  <2>1. Stored(p)' \in SUBSET HasState'
    BY DEF Stored, HasState
  <2>2. \A r \in Stored(p)' : store'[r] \in State
    BY DEF Stored, StateTypeOK
  <2>3. \A s \in State : s.size \in Nat
    BY NumbersAssumption DEF State
  <2> QED BY <2>1, <2>2, <2>3, FS_Subset
<1>3. SizeSum(store', Stored(p)') \in Nat
  <2> DEFINE st == store'
             S == Stored(p)'
  <2>1. IsFiniteSet(S) /\ \A r \in S : st[r].size \in Nat
    BY <1>2
  <2> HIDE DEF st, S
  <2>2. SizeSum(st, S) \in Nat
    BY <2>1, SumType
  <2> QED BY <2>2 DEF st, S
<1>4. SizeSum(store', Stored(p)') + 0 = SizeSum(store', Stored(p)')
  BY <1>3
<1> QED BY <1>1, <1>4 DEF TierMatches

LEMMA StateNotNone == ASSUME NEW s \in State PROVE s # None
BY NoneAssumption

LEMMA AccountsInit == Init => AccountsInv
<1> SUFFICES ASSUME Init PROVE AccountsInv
  OBVIOUS
<1>1. HasState = {} /\ \A p : Stored(p) = {} /\ Kept(p) = {} /\ ~Coming(p)
  BY DEF Init, HasState, Stored, Kept, Coming, Capturing, Idle
<1>2. IsFiniteSet(HasState) /\ SizeSum(store, {}) = 0
  BY <1>1, FS_EmptySet, SumEmpty
<1>3. TiersFit
  BY <1>1, <1>2, BytesNow, NumbersAssumption DEF TiersFit
<1>4. TierMatches(gpu, "gpu") /\ TierMatches(cpu, "cpu")
  BY <1>1, <1>2 DEF Init, TierMatches
<1>5. FilesMatch
  BY <1>1 DEF Init, FilesMatch, OldFile, NewFile, Idle
<1>6. FailedStops
  BY DEF Init, FailedStops
<1> QED BY <1>2, <1>3, <1>4, <1>5, <1>6 DEF AccountsInv

\* A step that changes neither the store nor the tiers nor the files, and does not
\* touch what the thread holds.
Still == store' = store /\ gpu' = gpu /\ cpu' = cpu /\ files' = files /\ failed' = failed

LEMMA TiersFitStill == ASSUME TiersFit, store' = store PROVE TiersFit'
<1>1. ASSUME NEW p PROVE Bytes(Stored(p))' = Bytes(Stored(p))
  <2>1. Stored(p)' = Stored(p)
    BY DEF Stored
  <2>2. SizeSum(store', Stored(p)') = SizeSum(store, Stored(p))
    BY <2>1
  <2>3. Bytes(Stored(p))' = SizeSum(store', Stored(p)')
    BY BytesNext
  <2>4. Bytes(Stored(p)) = SizeSum(store, Stored(p))
    BY BytesNow
  <2> QED BY <2>2, <2>3, <2>4
<1> QED BY <1>1 DEF TiersFit

LEMMA HasStateStill ==
  ASSUME IsFiniteSet(HasState), store' = store PROVE IsFiniteSet(HasState)'
BY DEF HasState

LEMMA StillStep ==
  ASSUME AccountsInv, Still, eng' = eng
  PROVE  AccountsInv'
<1>1. TiersFit' /\ IsFiniteSet(HasState)'
  BY TiersFitStill, HasStateStill DEF AccountsInv, Still
<1>2. FailedStops'
  BY DEF AccountsInv, Still, FailedStops
<1>3. ASSUME ~failed' PROVE TierMatches(gpu, "gpu")' /\ TierMatches(cpu, "cpu")' /\ FilesMatch'
  <2>1. TierMatches(gpu, "gpu") /\ TierMatches(cpu, "cpu") /\ FilesMatch
    BY <1>3 DEF AccountsInv, Still
  <2>2. \A p : Kept(p)' = Kept(p) /\ Coming(p)' = Coming(p)
    BY DEF Still, Kept, Coming, Stored, Capturing
  <2>3. TierMatches(gpu, "gpu")' /\ TierMatches(cpu, "cpu")'
    BY <2>1, <2>2 DEF Still, TierMatches
  <2>4. FilesMatch'
    BY <2>1 DEF Still, FilesMatch, OldFile, NewFile, Stored
  <2> QED BY <2>3, <2>4
<1> QED BY <1>1, <1>2, <1>3 DEF AccountsInv

\* A step of the engine's thread outside a capture.
LEMMA QuietStep ==
  ASSUME ManagerInv, ManagerInv', AccountsInv, Still, ~Capturing, ~Capturing', FailedStops'
  PROVE  AccountsInv'
<1>1. TiersFit' /\ IsFiniteSet(HasState)'
  BY TiersFitStill, HasStateStill DEF AccountsInv, Still
<1>2. ASSUME ~failed' PROVE TierMatches(gpu, "gpu")' /\ TierMatches(cpu, "cpu")' /\ FilesMatch'
  <2>1. TierMatches(gpu, "gpu") /\ TierMatches(cpu, "cpu") /\ FilesMatch
    BY <1>2 DEF AccountsInv, Still
  <2>2. \A p : Kept(p)' = Kept(p) /\ ~Coming(p)' /\ ~Coming(p)
    BY DEF Still, Kept, Coming, Stored
  <2>3. TierMatches(gpu, "gpu")' /\ TierMatches(cpu, "cpu")'
    BY <2>1, <2>2 DEF Still, TierMatches
  <2>4. FilesMatch'
    BY <2>1 DEF Still, FilesMatch, OldFile, NewFile, Stored, Capturing
  <2> QED BY <2>3, <2>4
<1> QED BY <1>1, <1>2 DEF AccountsInv

\* The step that takes a place moves the thread into a capture: the request leaves
\* its old tier, and the one that takes the new state is charged for it.
LEMMA AccountsCapture ==
  ASSUME ManagerInv, AccountsInv, NEW r \in Requests, Capture(r)
  PROVE  AccountsInv'
<1>0. PICK size \in Sizes :
        LET p == Place(r, size, store[r]) IN
        /\ gpu' = p.gpu /\ cpu' = p.cpu
        /\ eng' = [eng EXCEPT !.at = "materialize", !.cur = r, !.todo = @ \ {r},
                     !.next = [step |-> steps[r], size |-> size,
                               placement |-> p.placement, file |-> None]]
  BY DEF Capture
<1> DEFINE g == Freed(gpu, r, store[r], "gpu")
           c == Freed(cpu, r, store[r], "cpu")
           place == Place(r, size, store[r]).placement
<1>1. /\ eng'.at = "materialize" /\ eng'.cur = r
      /\ eng'.next.size = size /\ eng'.next.placement = place
  BY <1>0 DEF ManagerInv, StateTypeOK
<1>2. /\ place \in {"gpu", "cpu", "disk"}
      /\ gpu' = IF place = "gpu" THEN Charged(g, r, size) ELSE g
      /\ cpu' = IF place = "cpu" THEN Charged(c, r, size) ELSE c
  BY <1>0, Zenon DEF Place
<1>3. store' = store /\ files' = files /\ failed' = failed /\ eng.at = "capture"
  BY DEF Capture
<1> HIDE DEF place
<1>4. TiersFit' /\ IsFiniteSet(HasState)'
  BY <1>3, TiersFitStill, HasStateStill DEF AccountsInv
<1>5. ~failed /\ FailedStops'
  BY <1>3 DEF AccountsInv, FailedStops
<1>6. StateTypeOK /\ IsFiniteSet(HasState) /\ ~Capturing
  BY <1>3 DEF ManagerInv, AccountsInv, Capturing
<1>7. /\ gpu.held = Stored("gpu") /\ gpu.used = SizeSum(store, Stored("gpu"))
      /\ cpu.held = Stored("cpu") /\ cpu.used = SizeSum(store, Stored("cpu"))
  BY <1>5, <1>6, QuietMatches DEF AccountsInv
<1>8. /\ g.held = Stored("gpu") \ {r} /\ g.used = SizeSum(store, Stored("gpu") \ {r})
      /\ c.held = Stored("cpu") \ {r} /\ c.used = SizeSum(store, Stored("cpu") \ {r})
  BY <1>6, <1>7, FreedMatches
<1> HIDE DEF g, c
<1>9. \A p : Kept(p)' = Stored(p) \ {r} /\ (Coming(p)' <=> place = p)
  BY <1>1, <1>3 DEF Kept, Stored, Coming, Capturing
<1>10. \A p : SizeSum(store, Stored(p) \ {r}) + 0 = SizeSum(store, Stored(p) \ {r})
  <2> TAKE p
  <2>1. IsFiniteSet(Stored(p) \ {r}) /\ \A q \in Stored(p) \ {r} : store[q].size \in Nat
    BY <1>6, StoredFacts
  <2>2. SizeSum(store, Stored(p) \ {r}) \in Nat
    BY <2>1, SumType
  <2> QED BY <2>2
<1>11. TierMatches(gpu, "gpu")'
  <2>1. CASE place = "gpu"
    BY <1>1, <1>2, <1>3, <1>8, <1>9, <2>1 DEF TierMatches, Charged
  <2>2. CASE place # "gpu"
    BY <1>2, <1>3, <1>8, <1>9, <1>10, <2>2 DEF TierMatches
  <2> QED BY <2>1, <2>2
<1>12. TierMatches(cpu, "cpu")'
  <2>1. CASE place = "cpu"
    BY <1>1, <1>2, <1>3, <1>8, <1>9, <2>1 DEF TierMatches, Charged
  <2>2. CASE place # "cpu"
    BY <1>2, <1>3, <1>8, <1>9, <1>10, <2>2 DEF TierMatches
  <2> QED BY <2>1, <2>2
<1>13. FilesMatch'
  <2>1. \A q \in Requests : files[q] = OldFile(q) \cup NewFile(q)
    BY <1>5 DEF AccountsInv, FilesMatch
  <2>2. \A q \in Requests : /\ OldFile(q)' = OldFile(q)
                            /\ NewFile(q) = {} /\ NewFile(q)' = {}
    BY <1>1, <1>3 DEF OldFile, NewFile, Stored
  <2> QED BY <1>3, <2>1, <2>2 DEF FilesMatch
<1> QED BY <1>4, <1>5, <1>11, <1>12, <1>13 DEF AccountsInv

\* Inside a capture the tiers do not move; only the files do.
LEMMA InsideStep ==
  ASSUME AccountsInv, Capturing, Capturing', store' = store, gpu' = gpu, cpu' = cpu,
         failed' = failed, eng'.cur = eng.cur,
         eng'.next.size = eng.next.size, eng'.next.placement = eng.next.placement,
         FilesMatch => FilesMatch'
  PROVE  AccountsInv'
<1>1. TiersFit' /\ IsFiniteSet(HasState)'
  BY TiersFitStill, HasStateStill DEF AccountsInv
<1>2. ~failed
  BY DEF AccountsInv, FailedStops, Capturing
<1>3. TierMatches(gpu, "gpu") /\ TierMatches(cpu, "cpu") /\ FilesMatch
  BY <1>2 DEF AccountsInv
<1>4. \A p : Kept(p)' = Kept(p) /\ Coming(p)' = Coming(p)
  BY DEF Kept, Coming, Stored
<1>5. TierMatches(gpu, "gpu")' /\ TierMatches(cpu, "cpu")'
  BY <1>3, <1>4 DEF TierMatches
<1>6. FailedStops'
  BY <1>2 DEF FailedStops
<1> QED BY <1>1, <1>3, <1>5, <1>6 DEF AccountsInv

LEMMA AccountsMaterialize ==
  ASSUME ManagerInv, AccountsInv, Materialize
  PROVE  AccountsInv'
<1>0. /\ eng.at = "materialize" /\ eng.cur \in Requests /\ eng.next \in State
      /\ store' = store /\ gpu' = gpu /\ cpu' = cpu /\ failed' = failed
  BY DEF Materialize, ManagerInv, HoldsState, Working
<1>1. CASE eng.next.placement # "disk"
  <2>1. eng' = [eng EXCEPT !.at = "clean"] /\ files' = files
    BY <1>1 DEF Materialize
  <2>2. eng'.at = "clean" /\ eng'.cur = eng.cur /\ eng'.next = eng.next
    BY <2>1 DEF ManagerInv, StateTypeOK
  <2>3. \A r : OldFile(r)' = OldFile(r) /\ NewFile(r) = {} /\ NewFile(r)' = {}
    BY <1>0, <1>1, <2>2 DEF OldFile, NewFile, Stored
  <2>4. FilesMatch => FilesMatch'
    BY <2>1, <2>3 DEF FilesMatch
  <2> QED BY <1>0, <2>2, <2>4, InsideStep DEF Capturing
<1>2. CASE eng.next.placement = "disk"
  <2>1. PICK u \in FreshNames(eng.cur) :
          /\ files' = [files EXCEPT ![eng.cur] = @ \cup {u}]
          /\ eng' = [eng EXCEPT !.at = "clean", !.next.file = u]
    BY <1>2 DEF Materialize
  <2>2. /\ eng'.at = "clean" /\ eng'.cur = eng.cur /\ eng'.next.file = u
        /\ eng'.next.size = eng.next.size /\ eng'.next.placement = eng.next.placement
    BY <1>0, <2>1 DEF ManagerInv, StateTypeOK, State
  <2>3. \A r : /\ OldFile(r)' = OldFile(r) /\ NewFile(r) = {}
               /\ NewFile(r)' = IF r = eng.cur THEN {u} ELSE {}
    BY <1>0, <1>2, <2>2 DEF OldFile, NewFile, Stored
  <2>4. FilesMatch => FilesMatch'
    BY <1>0, <2>1, <2>3 DEF FilesMatch, ManagerInv, StateTypeOK
  <2> QED BY <1>0, <2>2, <2>4, InsideStep DEF Capturing
<1> QED BY <1>1, <1>2

LEMMA AccountsClean ==
  ASSUME ManagerInv, AccountsInv, Clean
  PROVE  AccountsInv'
<1>0. /\ eng.at = "clean" /\ eng.cur \in Requests /\ eng.next \in State
      /\ store' = store /\ gpu' = gpu /\ cpu' = cpu /\ failed' = failed
      /\ files' = Cleaned(eng.cur, store[eng.cur])
  BY DEF Clean, ManagerInv, HoldsState, Working
<1>1. eng'.at = "store" /\ eng'.cur = eng.cur /\ eng'.next = eng.next
  BY DEF Clean, ManagerInv, StateTypeOK
<1>2. \A r : NewFile(r)' = NewFile(r) /\ (r # eng.cur => OldFile(r)' = OldFile(r))
  BY <1>0, <1>1 DEF OldFile, NewFile, Stored
<1>3. OldFile(eng.cur)' = {}
  BY <1>0, <1>1 DEF OldFile
<1>4. files'[eng.cur] = files[eng.cur] \ OldFile(eng.cur)
      /\ \A r \in Requests \ {eng.cur} : files'[r] = files[r]
  BY <1>0 DEF Cleaned, OnDisk, OldFile, Stored, ManagerInv, StateTypeOK
<1>5. OldFile(eng.cur) \cap NewFile(eng.cur) = {}
  BY <1>0 DEF OldFile, NewFile, OnDisk, Stored, ManagerInv, NextWritten
<1>6. ASSUME FilesMatch PROVE FilesMatch'
  <2>1. ASSUME NEW r \in Requests PROVE files'[r] = OldFile(r)' \cup NewFile(r)'
    <3>1. files[r] = OldFile(r) \cup NewFile(r)
      BY <1>6 DEF FilesMatch
    <3>2. CASE r = eng.cur
      <4>1. /\ files'[r] = files[r] \ OldFile(r) /\ OldFile(r) \cap NewFile(r) = {}
            /\ OldFile(r)' = {} /\ NewFile(r)' = NewFile(r)
        BY <1>1, <1>2, <1>3, <1>4, <1>5, <3>2
      <4> QED BY <3>1, <4>1
    <3>3. CASE r # eng.cur
      BY <1>2, <1>4, <3>1, <3>3
    <3> QED BY <3>2, <3>3
  <2> QED BY <2>1 DEF FilesMatch
<1> QED BY <1>0, <1>1, <1>6, InsideStep DEF Capturing

\* The stored states of a tier once the new one is in its place: those that were
\* kept, and the new one.
LEMMA StoredAfter ==
  ASSUME ManagerInv, IsFiniteSet(HasState), Store, NEW p
  PROVE  /\ Stored(p)' = Kept(p) \cup (IF Coming(p) THEN {eng.cur} ELSE {})
         /\ SizeSum(store', Stored(p)') =
              SizeSum(store, Kept(p)) + (IF Coming(p) THEN eng.next.size ELSE 0)
<1> DEFINE cur == eng.cur
           new == eng.next
           st == store'
           K == Kept(p)
<1>0. /\ eng.at = "store" /\ cur \in Requests /\ new \in State /\ Capturing
      /\ store' = [store EXCEPT ![cur] = new]
  BY DEF Store, ManagerInv, HoldsState, Working, Capturing
<1>1. new # None /\ new.size \in Nat
  BY <1>0, StateNotNone, NumbersAssumption DEF State
<1>2. store'[cur] = new /\ \A r \in Requests : r # cur => store'[r] = store[r]
  BY <1>0 DEF ManagerInv, StateTypeOK
<1>3. Stored(p)' = K \cup (IF Coming(p) THEN {cur} ELSE {})
  BY <1>0, <1>1, <1>2 DEF Stored, Kept, Coming
<1>4. /\ IsFiniteSet(K) /\ cur \notin K
      /\ \A r \in K : r \in Requests /\ store[r].size \in Nat /\ store'[r].size = store[r].size
  <2>1. K \in SUBSET Stored(p) /\ cur \notin K
    BY <1>0 DEF Kept
  <2>2. IsFiniteSet(K) /\ \A r \in K : r \in Requests /\ store[r].size \in Nat
    BY <2>1, StoredFacts DEF ManagerInv
  <2> QED BY <1>2, <2>1, <2>2
<1> HIDE DEF K
<1>5. SizeSum(st, K) = SizeSum(store, K) /\ SizeSum(store, K) \in Nat
  <2> HIDE DEF st
  <2>1. \A r \in K : st[r].size = store[r].size
    BY <1>4 DEF st
  <2> QED BY <1>4, <2>1, SumSame, SumType
<1>6. CASE Coming(p)
  <2> DEFINE T == K \cup {cur}
  <2>1. IsFiniteSet(T) /\ cur \in T /\ T \ {cur} = K
    BY <1>4, FS_AddElement
  <2>2. \A r \in T : st[r].size \in Nat
    BY <1>1, <1>2, <1>4
  <2>3. Stored(p)' = T /\ st[cur].size = new.size
    BY <1>2, <1>3, <1>6
  <2> HIDE DEF T, st
  <2>4. SizeSum(st, T) = st[cur].size + SizeSum(st, T \ {cur})
    BY <2>1, <2>2, SumRemove
  <2>5. SizeSum(st, T) = SizeSum(store, K) + new.size
    BY <1>1, <1>5, <2>1, <2>3, <2>4
  <2> QED BY <1>3, <1>6, <2>3, <2>5 DEF st, K
<1>7. CASE ~Coming(p)
  <2>1. Stored(p)' = K
    BY <1>3, <1>7
  <2>2. SizeSum(store, K) + 0 = SizeSum(store, K)
    BY <1>5
  <2> QED BY <1>3, <1>5, <1>7, <2>1, <2>2 DEF K
<1> QED BY <1>6, <1>7

LEMMA AccountsStore ==
  ASSUME ManagerInv, ManagerInv', AccountsInv, Store
  PROVE  AccountsInv'
<1>0. /\ eng.at = "store" /\ eng.cur \in Requests /\ eng.next \in State
      /\ store' = [store EXCEPT ![eng.cur] = eng.next]
      /\ gpu' = gpu /\ cpu' = cpu /\ failed' = failed /\ files' = files
      /\ eng'.at = "capture" /\ Capturing /\ ~Capturing'
  BY DEF Store, ManagerInv, StateTypeOK, HoldsState, Working, Capturing
<1>1. ~failed /\ FailedStops' /\ IsFiniteSet(HasState)
  BY <1>0 DEF AccountsInv, FailedStops
<1>2. TierMatches(gpu, "gpu") /\ TierMatches(cpu, "cpu") /\ FilesMatch
  BY <1>1 DEF AccountsInv
<1>3. IsFiniteSet(HasState)'
  <2>1. HasState' \subseteq HasState \cup {eng.cur}
    BY <1>0 DEF HasState, ManagerInv, StateTypeOK
  <2>2. IsFiniteSet(HasState \cup {eng.cur})
    BY <1>1, FS_AddElement
  <2> QED BY <2>1, <2>2, FS_Subset
<1>4. /\ gpu'.held = Stored("gpu")' /\ gpu'.used = SizeSum(store', Stored("gpu")')
      /\ cpu'.held = Stored("cpu")' /\ cpu'.used = SizeSum(store', Stored("cpu")')
  BY <1>0, <1>1, <1>2, StoredAfter DEF TierMatches
<1>5. TierMatches(gpu, "gpu")' /\ TierMatches(cpu, "cpu")'
  BY <1>0, <1>3, <1>4, QuietMatchesNext DEF ManagerInv
<1>6. TiersFit'
  <2>1. /\ Bytes(Stored("gpu"))' = SizeSum(store', Stored("gpu")')
        /\ Bytes(Stored("cpu"))' = SizeSum(store', Stored("cpu")')
    BY BytesNext
  <2>2. gpu'.used <= GpuBudget /\ cpu'.used <= CpuBudget
    BY DEF ManagerInv, StateTypeOK, Tier
  <2> QED BY <1>4, <2>1, <2>2 DEF TiersFit
<1>7. FilesMatch'
  <2>1. ASSUME NEW r \in Requests PROVE files'[r] = OldFile(r)' \cup NewFile(r)'
    <3>1. files[r] = OldFile(r) \cup NewFile(r)
      BY <1>2, <2>1 DEF FilesMatch
    <3>2. NewFile(r)' = {}
      BY <1>0 DEF NewFile
    <3>3. CASE r = eng.cur
      <4>1. OldFile(r) = {} /\ OldFile(r)' = NewFile(r)
        BY <1>0, <3>3, StateNotNone DEF OldFile, NewFile, Stored, ManagerInv, StateTypeOK
      <4> QED BY <1>0, <3>1, <3>2, <4>1
    <3>4. CASE r # eng.cur
      <4>1. NewFile(r) = {} /\ OldFile(r)' = OldFile(r)
        BY <1>0, <3>4 DEF OldFile, NewFile, Stored, ManagerInv, StateTypeOK
      <4> QED BY <1>0, <3>1, <3>2, <4>1
    <3> QED BY <3>3, <3>4
  <2> QED BY <2>1 DEF FilesMatch
<1> QED BY <1>1, <1>3, <1>5, <1>6, <1>7 DEF AccountsInv

\* A state that is dropped leaves the accounts with those of the others, and takes
\* nothing from another tier.
LEMMA DropFacts ==
  ASSUME ManagerInv, IsFiniteSet(HasState), NEW r \in Requests, Drop(r), NEW p
  PROVE  /\ Stored(p)' = Stored(p) \ {r}
         /\ SizeSum(store', Stored(p)') = SizeSum(store, Stored(p) \ {r})
         /\ SizeSum(store', Stored(p)') <= SizeSum(store, Stored(p))
         /\ SizeSum(store, Stored(p)) \in Nat /\ SizeSum(store', Stored(p)') \in Nat
<1> DEFINE st == store'
           S == Stored(p)
           R == Stored(p) \ {r}
<1>1. st[r] = None /\ \A q \in Requests : q # r => st[q] = store[q]
  BY DEF Drop, ManagerInv, StateTypeOK
<1>2. Stored(p)' = R
  BY <1>1 DEF Stored
<1>3. /\ IsFiniteSet(S) /\ \A q \in S : q \in Requests /\ store[q].size \in Nat
      /\ IsFiniteSet(R) /\ \A q \in R : q \in Requests /\ store[q].size \in Nat
  BY StoredFacts DEF ManagerInv
<1>4. \A q \in R : st[q].size = store[q].size
  BY <1>1, <1>3
<1>5. r \in S => S \ {r} = R
  OBVIOUS
<1>6. r \notin S => R = S
  OBVIOUS
<1> HIDE DEF st, S, R
<1>7. SizeSum(st, R) = SizeSum(store, R) /\ SizeSum(store, R) \in Nat /\ SizeSum(store, S) \in Nat
  BY <1>3, <1>4, SumSame, SumType
<1>8. SizeSum(store, R) <= SizeSum(store, S)
  <2>1. CASE r \in S
    <3>1. SizeSum(store, S) = store[r].size + SizeSum(store, R)
      BY <1>3, <1>5, <2>1, SumRemove
    <3> QED BY <1>3, <1>7, <2>1, <3>1
  <2>2. CASE r \notin S
    BY <1>6, <1>7, <2>2
  <2> QED BY <2>1, <2>2
<1> QED BY <1>2, <1>7, <1>8 DEF st, S, R

LEMMA DropFits ==
  ASSUME ManagerInv, IsFiniteSet(HasState), TiersFit, NEW r \in Requests, Drop(r)
  PROVE  TiersFit' /\ IsFiniteSet(HasState)'
<1>1. IsFiniteSet(HasState)'
  <2>1. HasState' \in SUBSET HasState
    BY DEF Drop, HasState, ManagerInv, StateTypeOK
  <2> QED BY <2>1, FS_Subset
<1>2. ASSUME NEW p, NEW b \in Nat, Bytes(Stored(p)) <= b PROVE Bytes(Stored(p))' <= b
  <2>1. SizeSum(store, Stored(p)) <= b
    BY <1>2, BytesNow
  <2> DEFINE was == SizeSum(store, Stored(p))
             now == SizeSum(store', Stored(p)')
  <2>2. now <= was /\ was \in Nat /\ now \in Nat
    BY DropFacts
  <2> HIDE DEF was, now
  <2>3. now <= b
    BY <1>2, <2>1, <2>2 DEF was
  <2> QED BY <2>3, BytesNext DEF now
<1> QED BY <1>1, <1>2, NumbersAssumption DEF TiersFit

\* A release whose file is removed too.
LEMMA DropClean ==
  ASSUME ManagerInv, ManagerInv', AccountsInv, NEW r \in Requests, Drop(r),
         files' = Cleaned(r, store[r]), failed' = failed, ~Capturing, ~Capturing', FailedStops'
  PROVE  AccountsInv'
<1>1. TiersFit' /\ IsFiniteSet(HasState)'
  BY DropFits DEF AccountsInv
<1>2. ASSUME ~failed' PROVE TierMatches(gpu, "gpu")' /\ TierMatches(cpu, "cpu")' /\ FilesMatch'
  <2>1. TierMatches(gpu, "gpu") /\ TierMatches(cpu, "cpu") /\ FilesMatch
    BY <1>2 DEF AccountsInv
  <2>2. /\ gpu.held = Stored("gpu") /\ gpu.used = SizeSum(store, Stored("gpu"))
        /\ cpu.held = Stored("cpu") /\ cpu.used = SizeSum(store, Stored("cpu"))
    BY <2>1, QuietMatches DEF AccountsInv, ManagerInv
  <2>3. /\ gpu'.held = Stored("gpu") \ {r} /\ gpu'.used = SizeSum(store, Stored("gpu") \ {r})
        /\ cpu'.held = Stored("cpu") \ {r} /\ cpu'.used = SizeSum(store, Stored("cpu") \ {r})
    BY <2>2, FreedMatches DEF AccountsInv, ManagerInv, Drop
  <2>4. /\ gpu'.held = Stored("gpu")' /\ gpu'.used = SizeSum(store', Stored("gpu")')
        /\ cpu'.held = Stored("cpu")' /\ cpu'.used = SizeSum(store', Stored("cpu")')
    BY <2>3, DropFacts DEF AccountsInv
  <2>5. TierMatches(gpu, "gpu")' /\ TierMatches(cpu, "cpu")'
    BY <1>1, <2>4, QuietMatchesNext DEF ManagerInv
  <2>6. FilesMatch'
    <3>1. ASSUME NEW q \in Requests PROVE files'[q] = OldFile(q)' \cup NewFile(q)'
      <4>1. files[q] = OldFile(q) \cup NewFile(q) /\ NewFile(q) = {} /\ NewFile(q)' = {}
        BY <2>1, <3>1 DEF FilesMatch, NewFile, Capturing
      <4>2. CASE q = r
        <5>1. OldFile(q)' = {} /\ files'[q] = files[q] \ OldFile(q)
          BY <4>2 DEF Drop, Cleaned, OnDisk, OldFile, Stored, Capturing, ManagerInv, StateTypeOK
        <5> QED BY <4>1, <5>1
      <4>3. CASE q # r
        <5>1. OldFile(q)' = OldFile(q) /\ files'[q] = files[q]
          BY <4>3 DEF Drop, Cleaned, OldFile, Stored, Capturing, ManagerInv, StateTypeOK
        <5> QED BY <4>1, <5>1
      <4> QED BY <4>2, <4>3
    <3> QED BY <3>1 DEF FilesMatch
  <2> QED BY <2>5, <2>6
<1> QED BY <1>1, <1>2 DEF AccountsInv

\* The thread dies, or close() raises: what fits still fits.
LEMMA FailStep ==
  ASSUME AccountsInv, failed' = TRUE, eng'.at \in {"dead", "closed"},
         TiersFit', IsFiniteSet(HasState)'
  PROVE  AccountsInv'
BY DEF AccountsInv, FailedStops

LEMMA AccountsFail ==
  ASSUME ManagerInv, AccountsInv,
         MaterializeFails \/ CleanFails \/ \E r \in Requests : ReleaseFails(r)
  PROVE  AccountsInv'
<1>1. failed' = TRUE /\ eng'.at \in {"dead", "closed"}
  BY DEF MaterializeFails, CleanFails, ReleaseFails, Idle
<1>2. CASE MaterializeFails \/ CleanFails
  BY <1>1, <1>2, FailStep, TiersFitStill, HasStateStill
  DEF MaterializeFails, CleanFails, AccountsInv
<1>3. CASE \E r \in Requests : ReleaseFails(r)
  BY <1>1, <1>3, FailStep, DropFits DEF ReleaseFails, AccountsInv
<1> QED BY <1>2, <1>3

LEMMA AccountsClear ==
  ASSUME ManagerInv, ManagerInv', AccountsInv, NEW r \in Requests, Clear(r)
  PROVE  AccountsInv'
<1>0. eng.at = "clear" /\ Drop(r)
  BY DEF Clear
<1>1. CASE files' = Cleaned(r, store[r]) /\ eng' = eng /\ failed' = failed
  <2>1. ~Capturing /\ ~Capturing' /\ FailedStops'
    BY <1>0, <1>1 DEF Capturing, FailedStops
  <2> QED BY <1>0, <1>1, <2>1, DropClean
<1>2. CASE eng' = [Idle EXCEPT !.at = "closed"] /\ failed' = TRUE
  <2>1. eng'.at = "closed"
    BY <1>2 DEF Idle
  <2> QED BY <1>0, <1>2, <2>1, DropFits, FailStep DEF AccountsInv
<1> QED BY <1>1, <1>2 DEF Clear

LEMMA AccountsRelease ==
  ASSUME ManagerInv, ManagerInv', AccountsInv, NEW r \in Requests, Release(r)
  PROVE  AccountsInv'
<1>0. /\ eng.at = "finish" /\ eng'.at = "finish" /\ Drop(r)
      /\ files' = Cleaned(r, store[r]) /\ failed' = failed
  BY DEF Release, ManagerInv, StateTypeOK
<1>1. ~Capturing /\ ~Capturing' /\ FailedStops'
  BY <1>0 DEF Capturing, FailedStops, AccountsInv
<1> QED BY <1>0, <1>1, DropClean

LEMMA AccountsQuiet ==
  ASSUME ManagerInv, ManagerInv', AccountsInv,
         StepDone \/ StepEnds \/ FinishEnds \/ Close \/ Cleared
  PROVE  AccountsInv'
<1>1. Still
  BY DEF Still, StepDone, StepEnds, FinishEnds, Close, Cleared
<1>2. /\ eng.at \in {"idle", "capture", "finish", "dead", "clear"}
      /\ eng'.at \in {"capture", "finish", "idle", "clear", "closed"}
      /\ eng.at \in {"dead", "clear"} => eng'.at \in {"clear", "closed"}
  <2>1. CASE StepDone
    BY <2>1 DEF StepDone, Idle
  <2>2. CASE StepEnds
    BY <2>2 DEF StepEnds, Idle
  <2>3. CASE FinishEnds \/ Close \/ Cleared
    BY <2>3 DEF FinishEnds, Close, Cleared, Idle
  <2> QED BY <2>1, <2>2, <2>3
<1>3. ~Capturing /\ ~Capturing'
  BY <1>2 DEF Capturing
<1>4. FailedStops'
  BY <1>1, <1>2 DEF FailedStops, AccountsInv, Still
<1> QED BY <1>1, <1>3, <1>4, QuietStep

LEMMA AccountsStill ==
  ASSUME AccountsInv,
         \/ \E r \in Requests : AddRequest(r) \/ LeaveEarly(r) \/ ReadState(r)
         \/ LoadPayload \/ Resume \/ UNCHANGED vars
  PROVE  AccountsInv'
BY StillStep DEF AddRequest, LeaveEarly, ReadState, LoadPayload, Resume, vars, Still

LEMMA AccountsNext ==
  ManagerInv /\ ManagerInv' /\ AccountsInv /\ [Next]_vars => AccountsInv'
<1> SUFFICES ASSUME ManagerInv, ManagerInv', AccountsInv, [Next]_vars PROVE AccountsInv'
  OBVIOUS
<1>1. CASE EngineNext
  BY <1>1, AccountsStill, AccountsCapture, AccountsRelease, AccountsFail, AccountsClear,
     AccountsQuiet, AccountsMaterialize, AccountsClean, AccountsStore
  DEF EngineNext
<1>2. CASE (\E r \in Requests : ReadState(r)) \/ LoadPayload \/ Resume
  BY <1>2, AccountsStill
<1>3. CASE UNCHANGED vars
  BY <1>3, AccountsStill
<1> QED BY <1>1, <1>2, <1>3 DEF Next

LEMMA AccountsMatch == ManagerInv /\ AccountsInv => AccountsMatchStore
<1> SUFFICES ASSUME ManagerInv, AccountsInv, ~failed /\ ~Capturing
             PROVE  /\ gpu.held = Stored("gpu") /\ gpu.used = Bytes(Stored("gpu"))
                    /\ cpu.held = Stored("cpu") /\ cpu.used = Bytes(Stored("cpu"))
                    /\ \A r \in Requests :
                         files[r] = IF r \in Stored("disk") THEN {store[r].file} ELSE {}
  BY DEF AccountsMatchStore, AccountsInv
<1>1. TierMatches(gpu, "gpu") /\ TierMatches(cpu, "cpu") /\ FilesMatch
  BY DEF AccountsInv
<1>2. /\ gpu.held = Stored("gpu") /\ gpu.used = SizeSum(store, Stored("gpu"))
      /\ cpu.held = Stored("cpu") /\ cpu.used = SizeSum(store, Stored("cpu"))
  BY <1>1, QuietMatches DEF AccountsInv, ManagerInv
<1>3. \A r \in Requests : files[r] = IF r \in Stored("disk") THEN {store[r].file} ELSE {}
  BY <1>1 DEF FilesMatch, OldFile, NewFile, Capturing
<1> QED BY <1>2, <1>3, BytesNow

\* The stored states of a tier fit in its budget whatever fails; and while nothing
\* has failed, the tiers hold exactly the stored states with the sum of their bytes,
\* and the files on disk are exactly those of the stored states, whatever sizes the
\* checkpoints have and however they move between the tiers.
THEOREM AccountsAlwaysMatch == Spec => []AccountsMatchStore
<1>1. Spec => []AccountsInv
  BY AccountsInit, AccountsNext, ManagerInvAlways, PTL DEF Spec
<1> QED BY <1>1, AccountsMatch, ManagerInvAlways, PTL
=============================================================================
