----------------------- MODULE DiffusionStateManager -----------------------
(***************************************************************************)
(* The state manager of step execution (diffusion/state): after every step *)
(* the engine's thread hands it the latent of each request, which it keeps *)
(* on the GPU, on the CPU or in a file, as the budgets allow; a completed  *)
(* request is released, an aborted or failed one keeps its checkpoint, so  *)
(* that it can be restored and added again (step_execution.md).            *)
(*                                                                         *)
(* Two threads without a lock between them: the engine's thread, which     *)
(* captures and releases, and a caller of restore_request_from_state.      *)
(* Every write to disk, every removal and every copy to a device may fail; *)
(* the engine's thread catches nothing there and dies.  A latent is its    *)
(* size: the fidelity the value score asks for decides it.                 *)
(***************************************************************************)
EXTENDS Naturals, FiniteSets, FiniteSetsExt

CONSTANTS
  Requests,    \* request ids
  Sizes,       \* bytes of a checkpoint, by fidelity
  Names,       \* uuids in the names of the files
  None,        \* no state, no file, no request
  Total,       \* total_steps of every request
  GpuBudget, CpuBudget  \* in bytes; 0: the tier is not used

\* A checkpoint: RequestState and the payload it refers to.
State == [step : 1 .. Total, size : Sizes, placement : {"gpu", "cpu", "disk"},
          file : Names \cup {None}]

ASSUME NoneAssumption == None \notin Requests \cup Names \cup State
ASSUME NumbersAssumption ==
  /\ Sizes \subseteq Nat \ {0} /\ Total \in Nat \ {0}
  /\ GpuBudget \in Nat /\ CpuBudget \in Nat

VARIABLES
  steps,    \* [Requests -> 0 .. Total]: denoise steps done; Out: not in the engine
  store,    \* _store: [Requests -> states \cup {None}]
  gpu, cpu, \* the tiers of PlacementEngine: [used, held]
  files,    \* [Requests -> SUBSET Names]: the payload files of a request
  eng,      \* the engine's thread: [at, batch, todo, cur, next]
  reader,   \* a caller of restore_request: [at, id, state]
  failed    \* history: an operation of the engine's thread has failed

vars == <<steps, store, gpu, cpu, files, eng, reader, failed>>

Out == Total + 1
Tier(budget) == [used : 0 .. budget, held : SUBSET Requests]
OnDisk(s) == s # None /\ s.placement = "disk"

Idle == [at |-> "idle", batch |-> {}, todo |-> {}, cur |-> None, next |-> None]
NoReader == [at |-> "idle", id |-> None, state |-> None]

Init ==
  /\ steps = [r \in Requests |-> Out]
  /\ store = [r \in Requests |-> None]
  /\ gpu = [used |-> 0, held |-> {}]
  /\ cpu = [used |-> 0, held |-> {}]
  /\ files = [r \in Requests |-> {}]
  /\ eng = Idle
  /\ reader = NoReader
  /\ failed = FALSE

-----------------------------------------------------------------------------
(* PlacementEngine.                                                        *)

\* release of a state in its tier, whose count stops at 0.
Freed(tier, r, s, placement) ==
  IF s # None /\ s.placement = placement /\ r \in tier.held
  THEN [used |-> IF s.size > tier.used THEN 0 ELSE tier.used - s.size,
        held |-> tier.held \ {r}]
  ELSE tier

\* A bug: the new state's own size is not counted.
MutFits(tier, size, budget) == budget > 0 /\ tier.used < budget
Fits(tier, size, budget) == budget > 0 /\ tier.used + size <= budget
Charged(tier, r, size) == [used |-> tier.used + size, held |-> tier.held \cup {r}]

\* A bug: the previous state is not released.
MutPlace(r, size, prev) ==
  LET placement == IF Fits(gpu, size, GpuBudget) THEN "gpu"
                   ELSE IF Fits(cpu, size, CpuBudget) THEN "cpu" ELSE "disk"
  IN [placement |-> placement,
      gpu |-> IF placement = "gpu" THEN Charged(gpu, r, size) ELSE gpu,
      cpu |-> IF placement = "cpu" THEN Charged(cpu, r, size) ELSE cpu]

\* place: the previous state is released first, then the first tier with room
\* takes the new one.
Place(r, size, prev) ==
  LET g == Freed(gpu, r, prev, "gpu")
      c == Freed(cpu, r, prev, "cpu")
      placement == IF Fits(g, size, GpuBudget) THEN "gpu"
                   ELSE IF Fits(c, size, CpuBudget) THEN "cpu" ELSE "disk"
  IN [placement |-> placement,
      gpu |-> IF placement = "gpu" THEN Charged(g, r, size) ELSE g,
      cpu |-> IF placement = "cpu" THEN Charged(c, r, size) ELSE c]

-----------------------------------------------------------------------------
(* The engine.                                                             *)

\* A new request, from its first step.
AddRequest(r) ==
  /\ steps[r] = Out /\ eng.at \notin {"clear", "closed"}
  /\ steps' = [steps EXCEPT ![r] = 0]
  /\ UNCHANGED <<store, gpu, cpu, files, eng, reader, failed>>

\* A request that is not in the running batch is aborted, or its step fails
\* outright and has no snapshot: its checkpoint stays.
LeaveEarly(r) ==
  /\ steps[r] # Out /\ eng.at = "idle"
  /\ steps' = [steps EXCEPT ![r] = Out]
  /\ UNCHANGED <<store, gpu, cpu, files, eng, reader, failed>>

\* A step of a batch is done, and _capture_step_states begins.  A snapshot is
\* missing where the value score could not be estimated.
StepDone ==
  /\ eng.at = "idle"
  /\ \E batch \in SUBSET {r \in Requests : steps[r] < Total} \ {{}} :
       /\ steps' = [r \in Requests |-> IF r \in batch THEN steps[r] + 1 ELSE steps[r]]
       /\ \E todo \in SUBSET batch :
            eng' = [Idle EXCEPT !.at = "capture", !.batch = batch, !.todo = todo]
  /\ UNCHANGED <<store, gpu, cpu, files, reader, failed>>

\* The place of the next snapshot in on_step_complete.
Capture(r) ==
  /\ eng.at = "capture" /\ r \in eng.todo
  /\ \E size \in Sizes :
       LET p == Place(r, size, store[r]) IN
       /\ gpu' = p.gpu /\ cpu' = p.cpu
       /\ eng' = [eng EXCEPT !.at = "materialize", !.cur = r, !.todo = @ \ {r},
                    !.next = [step |-> steps[r], size |-> size,
                              placement |-> p.placement, file |-> None]]
  /\ UNCHANGED <<steps, store, files, reader, failed>>

\* A bug: the name does not tell two checkpoints of a request apart.
MutFreshNames(r) == Names

\* A fresh uuid: of no file and of no state that is still held.
FreshNames(r) ==
  LET held == {store[r]} \cup IF reader.id = r THEN {reader.state} ELSE {}
  IN Names \ (files[r] \cup {s.file : s \in held \ {None}})

\* _materialize_state: a copy to the device, or a new file.
Materialize ==
  /\ eng.at = "materialize"
  /\ IF eng.next.placement # "disk"
     THEN eng' = [eng EXCEPT !.at = "clean"] /\ UNCHANGED files
     ELSE \E u \in FreshNames(eng.cur) :
            /\ files' = [files EXCEPT ![eng.cur] = @ \cup {u}]
            /\ eng' = [eng EXCEPT !.at = "clean", !.next.file = u]
  /\ UNCHANGED <<steps, store, gpu, cpu, reader, failed>>

\* It fails: a broken file may be left behind.
MaterializeFails ==
  /\ eng.at = "materialize"
  /\ \/ UNCHANGED files
     \/ /\ eng.next.placement = "disk"
        /\ \E u \in FreshNames(eng.cur) : files' = [files EXCEPT ![eng.cur] = @ \cup {u}]
  /\ eng' = [Idle EXCEPT !.at = "dead"] /\ failed' = TRUE
  /\ UNCHANGED <<steps, store, gpu, cpu, reader>>

\* _cleanup_persisted_state.
Cleaned(r, s) == IF OnDisk(s) THEN [files EXCEPT ![r] = @ \ {s.file}] ELSE files

\* The previous checkpoint's file goes; a missing one is ignored.
Clean ==
  /\ eng.at = "clean"
  /\ files' = Cleaned(eng.cur, store[eng.cur])
  /\ eng' = [eng EXCEPT !.at = "store"]
  /\ UNCHANGED <<steps, store, gpu, cpu, reader, failed>>

CleanFails ==
  /\ eng.at = "clean" /\ OnDisk(store[eng.cur])
  /\ eng' = [Idle EXCEPT !.at = "dead"] /\ failed' = TRUE
  /\ UNCHANGED <<steps, store, gpu, cpu, files, reader>>

\* The new state takes its place in _store.
Store ==
  /\ eng.at = "store"
  /\ store' = [store EXCEPT ![eng.cur] = eng.next]
  /\ eng' = [eng EXCEPT !.at = "capture", !.cur = None, !.next = None]
  /\ UNCHANGED <<steps, gpu, cpu, files, reader, failed>>

\* update_from_output after the last snapshot: some requests were aborted during
\* the step or interrupted, the others that made their last step are completed
\* and will be released.
StepEnds ==
  /\ eng.at = "capture" /\ eng.todo = {}
  /\ \E gone \in SUBSET eng.batch :
       LET complete == {r \in eng.batch \ gone : steps[r] = Total} IN
       /\ steps' = [r \in Requests |->
                      IF r \in gone \cup complete THEN Out ELSE steps[r]]
       /\ eng' = [Idle EXCEPT !.at = "finish", !.todo = complete]
  /\ UNCHANGED <<store, gpu, cpu, files, reader, failed>>

\* release_request drops the state from _store and its tier, then its file.
Drop(r) ==
  /\ store' = [store EXCEPT ![r] = None]
  /\ gpu' = Freed(gpu, r, store[r], "gpu")
  /\ cpu' = Freed(cpu, r, store[r], "cpu")

Release(r) ==
  /\ eng.at = "finish" /\ r \in eng.todo
  /\ Drop(r)
  /\ files' = Cleaned(r, store[r])
  /\ eng' = [eng EXCEPT !.todo = @ \ {r}]
  /\ UNCHANGED <<steps, reader, failed>>

ReleaseFails(r) ==
  /\ eng.at = "finish" /\ r \in eng.todo /\ OnDisk(store[r])
  /\ Drop(r)
  /\ eng' = [Idle EXCEPT !.at = "dead"] /\ failed' = TRUE
  /\ UNCHANGED <<steps, files, reader>>

FinishEnds ==
  /\ eng.at = "finish" /\ eng.todo = {}
  /\ eng' = Idle
  /\ UNCHANGED <<steps, store, gpu, cpu, files, reader, failed>>

\* close() joins the thread, which stops between two steps or is dead already,
\* and clear() releases every state.
Close ==
  /\ eng.at \in {"idle", "dead"}
  /\ eng' = [Idle EXCEPT !.at = "clear"]
  /\ steps' = [r \in Requests |-> Out]
  /\ UNCHANGED <<store, gpu, cpu, files, reader, failed>>

Clear(r) ==
  /\ eng.at = "clear" /\ store[r] # None
  /\ Drop(r)
  /\ \/ files' = Cleaned(r, store[r]) /\ UNCHANGED <<eng, failed>>
     \/ /\ OnDisk(store[r])  \* the removal fails, and close() raises
        /\ eng' = [Idle EXCEPT !.at = "closed"] /\ failed' = TRUE
        /\ UNCHANGED files
  /\ UNCHANGED <<steps, reader>>

Cleared ==
  /\ eng.at = "clear" /\ \A r \in Requests : store[r] = None
  /\ eng' = [Idle EXCEPT !.at = "closed"]
  /\ UNCHANGED <<steps, store, gpu, cpu, files, reader, failed>>

-----------------------------------------------------------------------------
(* A caller of restore_request_from_state.                                 *)

\* It takes the state object out of _store; without one it gets a KeyError.
ReadState(r) ==
  /\ reader.at = "idle" /\ store[r] # None
  /\ reader' = [at |-> "read", id |-> r, state |-> store[r]]
  /\ UNCHANGED <<steps, store, gpu, cpu, files, eng, failed>>

Readable == reader.at = "read" /\ (OnDisk(reader.state) => reader.state.file \in files[reader.id])

\* restore loads the payload; it fails when the file is gone by now.
LoadPayload ==
  /\ reader.at = "read"
  /\ reader' = IF Readable THEN [reader EXCEPT !.at = "restored"] ELSE NoReader
  /\ UNCHANGED <<steps, store, gpu, cpu, files, eng, failed>>

\* The restored request is added again and goes on at the checkpoint's step;
\* add_request refuses one that has no step left, and an id that is in use.
Resume ==
  /\ reader.at = "restored"
  /\ IF steps[reader.id] = Out /\ reader.state.step < Total
     THEN /\ eng.at \notin {"clear", "closed"}
          /\ steps' = [steps EXCEPT ![reader.id] = reader.state.step]
     ELSE UNCHANGED steps
  /\ reader' = NoReader
  /\ UNCHANGED <<store, gpu, cpu, files, eng, failed>>

-----------------------------------------------------------------------------
EngineNext ==
  \/ \E r \in Requests :
       AddRequest(r) \/ LeaveEarly(r) \/ Capture(r) \/ Release(r) \/ ReleaseFails(r) \/ Clear(r)
  \/ StepDone \/ Materialize \/ MaterializeFails \/ Clean \/ CleanFails \/ Store
  \/ StepEnds \/ FinishEnds \/ Close \/ Cleared

Next == EngineNext \/ (\E r \in Requests : ReadState(r)) \/ LoadPayload \/ Resume

Spec == Init /\ [][Next]_vars

-----------------------------------------------------------------------------
(* Properties.                                                             *)

StateTypeOK ==
  /\ steps \in [Requests -> 0 .. Out]
  /\ store \in [Requests -> State \cup {None}]
  /\ gpu \in Tier(GpuBudget) /\ cpu \in Tier(CpuBudget)
  /\ files \in [Requests -> SUBSET Names]
  /\ eng \in [at : {"idle", "capture", "materialize", "clean", "store", "finish", "dead",
                    "clear", "closed"},
              batch : SUBSET Requests, todo : SUBSET Requests,
              cur : Requests \cup {None}, next : State \cup {None}]
  /\ reader \in [at : {"idle", "read", "restored"}, id : Requests \cup {None},
                 state : State \cup {None}]
  /\ failed \in BOOLEAN

Stored(placement) == {r \in Requests : store[r] # None /\ store[r].placement = placement}
Bytes(S) == MapThenSumSet(LAMBDA r : store[r].size, S)
\* Between place and the assignment to _store.
Capturing == eng.at \in {"materialize", "clean", "store"}

\* Whatever fails, the stored states of a tier fit in its budget.
TiersFit ==
  Bytes(Stored("gpu")) <= GpuBudget /\ Bytes(Stored("cpu")) <= CpuBudget

\* And while nothing has failed, the tiers account for exactly the stored states
\* and their bytes, and the files on disk are exactly theirs: nothing leaks when
\* a checkpoint moves between tiers, shrinks or is released.
AccountsMatchStore ==
  /\ TiersFit
  /\ (~failed /\ ~Capturing) =>
       /\ gpu.held = Stored("gpu") /\ gpu.used = Bytes(Stored("gpu"))
       /\ cpu.held = Stored("cpu") /\ cpu.used = Bytes(Stored("cpu"))
       /\ \A r \in Requests :
            files[r] = IF r \in Stored("disk") THEN {store[r].file} ELSE {}

\* Whatever fails, a stored state's payload can be read: the new payload is
\* written before the old file goes, and the old state stays when either fails.
\* Only between the removal and the assignment is the stored state unreadable,
\* so a restore fails only when a newer checkpoint or a release overtook it.
PayloadExists ==
  \A r \in Stored("disk") :
    store[r].file \in files[r] \/ (eng.at = "store" /\ eng.cur = r)
=============================================================================
