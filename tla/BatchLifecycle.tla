---------------------------- MODULE BatchLifecycle ----------------------------
(***************************************************************************)
(* What every diffusion scheduler promises its engine, whatever its        *)
(* policy: the contract of vllm_omni/diffusion/sched/interface.py.  A       *)
(* request is submitted once per life, waits, runs in a batch, may be put   *)
(* back, ends with one terminal status and is then retired by the engine.   *)
(* A batch never exceeds MaxRunning requests and never mixes requests whose *)
(* sampling parameters are not batch-compatible.                            *)
(***************************************************************************)
EXTENDS Naturals, FiniteSets

CONSTANTS
  Requests,   \* request ids
  Keys,       \* batch-compatibility keys (SamplingParamsKey)
  NoKey,      \* the key of a request that must run alone
  MaxRunning  \* max_num_running_reqs

VARIABLES
  status,     \* [Requests -> Status]
  key         \* [Requests -> Keys \cup {NoKey}]

lifecycleVars == <<status, key>>

Finished == {"FINISHED_COMPLETED", "FINISHED_ABORTED", "FINISHED_ERROR"}
Pending == {"WAITING", "PREEMPTED"}

InBatch(st) == {r \in Requests : st[r] = "RUNNING"}

LegalBatch(st, ky) ==
  LET batch == InBatch(st)
  IN  /\ Cardinality(batch) <= MaxRunning
      /\ \A q, r \in batch : q # r => ky[q] = ky[r] /\ ky[q] # NoKey

Init ==
  /\ status = [r \in Requests |-> "ABSENT"]
  /\ key = [r \in Requests |-> NoKey]

Submit(r, k) ==
  /\ status[r] = "ABSENT"
  /\ status' = [status EXCEPT ![r] = "WAITING"]
  /\ key' = [key EXCEPT ![r] = k]

Admit(S) ==
  /\ \A r \in S : status[r] \in Pending
  /\ status' = [r \in Requests |-> IF r \in S THEN "RUNNING" ELSE status[r]]
  /\ LegalBatch(status', key)
  /\ UNCHANGED key

Preempt(r) ==
  /\ status[r] = "RUNNING"
  /\ status' = [status EXCEPT ![r] = "PREEMPTED"]
  /\ UNCHANGED key

Finish(S) ==
  /\ \A r \in S : status[r] \in Pending \cup {"RUNNING"}
  /\ \A r \in S : status'[r] \in Finished
  /\ \A r \in Requests \ S : status'[r] = status[r]
  /\ status' = [r \in Requests |-> status'[r]]
  /\ UNCHANGED key

Retire(r) ==
  /\ status[r] \in Finished
  /\ status' = [status EXCEPT ![r] = "ABSENT"]
  /\ key' = [key EXCEPT ![r] = NoKey]

Reset ==
  /\ status' = [r \in Requests |-> "ABSENT"]
  /\ key' = [r \in Requests |-> NoKey]

Next ==
  \/ \E r \in Requests, k \in Keys \cup {NoKey} : Submit(r, k)
  \/ \E S \in SUBSET Requests : Admit(S)
  \/ \E r \in Requests : Preempt(r)
  \/ \E S \in SUBSET Requests : Finish(S)
  \/ \E r \in Requests : Retire(r)
  \/ Reset

Spec == Init /\ [][Next]_lifecycleVars
=============================================================================
