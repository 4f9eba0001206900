----------------------------- MODULE RequestJourney -----------------------------
(***************************************************************************)
(* What the orchestrator promises for every single request, whichever of   *)
(* its coroutines, the stages and the frontend act, and in what order.  A  *)
(* request is new until it is taken from the queue, live while the         *)
(* orchestrator has state for it, then over, for good.  It is submitted to *)
(* the stages one after the other, to each once, and the frontend is told  *)
(* of its end at most once.  A told request is submitted no more, unless   *)
(* the deployment submits ahead (async chunks), where submissions are not  *)
(* undone by the end of the request.                                       *)
(***************************************************************************)
EXTENDS Naturals

CONSTANTS
  Requests,
  Parents,    \* the requests of the frontend; the others are companions
  Stages

VARIABLES
  phase,      \* [Requests -> Phases]
  told,       \* [Requests -> Nat]: terminal messages sent to the frontend
  visits,     \* [Requests -> [Stages -> Nat]]: submissions
  ahead       \* whether the stages after the first are submitted to ahead

journeyVars == <<phase, told, visits, ahead>>

Phases == {"new", "live", "over"}

Init ==
  /\ phase = [r \in Requests |-> "new"]
  /\ told = [r \in Requests |-> 0]
  /\ visits = [r \in Requests |-> [s \in Stages |-> 0]]
  /\ ahead \in BOOLEAN

-----------------------------------------------------------------------------
(* What a step may do to request r.  A step may do something to several    *)
(* requests at once: a cleanup ends a family, a stage's death all that     *)
(* were there.                                                             *)

Becomes(r, p, n, v) == phase'[r] = p /\ told'[r] = n /\ visits'[r] = v

Visited(r, s) == [visits[r] EXCEPT ![s] = @ + 1]

Rest(r) == Becomes(r, phase[r], told[r], visits[r])

\* Taken, and submitted to the first stage unless that is known to be dead.
Enter(r) ==
  /\ phase[r] = "new"
  /\ \E v \in {visits[r], Visited(r, 0)} : Becomes(r, "live", told[r], v)

\* A companion whose parent is gone, or whose message the end of the run drops.
Drop(r) ==
  /\ r \notin Parents /\ phase[r] = "new"
  /\ Becomes(r, "over", told[r], visits[r])

\* Submitted to the stage after one it has visited; companions stay at the first.
MoveOn(r) ==
  /\ r \in Parents
  /\ (phase[r] = "live" /\ told[r] = 0) \/ (phase[r] # "new" /\ ahead)
  /\ \E s \in Stages :
       /\ s + 1 \in Stages /\ visits[r][s] = 1 /\ visits[r][s + 1] = 0
       /\ Becomes(r, phase[r], told[r], Visited(r, s + 1))

\* The frontend is told; what is left in the stages may have to be aborted first.
Tell(r) ==
  /\ phase[r] # "over" /\ told[r] = 0
  /\ \E p \in {"live", "over"} :
       /\ p = "live" => phase[r] = "live"
       /\ Becomes(r, p, 1, visits[r])

\* Given up by the frontend, released with its parent, or told before.
Leave(r) ==
  /\ phase[r] = "live"
  /\ Becomes(r, "over", told[r], visits[r])

RequestStep(r) == Rest(r) \/ Enter(r) \/ Drop(r) \/ MoveOn(r) \/ Tell(r) \/ Leave(r)

Next ==
  /\ phase' \in [Requests -> Phases]
  /\ told' \in [Requests -> Nat]
  /\ visits' \in [Requests -> [Stages -> Nat]]
  /\ \A r \in Requests : RequestStep(r)
  /\ UNCHANGED ahead

Spec == Init /\ [][Next]_journeyVars
=============================================================================
