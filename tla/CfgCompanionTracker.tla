------------------------- MODULE CfgCompanionTracker -------------------------
(***************************************************************************)
(* The bookkeeping of classifier-free-guidance companions                  *)
(* (engine/cfg_companion_tracker.py).  A tracker is a value: every method  *)
(* of the class is an operator from trackers to trackers, so that the      *)
(* orchestrator's handlers can make several calls in one step.             *)
(*                                                                         *)
(*   map      the companions registered for a parent, _companion_map       *)
(*            (roles are left out: a companion has one role);              *)
(*            _companion_ids and _companion_to_parent are its inverse      *)
(*   done     the companions that have completed, _done                    *)
(*   pending  the result a deferred parent holds, _pending_parents: the    *)
(*            stage it comes from, and whether it is the stage's last      *)
(*   stash    companions whose output is kept for the parent,              *)
(*            _companion_outputs                                           *)
(***************************************************************************)
EXTENDS Naturals, FiniteSets

CONSTANTS Parents, Companions,
          ParentOf,               \* [Companions -> Parents]
          Stages,                 \* 0 .. NumStages - 1
          NoResult                \* the parent is not deferred

Result == [stage : Stages, complete : BOOLEAN]

ASSUME TrackerAssumption ==
  /\ ParentOf \in [Companions -> Parents]
  /\ Parents \cap Companions = {}
  /\ \A p \in Parents : IsFiniteSet({c \in Companions : ParentOf[c] = p})
  /\ NoResult \notin Result

Requests == Parents \cup Companions

Tracker == [map     : [Parents -> SUBSET Companions],
            done    : [Parents -> SUBSET Companions],
            pending : [Parents -> Result \cup {NoResult}],
            stash   : SUBSET Companions]

EmptyTracker == [map     |-> [p \in Parents |-> {}],
                 done    |-> [p \in Parents |-> {}],
                 pending |-> [p \in Parents |-> NoResult],
                 stash   |-> {}]

IsCompanion(t, r) == \E p \in Parents : r \in t.map[p]
HasCompanions(t, p) == t.map[p] # {}
AllDone(t, p) == t.map[p] \subseteq t.done[p]
Deferred(t, p) == t.pending[p] # NoResult

RegisterCompanion(t, c) == [t EXCEPT !.map[ParentOf[c]] = @ \cup {c}]
SetOutput(t, c) == [t EXCEPT !.stash = @ \cup {c}]
PopOutputs(t, p) == [t EXCEPT !.stash = @ \ t.map[p]]
DeferParent(t, p, s, complete) ==
  [t EXCEPT !.pending[p] = [stage |-> s, complete |-> complete]]
PopPending(t, p) == [t EXCEPT !.pending[p] = NoResult]

\* on_companion_completed: marks c; the parent is released the first time all
\* of its companions are done while it is deferred.
CompanionDone(t, c) ==
  IF IsCompanion(t, c) THEN [t EXCEPT !.done[ParentOf[c]] = @ \cup {c}] ELSE t
MutReleases(t, c) ==
  /\ IsCompanion(t, c)
  /\ c \notin t.done[ParentOf[c]]
  /\ Deferred(t, ParentOf[c])
  /\ AllDone(t, ParentOf[c])
Releases(t, c) ==
  /\ IsCompanion(t, c)
  /\ c \notin t.done[ParentOf[c]]
  /\ Deferred(t, ParentOf[c])
  /\ AllDone(CompanionDone(t, c), ParentOf[c])

CleanupParent(t, p) ==
  [map     |-> [t.map EXCEPT ![p] = {}],
   done    |-> [t.done EXCEPT ![p] = {}],
   pending |-> [t.pending EXCEPT ![p] = NoResult],
   stash   |-> t.stash \ t.map[p]]

\* abort_parents: the ids to abort, and the tracker without the parents among
\* them; an id that is a tracked companion is aborted alone.
AbortIds(t, ids) ==
  ids \cup UNION {t.map[p] : p \in (ids \cap Parents)}
AbortParents(t, ids) ==
  [map     |-> [p \in Parents |-> IF p \in ids THEN {} ELSE t.map[p]],
   done    |-> [p \in Parents |-> IF p \in ids THEN {} ELSE t.done[p]],
   pending |-> [p \in Parents |-> IF p \in ids THEN NoResult ELSE t.pending[p]],
   stash   |-> t.stash \ UNION {t.map[p] : p \in (ids \cap Parents)}]
=============================================================================
