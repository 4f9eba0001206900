---------------------- MODULE CfgCompanionTracker_proofs ----------------------
(***************************************************************************)
(* What the methods of the companion tracker return, for every tracker:    *)
(* one lemma per method says that the result is a tracker, and what it     *)
(* does to the companions of a parent and to its deferred result.  The     *)
(* theorems are about the release of a deferred parent.                    *)
(***************************************************************************)
EXTENDS CfgCompanionTracker, TLAPS

\* The companions of a tracker are registered under their own parents.
OwnCompanions(t) == \A p \in Parents : \A c \in t.map[p] : ParentOf[c] = p

\* A deferred parent waits for a companion that is still to be done.
DeferralsAwait(t) == \A p \in Parents : Deferred(t, p) => ~AllDone(t, p)

(* A tracker without any registration is one. *)
LEMMA EmptyFacts ==
  /\ EmptyTracker \in Tracker
  /\ OwnCompanions(EmptyTracker) /\ DeferralsAwait(EmptyTracker)
  BY DEF EmptyTracker, Tracker, OwnCompanions, DeferralsAwait, Deferred

(* What makes a record a tracker. *)
LEMMA IsTracker ==
  ASSUME NEW m \in [Parents -> SUBSET Companions], NEW d \in [Parents -> SUBSET Companions],
         NEW w \in [Parents -> Result \cup {NoResult}], NEW o \in SUBSET Companions
  PROVE  [map |-> m, done |-> d, pending |-> w, stash |-> o] \in Tracker
  BY DEF Tracker

(* The fields of a tracker. *)
LEMMA TrackerFields ==
  ASSUME NEW t \in Tracker
  PROVE  /\ t.map \in [Parents -> SUBSET Companions]
         /\ t.done \in [Parents -> SUBSET Companions]
         /\ t.pending \in [Parents -> Result \cup {NoResult}]
         /\ t.stash \in SUBSET Companions
         /\ t = [map |-> t.map, done |-> t.done, pending |-> t.pending, stash |-> t.stash]
  BY DEF Tracker

(* register_companion adds a companion to its parent's. *)
LEMMA RegisterFacts ==
  ASSUME NEW t \in Tracker, NEW c \in Companions
  PROVE  LET u == RegisterCompanion(t, c)
         IN  /\ u \in Tracker
             /\ u.map = [t.map EXCEPT ![ParentOf[c]] = @ \cup {c}]
             /\ u.done = t.done /\ u.pending = t.pending
  BY TrackerAssumption, TrackerFields DEF RegisterCompanion, Tracker

(* set_companion_output touches the kept outputs only.                      *)
LEMMA SetOutputFacts ==
  ASSUME NEW t \in Tracker, NEW c \in Companions
  PROVE  LET u == SetOutput(t, c)
         IN  u \in Tracker /\ u.map = t.map /\ u.done = t.done /\ u.pending = t.pending
  BY DEF SetOutput, Tracker

(* The same for pop_companion_outputs.                                      *)
LEMMA PopOutputsFacts ==
  ASSUME NEW t \in Tracker, NEW p \in Parents
  PROVE  LET u == PopOutputs(t, p)
         IN  u \in Tracker /\ u.map = t.map /\ u.done = t.done /\ u.pending = t.pending
  BY DEF PopOutputs, Tracker

(* defer_parent keeps the parent's result. *)
LEMMA DeferFacts ==
  ASSUME NEW t \in Tracker, NEW p \in Parents, NEW s \in Stages, NEW b \in BOOLEAN
  PROVE  LET u == DeferParent(t, p, s, b)
         IN  /\ u \in Tracker
             /\ u.map = t.map /\ u.done = t.done
             /\ u.pending = [t.pending EXCEPT ![p] = [stage |-> s, complete |-> b]]
  BY DEF DeferParent, Tracker, Result

(* pop_pending_parent forgets it. *)
LEMMA PopPendingFacts ==
  ASSUME NEW t \in Tracker, NEW p \in Parents
  PROVE  LET u == PopPending(t, p)
         IN  /\ u \in Tracker
             /\ u.map = t.map /\ u.done = t.done
             /\ u.pending = [t.pending EXCEPT ![p] = NoResult]
  BY DEF PopPending, Tracker

(* on_companion_completed marks a tracked companion. *)
LEMMA DoneFacts ==
  ASSUME NEW t \in Tracker, NEW c \in Companions
  PROVE  LET u == CompanionDone(t, c)
         IN  /\ u \in Tracker
             /\ u.map = t.map /\ u.pending = t.pending
             /\ u.done = IF IsCompanion(t, c) THEN [t.done EXCEPT ![ParentOf[c]] = @ \cup {c}]
                         ELSE t.done
  BY TrackerAssumption DEF CompanionDone, Tracker

(* cleanup_parent forgets a parent. *)
LEMMA CleanupFacts ==
  ASSUME NEW t \in Tracker, NEW p \in Parents
  PROVE  LET u == CleanupParent(t, p)
         IN  /\ u \in Tracker
             /\ u.map = [t.map EXCEPT ![p] = {}]
             /\ u.done = [t.done EXCEPT ![p] = {}]
             /\ u.pending = [t.pending EXCEPT ![p] = NoResult]
  BY TrackerFields, IsTracker DEF CleanupParent

(* abort_parents forgets the parents among the ids, and adds their           *)
(* companions to the ids.                                                    *)
LEMMA AbortFacts ==
  ASSUME NEW t \in Tracker, NEW p \in Parents
  PROVE  LET u == AbortParents(t, {p})
         IN  /\ u \in Tracker
             /\ u.map = [t.map EXCEPT ![p] = {}]
             /\ u.done = [t.done EXCEPT ![p] = {}]
             /\ u.pending = [t.pending EXCEPT ![p] = NoResult]
             /\ AbortIds(t, {p}) = {p} \cup t.map[p]
  BY TrackerFields, IsTracker DEF AbortParents, AbortIds

-----------------------------------------------------------------------------
(* The release of a deferred parent.                                       *)

\* The tracker after companion c has completed, with the parent's result taken
\* out if this releases the parent: _handle_cfg_companion_ready.
AfterCompletion(t, c) ==
  IF Releases(t, c) THEN PopPending(CompanionDone(t, c), ParentOf[c]) ELSE CompanionDone(t, c)

(* The completion of a companion leaves a tracker, and no companion is lost. *)
LEMMA CompletionFacts ==
  ASSUME NEW t \in Tracker, NEW c \in Companions
  PROVE  LET u == AfterCompletion(t, c)
         IN  /\ u \in Tracker /\ u.map = t.map
             /\ \A p \in Parents :
                  /\ t.done[p] \subseteq u.done[p]
                  /\ u.pending[p] = t.pending[p] \/ u.pending[p] = NoResult
                  /\ p # ParentOf[c] => u.done[p] = t.done[p] /\ u.pending[p] = t.pending[p]
<1> DEFINE v == CompanionDone(t, c)
           u == AfterCompletion(t, c)
           q == ParentOf[c]
<1>1. q \in Parents
  BY TrackerAssumption
<1>2. /\ v \in Tracker /\ v.map = t.map /\ v.pending = t.pending
      /\ v.done = [t.done EXCEPT ![q] = @ \cup {c}] \/ v.done = t.done
  BY DoneFacts
<1>3. \A p \in Parents : /\ t.done[p] \subseteq v.done[p]
                         /\ p # q => v.done[p] = t.done[p]
  BY <1>1, <1>2, TrackerFields
<1>4. CASE Releases(t, c)
  <2>1. u = PopPending(v, q)
    BY <1>4 DEF AfterCompletion
  <2> HIDE DEF u, v, q
  <2>2. /\ u \in Tracker /\ u.map = v.map /\ u.done = v.done
        /\ u.pending = [v.pending EXCEPT ![q] = NoResult]
    BY <1>1, <1>2, <2>1, PopPendingFacts
  <2>3. v.pending \in [Parents -> Result \cup {NoResult}]
    BY <1>2, TrackerFields
  <2> QED BY <1>1, <1>2, <1>3, <2>2, <2>3 DEF u, q
<1>5. CASE ~Releases(t, c)
  <2>1. u = v
    BY <1>5 DEF AfterCompletion
  <2> QED BY <1>2, <1>3, <2>1
<1> QED BY <1>4, <1>5

(* The parent that is released holds no result any more.                    *)
LEMMA ReleasedFacts ==
  ASSUME NEW t \in Tracker, NEW c \in Companions, Releases(t, c)
  PROVE  AfterCompletion(t, c).pending[ParentOf[c]] = NoResult
<1> DEFINE v == CompanionDone(t, c)
           q == ParentOf[c]
<1>1. q \in Parents
  BY TrackerAssumption
<1>2. v \in Tracker
  BY DoneFacts
<1>3. AfterCompletion(t, c) = PopPending(v, q)
  BY DEF AfterCompletion
<1> HIDE DEF v, q
<1>4. PopPending(v, q).pending = [v.pending EXCEPT ![q] = NoResult]
  BY <1>1, <1>2, PopPendingFacts
<1>5. v.pending \in [Parents -> Result \cup {NoResult}]
  BY <1>2, TrackerFields
<1> QED BY <1>1, <1>3, <1>4, <1>5 DEF q

(* Whatever companion completes, and whenever, a parent that stays deferred *)
(* still waits for one: the last to complete always releases it.            *)
THEOREM LastCompanionReleases ==
  ASSUME NEW t \in Tracker, NEW c \in Companions, DeferralsAwait(t)
  PROVE  DeferralsAwait(AfterCompletion(t, c))
<1> DEFINE u == AfterCompletion(t, c)
           q == ParentOf[c]
<1> SUFFICES ASSUME NEW p \in Parents, Deferred(u, p) PROVE ~AllDone(u, p)
  BY DEF DeferralsAwait
<1>1. q \in Parents
  BY TrackerAssumption
<1>2. u.map = t.map /\ (u.pending[p] = t.pending[p] \/ u.pending[p] = NoResult)
  BY CompletionFacts
<1>3. Deferred(t, p) /\ ~AllDone(t, p)
  BY <1>2 DEF Deferred, DeferralsAwait
<1>4. CASE p # q
  BY <1>2, <1>3, <1>4, CompletionFacts DEF AllDone
<1>5. CASE p = q
  <2>1. ~Releases(t, c)
    <3> SUFFICES ASSUME Releases(t, c) PROVE FALSE
      OBVIOUS
    <3> QED BY <1>5, ReleasedFacts DEF Deferred
  <2>2. u = CompanionDone(t, c)
    BY <2>1 DEF AfterCompletion
  <2>3. CASE IsCompanion(t, c) /\ c \notin t.done[q]
    <3>1. ~AllDone(CompanionDone(t, c), q)
      BY <1>3, <1>5, <2>1, <2>3 DEF Releases
    <3> QED BY <1>5, <2>2, <3>1
  <2>4. CASE ~(IsCompanion(t, c) /\ c \notin t.done[q])
    <3>1. u.done = t.done
      <4>1. CASE IsCompanion(t, c)
        <5>1. u.done = [t.done EXCEPT ![q] = @ \cup {c}] /\ c \in t.done[q]
          BY <2>2, <2>4, <4>1, DoneFacts
        <5>2. \A f \in [Parents -> SUBSET Companions], x \in Parents :
                 c \in f[x] => [f EXCEPT ![x] = @ \cup {c}] = f
          OBVIOUS
        <5> HIDE DEF u, q
        <5> QED BY <5>1, <5>2, <1>1, TrackerFields
      <4>2. CASE ~IsCompanion(t, c)
        BY <2>2, <4>2, DoneFacts
      <4> QED BY <4>1, <4>2
    <3> QED BY <1>2, <1>3, <3>1 DEF AllDone
  <2> QED BY <2>3, <2>4
<1> QED BY <1>4, <1>5

(* A parent is released once: after its last companion has released it, no  *)
(* companion of it, late or completed twice, does so again.                 *)
THEOREM ReleasedOnce ==
  ASSUME NEW t \in Tracker, NEW c \in Companions, NEW d \in Companions,
         Releases(t, c), ParentOf[d] = ParentOf[c]
  PROVE  ~Releases(AfterCompletion(t, c), d)
  BY ReleasedFacts DEF Releases, Deferred
=============================================================================
