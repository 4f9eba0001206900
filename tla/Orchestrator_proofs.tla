-------------------------- MODULE Orchestrator_proofs --------------------------
(***************************************************************************)
(* For any requests, companions, stages and deployments: what the two      *)
(* coroutines of the orchestrator promise although either may run while    *)
(* the other waits for a stage.  A request is followed from the message    *)
(* that brings it (it is Fresh until then) over the stages it visits to    *)
(* the one message that ends it.                                           *)
(***************************************************************************)
EXTENDS Orchestrator, CfgCompanionTracker_proofs, FiniteSetTheorems, SequenceTheorems,
        WellFoundedInduction

MessageSet == [type : {"add", "companion", "abort", "rpc", "shutdown"},
               req : Requests \cup {NoResult}]

\* A request is brought once, by the submission of its parent, and an abort is
\* behind the request it is about.
QueueInPlace ==
  /\ \A m \in Msgs :
       /\ m.type \in {"add", "companion"} =>
            m.req \in Requests /\ m = Entry(m.req) /\ Source(m.req) \in sent
       /\ m.type = "abort" => m.req \in quit
  /\ \A i, j \in 1 .. Len(queue) :
       queue[i] = queue[j] /\ queue[i].type \in {"add", "companion"} => i = j
  /\ \A i, j \in 1 .. Len(queue) :
       queue[i].type = "abort" /\ queue[j] = Entry(queue[i].req) => j < i

\* What each coroutine has in hand while it waits.
HandlerInPlace ==
  /\ handler.at = "submit" => \E r \in Requests : handler.ids = {r}
  /\ handler.at = "cleanup" => handler.ids \cap Parents \subseteq quit
RouterInPlace ==
  /\ router.at = "submit" =>
       /\ \E p \in Parents : router.ids = {p}
       /\ router.after \subseteq Companions
       /\ ~pipeline.chunked
  /\ router.at = "cleanup" => \A p \in router.ids \cap Parents : told[p] # 0

\* Neither task goes on after the drain, nor the loop after a fatal error, which
\* leaves nobody known.
EndInPlace ==
  /\ run = "drained" => handler = Over /\ router = Over
  /\ fatal => router = Over
  /\ run = "drained" /\ fatal => known = {}

\* What is submitted after the drain stays in the queue; after a fatal error
\* nothing else that brings a request is there.
LateInPlace ==
  /\ late # {} => run = "drained"
  /\ \A p \in late : Entry(p) \in Msgs
  /\ run = "drained" /\ fatal => \A p \in sent \ late : Entry(p) \notin Msgs

\* Companions are registered under their own parent; a deferred parent waits for
\* one of them, and its result comes from a stage it has visited.
DeferralInPlace ==
  \A p \in Parents : Deferred(cfg, p) =>
    /\ ~pipeline.chunked
    /\ cfg.pending[p].stage < FinalStage[p]
    /\ visits[p][cfg.pending[p].stage] # 0
TrackerInPlace == OwnCompanions(cfg) /\ DeferralsAwait(cfg) /\ DeferralInPlace

\* Nobody has heard of a request that is still to be taken.
FreshUnused ==
  \A r \in Requests : Fresh(r) =>
    /\ r \notin known /\ r \notin aborted /\ told[r] = 0
    /\ \A s \in Stages : visits[r][s] = 0
    /\ r \notin handler.ids /\ r \notin router.ids
    /\ \A p \in Parents : r \notin cfg.map[p] /\ (r = p => cfg.map[p] = {})

\* The stages work only on what has been submitted to them; companions stay at
\* the first; an LLM stage reports no errors.
VisitedInPlace ==
  \A s \in Stages :
    /\ \A r \in work[s] \cup bound[s] : visits[r][s] # 0
    /\ \A o \in outs[s] : visits[o.req][s] # 0 /\ (o.kind = "err" => s \notin LLM)
    /\ s # 0 => \A c \in Companions : visits[c][s] = 0

\* A request the frontend waits for is in the queue or known, until it is told.
NobodyForgotten ==
  \A p \in sent \ quit : told[p] = 0 => Entry(p) \in Msgs \/ p \in known

BaseInv ==
  /\ OrchestratorTypeOK /\ IsFiniteSet(known)
  /\ QueueInPlace /\ HandlerInPlace /\ RouterInPlace /\ EndInPlace /\ LateInPlace
  /\ TrackerInPlace
  /\ FreshUnused /\ VisitedInPlace /\ NobodyForgotten

\* A known request's visits are recorded, but for the one being submitted.
VisitsRecorded ==
  ~pipeline.chunked /\ run # "drained" => \A r \in known, s \in Stages : visits[r][s] # 0 =>
    s \in submitted[r] \/ (router.at = "submit" /\ r \in router.ids /\ router.stage = s)

\* In async-chunk mode the handler submits the stages in order.
ChunksInOrder ==
  pipeline.chunked /\ handler.at = "submit" =>
    \A r \in handler.ids, s \in Stages : s > handler.stage => visits[r][s] = 0

VisitInv == EntersStageOnce /\ VisitsRecorded /\ ChunksInOrder

\* Companions are submitted to LLM stages only, where the conditional and the
\* unconditional prompt are both run for their KV.
CompanionsOnLlm == Companions # {} => \A d \in Pipelines : 0 \in d.llm

\* Who is told is no longer known, or is being cleaned up.
ToldAreOver ==
  run # "drained" =>
    \A r \in known : told[r] # 0 => router.at = "cleanup" /\ r \in router.ids
ToldInv == AnsweredAtMostOnce /\ ToldAreOver

\* In async-chunk mode a diffusion stage is submitted to last.
ChunkedOnLlm ==
  \A d \in Pipelines : d.chunked =>
    \A p \in Parents, s \in Stages : s < FinalStage[p] => s \in d.llm

AbortedAreGone == \A r \in aborted : r \notin known
KnownWorkIsBound == \A r \in known, s \in Stages : r \in work[s] => r \in bound[s]

\* What an abort has passed is free of its requests.
Passed(co) ==
  co.at = "cleanup" => \A r \in co.ids \cap known, s \in Stages : s <= co.stage => r \notin work[s]

\* Without async chunks a request reaches its stages one after the other.
VisitsInOrder ==
  ~pipeline.chunked => \A r \in Requests, s, x \in Stages :
    x < s /\ visits[r][s] # 0 => visits[r][x] # 0

\* A cleanup waits for a stage that one of its requests has visited, and is of
\* one family.
MidCleanup(co) ==
  co.at = "cleanup" =>
    /\ \E q \in co.ids : visits[q][co.stage] # 0
    /\ \A p, q \in co.ids \cap Parents : p = q

\* A request that the handler still submits ahead is not being aborted.
AheadIsAlive ==
  pipeline.chunked /\ handler.at = "submit" =>
    \A p \in handler.ids \cap Parents : handler.stage < FinalStage[p] =>
      p \notin aborted /\ (router.at = "cleanup" => p \notin router.ids)

AbortInv ==
  /\ AbortReachesStages /\ AbortedAreGone /\ KnownWorkIsBound /\ Passed(handler) /\ Passed(router)
  /\ MidCleanup(handler) /\ MidCleanup(router) /\ VisitsInOrder /\ AheadIsAlive

-----------------------------------------------------------------------------
(* The queue.                                                              *)

(* The forms of messages: the entry of a request tells which request it is. *)
LEMMA EntryForms ==
  \A r \in Requests :
    /\ Entry(r) \in MessageSet /\ Entry(r).req = r
    /\ Entry(r).type = IF r \in Parents THEN "add" ELSE "companion"
  BY DEF Entry, Message, MessageSet

(* A request is a parent or a companion, which has one parent.              *)
LEMMA SourceFacts ==
  /\ \A p \in Parents : p \in Requests /\ p \notin Companions /\ Source(p) = p
  /\ \A c \in Companions : c \in Requests /\ c \notin Parents /\ ParentOf[c] \in Parents
                           /\ Source(c) = ParentOf[c]
  /\ \A r \in Requests : Source(r) \in Parents
  BY TrackerAssumption DEF Requests, Source

(* What taking a message does to the queue: the rest stays as it was, and a *)
(* request that is taken, or aborted, is not in the rest.                   *)
LEMMA TakeFacts ==
  ASSUME queue \in Seq(MessageSet), QueueInPlace, NEW type, Take(type),
         sent' = sent, quit' = quit
  PROVE  /\ queue' \in Seq(MessageSet) /\ QueueInPlace'
         /\ Head(queue) \in MessageSet /\ Head(queue) \in Msgs /\ Head(queue).type = type
         /\ Msgs' \subseteq Msgs /\ Msgs \ {Head(queue)} \subseteq Msgs'
         /\ type \in {"add", "companion"} => Head(queue) \notin Msgs'
         /\ type = "abort" => Entry(Head(queue).req) \notin Msgs
<1>1. queue # << >> /\ queue' = Tail(queue) /\ Head(queue).type = type
  BY DEF Take
<1>2. /\ queue' \in Seq(MessageSet) /\ Len(queue') = Len(queue) - 1 /\ Len(queue) \in Nat \ {0}
      /\ \A i \in 1 .. Len(queue') : queue'[i] = queue[i + 1]
      /\ Head(queue) = queue[1]
  BY <1>1, HeadTailProperties, EmptySeq, LenProperties
<1>3. Head(queue) \in MessageSet /\ Head(queue) \in Msgs
  BY <1>2, ElementOfSeq DEF Msgs
<1>4. Msgs' \subseteq Msgs
  BY <1>2 DEF Msgs
<1>5. Msgs \ {Head(queue)} \subseteq Msgs'
  <2> SUFFICES ASSUME NEW i \in 1 .. Len(queue), queue[i] # Head(queue)
               PROVE  \E j \in 1 .. Len(queue') : queue'[j] = queue[i]
    BY DEF Msgs
  <2>1. i - 1 \in 1 .. Len(queue') /\ queue'[i - 1] = queue[i]
    BY <1>2
  <2> QED BY <2>1
<1>6. type \in {"add", "companion"} => Head(queue) \notin Msgs'
  BY <1>1, <1>2 DEF Msgs, QueueInPlace
<1>7. type = "abort" => Entry(Head(queue).req) \notin Msgs
  BY <1>1, <1>2 DEF Msgs, QueueInPlace
<1>8. QueueInPlace'
  <2>1. \A m \in Msgs' : /\ m.type \in {"add", "companion"} =>
                             m.req \in Requests /\ m = Entry(m.req) /\ Source(m.req) \in sent'
                         /\ m.type = "abort" => m.req \in quit'
    BY <1>4 DEF QueueInPlace
  <2>2. \A i, j \in 1 .. Len(queue') :
          queue'[i] = queue'[j] /\ queue'[i].type \in {"add", "companion"} => i = j
    BY <1>2 DEF QueueInPlace
  <2>3. \A i, j \in 1 .. Len(queue') :
          queue'[i].type = "abort" /\ queue'[j] = Entry(queue'[i].req) => j < i
    BY <1>2 DEF QueueInPlace
  <2> QED BY <2>1, <2>2, <2>3 DEF QueueInPlace, Entry, Source
<1> QED BY <1>1, <1>2, <1>3, <1>4, <1>5, <1>6, <1>7, <1>8

(* What a further message, which brings no request, does to the queue.      *)
LEMMA AppendFacts ==
  ASSUME queue \in Seq(MessageSet), QueueInPlace, NEW m \in MessageSet,
         queue' = Append(queue, m), m.type \notin {"add", "companion"},
         m.type = "abort" => m.req \in quit', quit \subseteq quit', sent' = sent
  PROVE  queue' \in Seq(MessageSet) /\ QueueInPlace' /\ Msgs' = Msgs \cup {m}
<1>1. /\ queue' \in Seq(MessageSet) /\ Len(queue') = Len(queue) + 1 /\ Len(queue) \in Nat
      /\ \A i \in 1 .. Len(queue) : queue'[i] = queue[i]
      /\ queue'[Len(queue')] = m
  BY AppendProperties, LenProperties
<1>2. Msgs' = Msgs \cup {m}
  BY <1>1 DEF Msgs
<1>3. QueueInPlace'
  <2>1. \A x \in Msgs' : /\ x.type \in {"add", "companion"} =>
                             x.req \in Requests /\ x = Entry(x.req) /\ Source(x.req) \in sent'
                         /\ x.type = "abort" => x.req \in quit'
    BY <1>2 DEF QueueInPlace
  <2>2. \A i, j \in 1 .. Len(queue') :
          queue'[i] = queue'[j] /\ queue'[i].type \in {"add", "companion"} => i = j
    BY <1>1 DEF QueueInPlace
  <2>3. ASSUME NEW i \in 1 .. Len(queue'), NEW j \in 1 .. Len(queue'),
               queue'[i].type = "abort", queue'[j] = Entry(queue'[i].req)
        PROVE  j < i
    <3>1. queue'[j].type \in {"add", "companion"}
      BY <2>3 DEF Entry, Message
    <3>2. j \in 1 .. Len(queue)
      BY <1>1, <3>1
    <3> QED BY <1>1, <2>3, <3>2 DEF QueueInPlace
  <2> QED BY <2>1, <2>2, <2>3 DEF QueueInPlace, Entry, Source
<1> QED BY <1>1, <1>2, <1>3

(* The companions of a parent, put in a sequence, are there once each.      *)
LEMMA OrderFacts ==
  ASSUME NEW p \in Parents
  PROVE  LET order == SetToSeq(CompanionsOf(p))
         IN  /\ order \in [1 .. Cardinality(CompanionsOf(p)) -> CompanionsOf(p)]
             /\ Cardinality(CompanionsOf(p)) \in Nat
             /\ \A i, j \in 1 .. Cardinality(CompanionsOf(p)) : order[i] = order[j] => i = j
<1> DEFINE S == CompanionsOf(p)
           n == Cardinality(S)
<1>1. IsFiniteSet(S)
  BY TrackerAssumption DEF CompanionsOf
<1>2. n \in Nat /\ ExistsBijection(1 .. n, S)
  BY <1>1, FS_CardinalityType
<1>3. PICK f \in [1 .. n -> S] : \A i, j \in 1 .. n : f[i] = f[j] => i = j
  BY <1>2 DEF ExistsBijection, Bijection, Injection, IsInjective
<1>4. IsInjective(f)
  BY <1>3 DEF IsInjective
<1> HIDE DEF S, n
<1>5. SetToSeq(S) \in [1 .. n -> S] /\ IsInjective(SetToSeq(S))
  BY <1>3, <1>4 DEF SetToSeq, n
<1>6. \A i, j \in 1 .. n : SetToSeq(S)[i] = SetToSeq(S)[j] => i = j
  BY <1>5 DEF IsInjective
<1> QED BY <1>2, <1>5, <1>6 DEF S, n

(* What a submission puts into the queue: the parent and its companions,    *)
(* none of which was there before.                                          *)
LEMMA SubmitFacts ==
  ASSUME queue \in Seq(MessageSet), QueueInPlace, quit \subseteq sent, sent \subseteq Parents,
         NEW p \in Parents, FrontSubmit(p)
  PROVE  /\ queue' \in Seq(MessageSet) /\ QueueInPlace'
         /\ Entry(p) \in Msgs' /\ Msgs \subseteq Msgs'
         /\ \A m \in Msgs' : m \in Msgs \/ \E r \in Requests : m = Entry(r) /\ Source(r) = p
<1> DEFINE order == SetToSeq(CompanionsOf(p))
           n == Cardinality(CompanionsOf(p))
           new == [i \in 1 .. n |-> Message("companion", order[i])]
           L == Len(queue)
<1>1. /\ order \in [1 .. n -> CompanionsOf(p)] /\ n \in Nat
      /\ \A i, j \in 1 .. n : order[i] = order[j] => i = j
  BY OrderFacts
<1>2. p \notin sent /\ sent' = sent \cup {p} /\ quit' = quit
      /\ queue' = queue \o << Message("add", p) >> \o new
  BY <1>1 DEF FrontSubmit
<1>3. \A i \in 1 .. n : order[i] \in Companions /\ ParentOf[order[i]] = p
  BY <1>1 DEF CompanionsOf
<1>4. \A i \in 1 .. n : new[i] = Entry(order[i]) /\ new[i] \in MessageSet
  BY <1>3, SourceFacts, EntryForms DEF Entry
<1>5. new \in Seq(MessageSet) /\ Len(new) = n
  <2>1. new \in [1 .. n -> MessageSet]
    BY <1>4
  <2> HIDE DEF new, order, n
  <2>2. new \in Seq(MessageSet)
    BY <1>1, <2>1, SeqDef
  <2>3. DOMAIN new = 1 .. n /\ DOMAIN new = 1 .. Len(new) /\ Len(new) \in Nat
    BY <2>1, <2>2, LenProperties
  <2> QED BY <1>1, <2>2, <2>3
<1>6. Message("add", p) = Entry(p) /\ Entry(p) \in MessageSet
  BY EntryForms, SourceFacts DEF Entry
<1> HIDE DEF new
<1>7. /\ queue' \in Seq(MessageSet) /\ L \in Nat
      /\ queue' = Append(queue, Entry(p)) \o new
      /\ Append(queue, Entry(p)) \in Seq(MessageSet)
  BY <1>2, <1>5, <1>6, AppendProperties, AppendIsConcat, ConcatProperties, LenProperties
<1>8. /\ Len(queue') = L + 1 + n
      /\ \A i \in 1 .. L : queue'[i] = queue[i]
      /\ queue'[L + 1] = Entry(p)
      /\ \A i \in 1 .. n : queue'[L + 1 + i] = new[i]
  BY <1>1, <1>5, <1>6, <1>7, AppendProperties, ConcatProperties, LenProperties
<1>9. \A i \in 1 .. Len(queue') : i \in 1 .. L \/ i = L + 1 \/ i - (L + 1) \in 1 .. n
  BY <1>1, <1>7, <1>8
<1>10. Entry(p) \in Msgs' /\ Msgs \subseteq Msgs'
  <2>1. L + 1 \in 1 .. Len(queue')
    BY <1>1, <1>7, <1>8
  <2>2. \A i \in 1 .. L : i \in 1 .. Len(queue')
    BY <1>1, <1>7, <1>8
  <2> QED BY <1>8, <2>1, <2>2 DEF Msgs
<1>11. \A i \in 1 .. n : order[i] \in Requests /\ Source(order[i]) = p
  BY <1>3, SourceFacts
<1>12. \A m \in Msgs' : m \in Msgs \/ \E r \in Requests : m = Entry(r) /\ Source(r) = p
  <2> SUFFICES ASSUME NEW i \in 1 .. Len(queue')
               PROVE  queue'[i] \in Msgs \/ \E r \in Requests : queue'[i] = Entry(r) /\ Source(r) = p
    BY DEF Msgs
  <2>1. CASE i \in 1 .. L
    BY <1>8, <2>1 DEF Msgs
  <2>2. CASE i = L + 1
    BY <1>8, <2>2, SourceFacts
  <2>3. CASE i - (L + 1) \in 1 .. n
    <3>1. queue'[i] = new[i - (L + 1)]
      BY <1>1, <1>7, <1>8, <2>3
    <3> QED BY <1>4, <1>11, <2>3, <3>1
  <2> QED BY <1>9, <2>1, <2>2, <2>3
<1>13. \A m \in Msgs : m.type \in {"add", "companion"} => Source(m.req) # p
  BY <1>2 DEF QueueInPlace
<1>14. \A i \in 1 .. L : queue[i].type \in {"add", "companion"} => Source(queue[i].req) # p
  BY <1>13 DEF Msgs
<1>15. \A i \in 1 .. Len(queue') : i \notin 1 .. L =>
         /\ queue'[i] = Entry(queue'[i].req) /\ Source(queue'[i].req) = p
         /\ queue'[i].type \in {"add", "companion"} /\ queue'[i].req \in Requests
  <2> SUFFICES ASSUME NEW i \in 1 .. Len(queue'), i \notin 1 .. L
               PROVE  \E r \in Requests : queue'[i] = Entry(r) /\ Source(r) = p
    BY EntryForms
  <2>2. CASE i = L + 1
    BY <1>8, <2>2, SourceFacts
  <2>3. CASE i - (L + 1) \in 1 .. n
    <3>1. queue'[i] = new[i - (L + 1)]
      BY <1>1, <1>7, <1>8, <2>3
    <3> QED BY <1>4, <1>11, <2>3, <3>1
  <2> QED BY <1>9, <2>2, <2>3
<1>16. \A i \in 1 .. Len(queue'), j \in 1 .. Len(queue') :
         queue'[i] = queue'[j] /\ queue'[i].type \in {"add", "companion"} => i = j
  <2> SUFFICES ASSUME NEW i \in 1 .. Len(queue'), NEW j \in 1 .. Len(queue'), i <= j,
                      queue'[i] = queue'[j], queue'[i].type \in {"add", "companion"}
               PROVE  i = j
    BY <1>1, <1>7, <1>8
  <2>1. CASE j \in 1 .. L
    BY <1>7, <1>8, <2>1 DEF QueueInPlace
  <2>2. CASE j \notin 1 .. L /\ i \in 1 .. L
    BY <1>8, <1>14, <1>15, <2>2
  <2>3. CASE i \notin 1 .. L /\ j \notin 1 .. L
    <3>1. CASE i = L + 1 /\ j = L + 1
      BY <3>1
    <3>2. CASE i = L + 1 /\ j - (L + 1) \in 1 .. n
      <4>1. queue'[j] = new[j - (L + 1)]
        BY <1>1, <1>7, <1>8, <3>2
      <4> QED BY <1>4, <1>3, <1>8, <1>11, <3>2, <4>1, EntryForms, SourceFacts
    <3>3. CASE i - (L + 1) \in 1 .. n /\ j - (L + 1) \in 1 .. n
      <4>1. queue'[j] = new[j - (L + 1)] /\ queue'[i] = new[i - (L + 1)]
        BY <1>1, <1>7, <1>8, <3>3
      <4>2. Entry(order[i - (L + 1)]) = Entry(order[j - (L + 1)])
        BY <1>4, <3>3, <4>1
      <4>3. order[i - (L + 1)] = order[j - (L + 1)]
        BY <1>11, <3>3, <4>2, EntryForms
      <4>4. i - (L + 1) = j - (L + 1)
        BY <1>1, <3>3, <4>3
      <4> QED BY <1>7, <1>8, <1>1, <4>4
    <3> QED BY <1>1, <1>7, <1>8, <1>9, <2>3, <3>1, <3>2, <3>3
  <2> QED BY <2>1, <2>2, <2>3
<1>17. QueueInPlace'
  <2>1. \A x \in Msgs' : /\ x.type \in {"add", "companion"} =>
                             x.req \in Requests /\ x = Entry(x.req) /\ Source(x.req) \in sent'
                         /\ x.type = "abort" => x.req \in quit'
    <3> SUFFICES ASSUME NEW i \in 1 .. Len(queue')
                 PROVE  /\ queue'[i].type \in {"add", "companion"} =>
                              /\ queue'[i].req \in Requests /\ queue'[i] = Entry(queue'[i].req)
                              /\ Source(queue'[i].req) \in sent'
                        /\ queue'[i].type = "abort" => queue'[i].req \in quit'
      BY DEF Msgs
    <3>1. CASE i \in 1 .. L
      BY <1>2, <1>8, <3>1 DEF QueueInPlace, Msgs
    <3>2. CASE i \notin 1 .. L
      BY <1>2, <1>15, <3>2
    <3> QED BY <3>1, <3>2
  <2>2. ASSUME NEW i \in 1 .. Len(queue'), NEW j \in 1 .. Len(queue'),
               queue'[i].type = "abort", queue'[j] = Entry(queue'[i].req)
        PROVE  j < i
    <3>1. i \in 1 .. L
      BY <1>15, <2>2
    <3>2. queue'[i].req \in Parents /\ queue'[i].req # p
      BY <1>2, <1>8, <2>2, <3>1 DEF QueueInPlace, Msgs
    <3>3. j \in 1 .. L
      BY <1>15, <2>2, <3>2, EntryForms, SourceFacts
    <3> QED BY <1>7, <1>8, <2>2, <3>1, <3>3 DEF QueueInPlace
  <2> QED BY <1>16, <2>1, <2>2 DEF QueueInPlace, Entry, Source
<1> QED BY <1>7, <1>10, <1>12, <1>17

-----------------------------------------------------------------------------
(* What the handlers are made of.                                          *)

(* The stages are the numbers below NumStages.                              *)
LEMMA StageFacts ==
  /\ 0 \in Stages /\ \A s \in Stages : s \in Nat /\ s >= 0
  /\ \A s, x \in Stages : s < x => s + 1 \in Stages
  /\ \A p \in Parents : FinalStage[p] \in Stages
  BY StagesAssumption, FinalAssumption

(* The resting points of a coroutine, and the wait for a submission.        *)
LEMMA PointFacts ==
  /\ Idle \in Coroutine /\ Idle.at = "idle" /\ Over \in Coroutine /\ Over.at = "over"
  /\ \A r \in Requests, s \in Stages, X \in SUBSET Requests :
       LET point == Submitting(r, s, X)
       IN  /\ point \in Coroutine /\ point.at = "submit" /\ point.ids = {r}
           /\ point.stage = s /\ point.after = X
  BY StageFacts DEF Idle, Over, Submitting, Coroutine

(* The first of some stages.                                                *)
LEMMA FirstFacts ==
  ASSUME NEW S \in SUBSET Stages, S # {}
  PROVE  First(S) \in S /\ \A x \in S : First(S) <= x
<1>1. S \subseteq Nat
  BY StageFacts
<1>2. PICK d \in S : \A y \in S : ~ (<<y, d>> \in OpToRel(<, Nat))
  BY <1>1, NatLessThanWellFounded, WFMin
<1>3. \A y \in S : d <= y
  <2>1. \A y \in S : <<y, d>> \in Nat \X Nat
    BY <1>1
  <2>2. \A y \in S : ~ (y < d)
    BY <1>2, <2>1 DEF OpToRel
  <2> QED BY <1>1, <2>2
<1> QED BY <1>3 DEF First

(* A release takes the requests out of the bindings and the known ones.     *)
LEMMA ReleaseFacts ==
  ASSUME IsFiniteSet(known), running \in Nat, NEW ids, Release(ids)
  PROVE  /\ known' = known \ ids /\ IsFiniteSet(known')
         /\ bound' = [s \in Stages |-> bound[s] \ ids]
         /\ running' \in Nat
<1>1. Cardinality(known \cap ids) \in Nat
  BY FS_Intersection, FS_CardinalityType
<1>2. IsFiniteSet(known \ ids)
  BY FS_Difference
<1>3. /\ known' = known \ ids /\ bound' = [s \in Stages |-> bound[s] \ ids]
      /\ running' = IF running > Cardinality(known \cap ids)
                    THEN running - Cardinality(known \cap ids) ELSE 0
  BY DEF Release
<1> QED BY <1>1, <1>2, <1>3

(* A cleanup goes on: it is over once no later stage has one of the         *)
(* requests, otherwise the next stage that has one hears of the abort.      *)
CleanupEnds(ids, k, point) ==
  /\ \A s \in Stages : s >= k => bound[s] \cap ids = {}
  /\ point = Idle
  /\ known' = known \ ids /\ running' \in Nat
  /\ bound' = [s \in Stages |-> bound[s] \ ids]
  /\ aborted' = aborted \cup (ids \cap known)
  /\ work' = work
CleanupWaits(ids, k, point) ==
  \E s \in Stages :
    /\ s >= k /\ bound[s] \cap ids # {}
    /\ \A x \in Stages : x >= k /\ x < s => bound[x] \cap ids = {}
    /\ point = [at |-> "cleanup", ids |-> ids, stage |-> s, after |-> {}]
    /\ work' = [work EXCEPT ![s] = @ \ (ids \cap bound[s])]
    /\ known' = known /\ bound' = bound /\ running' = running /\ aborted' = aborted

LEMMA CleanupFromFacts ==
  ASSUME IsFiniteSet(known), running \in Nat, NEW ids, NEW k, CleanupFrom(ids, k)
  PROVE  /\ CleanupEnds(ids, k, CleanupPoint(ids, k)) \/ CleanupWaits(ids, k, CleanupPoint(ids, k))
         /\ IsFiniteSet(known')
<1>1. CASE ToAbort(ids, k) = {}
  <2>1. Release(ids) /\ aborted' = aborted \cup (ids \cap known) /\ work' = work
    BY <1>1 DEF CleanupFrom
  <2>2. CleanupPoint(ids, k) = Idle
    BY <1>1 DEF CleanupPoint
  <2>3. \A s \in Stages : s >= k => bound[s] \cap ids = {}
    BY <1>1 DEF ToAbort
  <2> QED BY <2>1, <2>2, <2>3, ReleaseFacts DEF CleanupEnds
<1>2. CASE ToAbort(ids, k) # {}
  <2> DEFINE f == First(ToAbort(ids, k))
  <2>1. ToAbort(ids, k) \subseteq Stages
    BY DEF ToAbort
  <2>2. f \in ToAbort(ids, k) /\ \A x \in ToAbort(ids, k) : f <= x
    BY <1>2, <2>1, FirstFacts
  <2>3. f \in Stages /\ f >= k /\ bound[f] \cap ids # {}
    BY <2>2 DEF ToAbort
  <2>4. \A x \in Stages : x >= k /\ x < f => bound[x] \cap ids = {}
    <3> SUFFICES ASSUME NEW x \in Stages, x >= k, x < f, bound[x] \cap ids # {} PROVE FALSE
      OBVIOUS
    <3>1. x \in ToAbort(ids, k)
      BY DEF ToAbort
    <3> HIDE DEF f
    <3> QED BY <2>2, <2>3, <3>1, StageFacts
  <2>5. CleanupPoint(ids, k) = [at |-> "cleanup", ids |-> ids, stage |-> f, after |-> {}]
    BY <1>2 DEF CleanupPoint
  <2>6. /\ work' = [work EXCEPT ![f] = @ \ (ids \cap bound[f])]
        /\ known' = known /\ bound' = bound /\ running' = running /\ aborted' = aborted
    BY <1>2 DEF CleanupFrom
  <2> HIDE DEF f
  <2> QED BY <2>3, <2>4, <2>5, <2>6 DEF CleanupWaits
<1> QED BY <1>1, <1>2

-----------------------------------------------------------------------------
(* What handling an output comes to: the requests X are released, a parent *)
(* is submitted to its next stage, a request is finished, or the loop      *)
(* breaks.                                                                 *)

Settles(X) ==
  /\ known' = known \ X /\ bound' = [s \in Stages |-> bound[s] \ X]
  /\ UNCHANGED <<told, router, work, visits, endVars>>
Forwards(p, s, X) ==
  /\ p \in known /\ ~pipeline.chunked
  /\ s < FinalStage[p] /\ s + 1 \notin submitted[p] /\ visits[p][s] # 0
  /\ Submit(p, s + 1)
  /\ router' = Submitting(p, s + 1, X)
  /\ UNCHANGED <<told, known, endVars>>
Finishes(r, X) ==
  /\ r \in known /\ Tell(r)
  /\ known' = known \ (X \cup {r}) /\ bound' = [s \in Stages |-> bound[s] \ (X \cup {r})]
  /\ UNCHANGED <<router, work, visits, endVars>>
Tells(lost) ==
  /\ told' = [r \in Requests |-> told[r] + IF r \in lost THEN 1 ELSE 0]
  /\ known' = known \ lost
BreaksFatally ==
  /\ \E s \in Stages : Tells({r \in known : s \in submitted[r]})
  /\ router' = Over /\ stopping' = TRUE /\ run' = "failing" /\ fatal' = TRUE
  /\ UNCHANGED <<bound, work, visits>>
Breaks ==
  /\ router' = Over /\ Fail
  /\ UNCHANGED <<told, known, bound, work, visits, stopping>>

RouteMoves ==
  \/ \E X \in SUBSET Companions : Settles(X)
  \/ \E p \in Parents, s \in Stages, X \in SUBSET Companions : Forwards(p, s, X)
  \/ \E r \in Requests, X \in SUBSET Companions : Finishes(r, X)
  \/ BreaksFatally
  \/ Breaks

\* A tracker u is t, but for parents that are forgotten.
Trims(t, u) ==
  /\ u \in Tracker
  /\ \A q \in Parents :
       \/ u.map[q] = t.map[q] /\ u.done[q] = t.done[q] /\ u.pending[q] = t.pending[q]
       \/ u.map[q] = {} /\ u.done[q] = {} /\ u.pending[q] = NoResult

\* Tracker u is as the invariant demands, and has no companion that t has not.
GoodResult(p, held) ==
  ~pipeline.chunked /\ held.stage < FinalStage[p] /\ visits[p][held.stage] # 0
Follows(t, u) ==
  /\ u \in Tracker /\ OwnCompanions(u) /\ DeferralsAwait(u)
  /\ \A q \in Parents : /\ u.map[q] \subseteq t.map[q]
                        /\ Deferred(u, q) => GoodResult(q, u.pending[q])

(* Trimming keeps what the invariant demands of a tracker.                  *)
LEMMA TrimsFollow ==
  ASSUME NEW t \in Tracker, NEW u, OwnCompanions(t), DeferralsAwait(t), Trims(t, u),
         \A q \in Parents : Deferred(t, q) => GoodResult(q, t.pending[q])
  PROVE  Follows(t, u)
<1>1. u \in Tracker /\ OwnCompanions(u) /\ \A q \in Parents : u.map[q] \subseteq t.map[q]
  BY DEF Trims, OwnCompanions
<1>2. DeferralsAwait(u)
  BY DEF Trims, DeferralsAwait, Deferred, AllDone
<1>3. \A q \in Parents : Deferred(u, q) => GoodResult(q, u.pending[q])
  BY DEF Trims, Deferred
<1> QED BY <1>1, <1>2, <1>3 DEF Follows

(* What an EngineDeadError comes to.                                        *)
LEMMA DiedFacts ==
  ASSUME NEW s \in Stages, NEW guarded \in BOOLEAN, Died(s, guarded),
         UNCHANGED <<bound, work, visits>>
  PROVE  BreaksFatally \/ Breaks
<1>1. CASE guarded
  <2> DEFINE lost == {r \in known : s \in submitted[r]}
  <2>1. Tells(lost) /\ router' = Over /\ stopping' = TRUE /\ run' = "failing" /\ fatal' = TRUE
    BY <1>1 DEF Died, Tells
  <2> QED BY <2>1 DEF BreaksFatally
<1>2. CASE ~guarded
  BY <1>2 DEF Died, Breaks
<1> QED BY <1>1, <1>2

(* What the forwarding of a parent's result, with tracker t, comes to.      *)
LEMMA ForwardFacts ==
  ASSUME IsFiniteSet(known), running \in Nat,
         NEW p \in Parents, NEW s \in Stages, NEW t \in Tracker, NEW complete \in BOOLEAN,
         NEW X \in SUBSET Companions, NEW poll, poll.stage \in Stages, poll.guarded \in BOOLEAN,
         p \in known, ~pipeline.chunked, s < FinalStage[p], s + 1 \notin submitted[p],
         visits[p][s] # 0, Forward(p, s, t, complete, X, poll)
  PROVE  /\ RouteMoves /\ Trims(t, cfg')
         /\ IsFiniteSet(known') /\ running' \in Nat
<1> DEFINE next == s + 1
           t2 == IF next \in LLM THEN t ELSE PopOutputs(t, p)
<1>1. t2 \in Tracker /\ t2.map = t.map /\ t2.done = t.done /\ t2.pending = t.pending
  BY PopOutputsFacts
<1>2. Trims(t, t2)
  BY <1>1 DEF Trims
<1> HIDE DEF t2
<1>3. CASE /\ Submit(p, next) /\ cfg' = t2 /\ router' = Submitting(p, next, X)
           /\ UNCHANGED <<told, known, running, endVars>>
  <2>1. Forwards(p, s, X)
    BY <1>3 DEF Forwards
  <2> QED BY <1>2, <1>3, <2>1 DEF RouteMoves
<1>4. CASE /\ next \notin alive /\ cfg' = t2 /\ Died(poll.stage, poll.guarded)
           /\ UNCHANGED <<bound, running, work, visits>>
  <2>1. BreaksFatally \/ Breaks
    BY <1>4, DiedFacts
  <2>2. IsFiniteSet(known')
    <3>1. known' \in SUBSET known
      <4>1. CASE BreaksFatally
        <5>1. PICK s2 \in Stages : Tells({r \in known : s2 \in submitted[r]})
          BY <4>1 DEF BreaksFatally
        <5> QED BY <5>1 DEF Tells
      <4>2. CASE Breaks
        BY <4>2 DEF Breaks
      <4> QED BY <2>1, <4>1, <4>2
    <3> QED BY <3>1, FS_Subset
  <2> QED BY <1>2, <1>4, <2>1, <2>2 DEF RouteMoves
<1>5. CASE /\ Tell(p) /\ cfg' = CleanupParent(t2, p) /\ Release(Family(t2, p) \cup X)
           /\ UNCHANGED <<router, work, visits, endVars>>
  <2> DEFINE Y == t2.map[p] \cup X
  <2>1. Y \in SUBSET Companions
    BY <1>1, TrackerFields
  <2>2. Family(t2, p) \cup X = Y \cup {p}
    BY DEF Family
  <2>3. /\ known' = known \ (Y \cup {p}) /\ IsFiniteSet(known') /\ running' \in Nat
        /\ bound' = [x \in Stages |-> bound[x] \ (Y \cup {p})]
    BY <1>5, <2>2, ReleaseFacts
  <2>4. Finishes(p, Y)
    BY <1>5, <2>3 DEF Finishes
  <2>5. Trims(t, cfg')
    <3>1. /\ cfg' \in Tracker
          /\ cfg'.map = [t.map EXCEPT ![p] = {}] /\ cfg'.done = [t.done EXCEPT ![p] = {}]
          /\ cfg'.pending = [t.pending EXCEPT ![p] = NoResult]
      <4>1. LET u == CleanupParent(t2, p)
            IN  /\ u \in Tracker /\ u.map = [t2.map EXCEPT ![p] = {}]
                /\ u.done = [t2.done EXCEPT ![p] = {}]
                /\ u.pending = [t2.pending EXCEPT ![p] = NoResult]
        BY <1>1, CleanupFacts
      <4> QED BY <1>1, <1>5, <4>1
    <3>2. \A q \in Parents :
            \/ q # p /\ cfg'.map[q] = t.map[q] /\ cfg'.done[q] = t.done[q]
                     /\ cfg'.pending[q] = t.pending[q]
            \/ cfg'.map[q] = {} /\ cfg'.done[q] = {} /\ cfg'.pending[q] = NoResult
      BY <3>1, TrackerFields
    <3> QED BY <3>1, <3>2 DEF Trims
  <2> QED BY <2>1, <2>3, <2>4, <2>5, SourceFacts DEF RouteMoves
<1>6. CASE /\ cfg' = t2 /\ Release(X) /\ UNCHANGED <<told, router, work, visits, endVars>>
  <2>1. Settles(X) /\ IsFiniteSet(known') /\ running' \in Nat
    BY <1>6, ReleaseFacts DEF Settles
  <2> QED BY <1>2, <1>6, <2>1 DEF RouteMoves
<1>7. CASE /\ cfg' = t2 /\ router' = Over /\ Fail
           /\ UNCHANGED <<told, known, bound, running, work, visits, stopping>>
  <2>1. Breaks
    BY <1>7 DEF Breaks
  <2> QED BY <1>2, <1>7, <2>1 DEF RouteMoves
<1> QED BY <1>3, <1>4, <1>5, <1>6, <1>7 DEF Forward, t2

(* A tracker that follows one with the same companions.                     *)
LEMMA FollowsSame ==
  ASSUME NEW t, NEW v, NEW u, v.map = t.map, Follows(v, u)
  PROVE  Follows(t, u)
  BY DEF Follows

(* Nothing happens: an empty release.                                       *)
LEMMA NothingSettles ==
  ASSUME bound \in [Stages -> SUBSET Requests],
         UNCHANGED <<told, known, bound, router, work, visits, endVars>>
  PROVE  RouteMoves
<1>1. known \ {} = known /\ bound = [s \in Stages |-> bound[s] \ {}]
  OBVIOUS
<1>2. Settles({})
  BY <1>1 DEF Settles
<1> QED BY <1>2 DEF RouteMoves

(* What the handling of a parent's result comes to.                         *)
LEMMA ForwardOrDeferFacts ==
  ASSUME BaseInv, NEW p \in Parents, NEW s \in Stages, NEW complete \in BOOLEAN,
         NEW poll, poll.stage \in Stages, poll.guarded \in BOOLEAN,
         p \in known, ~pipeline.chunked, s < FinalStage[p], ~NextSubmitted(p, s),
         visits[p][s] # 0, ForwardOrDefer(p, s, complete, poll)
  PROVE  RouteMoves /\ Follows(cfg, cfg') /\ IsFiniteSet(known') /\ running' \in Nat
<1>1. /\ cfg \in Tracker /\ OwnCompanions(cfg) /\ DeferralsAwait(cfg)
      /\ \A q \in Parents : Deferred(cfg, q) => GoodResult(q, cfg.pending[q])
      /\ IsFiniteSet(known) /\ running \in Nat /\ bound \in [Stages -> SUBSET Requests]
  BY DEF BaseInv, OrchestratorTypeOK, TrackerInPlace, DeferralInPlace, GoodResult
<1>2. CASE HasCompanions(cfg, p) /\ ~AllDone(cfg, p)
  <2>1. /\ cfg' = DeferParent(cfg, p, s, complete)
        /\ UNCHANGED <<told, known, bound, running, router, work, visits, endVars>>
    BY <1>2 DEF ForwardOrDefer
  <2>2. /\ cfg' \in Tracker /\ cfg'.map = cfg.map /\ cfg'.done = cfg.done
        /\ cfg'.pending = [cfg.pending EXCEPT ![p] = [stage |-> s, complete |-> complete]]
    BY <1>1, <2>1, DeferFacts
  <2>3. \A q \in Parents : \/ q # p /\ cfg'.pending[q] = cfg.pending[q]
                           \/ q = p /\ cfg'.pending[q].stage = s
    BY <1>1, <2>2, TrackerFields
  <2>4. GoodResult(p, cfg'.pending[p])
    BY <2>3 DEF GoodResult
  <2>5. \A q \in Parents : Deferred(cfg', q) => GoodResult(q, cfg'.pending[q])
    BY <1>1, <2>3, <2>4 DEF Deferred
  <2>6. DeferralsAwait(cfg')
    BY <1>1, <1>2, <2>2, <2>3 DEF DeferralsAwait, Deferred, AllDone
  <2>7. Follows(cfg, cfg')
    BY <1>1, <2>2, <2>5, <2>6 DEF Follows, OwnCompanions
  <2> QED BY <1>1, <2>1, <2>7, NothingSettles
<1>3. CASE ~(HasCompanions(cfg, p) /\ ~AllDone(cfg, p))
  <2>1. Forward(p, s, cfg, complete, {}, poll)
    BY <1>3 DEF ForwardOrDefer
  <2>2. s + 1 \notin submitted[p]
    BY DEF NextSubmitted
  <2> QED BY <1>1, <2>1, <2>2, ForwardFacts, TrimsFollow
<1> QED BY <1>2, <1>3

(* What the completion of a companion comes to.                             *)
LEMMA CompanionReadyFacts ==
  ASSUME BaseInv, NEW c \in Companions, NEW t \in Tracker,
         t.map = cfg.map, t.done = cfg.done, t.pending = cfg.pending,
         NEW X \in SUBSET Companions, NEW poll, poll.stage \in Stages, poll.guarded \in BOOLEAN,
         CompanionReady(c, t, X, poll)
  PROVE  RouteMoves /\ Follows(cfg, cfg') /\ IsFiniteSet(known') /\ running' \in Nat
<1> DEFINE p == ParentOf[c]
           v == AfterCompletion(t, c)
           held == CompanionDone(t, c).pending[p]
<1>1. /\ cfg \in Tracker /\ OwnCompanions(t) /\ DeferralsAwait(t)
      /\ \A q \in Parents : Deferred(t, q) => GoodResult(q, t.pending[q])
      /\ IsFiniteSet(known) /\ running \in Nat
  BY DEF BaseInv, OrchestratorTypeOK, TrackerInPlace, DeferralInPlace, GoodResult,
         OwnCompanions, DeferralsAwait, Deferred, AllDone
<1>2. /\ v \in Tracker /\ v.map = t.map /\ DeferralsAwait(v)
      /\ \A q \in Parents : v.pending[q] = t.pending[q] \/ v.pending[q] = NoResult
  BY <1>1, CompletionFacts, LastCompanionReleases
<1>3. OwnCompanions(v) /\ \A q \in Parents : Deferred(v, q) => GoodResult(q, v.pending[q])
  BY <1>1, <1>2 DEF OwnCompanions, Deferred
<1>4. p \in Parents /\ held = t.pending[p]
  BY SourceFacts, DoneFacts
<1>5. CASE Releases(t, c) /\ p \in known /\ ~NextSubmitted(p, held.stage)
  <2>1. v = PopPending(CompanionDone(t, c), p)
    BY <1>5 DEF AfterCompletion
  <2>2. Forward(p, held.stage, v, held.complete, X, poll)
    BY <1>5, <2>1 DEF CompanionReady
  <2>3. Deferred(t, p) /\ GoodResult(p, held)
    BY <1>1, <1>4, <1>5 DEF Releases
  <2>4. held \in Result
    BY <1>4, <2>3, TrackerFields DEF Deferred
  <2>5. held.stage \in Stages /\ held.complete \in BOOLEAN
    BY <2>4 DEF Result
  <2>6. held.stage + 1 \notin submitted[p]
    BY <1>5 DEF NextSubmitted
  <2> HIDE DEF v, held, p
  <2>7. /\ RouteMoves /\ Trims(v, cfg')
        /\ IsFiniteSet(known') /\ running' \in Nat
    BY <1>1, <1>2, <1>4, <1>5, <2>2, <2>3, <2>5, <2>6, ForwardFacts DEF GoodResult
  <2>8. Follows(v, cfg')
    BY <1>2, <1>3, <2>7, TrimsFollow
  <2> QED BY <1>2, <2>7, <2>8, FollowsSame
<1>6. CASE ~(Releases(t, c) /\ p \in known /\ ~NextSubmitted(p, held.stage))
  <2>1. /\ cfg' = v /\ Release(X)
        /\ UNCHANGED <<told, router, work, visits, endVars>>
    BY <1>6 DEF CompanionReady, AfterCompletion
  <2>2. Settles(X) /\ IsFiniteSet(known') /\ running' \in Nat
    BY <1>1, <2>1, ReleaseFacts DEF Settles
  <2>3. Follows(cfg, v)
    BY <1>2, <1>3 DEF Follows
  <2> QED BY <2>1, <2>2, <2>3 DEF RouteMoves
<1> QED BY <1>5, <1>6

(* The per-request state of the known requests is kept.                     *)
LEMMA KeptFacts ==
  ASSUME NEW f \in [Requests -> SUBSET Stages]
  PROVE  /\ Kept(f) \in [Requests -> SUBSET Stages]
         /\ \A r \in Requests : Kept(f)[r] = IF r \in known' THEN f[r] ELSE {}
  BY DEF Kept

\* An output of a known request is handled, but for an error.
RouteStep(s, r) == KvReady(s, r) \/ CompanionFinished(s, r) \/ RequestFinished(s, r)
RouteStays ==
  /\ router = Idle /\ run # "drained" /\ ~stopping
  /\ outs' \in [Stages -> SUBSET Output] /\ \A s \in Stages : outs'[s] \subseteq outs[s]
  /\ submitted' = Kept(submitted) /\ finals' \in [Requests -> SUBSET Stages]
  /\ UNCHANGED <<frontVars, queue, handler, pipeline, prefilled, alive, aborted>>

(* What a poll takes from the outputs of a stage it has been submitted to.  *)
LEMMA PollFacts ==
  ASSUME OrchestratorTypeOK, VisitedInPlace,
         NEW s \in Stages, NEW r \in Requests, NEW kind, Poll(s, r, kind)
  PROVE  /\ router = Idle /\ run # "drained" /\ ~stopping /\ visits[r][s] # 0
         /\ outs' \in [Stages -> SUBSET Output] /\ \A x \in Stages : outs'[x] \subseteq outs[x]
         /\ kind = "err" => s \notin LLM
<1>1. outs \in [Stages -> SUBSET Output] /\ [req |-> r, kind |-> kind] \in outs[s]
  BY DEF OrchestratorTypeOK, Poll
<1>2. \A o \in outs[s] : visits[o.req][s] # 0 /\ (o.kind = "err" => s \notin LLM)
  BY DEF VisitedInPlace
<1>3. outs' = [outs EXCEPT ![s] = @ \ {[req |-> r, kind |-> kind]}]
  BY DEF Poll
<1>4. visits[r][s] # 0 /\ (kind = "err" => s \notin LLM)
  BY <1>1, <1>2
<1> QED BY <1>1, <1>3, <1>4 DEF Poll

(* A tracker the invariant holds of follows itself.                         *)
LEMMA FollowsItself ==
  ASSUME BaseInv PROVE Follows(cfg, cfg)
  BY DEF BaseInv, OrchestratorTypeOK, TrackerInPlace, DeferralInPlace, Follows, GoodResult

(* What the handling of an output comes to.                                 *)
LEMMA RouteFacts ==
  ASSUME BaseInv, NEW s \in Stages, NEW r \in Requests, RouteStep(s, r)
  PROVE  /\ RouteMoves /\ RouteStays /\ Follows(cfg, cfg')
         /\ IsFiniteSet(known') /\ running' \in Nat
<1>1. /\ OrchestratorTypeOK /\ VisitedInPlace /\ cfg \in Tracker
      /\ IsFiniteSet(known) /\ running \in Nat /\ bound \in [Stages -> SUBSET Requests]
      /\ finals \in [Requests -> SUBSET Stages]
  BY DEF BaseInv, OrchestratorTypeOK
<1>2. IsCompanion(cfg, r) => r \in Companions
  BY <1>1, TrackerFields DEF IsCompanion
<1>3. s < FinalStageOf(r) => r \in Parents /\ s < FinalStage[r]
  BY StageFacts DEF FinalStageOf
<1>4. /\ Guarded(s).stage \in Stages /\ Guarded(s).guarded \in BOOLEAN
      /\ Unguarded(s).stage \in Stages /\ Unguarded(s).guarded \in BOOLEAN
  BY DEF Guarded, Unguarded
<1>5. CASE KvReady(s, r)
  <2>1. Poll(s, r, "kv") /\ ~pipeline.chunked /\ r \in known
    BY <1>5 DEF KvReady
  <2>2. RouteStays /\ visits[r][s] # 0
    BY <1>1, <1>5, <2>1, PollFacts, KeptFacts DEF KvReady, RouteStays
  <2>3. CASE IsCompanion(cfg, r)
    <3>1. CompanionReady(r, cfg, {}, Guarded(s))
      BY <1>5, <2>3 DEF KvReady
    <3> QED BY <1>1, <1>2, <1>4, <2>2, <2>3, <3>1, CompanionReadyFacts
  <2>4. CASE ~IsCompanion(cfg, r) /\ s < FinalStageOf(r) /\ ~NextSubmitted(r, s)
    <3>1. ForwardOrDefer(r, s, FALSE, Guarded(s))
      BY <1>5, <2>4 DEF KvReady
    <3> QED BY <1>3, <1>4, <2>1, <2>2, <2>4, <3>1, ForwardOrDeferFacts
  <2>5. CASE ~IsCompanion(cfg, r) /\ ~(s < FinalStageOf(r) /\ ~NextSubmitted(r, s))
    <3>1. UNCHANGED <<told, known, bound, running, cfg, router, work, visits, endVars>>
      BY <1>5, <2>5 DEF KvReady
    <3> QED BY <1>1, <2>2, <3>1, NothingSettles, FollowsItself
  <2> QED BY <2>3, <2>4, <2>5
<1>6. CASE CompanionFinished(s, r)
  <2>1. /\ Poll(s, r, "fin") /\ r \in Companions
        /\ CompanionReady(r, SetOutput(cfg, r), {r}, Unguarded(s))
    BY <1>2, <1>6 DEF CompanionFinished
  <2>2. RouteStays
    BY <1>1, <1>6, <2>1, PollFacts, KeptFacts DEF CompanionFinished, RouteStays
  <2> DEFINE t == SetOutput(cfg, r)
  <2>3. t \in Tracker /\ t.map = cfg.map /\ t.done = cfg.done /\ t.pending = cfg.pending
    BY <1>1, <2>1, SetOutputFacts
  <2> HIDE DEF t
  <2>4. CompanionReady(r, t, {r}, Unguarded(s))
    BY <2>1 DEF t
  <2> QED BY <1>1, <1>4, <2>1, <2>2, <2>3, <2>4, CompanionReadyFacts
<1>7. CASE RequestFinished(s, r)
  <2>1. Poll(s, r, "fin") /\ r \in known
    BY <1>7 DEF RequestFinished
  <2>2. finals' \in [Requests -> SUBSET Stages]
    <3>1. /\ [finals EXCEPT ![r] = finals[r] \cup {s}] \in [Requests -> SUBSET Stages]
          /\ [finals EXCEPT ![r] = finals[r]] \in [Requests -> SUBSET Stages]
      BY <1>1
    <3>2. \/ finals' = Kept([finals EXCEPT ![r] = finals[r] \cup {s}])
          \/ finals' = Kept([finals EXCEPT ![r] = finals[r]])
      BY <1>7 DEF RequestFinished
    <3> QED BY <3>1, <3>2, KeptFacts
  <2>3. RouteStays /\ visits[r][s] # 0
    BY <1>1, <1>7, <2>1, <2>2, PollFacts DEF RequestFinished, RouteStays
  <2>4. CASE s < FinalStageOf(r) /\ ~pipeline.chunked /\ ~NextSubmitted(r, s)
    <3>1. ForwardOrDefer(r, s, TRUE, Unguarded(s))
      BY <1>7, <2>4 DEF RequestFinished
    <3> QED BY <1>3, <1>4, <2>1, <2>3, <2>4, <3>1, ForwardOrDeferFacts
  <2>5. CASE UNCHANGED <<told, known, bound, running, cfg, router, work, visits, endVars>>
    BY <1>1, <2>3, <2>5, NothingSettles, FollowsItself
  <2>6. CASE /\ Tell(r) /\ Release(IF r \in Parents THEN Family(cfg, r) ELSE {r})
             /\ cfg' = IF r \in Parents THEN CleanupParent(cfg, r) ELSE cfg
             /\ UNCHANGED <<router, work, visits, endVars>>
    <3>1. CASE r \in Parents
      <4>1. cfg.map[r] \in SUBSET Companions
        BY <1>1, <3>1, TrackerFields
      <4>2. Family(cfg, r) = cfg.map[r] \cup {r}
        BY DEF Family
      <4>3. Finishes(r, cfg.map[r]) /\ IsFiniteSet(known') /\ running' \in Nat
        BY <1>1, <2>1, <2>6, <3>1, <4>2, ReleaseFacts DEF Finishes
      <4>4. cfg' = CleanupParent(cfg, r)
        BY <2>6, <3>1
      <4>5. /\ cfg' \in Tracker
            /\ cfg'.map = [cfg.map EXCEPT ![r] = {}] /\ cfg'.done = [cfg.done EXCEPT ![r] = {}]
            /\ cfg'.pending = [cfg.pending EXCEPT ![r] = NoResult]
        BY <1>1, <3>1, <4>4, CleanupFacts
      <4>6. \A q \in Parents :
              \/ q # r /\ cfg'.map[q] = cfg.map[q] /\ cfg'.done[q] = cfg.done[q]
                       /\ cfg'.pending[q] = cfg.pending[q]
              \/ cfg'.map[q] = {} /\ cfg'.done[q] = {} /\ cfg'.pending[q] = NoResult
        BY <1>1, <4>5, TrackerFields
      <4>7. Trims(cfg, cfg')
        BY <4>5, <4>6 DEF Trims
      <4>8. Follows(cfg, cfg')
        BY <1>1, <4>7, FollowsItself, TrimsFollow DEF Follows
      <4> QED BY <2>3, <4>1, <4>3, <4>8 DEF RouteMoves
    <3>2. CASE r \notin Parents
      <4>1. cfg' = cfg /\ Release({r})
        BY <2>6, <3>2
      <4>2. {} \cup {r} = {r}
        OBVIOUS
      <4>3. Finishes(r, {}) /\ IsFiniteSet(known') /\ running' \in Nat
        BY <1>1, <2>1, <2>6, <4>1, <4>2, ReleaseFacts DEF Finishes
      <4> QED BY <2>3, <4>1, <4>3, FollowsItself DEF RouteMoves
    <3> QED BY <3>1, <3>2
  <2> QED BY <1>7, <2>4, <2>5, <2>6 DEF RequestFinished
<1> QED BY <1>5, <1>6, <1>7 DEF RouteStep

-----------------------------------------------------------------------------
(* What a step does, one part of the state at a time.                      *)

\* Request r is taken from the queue.
Taken(r) == Fresh(r) /\ ~Fresh(r)' /\ Head(queue) = Entry(r)

\* The steps of the two coroutines, but for the routing of outputs.
HandlerStep ==
  \/ AddRequest \/ AddCompanion \/ HandlerSubmitted \/ Abort \/ HandlerAborted
  \/ Rpc \/ RpcAnswered \/ Shutdown
RouterStep == RouterAborted \/ RouterSubmitted \/ RouterStops

(* Every step is one of these.                                              *)
LEMMA StepForms ==
  ASSUME Next
  PROVE  \/ FrontRpc \/ FrontShutdown \/ \E p \in Parents : FrontSubmit(p) \/ FrontAbort(p)
         \/ HandlerStep \/ RouterStep \/ Drain \/ ShutdownStages
         \/ \E s \in Stages : StageDead(s) \/ EngineDies(s)
         \/ \E r \in Requests : EngineKv(r)
         \/ \E s \in Stages, r \in Requests :
              DropOutput(s, r) \/ RouteStep(s, r) \/ StageError(s, r) \/ EngineEnds(s, r)
<1>1. HandlerNext \/ RpcAnswered => HandlerStep
  BY DEF HandlerNext, HandlerStep
<1>2. RouterNext => \/ RouterStep
                    \/ \E s \in Stages : StageDead(s)
                    \/ \E s \in Stages, r \in Requests :
                         DropOutput(s, r) \/ RouteStep(s, r) \/ StageError(s, r)
  BY DEF RouterNext, RouterStep, RouteOutput, RouteStep
<1> QED BY <1>1, <1>2 DEF Next, SystemNext, EnginesNext

(* The frontend and the queue: the queue stays in order, no request becomes *)
(* fresh again, a message that brings one stays until it is taken or the    *)
(* drain; after the drain only submissions change which ones are there.     *)
QueueMove ==
  /\ queue' \in Seq(MessageSet) /\ QueueInPlace'
  /\ sent \subseteq sent' /\ quit \subseteq quit'
  /\ sent' \subseteq Parents /\ quit' \subseteq sent' /\ upsets' \in 0 .. MaxUpsets
  /\ closing' \in BOOLEAN
  /\ \A r \in Requests : Fresh(r)' => Fresh(r)
  /\ late' = IF run = "drained" THEN late \cup (sent' \ sent) ELSE late
  /\ run = "drained" =>
       \A p \in Parents : Entry(p) \in Msgs' <=> Entry(p) \in Msgs \/ p \in sent' \ sent

LEMMA QueueMoves ==
  ASSUME BaseInv, Next
  PROVE  QueueMove
<1>1. /\ queue \in Seq(MessageSet) /\ QueueInPlace /\ quit \subseteq sent /\ sent \subseteq Parents
      /\ upsets \in 0 .. MaxUpsets /\ MaxUpsets \in Nat /\ closing \in BOOLEAN
  BY StagesAssumption DEF BaseInv, OrchestratorTypeOK, MessageSet
<1>2. Upset => upsets' \in 0 .. MaxUpsets
  BY <1>1 DEF Upset
<1>3. /\ NoResult \in Requests \cup {NoResult}
      /\ \A p \in Parents : p \in Requests \cup {NoResult}
  BY DEF Requests
<1>4. ASSUME NEW p \in Parents, FrontSubmit(p)
      PROVE  /\ queue' \in Seq(MessageSet) /\ QueueInPlace'
             /\ sent \subseteq sent' /\ quit' = quit /\ upsets' = upsets
             /\ sent' \subseteq Parents /\ closing' = closing
             /\ \A r \in Requests : Fresh(r)' => Fresh(r)
             /\ late' = IF run = "drained" THEN late \cup (sent' \ sent) ELSE late
             /\ \A q \in Parents : Entry(q) \in Msgs' <=> Entry(q) \in Msgs \/ q \in sent' \ sent
  <2>1. /\ queue' \in Seq(MessageSet) /\ QueueInPlace'
        /\ Entry(p) \in Msgs' /\ Msgs \subseteq Msgs'
        /\ \A m \in Msgs' : m \in Msgs \/ \E r \in Requests : m = Entry(r) /\ Source(r) = p
    BY <1>1, <1>4, SubmitFacts
  <2>2. p \notin sent /\ sent' = sent \cup {p} /\ quit' = quit /\ upsets' = upsets
       /\ closing' = closing
    BY <1>4 DEF FrontSubmit
  <2>3. ASSUME NEW r \in Requests, Fresh(r)' PROVE Fresh(r)
    <3>1. CASE Source(r) \notin sent
      BY <3>1 DEF Fresh
    <3>2. CASE Source(r) \in sent
      <4>1. Entry(r) \in Msgs'
        BY <2>2, <2>3, <3>2 DEF Fresh, Source, Entry
      <4>2. ASSUME NEW x \in Requests, Entry(r) = Entry(x), Source(x) = p PROVE FALSE
        <5>1. r = x
          BY <4>2, EntryForms
        <5> QED BY <2>2, <3>2, <4>2, <5>1
      <4>3. Entry(r) \in Msgs
        BY <2>1, <4>1, <4>2
      <4> QED BY <4>3 DEF Fresh
    <3> QED BY <3>1, <3>2
  <2>4. late' = IF run = "drained" THEN late \cup (sent' \ sent) ELSE late
    BY <1>4, <2>2 DEF FrontSubmit
  <2>5. ASSUME NEW q \in Parents PROVE Entry(q) \in Msgs' <=> Entry(q) \in Msgs \/ q = p
    <3>1. ASSUME NEW r \in Requests, Entry(q) = Entry(r), Source(r) = p PROVE q = p
      BY <3>1, EntryForms, SourceFacts
    <3> QED BY <2>1, <3>1
  <2>6. sent' \ sent = {p}
    BY <2>2
  <2> QED BY <1>1, <2>1, <2>2, <2>3, <2>4, <2>5, <2>6
<1>5. ASSUME NEW m \in MessageSet, queue' = Append(queue, m), m.type \notin {"add", "companion"},
             m.type = "abort" => m.req \in quit', quit \subseteq quit', sent' = sent
      PROVE  /\ queue' \in Seq(MessageSet) /\ QueueInPlace'
             /\ \A r \in Requests : Fresh(r)' => Fresh(r)
             /\ \A q \in Parents : Entry(q) \in Msgs' <=> Entry(q) \in Msgs
  <2>1. queue' \in Seq(MessageSet) /\ QueueInPlace' /\ Msgs' = Msgs \cup {m}
    BY <1>1, <1>5, AppendFacts
  <2>2. \A r \in Requests : Entry(r) # m
    BY <1>5, EntryForms
  <2>3. \A q \in Parents : Entry(q) \in Msgs' <=> Entry(q) \in Msgs
    BY <2>1, <2>2, SourceFacts
  <2> QED BY <1>5, <2>1, <2>2, <2>3 DEF Fresh, Source, Entry
<1>6. ASSUME NEW p \in Parents, FrontAbort(p)
      PROVE  /\ queue' \in Seq(MessageSet) /\ QueueInPlace'
             /\ sent' = sent /\ quit \subseteq quit' /\ quit' \subseteq sent /\ Upset
             /\ late' = late /\ closing' \in BOOLEAN
             /\ \A q \in Parents : Entry(q) \in Msgs' <=> Entry(q) \in Msgs
             /\ \A r \in Requests : Fresh(r)' => Fresh(r)
  <2>1. /\ p \in sent /\ sent' = sent /\ quit' = quit \cup {p} /\ Upset /\ late' = late
        /\ closing' = closing /\ queue' = Append(queue, Message("abort", p))
    BY <1>6 DEF FrontAbort
  <2>2. /\ Message("abort", p) \in MessageSet /\ Message("abort", p).type = "abort"
        /\ Message("abort", p).req = p
    BY <1>3 DEF Message, MessageSet
  <2> QED BY <1>1, <1>5, <2>1, <2>2
<1>7. ASSUME FrontRpc \/ FrontShutdown
      PROVE  /\ queue' \in Seq(MessageSet) /\ QueueInPlace'
             /\ sent' = sent /\ quit' = quit /\ Upset
             /\ late' = late /\ closing' \in BOOLEAN
             /\ \A q \in Parents : Entry(q) \in Msgs' <=> Entry(q) \in Msgs
             /\ \A r \in Requests : Fresh(r)' => Fresh(r)
  <2>1. PICK type \in {"rpc", "shutdown"} :
          /\ sent' = sent /\ quit' = quit /\ Upset /\ late' = late /\ closing' \in BOOLEAN
          /\ queue' = Append(queue, Message(type, NoResult))
    BY <1>1, <1>7 DEF FrontRpc, FrontShutdown
  <2>2. Message(type, NoResult) \in MessageSet /\ Message(type, NoResult).type = type
    BY <1>3 DEF Message, MessageSet
  <2> QED BY <1>1, <1>5, <2>1, <2>2
<1>8. ASSUME NEW type, Take(type), UNCHANGED frontVars
      PROVE  /\ queue' \in Seq(MessageSet) /\ QueueInPlace' /\ run # "drained"
             /\ \A r \in Requests : Fresh(r)' => Fresh(r)
  <2>1. sent' = sent /\ quit' = quit /\ run # "drained"
    BY <1>8 DEF frontVars, Take
  <2> QED BY <1>1, <1>8, <2>1, TakeFacts DEF Fresh, Source, Entry
<1>9. ASSUME AddRequest \/ AddCompanion \/ Abort \/ Rpc \/ Shutdown
      PROVE  UNCHANGED frontVars /\ \E type : Take(type)
  BY <1>9 DEF AddRequest, AddCompanion, Abort, Rpc, Shutdown
<1>10. ASSUME Drain
       PROVE  /\ queue' \in Seq(MessageSet) /\ QueueInPlace' /\ UNCHANGED frontVars
              /\ \A r \in Requests : Fresh(r)' => Fresh(r)
              /\ run # "drained"
  <2>1. UNCHANGED frontVars /\ run # "drained" /\ (queue' = queue \/ queue' = << >>)
    BY <1>10 DEF Drain
  <2>2. CASE queue' = << >>
    <3>1. queue' \in Seq(MessageSet) /\ Len(queue') = 0 /\ Msgs' = {}
      BY <2>2 DEF Msgs
    <3>2. QueueInPlace'
      BY <3>1 DEF QueueInPlace
    <3> QED BY <2>1, <3>1, <3>2 DEF Fresh, Source, Entry, frontVars
  <2>3. CASE queue' = queue
    BY <1>1, <2>1, <2>3 DEF QueueInPlace, Msgs, Fresh, Source, Entry, frontVars
  <2> QED BY <2>1, <2>2, <2>3
<1>11. ASSUME NEW s \in Stages, EngineDies(s)
       PROVE  /\ queue' = queue /\ sent' = sent /\ quit' = quit /\ late' = late
              /\ closing' = closing /\ Upset
  BY <1>11 DEF EngineDies
<1>12. CASE UNCHANGED <<frontVars, queue>>
  BY <1>1, <1>12 DEF QueueMove, QueueInPlace, Msgs, Fresh, Source, Entry, frontVars
<1>13. CASE /\ queue' = queue /\ sent' = sent /\ quit' = quit /\ late' = late
            /\ closing' = closing /\ Upset
  BY <1>1, <1>2, <1>13 DEF QueueMove, QueueInPlace, Msgs, Fresh, Source, Entry
<1>14. ASSUME NEW s \in Stages, NEW r \in Requests,
              DropOutput(s, r) \/ RouteStep(s, r) \/ StageError(s, r) \/ EngineEnds(s, r)
       PROVE  UNCHANGED <<frontVars, queue>>
  <2>1. DropOutput(s, r) \/ EngineEnds(s, r) => UNCHANGED <<frontVars, queue>>
    BY DEF DropOutput, EngineEnds, Produce
  <2>2. KvReady(s, r) \/ CompanionFinished(s, r) => UNCHANGED <<frontVars, queue>>
    BY DEF KvReady, CompanionFinished
  <2>3. RequestFinished(s, r) \/ StageError(s, r) => UNCHANGED <<frontVars, queue>>
    BY DEF RequestFinished, StageError
  <2> QED BY <1>14, <2>1, <2>2, <2>3 DEF RouteStep
<1>15. HandlerStep => QueueMove
  <2>1. ASSUME NEW type, Take(type), UNCHANGED frontVars PROVE QueueMove
    BY <1>1, <1>8, <2>1 DEF QueueMove, frontVars
  <2>2. CASE HandlerSubmitted \/ HandlerAborted \/ RpcAnswered
    BY <1>12, <2>2 DEF HandlerSubmitted, HandlerAborted, RpcAnswered
  <2> QED BY <1>9, <2>1, <2>2 DEF HandlerStep
<1>16. RouterStep => QueueMove
  BY <1>12 DEF RouterStep, RouterAborted, RouterSubmitted, RouterStops
<1>17. Drain \/ FrontRpc \/ FrontShutdown => QueueMove
  BY <1>1, <1>2, <1>7, <1>10 DEF QueueMove, frontVars
<1>18. \A p \in Parents : FrontSubmit(p) \/ FrontAbort(p) => QueueMove
  BY <1>1, <1>2, <1>4, <1>6 DEF QueueMove
<1>19. ASSUME NEW s \in Stages, NEW r \in Requests
       PROVE  DropOutput(s, r) \/ RouteStep(s, r) \/ StageError(s, r) \/ EngineEnds(s, r) => QueueMove
  BY <1>12, <1>14
<1>20. ASSUME NEW s \in Stages PROVE StageDead(s) \/ EngineDies(s) => QueueMove
  BY <1>11, <1>12, <1>13 DEF StageDead
<1>21. ASSUME NEW r \in Requests PROVE EngineKv(r) => QueueMove
  BY <1>12 DEF EngineKv, Produce
<1>22. ShutdownStages => QueueMove
  BY <1>12 DEF ShutdownStages
<1> QED
  BY <1>15, <1>16, <1>17, <1>18, <1>19, <1>20, <1>21, <1>22, StepForms

\* A request is taken from the queue into the known ones and submitted to the
\* first stage, or the handler ends at a stage it knows to be dead.
Enters(r) ==
  /\ Taken(r) /\ known' = known \cup {r} /\ submitted' = [submitted EXCEPT ![r] = {0}]
  /\ handler = Idle /\ run # "drained"
  /\ \/ Submit(r, 0) /\ handler' = Submitting(r, 0, {}) /\ UNCHANGED <<run, fatal>>
     \/ 0 \notin alive /\ handler' = Over /\ Fail /\ UNCHANGED <<bound, work, visits>>
  /\ UNCHANGED <<frontVars, told, finals, router, stopping, pipeline, outs, prefilled, alive,
                 aborted>>

(* What the head of the queue says of a request that is taken.              *)
LEMMA TakenFacts ==
  ASSUME BaseInv, NEW type \in {"add", "companion"}, Take(type), UNCHANGED frontVars
  PROVE  \E r \in Requests :
           /\ r = Head(queue).req /\ Taken(r) /\ handler = Idle /\ run # "drained"
           /\ r \in Parents <=> type = "add"
           /\ r \in Companions <=> type = "companion"
<1>1. queue \in Seq(MessageSet) /\ QueueInPlace /\ sent' = sent /\ quit' = quit
  BY DEF BaseInv, OrchestratorTypeOK, MessageSet, frontVars
<1>2. /\ Head(queue) \in Msgs /\ Head(queue).type = type /\ Head(queue) \notin Msgs'
  BY <1>1, TakeFacts
<1>3. PICK r : r = Head(queue).req
  OBVIOUS
<1>4. r \in Requests /\ Head(queue) = Entry(r) /\ Source(r) \in sent
  BY <1>1, <1>2, <1>3 DEF QueueInPlace
<1>5. Taken(r)
  BY <1>1, <1>2, <1>4 DEF Taken, Fresh, Source, Entry
<1>6. r \in Parents <=> type = "add"
  BY <1>2, <1>4, EntryForms
<1> QED BY <1>3, <1>4, <1>5, <1>6, SourceFacts DEF Take, Requests

ParentEnters == \E p \in Parents : Enters(p) /\ cfg' = cfg /\ running' = running + 1
CompanionEnters ==
  \E c \in Companions : /\ Enters(c) /\ ParentOf[c] \in known
                        /\ cfg' = RegisterCompanion(cfg, c) /\ running' = running

(* A request enters with its message.                                       *)
LEMMA EnterFacts ==
  ASSUME BaseInv
  PROVE  /\ AddRequest => ParentEnters
         /\ AddCompanion =>
              \/ UNCHANGED <<frontVars, told, stateVars, handler, router, endVars, pipeline,
                             stageVars, visits, aborted>>
              \/ CompanionEnters
<1>1. ASSUME AddRequest
      PROVE  ParentEnters
  <2>1. Take("add") /\ UNCHANGED frontVars
    BY <1>1 DEF AddRequest
  <2>2. PICK p \in Parents : p = Head(queue).req /\ Taken(p) /\ handler = Idle /\ run # "drained"
    BY <2>1, TakenFacts
  <2>3. Enters(p) /\ cfg' = cfg /\ running' = running + 1
    BY <1>1, <2>2 DEF AddRequest, Enters
  <2> QED BY <2>3 DEF ParentEnters
<1>2. ASSUME AddCompanion
      PROVE  \/ UNCHANGED <<frontVars, told, stateVars, handler, router, endVars, pipeline,
                            stageVars, visits, aborted>>
             \/ CompanionEnters
  <2>1. Take("companion") /\ UNCHANGED frontVars
    BY <1>2 DEF AddCompanion
  <2>2. PICK c \in Companions : c = Head(queue).req /\ Taken(c) /\ handler = Idle /\ run # "drained"
    BY <2>1, TakenFacts
  <2>3. CASE ParentOf[c] \notin known
    BY <1>2, <2>2, <2>3 DEF AddCompanion, stateVars, endVars, stageVars
  <2>4. CASE ParentOf[c] \in known
    <3>1. Enters(c) /\ cfg' = RegisterCompanion(cfg, c) /\ running' = running
      BY <1>2, <2>2, <2>4 DEF AddCompanion, Enters
    <3> QED BY <2>4, <3>1 DEF CompanionEnters
  <2> QED BY <2>3, <2>4
<1> QED BY <1>1, <1>2

\* A cleanup of ids starts, or goes on after a stage, at a coroutine.
Cleans(ids, k, co, next) ==
  /\ ids \in SUBSET Requests /\ k \in Nat /\ \A r \in ids : ~Fresh(r)
  /\ CleanupEnds(ids, k, next) \/ CleanupWaits(ids, k, next)
  /\ \/ k = 0 /\ \A p, q \in ids \cap Parents : p = q
     \/ co.at = "cleanup" /\ ids = co.ids /\ k = co.stage + 1
  /\ run # "drained" /\ IsFiniteSet(known')
  /\ submitted' = Kept(submitted) /\ finals' = Kept(finals)
  /\ UNCHANGED <<frontVars, run, fatal, stopping, pipeline, prefilled, alive, visits>>

(* Whom a family consists of.                                               *)
LEMMA FamilyFacts ==
  ASSUME BaseInv, NEW p \in Parents
  PROVE  /\ Family(cfg, p) \in SUBSET Requests /\ p \in Family(cfg, p)
         /\ \A q \in Family(cfg, p) \cap Parents : q = p
         /\ ~Fresh(p) => \A r \in Family(cfg, p) : ~Fresh(r)
<1>1. cfg.map[p] \in SUBSET Companions
  BY TrackerFields DEF BaseInv, OrchestratorTypeOK
<1>2. \A r \in cfg.map[p] : ~Fresh(r)
  BY <1>1, SourceFacts DEF BaseInv, FreshUnused
<1> QED BY <1>1, <1>2, SourceFacts DEF Family

HandlerCleans ==
  \E ids, k :
    /\ Cleans(ids, k, handler, handler') /\ ids \cap Parents \subseteq quit
    /\ cfg' = cfg \/ \E p \in Parents : cfg' = AbortParents(cfg, {p})
    /\ UNCHANGED <<told, router, outs>>

(* What the handler cleans up.                                              *)
LEMMA HandlerCleanFacts ==
  ASSUME BaseInv, Abort \/ HandlerAborted
  PROVE  HandlerCleans
<1>1. /\ IsFiniteSet(known) /\ running \in Nat /\ FreshUnused /\ cfg \in Tracker
      /\ queue \in Seq(MessageSet) /\ QueueInPlace /\ quit \subseteq sent /\ sent \subseteq Parents
      /\ handler \in Coroutine
  BY DEF BaseInv, OrchestratorTypeOK, MessageSet
<1>2. CASE Abort
  <2> DEFINE p == Head(queue).req
             ids == AbortIds(cfg, {p})
  <2>1. /\ Take("abort") /\ UNCHANGED frontVars /\ sent' = sent /\ quit' = quit
        /\ UNCHANGED <<told, router, outs>>
    BY <1>2 DEF Abort, frontVars
  <2>2. Head(queue) \in Msgs /\ Head(queue).type = "abort" /\ Entry(p) \notin Msgs
    BY <1>1, <2>1, TakeFacts
  <2>3. p \in quit /\ p \in Parents
    BY <1>1, <2>2 DEF QueueInPlace
  <2>4. ~Fresh(p)
    BY <1>1, <2>2, <2>3, SourceFacts DEF Fresh
  <2>5. ids = Family(cfg, p)
    BY <1>1, <2>3, AbortFacts DEF Family
  <2>6. /\ ids \in SUBSET Requests /\ \A r \in ids : ~Fresh(r)
        /\ ids \cap Parents \subseteq quit /\ \A x, y \in ids \cap Parents : x = y
    BY <2>3, <2>4, <2>5, FamilyFacts
  <2> HIDE DEF ids
  <2>7. CleanupFrom(ids, 0) /\ handler' = CleanupPoint(ids, 0) /\ cfg' = AbortParents(cfg, {p})
    BY <1>2 DEF Abort, ids
  <2>8. /\ CleanupEnds(ids, 0, handler') \/ CleanupWaits(ids, 0, handler')
        /\ IsFiniteSet(known')
    BY <1>1, <2>7, CleanupFromFacts
  <2>9. Cleans(ids, 0, handler, handler')
    BY <1>2, <2>1, <2>6, <2>8 DEF Abort, Cleans, Take, endVars
  <2> QED BY <2>1, <2>3, <2>6, <2>7, <2>9 DEF HandlerCleans
<1>3. CASE HandlerAborted
  <2>1. /\ handler.at = "cleanup" /\ run # "drained"
        /\ CleanupFrom(handler.ids, handler.stage + 1)
        /\ handler' = CleanupPoint(handler.ids, handler.stage + 1)
        /\ UNCHANGED <<told, router, outs>> /\ cfg' = cfg
    BY <1>3 DEF HandlerAborted
  <2>2. /\ CleanupEnds(handler.ids, handler.stage + 1, handler')
             \/ CleanupWaits(handler.ids, handler.stage + 1, handler')
        /\ IsFiniteSet(known')
    BY <1>1, <2>1, CleanupFromFacts
  <2>3. handler.ids \in SUBSET Requests /\ handler.stage + 1 \in Nat
    BY <1>1, StageFacts DEF Coroutine
  <2>4. (\A r \in handler.ids : ~Fresh(r)) /\ handler.ids \cap Parents \subseteq quit
    BY <1>1, <2>1, <2>3 DEF FreshUnused, BaseInv, HandlerInPlace
  <2>5. Cleans(handler.ids, handler.stage + 1, handler, handler')
    BY <1>3, <2>1, <2>2, <2>3, <2>4 DEF HandlerAborted, Cleans, endVars
  <2> QED BY <2>1, <2>4, <2>5 DEF HandlerCleans
<1> QED BY <1>2, <1>3

\* The cleanup after an error of request r at stage s, of which p is told.
Fails(s, r, p, ids) ==
  /\ p \in ids /\ ids \cap Parents \subseteq {p} /\ r \in ids /\ r \in known
  /\ Tell(p) /\ (p # r => p \in Parents /\ r \in cfg.map[p])
  /\ s \notin LLM /\ visits[r][s] # 0 /\ router = Idle /\ ~stopping
  /\ outs' \in [Stages -> SUBSET Output] /\ \A x \in Stages : outs'[x] \subseteq outs[x]
  /\ cfg' = IF p \in Parents THEN CleanupParent(cfg, p) ELSE cfg
RouterCleans ==
  \E ids, k :
    /\ Cleans(ids, k, router, router') /\ UNCHANGED <<handler, queue>>
    /\ \/ /\ router.at = "cleanup" /\ ids = router.ids /\ k = router.stage + 1
          /\ UNCHANGED <<told, cfg, outs>>
       \/ k = 0 /\ \E s \in Stages, r \in Requests, p \in Requests : Fails(s, r, p, ids)

(* What the output loop cleans up: a family whose parent has been told, or  *)
(* a companion that is not tracked.                                         *)
LEMMA RouterCleanFacts ==
  ASSUME BaseInv,
         RouterAborted \/ \E s \in Stages, r \in Requests : StageError(s, r)
  PROVE  RouterCleans
<1>1. /\ IsFiniteSet(known) /\ running \in Nat /\ FreshUnused /\ cfg \in Tracker
      /\ router \in Coroutine /\ OwnCompanions(cfg) /\ OrchestratorTypeOK /\ VisitedInPlace
  BY DEF BaseInv, OrchestratorTypeOK, TrackerInPlace
<1>2. CASE RouterAborted
  <2>1. /\ router.at = "cleanup" /\ run # "drained"
        /\ CleanupFrom(router.ids, router.stage + 1)
        /\ router' = CleanupPoint(router.ids, router.stage + 1)
        /\ UNCHANGED <<told, handler, outs, queue>> /\ cfg' = cfg
    BY <1>2 DEF RouterAborted
  <2>2. /\ CleanupEnds(router.ids, router.stage + 1, router')
             \/ CleanupWaits(router.ids, router.stage + 1, router')
        /\ IsFiniteSet(known')
    BY <1>1, <2>1, CleanupFromFacts
  <2>3. router.ids \in SUBSET Requests /\ router.stage + 1 \in Nat
    BY <1>1, StageFacts DEF Coroutine
  <2>4. \A r \in router.ids : ~Fresh(r)
    BY <1>1, <2>1, <2>3 DEF FreshUnused
  <2>5. Cleans(router.ids, router.stage + 1, router, router')
    BY <1>2, <2>1, <2>2, <2>3, <2>4 DEF RouterAborted, Cleans, endVars
  <2> QED BY <2>1, <2>5 DEF RouterCleans
<1>3. ASSUME NEW s \in Stages, NEW r \in Requests, StageError(s, r)
      PROVE  RouterCleans
  <2> DEFINE p == IF IsCompanion(cfg, r) THEN ParentOf[r] ELSE r
             ids == IF p \in Parents THEN Family(cfg, p) ELSE {p}
  <2>1. /\ Poll(s, r, "err") /\ r \in known /\ ~Fresh(r)
        /\ UNCHANGED <<frontVars, handler, queue>>
    BY <1>1, <1>3 DEF StageError, FreshUnused
  <2>2. /\ router = Idle /\ run # "drained" /\ ~stopping /\ visits[r][s] # 0 /\ s \notin LLM
        /\ outs' \in [Stages -> SUBSET Output] /\ \A x \in Stages : outs'[x] \subseteq outs[x]
    BY <1>1, <2>1, PollFacts
  <2>3. IsCompanion(cfg, r) => p \in Parents /\ r \in cfg.map[p]
    <3> SUFFICES ASSUME NEW q \in Parents, r \in cfg.map[q] PROVE p = q
      BY DEF IsCompanion
    <3> QED BY <1>1 DEF OwnCompanions, IsCompanion
  <2>4. p \in Requests /\ (p # r => p \in Parents /\ r \in cfg.map[p])
    BY <2>3, SourceFacts
  <2>5. ~Fresh(p)
    BY <1>1, <2>1, <2>4 DEF FreshUnused
  <2>6. /\ ids \in SUBSET Requests /\ p \in ids /\ r \in ids
        /\ ids \cap Parents \subseteq {p} /\ \A x \in ids : ~Fresh(x)
    <3>1. CASE p \in Parents
      BY <2>4, <2>5, <3>1, FamilyFacts DEF Family
    <3>2. CASE p \notin Parents
      BY <2>4, <2>5, <3>2
    <3> QED BY <3>1, <3>2
  <2>7. /\ Tell(p) /\ cfg' = IF p \in Parents THEN CleanupParent(cfg, p) ELSE cfg
        /\ CleanupFrom(ids, 0) /\ router' = CleanupPoint(ids, 0)
    BY <1>3 DEF StageError
  <2> HIDE DEF ids, p
  <2>8. /\ CleanupEnds(ids, 0, router') \/ CleanupWaits(ids, 0, router')
        /\ IsFiniteSet(known')
    BY <1>1, <2>7, CleanupFromFacts
  <2>9. Cleans(ids, 0, router, router')
    BY <1>3, <2>1, <2>2, <2>6, <2>8 DEF StageError, Cleans, endVars
  <2>10. Fails(s, r, p, ids)
    BY <2>1, <2>2, <2>4, <2>6, <2>7 DEF Fails
  <2> QED BY <2>1, <2>4, <2>9, <2>10 DEF RouterCleans
<1> QED BY <1>2, <1>3

\* The handler goes on with the next stage of a request in async-chunk mode.
Ahead(p) ==
  /\ handler.at = "submit" /\ run # "drained" /\ handler.ids = {p} /\ pipeline.chunked
  /\ handler.stage + 1 \in Stages /\ handler.stage + 1 <= FinalStage[p]
  /\ submitted' = IF p \in known
                  THEN [submitted EXCEPT ![p] = @ \cup {handler.stage + 1}] ELSE submitted
  /\ \/ /\ Submit(p, handler.stage + 1) /\ handler' = Submitting(p, handler.stage + 1, {})
        /\ UNCHANGED <<run, fatal>>
     \/ handler' = Over /\ Fail /\ UNCHANGED <<bound, work, visits>>
  /\ UNCHANGED <<frontVars, queue, told, known, finals, cfg, running, router, stopping, pipeline,
                 outs, prefilled, alive, aborted>>
GoesAhead == \E p \in Parents : Ahead(p)

\* A forwarded submission is sent.
Recorded(p) ==
  /\ router.at = "submit" /\ run # "drained" /\ router.ids = {p} /\ router' = Idle
  /\ known' = known \ router.after /\ bound' = [s \in Stages |-> bound[s] \ router.after]
  /\ IsFiniteSet(known') /\ running' \in Nat
  /\ submitted' = Kept([submitted EXCEPT ![p] = @ \cup {router.stage}])
  /\ finals' = Kept(finals)
  /\ UNCHANGED <<frontVars, queue, told, cfg, handler, endVars, pipeline, stageVars, visits,
                 aborted>>
IsRecorded == \E p \in Parents : Recorded(p)

\* An output is handled, or its absence.
Routes ==
  RouteMoves /\ RouteStays /\ Follows(cfg, cfg') /\ IsFiniteSet(known') /\ running' \in Nat

\* Nothing happens to the requests' state; a coroutine comes to rest, a stage
\* produces, a message is queued.
Still ==
  /\ UNCHANGED <<told, stateVars, run, fatal, pipeline, visits, aborted>>
  /\ \/ handler' = handler
     \/ run # "drained" /\ handler' \in {Idle, Over, [Idle EXCEPT !.at = "rpc"]}
  /\ router' = router \/ (run # "drained" /\ router = Idle /\ router' = Over)
  /\ work' \in [Stages -> SUBSET Requests] /\ \A s \in Stages : work'[s] \subseteq work[s]
  /\ outs' \in [Stages -> SUBSET Output]
  /\ \A s \in Stages : \A o \in outs'[s] :
       o \in outs[s] \/ (o.req \in work[s] /\ (o.kind = "err" => s \notin LLM))
  /\ stopping' \in BOOLEAN /\ prefilled' \subseteq Requests /\ alive' \subseteq alive

(* The handler after a submission.                                          *)
LEMMA AheadFacts ==
  ASSUME BaseInv, HandlerSubmitted
  PROVE  GoesAhead \/ Still
<1>1. /\ handler \in Coroutine /\ HandlerInPlace /\ OrchestratorTypeOK
      /\ handler.at = "submit" /\ run # "drained"
  BY DEF BaseInv, OrchestratorTypeOK, HandlerSubmitted
<1>2. PICK r \in Requests : handler.ids = {r}
  BY <1>1 DEF HandlerInPlace
<1>3. (CHOOSE x \in handler.ids : TRUE) = r
  BY <1>2
<1>4. CASE pipeline.chunked /\ r \in Parents /\ handler.stage + 1 <= FinalStage[r]
  <2>1. handler.stage + 1 \in Stages
    <3>1. handler.stage \in Stages /\ FinalStage[r] \in Stages
      BY <1>1, <1>4, StageFacts DEF Coroutine
    <3> QED BY <1>4, <3>1, StageFacts
  <2>2. Ahead(r)
    BY <1>1, <1>2, <1>3, <1>4, <2>1 DEF HandlerSubmitted, Ahead
  <2> QED BY <1>4, <2>2 DEF GoesAhead
<1>5. CASE ~(pipeline.chunked /\ r \in Parents /\ handler.stage + 1 <= FinalStage[r])
  <2>1. /\ handler' = Idle
        /\ UNCHANGED <<submitted, bound, work, visits, run, fatal, told, known, finals, cfg,
                       running, router, stopping, pipeline, outs, prefilled, alive, aborted>>
    BY <1>3, <1>5 DEF HandlerSubmitted
  <2> QED BY <1>1, <2>1 DEF Still, OrchestratorTypeOK, stateVars
<1> QED BY <1>4, <1>5

(* The output loop after a submission.                                      *)
LEMMA RecordedFacts ==
  ASSUME BaseInv, RouterSubmitted
  PROVE  IsRecorded
<1>1. /\ router \in Coroutine /\ RouterInPlace /\ IsFiniteSet(known) /\ running \in Nat
      /\ router.at = "submit" /\ run # "drained"
  BY DEF BaseInv, OrchestratorTypeOK, RouterSubmitted
<1>2. PICK p \in Parents : router.ids = {p}
  BY <1>1 DEF RouterInPlace
<1>3. (CHOOSE x \in router.ids : TRUE) = p
  BY <1>2
<1>4. /\ Release(router.after)
      /\ submitted' = Kept([submitted EXCEPT ![p] = @ \cup {router.stage}])
      /\ finals' = Kept(finals) /\ router' = Idle
      /\ UNCHANGED <<frontVars, queue, told, cfg, handler, endVars, pipeline, stageVars, visits,
                     aborted>>
  BY <1>3 DEF RouterSubmitted
<1>5. Recorded(p)
  BY <1>1, <1>2, <1>4, ReleaseFacts DEF Recorded
<1> QED BY <1>5 DEF IsRecorded

(* A stage found dead.                                                      *)
LEMMA StageDeadFacts ==
  ASSUME BaseInv, NEW s \in Stages, StageDead(s)
  PROVE  Routes
<1>1. /\ OrchestratorTypeOK /\ IsFiniteSet(known) /\ running \in Nat /\ (s \in LLM) \in BOOLEAN
      /\ submitted \in [Requests -> SUBSET Stages] /\ finals \in [Requests -> SUBSET Stages]
      /\ outs \in [Stages -> SUBSET Output]
  BY DEF BaseInv, OrchestratorTypeOK
<1>2. BreaksFatally \/ Breaks
  BY <1>1, DiedFacts DEF StageDead, stageVars
<1>3. RouteStays
  BY <1>1, KeptFacts DEF StageDead, RouteStays, stageVars
<1>4. cfg' = cfg /\ running' = running
  BY DEF StageDead
<1>5. known' \in SUBSET known
  BY DEF StageDead, Died
<1>6. IsFiniteSet(known')
  BY <1>1, <1>5, FS_Subset
<1> QED BY <1>1, <1>2, <1>3, <1>4, <1>6, FollowsItself DEF Routes, RouteMoves

(* The steps that leave the requests' state alone.                          *)
LEMMA StillFacts ==
  ASSUME BaseInv
  PROVE  /\ \A p \in Parents : FrontSubmit(p) \/ FrontAbort(p) => Still
         /\ FrontRpc \/ FrontShutdown \/ Rpc \/ RpcAnswered \/ Shutdown \/ RouterStops => Still
         /\ \A s \in Stages, r \in Requests : DropOutput(s, r) \/ EngineEnds(s, r) => Still
         /\ \A r \in Requests : EngineKv(r) => Still
         /\ \A s \in Stages : EngineDies(s) => Still
         /\ ShutdownStages => Still
<1>1. /\ OrchestratorTypeOK /\ VisitedInPlace
      /\ work \in [Stages -> SUBSET Requests] /\ outs \in [Stages -> SUBSET Output]
      /\ stopping \in BOOLEAN /\ prefilled \subseteq Requests /\ alive \subseteq Stages
  BY DEF BaseInv, OrchestratorTypeOK
<1>2. ASSUME NEW p \in Parents, FrontSubmit(p) \/ FrontAbort(p) PROVE Still
  BY <1>1, <1>2 DEF Still, FrontSubmit, FrontAbort, stateVars, endVars, stageVars
<1>3. ASSUME FrontRpc \/ FrontShutdown PROVE Still
  BY <1>1, <1>3 DEF Still, FrontRpc, FrontShutdown, stateVars, endVars, stageVars
<1>4. ASSUME Rpc \/ RpcAnswered \/ Shutdown PROVE Still
  BY <1>1, <1>4 DEF Still, Rpc, RpcAnswered, Shutdown, Take, stateVars, endVars, stageVars
<1>5. ASSUME RouterStops PROVE Still
  BY <1>1, <1>5 DEF Still, RouterStops, stateVars, endVars, stageVars
<1>6. ASSUME NEW s \in Stages, NEW r \in Requests, DropOutput(s, r) PROVE Still
  <2>1. PICK kind : Poll(s, r, kind)
    BY <1>6 DEF DropOutput
  <2>2. /\ outs' \in [Stages -> SUBSET Output]
        /\ \A x \in Stages : outs'[x] \subseteq outs[x]
    BY <1>1, <2>1, PollFacts
  <2> QED BY <1>1, <1>6, <2>2 DEF Still, DropOutput, stateVars, endVars
<1>7. ASSUME NEW s \in Stages, NEW r \in Requests, NEW kind \in {"kv", "fin", "err"},
             Produce(s, r, kind), kind = "err" => s \notin LLM
      PROVE  /\ outs' \in [Stages -> SUBSET Output] /\ alive' = alive
             /\ \A x \in Stages : \A o \in outs'[x] :
                  o \in outs[x] \/ (o.req \in work[x] /\ (o.kind = "err" => x \notin LLM))
             /\ UNCHANGED <<told, stateVars, run, fatal, pipeline, visits, aborted, handler, router,
                            stopping>>
  <2>1. [req |-> r, kind |-> kind] \in Output
    BY DEF Output
  <2>2. outs' = [outs EXCEPT ![s] = @ \cup {[req |-> r, kind |-> kind]}]
    BY <1>7 DEF Produce
  <2>3. r \in work[s] /\ s \in alive
    BY <1>7 DEF Produce
  <2>4. outs' \in [Stages -> SUBSET Output]
    BY <1>1, <2>1, <2>2
  <2>5. \A x \in Stages : \A o \in outs'[x] :
          o \in outs[x] \/ (x = s /\ o = [req |-> r, kind |-> kind])
    BY <1>1, <2>2
  <2> QED BY <1>1, <1>7, <2>3, <2>4, <2>5 DEF Produce, endVars
<1>8. ASSUME NEW s \in Stages, NEW r \in Requests, EngineEnds(s, r) PROVE Still
  <2>1. PICK kind \in {"kv", "fin", "err"} : Produce(s, r, kind) /\ (kind = "err" => s \notin LLM)
    BY <1>8 DEF EngineEnds
  <2>2. work' = [work EXCEPT ![s] = @ \ {r}] /\ prefilled' = prefilled
    BY <1>8 DEF EngineEnds
  <2>3. work' \in [Stages -> SUBSET Requests] /\ \A x \in Stages : work'[x] \subseteq work[x]
    BY <1>1, <2>2
  <2> QED BY <1>1, <1>7, <2>1, <2>2, <2>3 DEF Still
<1>9. ASSUME NEW r \in Requests, EngineKv(r) PROVE Still
  BY <1>1, <1>7, <1>9, StageFacts DEF Still, EngineKv
<1>10. ASSUME NEW s \in Stages, EngineDies(s) PROVE Still
  BY <1>1, <1>10 DEF Still, EngineDies, stateVars, endVars
<1>11. ASSUME ShutdownStages PROVE Still
  <2>1. /\ work' = [s \in Stages |-> {}] /\ outs' = [s \in Stages |-> {}] /\ alive' = {}
        /\ UNCHANGED <<told, stateVars, handler, router, endVars, pipeline, prefilled, visits,
                       aborted>>
    BY <1>11 DEF ShutdownStages
  <2> QED BY <1>1, <2>1 DEF Still, endVars
<1> QED BY <1>2, <1>3, <1>4, <1>5, <1>6, <1>8, <1>9, <1>10, <1>11

(* Every step is of one of nine forms.                                      *)
LEMMA Forms ==
  ASSUME BaseInv, Next
  PROVE  \/ Still \/ ParentEnters \/ CompanionEnters \/ GoesAhead \/ HandlerCleans
         \/ RouterCleans \/ Routes \/ IsRecorded \/ Drain
<1>1. AddCompanion => CompanionEnters \/ Still
  <2>1. /\ work \in [Stages -> SUBSET Requests] /\ outs \in [Stages -> SUBSET Output]
        /\ stopping \in BOOLEAN /\ prefilled \subseteq Requests
    BY DEF BaseInv, OrchestratorTypeOK
  <2>2. AddCompanion => run # "drained"
    BY DEF AddCompanion, Take
  <2> QED BY <2>1, <2>2, EnterFacts DEF Still, stageVars, endVars
<1>2. HandlerStep => Still \/ ParentEnters \/ CompanionEnters \/ GoesAhead \/ HandlerCleans
  BY <1>1, EnterFacts, AheadFacts, HandlerCleanFacts, StillFacts DEF HandlerStep
<1>3. RouterStep => Still \/ RouterCleans \/ IsRecorded
  BY RouterCleanFacts, RecordedFacts, StillFacts DEF RouterStep
<1>4. ASSUME NEW s \in Stages, NEW r \in Requests
      PROVE  /\ DropOutput(s, r) \/ EngineEnds(s, r) \/ EngineKv(r) \/ EngineDies(s) => Still
             /\ RouteStep(s, r) \/ StageDead(s) => Routes
             /\ StageError(s, r) => RouterCleans
  BY StillFacts, RouteFacts, StageDeadFacts, RouterCleanFacts DEF Routes
<1>5. ASSUME NEW s \in Stages PROVE (EngineDies(s) => Still) /\ (StageDead(s) => Routes)
  BY StillFacts, StageDeadFacts
<1>6. \A p \in Parents : FrontSubmit(p) \/ FrontAbort(p) => Still
  BY StillFacts
<1>7. FrontRpc \/ FrontShutdown \/ ShutdownStages => Still
  BY StillFacts
<1>8. \A r \in Requests : EngineKv(r) => Still
  BY StillFacts
<1> QED BY <1>2, <1>3, <1>4, <1>5, <1>6, <1>7, <1>8, StepForms

-----------------------------------------------------------------------------
(* Type correctness.                                                       *)

\* What a submission does, stage by stage.
Submitted(r, s) ==
  /\ bound' \in [Stages -> SUBSET Requests] /\ work' \in [Stages -> SUBSET Requests]
  /\ visits' \in [Requests -> [Stages -> Nat]]
  /\ \A x \in Stages : bound'[x] = IF x = s THEN bound[x] \cup {r} ELSE bound[x]
  /\ \A x \in Stages : work'[x] = work[x] \/ (x = s /\ work'[x] = work[x] \cup {r})
  /\ \A q \in Requests, x \in Stages :
       visits'[q][x] = IF q = r /\ x = s THEN visits[q][x] + 1 ELSE visits[q][x]

(* submit_initial.                                                          *)
LEMMA SubmitOnce ==
  ASSUME OrchestratorTypeOK, NEW r \in Requests, NEW s \in Stages, Submit(r, s)
  PROVE  Submitted(r, s)
<1>1. /\ bound \in [Stages -> SUBSET Requests] /\ work \in [Stages -> SUBSET Requests]
      /\ visits \in [Requests -> [Stages -> Nat]]
  BY DEF OrchestratorTypeOK
<1>2. /\ bound' = [bound EXCEPT ![s] = @ \cup {r}]
      /\ work' = [work EXCEPT ![s] = @ \cup {r}] \/ work' = work
      /\ visits' = [visits EXCEPT ![r][s] = @ + 1]
  BY DEF Submit
<1>3. /\ bound' \in [Stages -> SUBSET Requests]
      /\ \A x \in Stages : bound'[x] = IF x = s THEN bound[x] \cup {r} ELSE bound[x]
  BY <1>1, <1>2
<1>4. /\ work' \in [Stages -> SUBSET Requests]
      /\ \A x \in Stages : work'[x] = work[x] \/ (x = s /\ work'[x] = work[x] \cup {r})
  BY <1>1, <1>2
<1>5. /\ visits' \in [Requests -> [Stages -> Nat]]
      /\ \A q \in Requests, x \in Stages :
           visits'[q][x] = IF q = r /\ x = s THEN visits[q][x] + 1 ELSE visits[q][x]
  BY <1>1, <1>2
<1> QED BY <1>3, <1>4, <1>5 DEF Submitted

\* What a step of a cleanup does.
Cleaned(ids, next) ==
  /\ known' \subseteq known /\ known \subseteq known' \cup ids
  /\ bound' \in [Stages -> SUBSET Requests] /\ \A x \in Stages : bound'[x] \subseteq bound[x]
  /\ work' \in [Stages -> SUBSET Requests] /\ \A x \in Stages : work'[x] \subseteq work[x]
  /\ running' \in Nat /\ aborted \subseteq aborted' /\ aborted' \subseteq aborted \cup ids
  /\ next \in Coroutine
  /\ \/ next = Idle /\ known' = known \ ids
     \/ next.at = "cleanup" /\ next.ids = ids /\ known' = known /\ aborted' = aborted

LEMMA CleansFacts ==
  ASSUME OrchestratorTypeOK, NEW ids, NEW k, NEW co, NEW next, Cleans(ids, k, co, next)
  PROVE  Cleaned(ids, next)
<1>1. /\ bound \in [Stages -> SUBSET Requests] /\ work \in [Stages -> SUBSET Requests]
      /\ ids \in SUBSET Requests /\ running \in Nat
  BY DEF OrchestratorTypeOK, Cleans
<1>2. CASE CleanupEnds(ids, k, next)
  <2>1. /\ next = Idle /\ known' = known \ ids /\ running' \in Nat
        /\ bound' = [s \in Stages |-> bound[s] \ ids]
        /\ aborted' = aborted \cup (ids \cap known) /\ work' = work
    BY <1>2 DEF CleanupEnds
  <2> QED BY <1>1, <2>1, PointFacts DEF Cleaned
<1>3. CASE CleanupWaits(ids, k, next)
  <2>1. PICK s \in Stages :
          /\ next = [at |-> "cleanup", ids |-> ids, stage |-> s, after |-> {}]
          /\ work' = [work EXCEPT ![s] = @ \ (ids \cap bound[s])]
          /\ known' = known /\ bound' = bound /\ running' = running /\ aborted' = aborted
    BY <1>3 DEF CleanupWaits
  <2>2. work' \in [Stages -> SUBSET Requests] /\ \A x \in Stages : work'[x] \subseteq work[x]
    BY <1>1, <2>1
  <2>3. next \in Coroutine /\ next.at = "cleanup" /\ next.ids = ids
    BY <1>1, <2>1 DEF Coroutine
  <2> QED BY <1>1, <2>1, <2>2, <2>3 DEF Cleaned
<1> QED BY <1>2, <1>3 DEF Cleans

\* The types of the part of the state that the forms of a step speak of.
InnerTypeOK ==
  /\ told \in [Requests -> Nat] /\ known \subseteq Requests
  /\ submitted \in [Requests -> SUBSET Stages] /\ finals \in [Requests -> SUBSET Stages]
  /\ cfg \in Tracker /\ bound \in [Stages -> SUBSET Requests] /\ running \in Nat
  /\ handler \in Coroutine /\ router \in Coroutine
  /\ stopping \in BOOLEAN /\ run \in {"running", "failing", "drained"}
  /\ fatal \in BOOLEAN /\ pipeline \in Pipelines
  /\ work \in [Stages -> SUBSET Requests] /\ outs \in [Stages -> SUBSET Output]
  /\ prefilled \subseteq Requests /\ alive \subseteq Stages
  /\ visits \in [Requests -> [Stages -> Nat]] /\ aborted \subseteq Requests

(* Entering requests, and those that go ahead, keep the types.              *)
LEMMA EnterTypes ==
  ASSUME InnerTypeOK, OrchestratorTypeOK, ParentEnters \/ CompanionEnters \/ GoesAhead
  PROVE  InnerTypeOK'
<1>1. ASSUME NEW r \in Requests, Enters(r), cfg' \in Tracker, running' \in Nat
      PROVE  InnerTypeOK'
  <2>1. /\ known' \subseteq Requests /\ submitted' \in [Requests -> SUBSET Stages]
    BY <1>1, StageFacts DEF InnerTypeOK, Enters
  <2>2. CASE Submit(r, 0) /\ handler' = Submitting(r, 0, {}) /\ UNCHANGED <<run, fatal>>
    <3>1. Submitted(r, 0) /\ handler' \in Coroutine
      BY <2>2, SubmitOnce, StageFacts, PointFacts
    <3> QED BY <1>1, <2>1, <2>2, <3>1 DEF InnerTypeOK, Enters, Submitted
  <2>3. CASE handler' = Over /\ Fail /\ UNCHANGED <<bound, work, visits>>
    BY <1>1, <2>1, <2>3, PointFacts DEF Fail, InnerTypeOK, Enters
  <2> QED BY <1>1, <2>2, <2>3 DEF Enters
<1>2. CASE ParentEnters
  <2>1. PICK p \in Parents : Enters(p) /\ cfg' = cfg /\ running' = running + 1
    BY <1>2 DEF ParentEnters
  <2> QED BY <1>1, <2>1, SourceFacts DEF InnerTypeOK
<1>3. CASE CompanionEnters
  <2>1. PICK c \in Companions : Enters(c) /\ cfg' = RegisterCompanion(cfg, c) /\ running' = running
    BY <1>3 DEF CompanionEnters
  <2> QED BY <1>1, <2>1, SourceFacts, RegisterFacts DEF InnerTypeOK
<1>4. CASE GoesAhead
  <2>1. PICK p \in Parents : Ahead(p)
    BY <1>4 DEF GoesAhead
  <2> DEFINE s == handler.stage + 1
  <2>2. s \in Stages /\ p \in Requests
    BY <2>1, SourceFacts DEF Ahead
  <2> HIDE DEF s
  <2>3. submitted' \in [Requests -> SUBSET Stages]
    <3>1. submitted' = [submitted EXCEPT ![p] = @ \cup {s}] \/ submitted' = submitted
      BY <2>1 DEF Ahead, s
    <3> QED BY <2>2, <3>1 DEF InnerTypeOK
  <2>4. CASE Submit(p, s) /\ handler' = Submitting(p, s, {}) /\ UNCHANGED <<run, fatal>>
    <3>1. Submitted(p, s) /\ handler' \in Coroutine
      BY <2>2, <2>4, SubmitOnce, PointFacts
    <3> QED BY <2>1, <2>3, <2>4, <3>1 DEF InnerTypeOK, Ahead, Submitted
  <2>5. CASE handler' = Over /\ Fail /\ UNCHANGED <<bound, work, visits>>
    BY <2>1, <2>3, <2>5, PointFacts DEF Fail, InnerTypeOK, Ahead
  <2> QED BY <2>1, <2>4, <2>5 DEF Ahead, s
<1> QED BY <1>2, <1>3, <1>4

(* A terminal message is counted.                                           *)
LEMMA TellFacts ==
  ASSUME told \in [Requests -> Nat], NEW r \in Requests, Tell(r)
  PROVE  /\ told' \in [Requests -> Nat]
         /\ \A q \in Requests : told'[q] = IF q = r THEN told[q] + 1 ELSE told[q]
  BY DEF Tell

(* Cleanups keep the types.                                                 *)
LEMMA CleanTypes ==
  ASSUME InnerTypeOK, OrchestratorTypeOK, HandlerCleans \/ RouterCleans
  PROVE  InnerTypeOK'
<1>1. ASSUME NEW ids, NEW k, NEW co, NEW next, Cleans(ids, k, co, next), known \subseteq Requests
      PROVE  /\ Cleaned(ids, next) /\ known' \subseteq Requests /\ aborted' \subseteq Requests
             /\ submitted' \in [Requests -> SUBSET Stages] /\ finals' \in [Requests -> SUBSET Stages]
             /\ UNCHANGED <<run, fatal, stopping, pipeline, prefilled, alive, visits>>
  <2>1. Cleaned(ids, next)
    BY <1>1, CleansFacts
  <2>2. submitted' \in [Requests -> SUBSET Stages] /\ finals' \in [Requests -> SUBSET Stages]
    BY <1>1, KeptFacts DEF Cleans, InnerTypeOK
  <2> QED BY <1>1, <2>1, <2>2 DEF Cleans, Cleaned, InnerTypeOK
<1>2. CASE HandlerCleans
  <2>1. PICK ids, k :
           /\ Cleans(ids, k, handler, handler')
           /\ cfg' = cfg \/ \E p \in Parents : cfg' = AbortParents(cfg, {p})
           /\ UNCHANGED <<told, router, outs>>
    BY <1>2 DEF HandlerCleans
  <2>2. cfg' \in Tracker
    <3>1. \A p \in Parents : AbortParents(cfg, {p}) \in Tracker
      BY AbortFacts DEF InnerTypeOK
    <3> QED BY <2>1, <3>1 DEF InnerTypeOK
  <2> QED BY <1>1, <2>1, <2>2 DEF InnerTypeOK, Cleaned
<1>3. CASE RouterCleans
  <2>1. PICK ids, k :
          /\ Cleans(ids, k, router, router') /\ handler' = handler
          /\ \/ UNCHANGED <<told, cfg, outs>>
             \/ \E s \in Stages, r \in Requests, p \in Requests : Fails(s, r, p, ids)
    BY <1>3 DEF RouterCleans
  <2>2. told' \in [Requests -> Nat] /\ cfg' \in Tracker /\ outs' \in [Stages -> SUBSET Output]
    <3>1. ASSUME NEW s \in Stages, NEW r \in Requests, NEW p \in Requests, Fails(s, r, p, ids)
          PROVE  /\ told' \in [Requests -> Nat] /\ cfg' \in Tracker
                 /\ outs' \in [Stages -> SUBSET Output]
      BY <3>1, TellFacts, CleanupFacts DEF Fails, InnerTypeOK
    <3> QED BY <2>1, <3>1 DEF InnerTypeOK
  <2> QED BY <1>1, <2>1, <2>2 DEF InnerTypeOK, Cleaned
<1> QED BY <1>2, <1>3

(* The handling of outputs keeps the types.                                 *)
LEMMA RouteTypes ==
  ASSUME InnerTypeOK, OrchestratorTypeOK, Routes
  PROVE  InnerTypeOK'
<1>1. /\ cfg' \in Tracker /\ running' \in Nat /\ outs' \in [Stages -> SUBSET Output]
      /\ submitted' \in [Requests -> SUBSET Stages] /\ finals' \in [Requests -> SUBSET Stages]
      /\ UNCHANGED <<handler, pipeline, prefilled, alive, aborted>>
  BY KeptFacts DEF Routes, Follows, RouteStays, InnerTypeOK
<1>2. ASSUME NEW X, Settles(X) PROVE InnerTypeOK'
  BY <1>1, <1>2 DEF Settles, InnerTypeOK, endVars
<1>3. ASSUME NEW p \in Parents, NEW s \in Stages, NEW X \in SUBSET Companions, Forwards(p, s, X)
      PROVE  InnerTypeOK'
  <2>1. s + 1 \in Stages /\ p \in Requests /\ X \in SUBSET Requests
    BY <1>3, StageFacts, SourceFacts DEF Forwards
  <2>2. Submitted(p, s + 1) /\ router' \in Coroutine
    BY <1>3, <2>1, SubmitOnce, PointFacts DEF Forwards
  <2> QED BY <1>1, <1>3, <2>2 DEF Forwards, InnerTypeOK, Submitted, endVars
<1>4. ASSUME NEW r \in Requests, NEW X, Finishes(r, X) PROVE InnerTypeOK'
  BY <1>1, <1>4, TellFacts DEF Finishes, InnerTypeOK, endVars
<1>5. CASE BreaksFatally
  <2>1. PICK s \in Stages : Tells({r \in known : s \in submitted[r]})
    BY <1>5 DEF BreaksFatally
  <2>2. told' \in [Requests -> Nat] /\ known' \subseteq Requests
    BY <2>1 DEF Tells, InnerTypeOK
  <2> QED BY <1>1, <1>5, <2>2, PointFacts DEF BreaksFatally, InnerTypeOK
<1>6. CASE Breaks
  BY <1>1, <1>6, PointFacts DEF Fail, Breaks, InnerTypeOK
<1> QED BY <1>2, <1>3, <1>4, <1>5, <1>6 DEF Routes, RouteMoves

(* So do the other steps.                                                   *)
LEMMA TypesKept ==
  ASSUME BaseInv, Next
  PROVE  OrchestratorTypeOK'
<1>1. InnerTypeOK /\ OrchestratorTypeOK
  BY DEF BaseInv, OrchestratorTypeOK, InnerTypeOK
<1>2. ASSUME Still PROVE InnerTypeOK'
  <2>1. [Idle EXCEPT !.at = "rpc"] \in Coroutine
    BY StageFacts DEF Idle, Coroutine
  <2>2. handler' \in Coroutine /\ router' \in Coroutine
    BY <1>1, <1>2, <2>1, PointFacts DEF Still, InnerTypeOK
  <2>3. /\ UNCHANGED <<told, known, submitted, finals, cfg, bound, running, run, fatal, pipeline,
                      visits, aborted>>
        /\ work' \in [Stages -> SUBSET Requests] /\ outs' \in [Stages -> SUBSET Output]
        /\ stopping' \in BOOLEAN /\ prefilled' \subseteq Requests /\ alive' \subseteq alive
    BY <1>2 DEF Still, stateVars
  <2> QED BY <1>1, <2>2, <2>3 DEF InnerTypeOK
<1>3. ASSUME IsRecorded PROVE InnerTypeOK'
  <2>1. PICK p \in Parents : Recorded(p)
    BY <1>3 DEF IsRecorded
  <2>2. [submitted EXCEPT ![p] = @ \cup {router.stage}] \in [Requests -> SUBSET Stages]
    BY <1>1, SourceFacts DEF InnerTypeOK, Coroutine
  <2>3. submitted' \in [Requests -> SUBSET Stages] /\ finals' \in [Requests -> SUBSET Stages]
    BY <1>1, <2>1, <2>2, KeptFacts DEF Recorded, InnerTypeOK
  <2>4. /\ known' \subseteq known /\ running' \in Nat /\ router' \in Coroutine
        /\ bound' = [s \in Stages |-> bound[s] \ router.after]
        /\ UNCHANGED <<told, cfg, handler, stopping, run, fatal, pipeline, work, outs, prefilled,
                       alive, visits, aborted>>
    BY <2>1, PointFacts DEF Recorded, endVars, stageVars
  <2>5. bound' \in [Stages -> SUBSET Requests]
    BY <1>1, <2>4 DEF InnerTypeOK
  <2> QED BY <1>1, <2>3, <2>4, <2>5 DEF InnerTypeOK
<1>4. ASSUME Drain PROVE InnerTypeOK'
  <2>1. told' \in [Requests -> Nat] /\ known' \subseteq Requests
    <3>1. CASE fatal
      <4>1. PICK queued : told' = [r \in Requests |->
                                    told[r] + IF r \in queued \cup known THEN 1 ELSE 0]
        BY <1>4, <3>1 DEF Drain
      <4>2. known' = {}
        BY <1>4, <3>1 DEF Drain
      <4> QED BY <1>1, <4>1, <4>2 DEF InnerTypeOK
    <3>2. CASE ~fatal
      BY <1>1, <1>4, <3>2 DEF Drain, InnerTypeOK
    <3> QED BY <3>1, <3>2
  <2>2. submitted' \in [Requests -> SUBSET Stages] /\ finals' \in [Requests -> SUBSET Stages]
    BY <1>1, <1>4, KeptFacts DEF Drain, InnerTypeOK
  <2>3. /\ run' = "drained" /\ stopping' = TRUE /\ handler' = Over /\ router' = Over
        /\ UNCHANGED <<cfg, bound, running, fatal, pipeline, work, outs, prefilled, alive, visits,
                       aborted>>
    BY <1>4 DEF Drain, stageVars
  <2> QED BY <1>1, <2>1, <2>2, <2>3, PointFacts DEF InnerTypeOK
<1>5. InnerTypeOK'
  <2>1. ParentEnters \/ CompanionEnters \/ GoesAhead => InnerTypeOK'
    BY <1>1, EnterTypes
  <2>2. HandlerCleans \/ RouterCleans => InnerTypeOK'
    BY <1>1, CleanTypes
  <2>3. Routes => InnerTypeOK'
    BY <1>1, RouteTypes
  <2> QED BY <1>2, <1>3, <1>4, <2>1, <2>2, <2>3, Forms
<1>6. QueueMove
  BY QueueMoves
<1>7. late' \subseteq sent'
  BY <1>1, <1>6 DEF OrchestratorTypeOK, QueueMove
<1> QED BY <1>5, <1>6, <1>7 DEF OrchestratorTypeOK, InnerTypeOK, QueueMove, MessageSet

-----------------------------------------------------------------------------
(* The coroutines, and the end of the run.                                 *)

(* What the handler has in hand stays in place.                             *)
LEMMA HandlerKept ==
  ASSUME BaseInv, Next
  PROVE  HandlerInPlace'
<1>1. HandlerInPlace /\ OrchestratorTypeOK /\ quit \subseteq quit'
  BY QueueMoves DEF BaseInv, QueueMove
<1>2. CASE handler' = handler
  BY <1>1, <1>2 DEF HandlerInPlace
<1>3. CASE handler' \in {Idle, Over, [Idle EXCEPT !.at = "rpc"]}
  BY <1>3 DEF HandlerInPlace, Idle, Over
<1>4. ASSUME NEW r \in Requests, NEW s \in Stages, handler' = Submitting(r, s, {})
      PROVE  HandlerInPlace'
  BY <1>4 DEF HandlerInPlace, Submitting
<1>5. ParentEnters \/ CompanionEnters => HandlerInPlace'
  BY <1>3, <1>4, SourceFacts, StageFacts DEF ParentEnters, CompanionEnters, Enters
<1>6. GoesAhead => HandlerInPlace'
  BY <1>3, <1>4, SourceFacts DEF GoesAhead, Ahead
<1>7. ASSUME HandlerCleans PROVE HandlerInPlace'
  <2>1. PICK ids, k : Cleans(ids, k, handler, handler') /\ ids \cap Parents \subseteq quit
    BY <1>7 DEF HandlerCleans
  <2>2. Cleaned(ids, handler')
    BY <1>1, <2>1, CleansFacts
  <2>3. CASE handler'.at = "cleanup" /\ handler'.ids = ids
    BY <1>1, <2>1, <2>3 DEF HandlerInPlace
  <2> QED BY <1>3, <2>2, <2>3 DEF Cleaned
<1>8. RouterCleans \/ Routes \/ IsRecorded => HandlerInPlace'
  BY <1>2 DEF RouterCleans, Routes, RouteStays, IsRecorded, Recorded
<1>9. Drain => HandlerInPlace'
  BY <1>3 DEF Drain
<1>10. Still => HandlerInPlace'
  BY <1>2, <1>3 DEF Still
<1> QED BY <1>5, <1>6, <1>7, <1>8, <1>9, <1>10, Forms

(* What the output loop has in hand stays in place.                         *)
LEMMA RouterKept ==
  ASSUME BaseInv, Next
  PROVE  RouterInPlace'
<1>1. RouterInPlace /\ OrchestratorTypeOK /\ told \in [Requests -> Nat]
  BY DEF BaseInv, OrchestratorTypeOK
<1>2. CASE UNCHANGED <<router, told, pipeline>>
  BY <1>1, <1>2 DEF RouterInPlace
<1>3. CASE router' \in {Idle, Over}
  BY <1>3 DEF RouterInPlace, Idle, Over
<1>4. ParentEnters \/ CompanionEnters \/ GoesAhead \/ HandlerCleans => RouterInPlace'
  BY <1>2 DEF ParentEnters, CompanionEnters, Enters, GoesAhead, Ahead, HandlerCleans, Cleans
<1>5. ASSUME RouterCleans PROVE RouterInPlace'
  <2>1. PICK ids, k :
          /\ Cleans(ids, k, router, router')
          /\ \/ router.at = "cleanup" /\ ids = router.ids /\ UNCHANGED told
             \/ \E s \in Stages, r \in Requests, p \in Requests : Fails(s, r, p, ids)
    BY <1>5 DEF RouterCleans
  <2>2. Cleaned(ids, router')
    BY <1>1, <2>1, CleansFacts
  <2>3. \A p \in ids \cap Parents : told'[p] # 0
    <3>1. ASSUME NEW s \in Stages, NEW r \in Requests, NEW p \in Requests, Fails(s, r, p, ids)
          PROVE  \A q \in ids \cap Parents : told'[q] # 0
      BY <1>1, <3>1, TellFacts DEF Fails
    <3> QED BY <1>1, <2>1, <3>1 DEF RouterInPlace
  <2>4. CASE router'.at = "cleanup" /\ router'.ids = ids
    BY <2>3, <2>4 DEF RouterInPlace
  <2> QED BY <1>3, <2>2, <2>4 DEF Cleaned
<1>6. ASSUME Routes PROVE RouterInPlace'
  <2>1. router = Idle /\ pipeline' = pipeline
    BY <1>6 DEF Routes, RouteStays
  <2>2. ASSUME NEW p \in Parents, NEW s \in Stages, NEW X \in SUBSET Companions, Forwards(p, s, X)
        PROVE  RouterInPlace'
    BY <2>1, <2>2 DEF RouterInPlace, Forwards, Submitting
  <2> QED BY <1>3, <1>6, <2>1, <2>2 DEF Routes, RouteMoves, Settles, Finishes, BreaksFatally, Breaks
<1>7. IsRecorded \/ Drain => RouterInPlace'
  BY <1>3 DEF IsRecorded, Recorded, Drain
<1>8. Still => RouterInPlace'
  BY <1>2, <1>3 DEF Still
<1> QED BY <1>4, <1>5, <1>6, <1>7, <1>8, Forms

(* What goes on before and after the end.                                   *)
LEMMA EndKept ==
  ASSUME BaseInv, Next
  PROVE  EndInPlace'
<1>1. EndInPlace /\ OrchestratorTypeOK /\ fatal \in BOOLEAN
  BY DEF BaseInv, OrchestratorTypeOK
<1>2. ASSUME Still PROVE EndInPlace'
  <2>1. CASE run = "drained"
    BY <1>1, <1>2, <2>1 DEF Still, EndInPlace, stateVars, Over, Idle
  <2>2. CASE run # "drained"
    BY <1>1, <1>2, <2>2 DEF Still, EndInPlace, Over, Idle
  <2> QED BY <2>1, <2>2
<1>3. ASSUME run # "drained", run' \in {run, "failing"},
             fatal' => router' = Over
      PROVE  EndInPlace'
  BY <1>3 DEF EndInPlace
<1>4. ASSUME UNCHANGED <<run, fatal>> \/ Fail
      PROVE  run' \in {run, "failing"} /\ (fatal' => fatal)
  BY <1>1, <1>4 DEF Fail
<1>5. ParentEnters \/ CompanionEnters \/ GoesAhead => EndInPlace'
  BY <1>1, <1>3, <1>4 DEF ParentEnters, CompanionEnters, Enters, GoesAhead, Ahead, EndInPlace
<1>6. HandlerCleans => EndInPlace'
  BY <1>1, <1>3 DEF HandlerCleans, Cleans, EndInPlace
<1>7. ASSUME RouterCleans PROVE EndInPlace'
  <2>1. PICK ids, k :
          /\ Cleans(ids, k, router, router')
          /\ \/ router.at = "cleanup"
             \/ \E s \in Stages, r \in Requests, p \in Requests : Fails(s, r, p, ids)
    BY <1>7 DEF RouterCleans
  <2>2. router # Over
    BY <2>1, PointFacts DEF Fails
  <2>3. ~fatal /\ run # "drained" /\ UNCHANGED <<run, fatal>>
    BY <1>1, <2>1, <2>2 DEF EndInPlace, Cleans
  <2> QED BY <1>3, <2>3
<1>8. ASSUME Routes PROVE EndInPlace'
  <2>1. router = Idle /\ run # "drained" /\ ~fatal
    BY <1>1, <1>8, PointFacts DEF Routes, RouteStays, EndInPlace
  <2>2. CASE UNCHANGED endVars
    BY <1>3, <2>1, <2>2 DEF endVars
  <2>3. CASE router' = Over /\ run' = "failing"
    BY <1>3, <2>1, <2>3
  <2> QED BY <1>8, <2>2, <2>3
          DEF Routes, RouteMoves, Settles, Forwards, Finishes, BreaksFatally, Breaks, Fail
<1>9. ASSUME IsRecorded PROVE EndInPlace'
  <2>1. router.at = "submit" /\ run # "drained" /\ UNCHANGED <<run, fatal>>
    BY <1>9 DEF IsRecorded, Recorded, endVars
  <2>2. ~fatal
    BY <1>1, <2>1, PointFacts DEF EndInPlace
  <2> QED BY <1>3, <2>1, <2>2
<1>10. ASSUME Drain PROVE EndInPlace'
  <2>1. handler' = Over /\ router' = Over /\ fatal' = fatal
    BY <1>10 DEF Drain
  <2>2. fatal => known' = {}
    BY <1>10 DEF Drain
  <2> QED BY <2>1, <2>2 DEF EndInPlace
<1> QED BY <1>2, <1>5, <1>6, <1>7, <1>8, <1>9, <1>10, Forms

(* What is in the queue after the drain.                                    *)
LEMMA LateKept ==
  ASSUME BaseInv, Next
  PROVE  LateInPlace'
<1>1. /\ LateInPlace /\ QueueMove /\ sent \subseteq Parents /\ late \subseteq sent
      /\ sent' \subseteq Parents
  BY QueueMoves DEF BaseInv, OrchestratorTypeOK, QueueMove
<1>2. CASE run = "drained"
  <2>1. Still => run' = run /\ fatal' = fatal
    BY DEF Still
  <2>2. Still
    <3>1. ~ParentEnters /\ ~CompanionEnters /\ ~GoesAhead /\ ~HandlerCleans /\ ~RouterCleans
      BY <1>2 DEF ParentEnters, CompanionEnters, Enters, GoesAhead, Ahead, HandlerCleans,
                  RouterCleans, Cleans
    <3>2. ~Routes /\ ~IsRecorded /\ ~Drain
      BY <1>2 DEF Routes, RouteStays, IsRecorded, Recorded, Drain
    <3> QED BY <3>1, <3>2, Forms
  <2>3. /\ late' = late \cup (sent' \ sent) /\ sent \subseteq sent'
        /\ \A p \in Parents : Entry(p) \in Msgs' <=> Entry(p) \in Msgs \/ p \in sent' \ sent
    BY <1>1, <1>2 DEF QueueMove
  <2> QED BY <1>1, <1>2, <2>1, <2>2, <2>3 DEF LateInPlace, Entry
<1>3. CASE run # "drained"
  <2>1. late' = {}
    BY <1>1, <1>3 DEF QueueMove, LateInPlace
  <2>2. CASE Drain
    <3>1. fatal' => queue' = << >>
      BY <2>2 DEF Drain
    <3>2. queue' = << >> => Msgs' = {}
      BY DEF Msgs
    <3> QED BY <2>1, <3>1, <3>2 DEF LateInPlace
  <2>3. CASE ~Drain
    <3>1. run' \in {run, "failing"}
      <4>1. Still \/ ParentEnters \/ CompanionEnters \/ GoesAhead => run' \in {run, "failing"}
        BY DEF Still, ParentEnters, CompanionEnters, Enters, GoesAhead, Ahead, Fail
      <4>2. HandlerCleans \/ RouterCleans \/ IsRecorded => run' \in {run, "failing"}
        BY DEF HandlerCleans, RouterCleans, Cleans, IsRecorded, Recorded, endVars
      <4>3. Routes => run' \in {run, "failing"}
        BY DEF Routes, RouteMoves, Settles, Forwards, Finishes, BreaksFatally, Breaks, Fail, endVars
      <4> QED BY <2>3, <4>1, <4>2, <4>3, Forms
    <3> QED BY <1>3, <2>1, <3>1 DEF LateInPlace
  <2> QED BY <2>2, <2>3
<1> QED BY <1>2, <1>3

-----------------------------------------------------------------------------
(* The known requests, the visits, the tracker.                            *)

(* A request becomes known when it is taken from the queue.                 *)
LEMMA KnownMoves ==
  ASSUME BaseInv, Next
  PROVE  /\ IsFiniteSet(known')
         /\ known' \subseteq known \/ \E r \in Requests : Taken(r) /\ known' = known \cup {r}
<1>1. IsFiniteSet(known) /\ OrchestratorTypeOK
  BY DEF BaseInv
<1> DEFINE G == /\ IsFiniteSet(known')
                /\ known' \subseteq known \/ \E r \in Requests : Taken(r) /\ known' = known \cup {r}
<1>2. ASSUME NEW r \in Requests, Enters(r) PROVE G
  <2>1. Taken(r) /\ known' = known \cup {r}
    BY <1>2 DEF Enters
  <2>2. IsFiniteSet(known \cup {r})
    BY <1>1, FS_AddElement
  <2> QED BY <2>1, <2>2
<1>3. ParentEnters \/ CompanionEnters => G
  BY <1>2, SourceFacts DEF ParentEnters, CompanionEnters
<1>4. Still \/ GoesAhead => G
  BY <1>1 DEF Still, stateVars, GoesAhead, Ahead
<1>5. ASSUME NEW ids, NEW k, NEW co, NEW next, Cleans(ids, k, co, next) PROVE G
  BY <1>1, <1>5, CleansFacts DEF Cleaned, Cleans
<1>6. HandlerCleans \/ RouterCleans => G
  BY <1>5 DEF HandlerCleans, RouterCleans
<1>7. Routes => G
  BY DEF Routes, RouteMoves, Settles, Forwards, Finishes, BreaksFatally, Breaks, Tells
<1>8. IsRecorded => G
  BY DEF IsRecorded, Recorded
<1>9. Drain => G
  <2>1. Drain => known' = known \/ known' = {}
    BY DEF Drain
  <2> QED BY <1>1, <2>1, FS_EmptySet
<1> QED BY <1>3, <1>4, <1>6, <1>7, <1>8, <1>9, Forms

\* The visits grow by one, of a request that has been taken.
VisitsGrow ==
  \/ visits' = visits
  \/ \E r \in Requests, s \in Stages :
       /\ ~Fresh(r)' /\ (s # 0 => r \in Parents)
       /\ \A q \in Requests, x \in Stages :
            visits'[q][x] = IF q = r /\ x = s THEN visits[q][x] + 1 ELSE visits[q][x]

LEMMA VisitMoves ==
  ASSUME BaseInv, Next
  PROVE  /\ VisitsGrow
         /\ \A q \in Requests, x \in Stages : visits[q][x] # 0 => visits'[q][x] # 0
<1>1. OrchestratorTypeOK /\ FreshUnused /\ visits \in [Requests -> [Stages -> Nat]]
  BY DEF BaseInv, OrchestratorTypeOK
<1>2. \A r \in Requests : Fresh(r)' => Fresh(r)
  BY QueueMoves DEF QueueMove
<1>3. ASSUME NEW r \in Requests, NEW s \in Stages, Submit(r, s), ~Fresh(r)', s # 0 => r \in Parents
      PROVE  VisitsGrow
  BY <1>1, <1>3, SubmitOnce DEF Submitted, VisitsGrow
<1>4. ASSUME NEW r \in Requests, Enters(r) PROVE VisitsGrow
  <2>1. CASE Submit(r, 0)
    BY <1>3, <1>4, <2>1, StageFacts DEF Enters, Taken
  <2>2. CASE visits' = visits
    BY <2>2 DEF VisitsGrow
  <2> QED BY <1>4, <2>1, <2>2 DEF Enters
<1>5. ParentEnters \/ CompanionEnters => VisitsGrow
  BY <1>4, SourceFacts DEF ParentEnters, CompanionEnters
<1>6. ASSUME NEW p \in Parents, Ahead(p) PROVE VisitsGrow
  <2>1. p \in Requests /\ handler.stage + 1 \in Stages /\ ~Fresh(p)'
    BY <1>1, <1>2, <1>6, SourceFacts DEF Ahead, FreshUnused
  <2>2. CASE Submit(p, handler.stage + 1)
    BY <1>3, <2>1, <2>2
  <2>3. CASE visits' = visits
    BY <2>3 DEF VisitsGrow
  <2> QED BY <1>6, <2>2, <2>3 DEF Ahead
<1>7. HandlerCleans \/ RouterCleans \/ Still \/ IsRecorded \/ Drain => VisitsGrow
  BY DEF VisitsGrow, HandlerCleans, RouterCleans, Cleans, Still, IsRecorded, Recorded, Drain
<1>8. ASSUME Routes PROVE VisitsGrow
  <2>1. ASSUME NEW p \in Parents, NEW s \in Stages, NEW X, Forwards(p, s, X) PROVE VisitsGrow
    <3>1. p \in Requests /\ s + 1 \in Stages /\ Submit(p, s + 1)
      BY <2>1, SourceFacts, StageFacts DEF Forwards
    <3>2. ~Fresh(p)'
      BY <1>1, <1>2, <2>1, <3>1 DEF Forwards, FreshUnused
    <3> QED BY <1>3, <3>1, <3>2
  <2>2. CASE visits' = visits
    BY <2>2 DEF VisitsGrow
  <2> QED BY <1>8, <2>1, <2>2
          DEF Routes, RouteMoves, Settles, Finishes, BreaksFatally, Breaks
<1>9. VisitsGrow
  BY <1>5, <1>6, <1>7, <1>8, Forms DEF GoesAhead
<1> QED BY <1>1, <1>9 DEF VisitsGrow

(* The deployment does not change.                                          *)
LEMMA PipelineKept ==
  ASSUME BaseInv, Next
  PROVE  pipeline' = pipeline
<1>1. Still \/ ParentEnters \/ CompanionEnters \/ GoesAhead => pipeline' = pipeline
  BY DEF Still, ParentEnters, CompanionEnters, Enters, GoesAhead, Ahead
<1>2. HandlerCleans \/ RouterCleans \/ Routes \/ IsRecorded => pipeline' = pipeline
  BY DEF HandlerCleans, RouterCleans, Cleans, Routes, RouteStays, IsRecorded, Recorded
<1>3. Drain => pipeline' = pipeline
  BY DEF Drain
<1> QED BY <1>1, <1>2, <1>3, Forms

(* The tracker stays in place; a companion is registered when it is taken,  *)
(* under a known parent.                                                    *)
LEMMA TrackerMoves ==
  ASSUME BaseInv, Next
  PROVE  /\ TrackerInPlace'
         /\ \A p \in Parents : \/ cfg'.map[p] \subseteq cfg.map[p]
                               \/ /\ p \in known
                                  /\ \A c \in cfg'.map[p] \ cfg.map[p] : Taken(c)
<1>1. /\ OrchestratorTypeOK /\ TrackerInPlace /\ cfg \in Tracker
      /\ OwnCompanions(cfg) /\ DeferralsAwait(cfg)
      /\ \A q \in Parents : Deferred(cfg, q) => GoodResult(q, cfg.pending[q])
  BY DEF BaseInv, OrchestratorTypeOK, TrackerInPlace, DeferralInPlace, GoodResult
<1>2. /\ pipeline' = pipeline
      /\ \A q \in Requests, x \in Stages : visits[q][x] # 0 => visits'[q][x] # 0
  BY VisitMoves, PipelineKept
<1> DEFINE G == /\ TrackerInPlace'
                /\ \A p \in Parents : \/ cfg'.map[p] \subseteq cfg.map[p]
                                      \/ /\ p \in known
                                         /\ \A c \in cfg'.map[p] \ cfg.map[p] : Taken(c)
<1>3. ASSUME cfg' \in Tracker, OwnCompanions(cfg'), DeferralsAwait(cfg'),
             \A q \in Parents : Deferred(cfg', q) => GoodResult(q, cfg'.pending[q])
      PROVE  TrackerInPlace'
  <2>1. \A q \in Parents : Deferred(cfg', q) => cfg'.pending[q].stage \in Stages
    BY <1>3, TrackerFields DEF Deferred, Result
  <2>2. DeferralInPlace'
    BY <1>2, <1>3, <2>1, SourceFacts DEF DeferralInPlace, Deferred, GoodResult
  <2>3. OwnCompanions(cfg)' /\ DeferralsAwait(cfg)'
    BY <1>3 DEF OwnCompanions, DeferralsAwait, Deferred, AllDone
  <2> QED BY <2>2, <2>3 DEF TrackerInPlace
<1>4. ASSUME Follows(cfg, cfg') PROVE G
  BY <1>3, <1>4 DEF Follows
<1>5. ASSUME cfg' = cfg PROVE G
  <2>1. Follows(cfg, cfg')
    BY <1>5, FollowsItself
  <2> QED BY <1>4, <2>1
<1>6. ASSUME NEW p \in Parents, NEW u \in Tracker, u = cfg',
             u.map = [cfg.map EXCEPT ![p] = {}], u.done = [cfg.done EXCEPT ![p] = {}],
             u.pending = [cfg.pending EXCEPT ![p] = NoResult]
      PROVE  G
  <2>1. \A q \in Parents :
          \/ q # p /\ u.map[q] = cfg.map[q] /\ u.done[q] = cfg.done[q]
                   /\ u.pending[q] = cfg.pending[q]
          \/ u.map[q] = {} /\ u.done[q] = {} /\ u.pending[q] = NoResult
    BY <1>1, <1>6, TrackerFields
  <2>2. Trims(cfg, u)
    BY <2>1 DEF Trims
  <2>3. Follows(cfg, cfg')
    BY <1>1, <1>6, <2>2, TrimsFollow
  <2> QED BY <1>4, <2>3
<1>7. ASSUME CompanionEnters PROVE G
  <2>1. PICK c \in Companions : Enters(c) /\ ParentOf[c] \in known /\ cfg' = RegisterCompanion(cfg, c)
    BY <1>7 DEF CompanionEnters
  <2> DEFINE q == ParentOf[c]
  <2>2. /\ cfg' \in Tracker /\ q \in Parents /\ Taken(c)
        /\ cfg'.map = [cfg.map EXCEPT ![q] = @ \cup {c}]
        /\ cfg'.done = cfg.done /\ cfg'.pending = cfg.pending
    BY <1>1, <2>1, RegisterFacts, SourceFacts DEF Enters
  <2>3. \A p \in Parents : cfg'.map[p] = IF p = q THEN cfg.map[p] \cup {c} ELSE cfg.map[p]
    BY <1>1, <2>2, TrackerFields
  <2>4. OwnCompanions(cfg')
    <3> SUFFICES ASSUME NEW p \in Parents, NEW d \in cfg'.map[p] PROVE ParentOf[d] = p
      BY DEF OwnCompanions
    <3>1. d \in cfg.map[p] \/ (p = q /\ d = c)
      BY <2>3
    <3> QED BY <1>1, <3>1 DEF OwnCompanions
  <2>5. DeferralsAwait(cfg')
    BY <1>1, <2>2, <2>3 DEF DeferralsAwait, Deferred, AllDone
  <2>6. \A p \in Parents : Deferred(cfg', p) => GoodResult(p, cfg'.pending[p])
    BY <1>1, <2>2 DEF Deferred
  <2> HIDE DEF q
  <2>7. TrackerInPlace'
    BY <1>3, <2>2, <2>4, <2>5, <2>6
  <2> QED BY <2>1, <2>2, <2>3, <2>7 DEF q
<1>8. Still \/ ParentEnters \/ GoesAhead \/ IsRecorded \/ Drain => cfg' = cfg
  BY DEF Still, stateVars, ParentEnters, GoesAhead, Ahead, IsRecorded, Recorded, Drain
<1>9. ASSUME HandlerCleans PROVE G
  <2>1. ASSUME NEW p \in Parents, cfg' = AbortParents(cfg, {p}) PROVE G
    BY <1>1, <1>6, <2>1, AbortFacts
  <2> QED BY <1>5, <1>9, <2>1 DEF HandlerCleans
<1>10. ASSUME RouterCleans PROVE G
  <2>1. ASSUME NEW p \in Parents, cfg' = CleanupParent(cfg, p) PROVE G
    BY <1>1, <1>6, <2>1, CleanupFacts
  <2> QED BY <1>5, <1>10, <2>1 DEF RouterCleans, Fails
<1>11. Routes => G
  BY <1>4 DEF Routes
<1> QED BY <1>5, <1>7, <1>8, <1>9, <1>10, <1>11, Forms

-----------------------------------------------------------------------------
(* Who is told, who is aborted, who stays.                                 *)

(* The terminal messages are counted up, and only of requests that have     *)
(* been taken or whose message the end of the run drops.                    *)
LEMMA ToldMoves ==
  ASSUME BaseInv, Next
  PROVE  \A r \in Requests : /\ told'[r] >= told[r]
                             /\ told'[r] # told[r] => ~Fresh(r)'
<1>1. /\ OrchestratorTypeOK /\ FreshUnused /\ QueueInPlace /\ told \in [Requests -> Nat]
      /\ known \subseteq Requests /\ queue \in Seq(MessageSet)
  BY DEF BaseInv, OrchestratorTypeOK, MessageSet
<1>2. \A r \in Requests : Fresh(r)' => Fresh(r)
  BY QueueMoves DEF QueueMove
<1> DEFINE G == \A r \in Requests : /\ told'[r] >= told[r]
                                    /\ told'[r] # told[r] => ~Fresh(r)'
<1>3. told' = told => G
  BY <1>1
<1>4. ASSUME NEW p \in Requests, ~Fresh(p), Tell(p) PROVE G
  BY <1>1, <1>2, <1>4, TellFacts
<1>5. \A r \in known : ~Fresh(r)
  BY <1>1 DEF FreshUnused
<1>6. ASSUME NEW lost \in SUBSET known, Tells(lost) PROVE G
  <2>1. \A r \in Requests : told'[r] = told[r] + IF r \in lost THEN 1 ELSE 0
    BY <1>6 DEF Tells
  <2> QED BY <1>1, <1>2, <1>5, <2>1
<1>7. Still \/ ParentEnters \/ CompanionEnters \/ GoesAhead \/ HandlerCleans \/ IsRecorded
        => told' = told
  BY DEF Still, ParentEnters, CompanionEnters, Enters, GoesAhead, Ahead, HandlerCleans,
         IsRecorded, Recorded
<1>8. ASSUME RouterCleans PROVE G
  <2>1. PICK ids, k :
          /\ Cleans(ids, k, router, router')
          /\ \/ told' = told
             \/ \E s \in Stages, r \in Requests, p \in Requests : Fails(s, r, p, ids)
    BY <1>8 DEF RouterCleans
  <2>2. ASSUME NEW s \in Stages, NEW r \in Requests, NEW p \in Requests, Fails(s, r, p, ids)
        PROVE  G
    <3>1. ~Fresh(p) /\ Tell(p)
      BY <2>1, <2>2 DEF Cleans, Fails
    <3> QED BY <1>4, <3>1
  <2> QED BY <1>3, <2>1, <2>2
<1>9. ASSUME Routes PROVE G
  <2>1. ASSUME NEW r \in Requests, NEW X, Finishes(r, X) PROVE G
    BY <1>4, <1>5, <2>1 DEF Finishes
  <2>2. BreaksFatally => G
    BY <1>6 DEF BreaksFatally
  <2> QED BY <1>3, <1>9, <2>1, <2>2 DEF Routes, RouteMoves, Settles, Forwards, Breaks
<1>10. ASSUME Drain PROVE G
  <2>1. CASE ~fatal
    BY <1>3, <1>10, <2>1 DEF Drain
  <2>2. CASE fatal
    <3> DEFINE queued == {queue[i].req : i \in {j \in DOMAIN queue : queue[j].type = "add"}}
    <3>1. /\ told' = [r \in Requests |-> told[r] + IF r \in queued \cup known THEN 1 ELSE 0]
          /\ queue' = << >> /\ sent' = sent
      BY <1>10, <2>2 DEF Drain, frontVars
    <3>2. ASSUME NEW r \in Requests, r \in queued PROVE ~Fresh(r)'
      <4>1. PICK i \in DOMAIN queue : queue[i].type = "add" /\ queue[i].req = r
        BY <3>2
      <4>2. queue[i] \in Msgs
        BY <1>1, <4>1, LenProperties DEF Msgs
      <4>3. Source(r) \in sent
        BY <1>1, <4>1, <4>2 DEF QueueInPlace
      <4>4. Msgs' = {}
        BY <3>1 DEF Msgs
      <4> QED BY <3>1, <4>3, <4>4 DEF Fresh, Source
    <3> HIDE DEF queued
    <3>3. \A r \in Requests : told'[r] = told[r] + IF r \in queued \cup known THEN 1 ELSE 0
      BY <3>1
    <3> QED BY <1>1, <1>2, <1>5, <3>2, <3>3
  <2> QED BY <2>1, <2>2
<1> QED BY <1>3, <1>7, <1>8, <1>9, <1>10, Forms

(* Neither the aborted ones nor those a coroutine has in hand are fresh.    *)
LEMMA HandMoves ==
  ASSUME BaseInv, Next
  PROVE  \A r \in Requests : Fresh(r)' =>
           r \notin aborted' /\ r \notin handler'.ids /\ r \notin router'.ids
<1>1. OrchestratorTypeOK /\ FreshUnused /\ \A r \in Requests : Fresh(r)' => Fresh(r)
  BY QueueMoves DEF BaseInv, QueueMove
<1>2. Idle.ids = {} /\ Over.ids = {} /\ [Idle EXCEPT !.at = "rpc"].ids = {}
  BY DEF Idle, Over
<1> DEFINE A == \A r \in Requests : Fresh(r)' => r \notin aborted'
           H == \A r \in Requests : Fresh(r)' => r \notin handler'.ids
           R == \A r \in Requests : Fresh(r)' => r \notin router'.ids
<1>3. aborted' = aborted => A
  BY <1>1 DEF FreshUnused
<1>4. handler' = handler \/ handler' \in {Idle, Over, [Idle EXCEPT !.at = "rpc"]} => H
  BY <1>1, <1>2 DEF FreshUnused
<1>5. router' = router \/ router' \in {Idle, Over} => R
  BY <1>1, <1>2 DEF FreshUnused
<1>6. ASSUME NEW r \in Requests, Enters(r) PROVE A /\ H /\ R
  <2>1. CASE handler' = Submitting(r, 0, {})
    <3>1. handler'.ids = {r} /\ ~Fresh(r)'
      BY <1>6, <2>1 DEF Submitting, Enters, Taken
    <3>2. aborted' = aborted /\ router' = router
      BY <1>6 DEF Enters
    <3> QED BY <1>3, <1>5, <3>1, <3>2
  <2>2. CASE handler' = Over
    <3>1. aborted' = aborted /\ router' = router
      BY <1>6 DEF Enters
    <3> QED BY <1>3, <1>4, <1>5, <2>2, <3>1
  <2> QED BY <1>6, <2>1, <2>2 DEF Enters
<1>7. ParentEnters \/ CompanionEnters => A /\ H /\ R
  BY <1>6, SourceFacts DEF ParentEnters, CompanionEnters
<1>8. ASSUME NEW p \in Parents, Ahead(p) PROVE A /\ H /\ R
  <2>1. handler'.ids = {p} \/ handler' = Over
    BY <1>8 DEF Ahead, Submitting
  <2>2. handler.ids = {p} /\ aborted' = aborted /\ router' = router
    BY <1>8 DEF Ahead
  <2>3. ~Fresh(p)'
    BY <1>1, <2>2, SourceFacts DEF FreshUnused
  <2> QED BY <1>3, <1>4, <1>5, <2>1, <2>2, <2>3
<1>9. Still => A /\ H /\ R
  BY <1>3, <1>4, <1>5 DEF Still
<1>10. ASSUME NEW ids, NEW k, NEW co, NEW next, Cleans(ids, k, co, next)
       PROVE  A /\ \A r \in Requests : Fresh(r)' => r \notin next.ids
  <2>1. Cleaned(ids, next) /\ \A r \in ids : ~Fresh(r)
    BY <1>1, <1>10, CleansFacts DEF Cleans
  <2>2. A
    BY <1>1, <2>1 DEF FreshUnused, Cleaned
  <2>3. next.ids = ids \/ next.ids = {}
    BY <1>2, <2>1 DEF Cleaned
  <2> QED BY <1>1, <2>1, <2>2, <2>3
<1>11. HandlerCleans => A /\ H /\ R
  BY <1>5, <1>10 DEF HandlerCleans
<1>12. RouterCleans => A /\ H /\ R
  BY <1>4, <1>10 DEF RouterCleans
<1>13. ASSUME Routes PROVE A /\ H /\ R
  <2>1. aborted' = aborted /\ handler' = handler /\ router = Idle
    BY <1>13 DEF Routes, RouteStays
  <2>2. ASSUME NEW p \in Parents, NEW s, NEW X, Forwards(p, s, X) PROVE R
    <3>1. router'.ids = {p} /\ p \in known /\ p \in Requests
      BY <2>2, SourceFacts DEF Forwards, Submitting
    <3> QED BY <1>1, <3>1 DEF FreshUnused
  <2>3. router' = router \/ router' = Over => R
    BY <1>5
  <2>4. R
    BY <1>13, <2>2, <2>3
       DEF Routes, RouteMoves, Settles, Finishes, BreaksFatally, Breaks
  <2> QED BY <1>3, <1>4, <2>1, <2>4
<1>14. IsRecorded \/ Drain => A /\ H /\ R
  BY <1>3, <1>4, <1>5 DEF IsRecorded, Recorded, Drain
<1>15. A /\ H /\ R
  BY <1>7, <1>8, <1>9, <1>11, <1>12, <1>13, <1>14, Forms DEF GoesAhead
<1> QED BY <1>15

(* Nobody has heard of a request that is still to be taken.                 *)
LEMMA FreshKept ==
  ASSUME BaseInv, Next
  PROVE  FreshUnused'
<1>1. /\ OrchestratorTypeOK /\ FreshUnused /\ \A r \in Requests : Fresh(r)' => Fresh(r)
      /\ cfg \in Tracker /\ OrchestratorTypeOK' /\ cfg' \in Tracker
      /\ visits \in [Requests -> [Stages -> Nat]]
  BY QueueMoves, TypesKept DEF BaseInv, QueueMove, OrchestratorTypeOK
<1> SUFFICES ASSUME NEW r \in Requests, Fresh(r)'
             PROVE  /\ r \notin known' /\ r \notin aborted' /\ told'[r] = 0
                    /\ \A s \in Stages : visits'[r][s] = 0
                    /\ r \notin handler'.ids /\ r \notin router'.ids
                    /\ \A p \in Parents : r \notin cfg'.map[p] /\ (r = p => cfg'.map[p] = {})
  BY DEF FreshUnused
<1>2. /\ Fresh(r) /\ r \notin known /\ told[r] = 0 /\ \A s \in Stages : visits[r][s] = 0
      /\ \A p \in Parents : r \notin cfg.map[p] /\ (r = p => cfg.map[p] = {})
  BY <1>1 DEF FreshUnused
<1>3. r \notin known'
  BY <1>2, KnownMoves DEF Taken
<1>4. told'[r] = 0
  BY <1>2, ToldMoves
<1>5. \A s \in Stages : visits'[r][s] = 0
  BY <1>2, VisitMoves DEF VisitsGrow
<1>6. ASSUME NEW p \in Parents
      PROVE  r \notin cfg'.map[p] /\ (r = p => cfg'.map[p] = {})
  <2>1. CASE cfg'.map[p] \subseteq cfg.map[p]
    BY <1>2, <2>1
  <2>2. CASE p \in known /\ \A c \in cfg'.map[p] \ cfg.map[p] : Taken(c)
    BY <1>2, <2>2 DEF Taken
  <2> QED BY <2>1, <2>2, TrackerMoves
<1> QED BY <1>3, <1>4, <1>5, <1>6, HandMoves

\* What a stage has in hand, it had before or gets by a submission.
StageMove ==
  \A s \in Stages :
    /\ \A r \in work'[s] \cup bound'[s] : r \in work[s] \cup bound[s] \/ visits'[r][s] # 0
    /\ \A o \in outs'[s] :
         o \in outs[s] \/ (o.req \in work[s] /\ (o.kind = "err" => s \notin LLM))

LEMMA StageMoves ==
  ASSUME BaseInv, Next
  PROVE  StageMove
<1>1. /\ OrchestratorTypeOK /\ visits \in [Requests -> [Stages -> Nat]]
      /\ bound \in [Stages -> SUBSET Requests] /\ work \in [Stages -> SUBSET Requests]
  BY DEF BaseInv, OrchestratorTypeOK
<1> DEFINE W == \A s \in Stages : \A r \in work'[s] \cup bound'[s] :
                  r \in work[s] \cup bound[s] \/ visits'[r][s] # 0
           O == \A s \in Stages : \A o \in outs'[s] :
                  o \in outs[s] \/ (o.req \in work[s] /\ (o.kind = "err" => s \notin LLM))
<1>2. ASSUME NEW r \in Requests, NEW s \in Stages, Submit(r, s) PROVE W
  <2>1. Submitted(r, s)
    BY <1>1, <1>2, SubmitOnce
  <2>2. visits'[r][s] # 0
    BY <1>1, <2>1 DEF Submitted
  <2>3. \A x \in Stages : \A q \in work'[x] \cup bound'[x] :
          q \in work[x] \cup bound[x] \/ (x = s /\ q = r)
    BY <2>1 DEF Submitted
  <2> QED BY <2>2, <2>3
<1>3. (\A s \in Stages : work'[s] \subseteq work[s] /\ bound'[s] \subseteq bound[s]) => W
  OBVIOUS
<1>4. (\A s \in Stages : outs'[s] \subseteq outs[s]) => O
  OBVIOUS
<1>5. ASSUME NEW r \in Requests, Enters(r) PROVE W /\ O
  BY <1>2, <1>3, <1>4, <1>5, StageFacts DEF Enters
<1>6. ParentEnters \/ CompanionEnters => W /\ O
  BY <1>5, SourceFacts DEF ParentEnters, CompanionEnters
<1>7. ASSUME NEW p \in Parents, Ahead(p) PROVE W /\ O
  <2>1. p \in Requests /\ handler.stage + 1 \in Stages /\ outs' = outs
    BY <1>7, SourceFacts DEF Ahead
  <2> QED BY <1>2, <1>3, <1>4, <1>7, <2>1 DEF Ahead
<1>8. ASSUME NEW ids, NEW k, NEW co, NEW next, Cleans(ids, k, co, next) PROVE W
  <2>1. Cleaned(ids, next)
    BY <1>1, <1>8, CleansFacts
  <2> QED BY <1>3, <2>1 DEF Cleaned
<1>9. HandlerCleans => W /\ O
  BY <1>4, <1>8 DEF HandlerCleans
<1>10. RouterCleans => W /\ O
  BY <1>4, <1>8 DEF RouterCleans, Fails
<1>11. ASSUME Routes PROVE W /\ O
  <2>1. O
    BY <1>4, <1>11 DEF Routes, RouteStays
  <2>2. ASSUME NEW p \in Parents, NEW s \in Stages, NEW X, Forwards(p, s, X) PROVE W
    <3>1. p \in Requests /\ s + 1 \in Stages /\ Submit(p, s + 1)
      BY <2>2, SourceFacts, StageFacts DEF Forwards
    <3> QED BY <1>2, <3>1
  <2>3. ASSUME NEW X, bound' = [s \in Stages |-> bound[s] \ X], work' = work PROVE W
    BY <1>3, <2>3
  <2>4. UNCHANGED <<bound, work>> => W
    BY <1>3
  <2> QED BY <1>11, <2>1, <2>2, <2>3, <2>4
          DEF Routes, RouteMoves, Settles, Finishes, BreaksFatally, Breaks
<1>12. IsRecorded => W /\ O
  BY <1>3, <1>4 DEF IsRecorded, Recorded, stageVars
<1>13. Drain => W /\ O
  BY <1>3, <1>4 DEF Drain, stageVars
<1>14. Still => W /\ O
  BY <1>3 DEF Still, stateVars
<1>15. W /\ O
  BY <1>6, <1>7, <1>9, <1>10, <1>11, <1>12, <1>13, <1>14, Forms DEF GoesAhead
<1> QED BY <1>15 DEF StageMove

(* What the stages have in hand has been submitted to them.                 *)
LEMMA VisitedKept ==
  ASSUME BaseInv, Next
  PROVE  VisitedInPlace'
<1>1. /\ VisitedInPlace /\ OrchestratorTypeOK /\ OrchestratorTypeOK'
      /\ \A q \in Requests, x \in Stages : visits[q][x] # 0 => visits'[q][x] # 0
      /\ VisitsGrow /\ StageMove
      /\ work \in [Stages -> SUBSET Requests] /\ bound \in [Stages -> SUBSET Requests]
      /\ outs \in [Stages -> SUBSET Output] /\ pipeline' = pipeline
  BY TypesKept, VisitMoves, StageMoves, PipelineKept DEF BaseInv, OrchestratorTypeOK
<1> SUFFICES ASSUME NEW s \in Stages
             PROVE  /\ \A r \in work'[s] \cup bound'[s] : visits'[r][s] # 0
                    /\ \A o \in outs'[s] :
                         visits'[o.req][s] # 0 /\ (o.kind = "err" => s \notin LLM)
                    /\ s # 0 => \A c \in Companions : visits'[c][s] = 0
  BY <1>1 DEF VisitedInPlace, LLM
<1>2. ASSUME NEW r \in work'[s] \cup bound'[s] PROVE visits'[r][s] # 0
  <2>1. r \in work[s] \cup bound[s] \/ visits'[r][s] # 0
    BY <1>1 DEF StageMove
  <2> QED BY <1>1, <2>1 DEF VisitedInPlace
<1>3. ASSUME NEW o \in outs'[s] PROVE visits'[o.req][s] # 0 /\ (o.kind = "err" => s \notin LLM)
  <2>1. o \in outs[s] \/ (o.req \in work[s] /\ (o.kind = "err" => s \notin LLM))
    BY <1>1 DEF StageMove
  <2>2. o \in outs[s] => o.req \in Requests
    BY <1>1 DEF Output
  <2>3. visits[o.req][s] # 0 /\ o.req \in Requests /\ (o.kind = "err" => s \notin LLM)
    BY <1>1, <2>1, <2>2 DEF VisitedInPlace
  <2> QED BY <1>1, <2>3
<1>4. ASSUME s # 0, NEW c \in Companions PROVE visits'[c][s] = 0
  BY <1>1, <1>4, SourceFacts DEF VisitedInPlace, VisitsGrow
<1> QED BY <1>2, <1>3, <1>4

(* The message that brings a request stays until it is taken, or answered.  *)
LEMMA EntriesStay ==
  ASSUME BaseInv, Next, NEW p \in Parents
  PROVE  /\ p \in sent' \ sent => Entry(p) \in Msgs'
         /\ Entry(p) \in Msgs => Entry(p) \in Msgs' \/ p \in known' \/ told'[p] # 0
<1>1. /\ queue \in Seq(MessageSet) /\ QueueInPlace /\ quit \subseteq sent /\ sent \subseteq Parents
      /\ told \in [Requests -> Nat]
  BY DEF BaseInv, OrchestratorTypeOK, MessageSet
<1> DEFINE G == /\ p \in sent' \ sent => Entry(p) \in Msgs'
                /\ Entry(p) \in Msgs => Entry(p) \in Msgs' \/ p \in known' \/ told'[p] # 0
<1>2. UNCHANGED <<frontVars, queue>> => G
  BY DEF frontVars, Msgs, Entry
<1>3. ASSUME NEW q \in Parents, FrontSubmit(q) PROVE G
  <2>1. Entry(q) \in Msgs' /\ Msgs \subseteq Msgs'
    BY <1>1, <1>3, SubmitFacts
  <2>2. sent' = sent \cup {q}
    BY <1>3 DEF FrontSubmit
  <2> QED BY <2>1, <2>2
<1>4. ASSUME sent' = sent, NEW m, queue' = Append(queue, m) PROVE G
  <2>1. Len(queue') = Len(queue) + 1 /\ \A i \in 1 .. Len(queue) : queue'[i] = queue[i]
    BY <1>1, <1>4, LenProperties
  <2>2. Msgs \subseteq Msgs'
    BY <1>1, <2>1, LenProperties DEF Msgs
  <2> QED BY <1>4, <2>2
<1>5. ASSUME NEW q \in Parents, FrontAbort(q) PROVE G
  BY <1>4, <1>5 DEF FrontAbort
<1>6. FrontRpc \/ FrontShutdown => G
  BY <1>4 DEF FrontRpc, FrontShutdown
<1>7. ASSUME NEW type, Take(type), UNCHANGED frontVars, Head(queue) = Entry(p) => p \in known'
      PROVE  G
  <2>1. Msgs \ {Head(queue)} \subseteq Msgs' /\ sent' = sent
    BY <1>1, <1>7, TakeFacts DEF frontVars
  <2> QED BY <1>7, <2>1
<1>8. ASSUME AddRequest PROVE G
  <2>1. Take("add") /\ UNCHANGED frontVars /\ known' = known \cup {Head(queue).req}
    BY <1>8 DEF AddRequest
  <2>2. Head(queue) = Entry(p) => p \in known'
    BY <2>1, EntryForms, SourceFacts
  <2> QED BY <1>7, <2>1, <2>2
<1>9. ASSUME NEW type, Take(type), UNCHANGED frontVars, type # "add" PROVE G
  <2>1. Head(queue) # Entry(p)
    BY <1>9, EntryForms, SourceFacts DEF Take
  <2> QED BY <1>7, <1>9, <2>1
<1>10. AddCompanion \/ Abort \/ Rpc \/ Shutdown => G
  BY <1>9 DEF AddCompanion, Abort, Rpc, Shutdown
<1>11. ASSUME Drain PROVE G
  <2>1. CASE fatal /\ Entry(p) \in Msgs
    <3> DEFINE queued == {queue[i].req : i \in {j \in DOMAIN queue : queue[j].type = "add"}}
    <3>1. told' = [r \in Requests |-> told[r] + IF r \in queued \cup known THEN 1 ELSE 0]
      BY <1>11, <2>1 DEF Drain
    <3>2. p \in queued
      <4>1. PICK i \in 1 .. Len(queue) : queue[i] = Entry(p)
        BY <2>1 DEF Msgs
      <4>2. i \in DOMAIN queue /\ queue[i].type = "add" /\ queue[i].req = p
        BY <1>1, <4>1, EntryForms, SourceFacts, LenProperties
      <4> QED BY <4>2
    <3> HIDE DEF queued
    <3>3. told'[p] = told[p] + 1
      BY <3>1, <3>2, SourceFacts
    <3> QED BY <1>1, <1>11, <3>3, SourceFacts DEF Drain, frontVars
  <2>2. CASE ~fatal \/ Entry(p) \notin Msgs
    BY <1>11, <2>2 DEF Drain, frontVars, Msgs, Entry
  <2> QED BY <2>1, <2>2
<1>12. ASSUME NEW s \in Stages, NEW r \in Requests,
              DropOutput(s, r) \/ RouteStep(s, r) \/ StageError(s, r) \/ EngineEnds(s, r)
       PROVE  UNCHANGED <<frontVars, queue>>
  <2>1. DropOutput(s, r) \/ EngineEnds(s, r) => UNCHANGED <<frontVars, queue>>
    BY DEF DropOutput, EngineEnds, Produce
  <2>2. KvReady(s, r) \/ CompanionFinished(s, r) => UNCHANGED <<frontVars, queue>>
    BY DEF KvReady, CompanionFinished
  <2>3. RequestFinished(s, r) \/ StageError(s, r) => UNCHANGED <<frontVars, queue>>
    BY DEF RequestFinished, StageError
  <2> QED BY <1>12, <2>1, <2>2, <2>3 DEF RouteStep
<1>13. HandlerStep => G
  BY <1>2, <1>8, <1>10 DEF HandlerStep, HandlerSubmitted, HandlerAborted, RpcAnswered
<1>14. RouterStep => G
  BY <1>2 DEF RouterStep, RouterAborted, RouterSubmitted, RouterStops
<1>15. ASSUME NEW s \in Stages PROVE StageDead(s) \/ EngineDies(s) => G
  BY <1>2 DEF StageDead, EngineDies, frontVars, Msgs, Entry
<1>16. ASSUME NEW r \in Requests PROVE EngineKv(r) => G
  BY <1>2 DEF EngineKv, Produce
<1>17. ShutdownStages => G
  BY <1>2 DEF ShutdownStages
<1> QED
  BY <1>2, <1>3, <1>5, <1>6, <1>11, <1>12, <1>13, <1>14, <1>15, <1>16, <1>17, StepForms

(* A known parent stays known until it is told or given up.                 *)
LEMMA KnownStay ==
  ASSUME BaseInv, Next, NEW p \in Parents, p \in known
  PROVE  p \in known' \/ told'[p] # 0 \/ p \in quit
<1>1. /\ OrchestratorTypeOK /\ RouterInPlace /\ told \in [Requests -> Nat] /\ p \in Requests
      /\ p \notin Companions /\ known \subseteq Requests
  BY SourceFacts DEF BaseInv, OrchestratorTypeOK
<1> DEFINE G == p \in known' \/ told'[p] # 0 \/ p \in quit
<1>2. Still \/ ParentEnters \/ CompanionEnters \/ GoesAhead => G
  BY DEF Still, stateVars, ParentEnters, CompanionEnters, Enters, GoesAhead, Ahead
<1>3. ASSUME HandlerCleans PROVE G
  <2>1. PICK ids, k : Cleans(ids, k, handler, handler') /\ ids \cap Parents \subseteq quit
    BY <1>3 DEF HandlerCleans
  <2>2. known \subseteq known' \cup ids
    BY <1>1, <2>1, CleansFacts DEF Cleaned
  <2> QED BY <2>1, <2>2
<1>4. ASSUME RouterCleans PROVE G
  <2>1. PICK ids, k :
          /\ Cleans(ids, k, router, router')
          /\ \/ router.at = "cleanup" /\ ids = router.ids /\ told' = told
             \/ \E s \in Stages, r \in Requests, q \in Requests : Fails(s, r, q, ids)
    BY <1>4 DEF RouterCleans
  <2>2. known \subseteq known' \cup ids
    BY <1>1, <2>1, CleansFacts DEF Cleaned
  <2>3. ASSUME NEW s \in Stages, NEW r \in Requests, NEW q \in Requests, Fails(s, r, q, ids)
        PROVE  p \in ids => told'[p] # 0
    BY <1>1, <2>3, TellFacts DEF Fails
  <2> QED BY <1>1, <2>1, <2>2, <2>3 DEF RouterInPlace
<1>5. ASSUME Routes PROVE G
  <2>1. ASSUME NEW X \in SUBSET Companions, Settles(X) PROVE G
    BY <1>1, <2>1 DEF Settles
  <2>2. ASSUME NEW r \in Requests, NEW X \in SUBSET Companions, Finishes(r, X) PROVE G
    BY <1>1, <2>2, TellFacts DEF Finishes
  <2>3. ASSUME BreaksFatally PROVE G
    <3>1. PICK lost : Tells(lost)
      BY <2>3 DEF BreaksFatally
    <3>2. p \in known' \/ p \in lost
      BY <3>1 DEF Tells
    <3>3. told'[p] = told[p] + IF p \in lost THEN 1 ELSE 0
      BY <1>1, <3>1 DEF Tells
    <3> QED BY <1>1, <3>2, <3>3
  <2> QED BY <1>5, <2>1, <2>2, <2>3 DEF Routes, RouteMoves, Forwards, Breaks
<1>6. ASSUME IsRecorded PROVE G
  <2>1. router.after \subseteq Companions /\ known' = known \ router.after
    BY <1>1, <1>6 DEF IsRecorded, Recorded, RouterInPlace
  <2> QED BY <1>1, <2>1
<1>7. ASSUME Drain PROVE G
  <2>1. CASE fatal
    <3>1. PICK queued : told' = [r \in Requests |->
                                  told[r] + IF r \in queued \cup known THEN 1 ELSE 0]
      BY <1>7, <2>1 DEF Drain
    <3>2. told'[p] = told[p] + 1
      BY <1>1, <3>1
    <3> QED BY <1>1, <3>2
  <2>2. CASE ~fatal
    BY <1>7, <2>2 DEF Drain
  <2> QED BY <2>1, <2>2
<1> QED BY <1>2, <1>3, <1>4, <1>5, <1>6, <1>7, Forms

-----------------------------------------------------------------------------
(* The invariant.                                                          *)

(* It holds initially.                                                      *)
LEMMA BaseInit ==
  ASSUME Init
  PROVE  BaseInv
<1>1. OrchestratorTypeOK
  <2>1. queue \in Seq([type : {"add", "companion", "abort", "rpc", "shutdown"},
                       req : Requests \cup {NoResult}])
    BY DEF Init
  <2>2. upsets \in 0 .. MaxUpsets
    BY StagesAssumption DEF Init
  <2>3. handler \in Coroutine /\ router \in Coroutine /\ cfg \in Tracker
    BY PointFacts, EmptyFacts DEF Init
  <2> QED BY <2>1, <2>2, <2>3 DEF Init, OrchestratorTypeOK
<1>2. Msgs = {} /\ Len(queue) = 0
  BY DEF Init, Msgs
<1>3. QueueInPlace
  BY <1>2 DEF QueueInPlace
<1>4. HandlerInPlace /\ RouterInPlace /\ EndInPlace /\ LateInPlace
  BY DEF Init, HandlerInPlace, RouterInPlace, EndInPlace, LateInPlace, Idle
<1>5. TrackerInPlace
  <2>1. DeferralInPlace
    BY DEF Init, EmptyTracker, Deferred, DeferralInPlace
  <2> QED BY <2>1, EmptyFacts DEF TrackerInPlace, Init
<1>6. FreshUnused
  BY DEF Init, FreshUnused, EmptyTracker, Idle
<1>7. VisitedInPlace
  BY SourceFacts DEF Init, VisitedInPlace
<1>8. NobodyForgotten
  BY DEF Init, NobodyForgotten
<1>9. IsFiniteSet(known)
  BY FS_EmptySet DEF Init
<1> QED BY <1>1, <1>3, <1>4, <1>5, <1>6, <1>7, <1>8, <1>9 DEF BaseInv

(* Every step keeps it.                                                     *)
LEMMA BaseStep ==
  ASSUME BaseInv, [Next]_vars
  PROVE  BaseInv'
<1>1. CASE Next
  <2>1. /\ QueueInPlace' /\ HandlerInPlace' /\ RouterInPlace' /\ EndInPlace' /\ LateInPlace'
        /\ TrackerInPlace'
    BY <1>1, QueueMoves, HandlerKept, RouterKept, EndKept, LateKept, TrackerMoves DEF QueueMove
  <2>2. OrchestratorTypeOK' /\ IsFiniteSet(known') /\ FreshUnused' /\ VisitedInPlace'
    BY <1>1, TypesKept, KnownMoves, FreshKept, VisitedKept
  <2>3. NobodyForgotten'
    <3> SUFFICES ASSUME NEW p \in sent' \ quit', told'[p] = 0
                 PROVE  Entry(p) \in Msgs' \/ p \in known'
      BY DEF NobodyForgotten, Entry
    <3>1. p \in Parents /\ p \in Requests /\ p \notin quit
      BY <1>1, QueueMoves, SourceFacts DEF QueueMove
    <3>2. told \in [Requests -> Nat] /\ told' \in [Requests -> Nat] /\ told'[p] >= told[p]
      BY <1>1, <2>2, <3>1, ToldMoves DEF BaseInv, OrchestratorTypeOK
    <3>3. told[p] = 0
      BY <3>1, <3>2
    <3>4. CASE p \in sent
      BY <1>1, <3>1, <3>3, <3>4, EntriesStay, KnownStay DEF BaseInv, NobodyForgotten
    <3>5. CASE p \notin sent
      BY <1>1, <3>1, <3>5, EntriesStay
    <3> QED BY <3>4, <3>5
  <2> QED BY <2>1, <2>2, <2>3 DEF BaseInv
<1>2. CASE UNCHANGED vars
  <2> USE <1>2 DEF vars, frontVars, stateVars, endVars, stageVars
  <2>1. OrchestratorTypeOK' /\ IsFiniteSet(known')
    BY DEF BaseInv, OrchestratorTypeOK
  <2>2. QueueInPlace' /\ NobodyForgotten'
    BY DEF BaseInv, QueueInPlace, NobodyForgotten, Msgs, Entry, Source
  <2>3. HandlerInPlace' /\ RouterInPlace' /\ EndInPlace' /\ LateInPlace'
    BY DEF BaseInv, HandlerInPlace, RouterInPlace, EndInPlace, LateInPlace, Msgs, Entry
  <2>4. TrackerInPlace'
    BY DEF BaseInv, TrackerInPlace, OwnCompanions, DeferralsAwait, DeferralInPlace, Deferred, AllDone
  <2>5. FreshUnused' /\ VisitedInPlace'
    BY DEF BaseInv, FreshUnused, Fresh, Source, Entry, Msgs, VisitedInPlace, LLM
  <2> QED BY <2>1, <2>2, <2>3, <2>4, <2>5 DEF BaseInv
<1> QED BY <1>1, <1>2

(* The invariant of the orchestrator.                                       *)
LEMMA BaseAlways == Spec => []BaseInv
  BY BaseInit, BaseStep, PTL DEF Spec

(* Every variable has its type: a tracker stays a tracker, a coroutine is   *)
(* at one of its points, no counter goes below zero.                        *)
THEOREM OrchestratorTypeCorrect == Spec => []OrchestratorTypeOK
<1>1. BaseInv => OrchestratorTypeOK
  BY DEF BaseInv
<1> QED BY <1>1, BaseAlways, PTL

-----------------------------------------------------------------------------
(* A request enters a stage once.                                          *)

(* Every form of a step keeps the invariant of the visits.                  *)
LEMMA VisitStep ==
  ASSUME BaseInv, VisitInv, Next
  PROVE  VisitInv'
<1>1. /\ OrchestratorTypeOK /\ FreshUnused /\ OrchestratorTypeOK' /\ pipeline' = pipeline
      /\ visits \in [Requests -> [Stages -> Nat]] /\ submitted \in [Requests -> SUBSET Stages]
      /\ known \subseteq Requests /\ handler \in Coroutine
      /\ EntersStageOnce /\ VisitsRecorded /\ ChunksInOrder
  BY PipelineKept, TypesKept DEF BaseInv, OrchestratorTypeOK, VisitInv
<1>2. \A s \in Stages : s \in Nat
  BY StageFacts
\* A step that submits nothing.
<1>3. ASSUME visits' = visits PROVE EntersStageOnce'
  BY <1>1, <1>3 DEF EntersStageOnce
<1>4. ASSUME visits' = visits, handler' = handler \/ handler'.at # "submit" PROVE ChunksInOrder'
  BY <1>1, <1>4 DEF ChunksInOrder
<1>5. ASSUME visits' = visits, known' \subseteq known, run' # "drained" => run # "drained",
             \A r \in known' : submitted[r] \subseteq submitted'[r],
             router' = router \/ router.at # "submit"
      PROVE  VisitsRecorded'
  BY <1>1, <1>5 DEF VisitsRecorded
\* A step that submits a request to a stage it has not visited.
<1>6. ASSUME NEW r \in Requests, NEW s \in Stages, Submitted(r, s), visits[r][s] = 0
      PROVE  EntersStageOnce'
  BY <1>1, <1>6 DEF EntersStageOnce, Submitted
<1>7. ASSUME NEW r \in Requests, Enters(r) PROVE VisitInv'
  <2>1. /\ \A s \in Stages : visits[r][s] = 0
        /\ r \notin known /\ known' = known \cup {r} /\ submitted' = [submitted EXCEPT ![r] = {0}]
        /\ run # "drained" /\ router' = router
    BY <1>1, <1>7 DEF Enters, Taken, FreshUnused
  <2>2. submitted'[r] = {0} /\ \A q \in known : submitted'[q] = submitted[q]
    BY <1>1, <2>1
  <2>3. CASE Submit(r, 0) /\ handler' = Submitting(r, 0, {})
    <3>1. Submitted(r, 0)
      BY <1>1, <2>3, SubmitOnce, StageFacts
    <3>2. EntersStageOnce'
      BY <1>6, <2>1, <3>1, StageFacts
    <3>3. \A s \in Stages : visits'[r][s] # 0 => s = 0
      BY <2>1, <3>1 DEF Submitted
    <3>4. \A q \in known, s \in Stages : visits'[q][s] = visits[q][s]
      BY <1>1, <2>1, <3>1 DEF Submitted
    <3>5. VisitsRecorded'
      BY <1>1, <2>1, <2>2, <3>3, <3>4 DEF VisitsRecorded
    <3>6. ChunksInOrder'
      <4>1. handler'.ids = {r} /\ handler'.stage = 0
        BY <2>3 DEF Submitting
      <4> QED BY <1>2, <3>3, <4>1, StageFacts DEF ChunksInOrder
    <3> QED BY <3>2, <3>5, <3>6 DEF VisitInv
  <2>4. CASE handler' = Over /\ visits' = visits
    <3>1. VisitsRecorded'
      BY <1>1, <2>1, <2>2, <2>4 DEF VisitsRecorded
    <3> QED BY <1>3, <1>4, <2>4, <3>1, PointFacts DEF VisitInv
  <2> QED BY <1>7, <2>3, <2>4 DEF Enters
<1>8. ASSUME NEW p \in Parents, Ahead(p) PROVE VisitInv'
  <2> DEFINE s == handler.stage + 1
  <2>1. /\ p \in Requests /\ s \in Stages /\ handler.stage \in Nat /\ pipeline.chunked
        /\ handler.at = "submit" /\ p \in handler.ids
    BY <1>1, <1>2, <1>8, SourceFacts DEF Ahead, Coroutine
  <2>2. \A x \in Stages : x > handler.stage => visits[p][x] = 0
    BY <1>1, <2>1 DEF ChunksInOrder
  <2>3. VisitsRecorded'
    BY <1>1, <2>1 DEF VisitsRecorded
  <2>4. CASE Submit(p, s) /\ handler' = Submitting(p, s, {})
    <3>1. Submitted(p, s) /\ visits[p][s] = 0
      BY <1>1, <2>1, <2>2, <2>4, SubmitOnce
    <3>2. EntersStageOnce'
      BY <1>6, <2>1, <3>1
    <3>3. handler'.ids = {p} /\ handler'.stage = s
      BY <2>4 DEF Submitting
    <3>4. \A x \in Stages : x > s => visits'[p][x] = 0
      BY <1>2, <2>1, <2>2, <3>1 DEF Submitted
    <3>5. ChunksInOrder'
      BY <3>3, <3>4 DEF ChunksInOrder
    <3> QED BY <2>3, <3>2, <3>5 DEF VisitInv
  <2>5. CASE handler' = Over /\ visits' = visits
    BY <1>3, <1>4, <2>3, <2>5, PointFacts DEF VisitInv
  <2> QED BY <1>8, <2>4, <2>5 DEF Ahead
<1>9. ASSUME Still PROVE VisitInv'
  <2>1. /\ visits' = visits /\ known' = known /\ submitted' = submitted /\ run' = run
        /\ handler' = handler \/ handler'.at # "submit"
        /\ router' = router \/ router.at # "submit"
    BY <1>9 DEF Still, stateVars, Idle, Over
  <2> QED BY <1>3, <1>4, <1>5, <2>1 DEF VisitInv
<1>10. ASSUME NEW ids, NEW k, NEW co, NEW next, Cleans(ids, k, co, next)
       PROVE  /\ visits' = visits /\ known' \subseteq known /\ run' = run
              /\ \A r \in known' : submitted[r] \subseteq submitted'[r]
              /\ next.at # "submit"
  <2>1. Cleaned(ids, next) /\ visits' = visits /\ run' = run /\ submitted' = Kept(submitted)
    BY <1>1, <1>10, CleansFacts DEF Cleans
  <2> QED BY <1>1, <2>1, KeptFacts, PointFacts DEF Cleaned
<1>11. ASSUME HandlerCleans PROVE VisitInv'
  <2>1. router' = router /\ \E ids, k : Cleans(ids, k, handler, handler')
    BY <1>11 DEF HandlerCleans
  <2> QED BY <1>3, <1>4, <1>5, <1>10, <2>1 DEF VisitInv
<1>12. ASSUME RouterCleans PROVE VisitInv'
  <2>1. /\ handler' = handler /\ \E ids, k : Cleans(ids, k, router, router')
        /\ router.at # "submit"
    BY <1>12, PointFacts DEF RouterCleans, Fails
  <2> QED BY <1>3, <1>4, <1>5, <1>10, <2>1 DEF VisitInv
<1>13. ASSUME Routes PROVE VisitInv'
  <2>1. /\ handler' = handler /\ router = Idle /\ router.at # "submit" /\ run # "drained"
        /\ \A r \in Requests : submitted'[r] = IF r \in known' THEN submitted[r] ELSE {}
    BY <1>1, <1>13, KeptFacts, PointFacts DEF Routes, RouteStays
  <2>2. known' \subseteq known
    BY <1>13 DEF Routes, RouteMoves, Settles, Forwards, Finishes, BreaksFatally, Breaks, Tells
  <2>3. ASSUME NEW p \in Parents, NEW s \in Stages, NEW X, Forwards(p, s, X) PROVE VisitInv'
    <3>1. /\ p \in known /\ ~pipeline.chunked /\ s + 1 \notin submitted[p] /\ p \in Requests
          /\ s + 1 \in Stages /\ Submit(p, s + 1) /\ router' = Submitting(p, s + 1, X)
      BY <2>3, SourceFacts, StageFacts DEF Forwards
    <3>2. Submitted(p, s + 1)
      BY <1>1, <3>1, SubmitOnce
    <3>3. visits[p][s + 1] = 0
      BY <1>1, <2>1, <3>1 DEF VisitsRecorded
    <3>4. router'.at = "submit" /\ router'.ids = {p} /\ router'.stage = s + 1
      BY <3>1 DEF Submitting
    <3>5. \A r \in known, x \in Stages : visits[r][x] # 0 => x \in submitted[r]
      BY <1>1, <2>1, <3>1 DEF VisitsRecorded
    <3>6. VisitsRecorded'
      BY <1>1, <2>1, <2>2, <3>2, <3>4, <3>5 DEF VisitsRecorded, Submitted
    <3>7. ChunksInOrder'
      BY <1>1, <3>1 DEF ChunksInOrder
    <3> QED BY <1>6, <3>1, <3>2, <3>3, <3>6, <3>7 DEF VisitInv
  <2>4. ASSUME visits' = visits PROVE VisitInv'
    <3>1. \A r \in known' : submitted[r] \subseteq submitted'[r]
      BY <1>1, <2>1, <2>2
    <3> QED BY <1>3, <1>4, <1>5, <2>1, <2>2, <2>4, <3>1 DEF VisitInv
  <2> QED BY <1>13, <2>3, <2>4 DEF Routes, RouteMoves, Settles, Finishes, BreaksFatally, Breaks
<1>14. ASSUME IsRecorded PROVE VisitInv'
  <2>1. PICK p \in Parents : Recorded(p)
    BY <1>14 DEF IsRecorded
  <2> DEFINE f == [submitted EXCEPT ![p] = @ \cup {router.stage}]
  <2>2. /\ visits' = visits /\ handler' = handler /\ known' \subseteq known
        /\ router.at = "submit" /\ router.ids = {p} /\ submitted' = Kept(f) /\ run # "drained"
        /\ router.stage \in Stages /\ p \in Requests
    BY <1>1, <2>1, SourceFacts DEF Recorded, OrchestratorTypeOK, Coroutine
  <2>3. /\ f \in [Requests -> SUBSET Stages]
        /\ \A r \in Requests : f[r] = IF r = p THEN submitted[r] \cup {router.stage} ELSE submitted[r]
    BY <1>1, <2>2
  <2> HIDE DEF f
  <2>4. \A r \in known' : submitted'[r] = f[r]
    BY <1>1, <2>2, <2>3, KeptFacts
  <2>5. VisitsRecorded'
    BY <1>1, <2>2, <2>3, <2>4 DEF VisitsRecorded
  <2> QED BY <1>3, <1>4, <2>2, <2>5 DEF VisitInv
<1>15. ASSUME Drain PROVE VisitInv'
  <2>1. visits' = visits /\ run' = "drained" /\ handler'.at # "submit"
    BY <1>15, PointFacts DEF Drain
  <2> QED BY <1>3, <1>4, <2>1 DEF VisitInv, VisitsRecorded
<1>16. ParentEnters \/ CompanionEnters \/ GoesAhead => VisitInv'
  BY <1>7, <1>8, SourceFacts DEF ParentEnters, CompanionEnters, GoesAhead
<1> QED BY <1>9, <1>11, <1>12, <1>13, <1>14, <1>15, <1>16, Forms

(* The invariant of the visits.                                             *)
LEMMA VisitAlways == Spec => []VisitInv
<1>1. Init => VisitInv
  BY PointFacts DEF Init, VisitInv, EntersStageOnce, VisitsRecorded, ChunksInOrder
<1>2. BaseInv /\ VisitInv /\ [Next]_vars => VisitInv'
  <2>1. ASSUME VisitInv, UNCHANGED vars PROVE VisitInv'
    BY <2>1 DEF vars, stateVars, endVars, VisitInv, EntersStageOnce, VisitsRecorded, ChunksInOrder
  <2> QED BY <2>1, VisitStep
<1> QED BY <1>1, <1>2, BaseAlways, PTL DEF Spec

(* A request enters a stage once: forwarded early when its KV is ready, or  *)
(* when it is finished, or when the last of its companions is, or submitted *)
(* ahead in async-chunk mode; the submission in progress is the one that is *)
(* not recorded yet, and the loop handles no output meanwhile.              *)
THEOREM RequestsEnterStagesOnce == Spec => []EntersStageOnce
<1>1. VisitInv => EntersStageOnce
  BY DEF VisitInv
<1> QED BY <1>1, VisitAlways, PTL

-----------------------------------------------------------------------------
(* A request is answered once, and nobody is left waiting after a stage's   *)
(* death.                                                                   *)

(* Every form of a step keeps the invariant of the answers.                 *)
LEMMA ToldStep ==
  ASSUME CompanionsOnLlm, BaseInv, ToldInv, Next
  PROVE  ToldInv'
<1>1. /\ OrchestratorTypeOK /\ FreshUnused /\ EndInPlace /\ VisitedInPlace /\ QueueInPlace
      /\ told \in [Requests -> Nat] /\ known \subseteq Requests /\ queue \in Seq(MessageSet)
      /\ pipeline \in Pipelines /\ cfg \in Tracker
      /\ AnsweredAtMostOnce /\ ToldAreOver
  BY DEF BaseInv, OrchestratorTypeOK, ToldInv, MessageSet
\* A step that tells nobody.
<1>2. ASSUME told' = told, known' \subseteq known, run' # "drained" => run # "drained",
             router' = router \/ router.at # "cleanup"
      PROVE  ToldInv'
  BY <1>1, <1>2 DEF ToldInv, AnsweredAtMostOnce, ToldAreOver
\* While the output loop cleans nothing up, who is known has not been told.
<1>3. run # "drained" /\ router.at # "cleanup" => \A r \in known : told[r] = 0
  BY <1>1 DEF ToldAreOver
<1>4. Still => ToldInv'
  BY <1>2, PointFacts DEF Still, stateVars
<1>5. ASSUME NEW r \in Requests, Enters(r) PROVE ToldInv'
  <2>1. /\ told' = told /\ known' = known \cup {r} /\ router' = router /\ run # "drained"
        /\ told[r] = 0
    BY <1>1, <1>5 DEF Enters, Taken, FreshUnused
  <2> QED BY <1>1, <2>1 DEF ToldInv, AnsweredAtMostOnce, ToldAreOver
<1>6. ParentEnters \/ CompanionEnters => ToldInv'
  BY <1>5, SourceFacts DEF ParentEnters, CompanionEnters
<1>7. GoesAhead => ToldInv'
  BY <1>2 DEF GoesAhead, Ahead
<1>8. ASSUME HandlerCleans PROVE ToldInv'
  <2>1. told' = told /\ router' = router /\ \E ids, k : Cleans(ids, k, handler, handler')
    BY <1>8 DEF HandlerCleans
  <2>2. known' \subseteq known /\ run' = run
    BY <1>1, <2>1, CleansFacts DEF Cleaned, Cleans
  <2> QED BY <1>2, <2>1, <2>2
<1>9. ASSUME RouterCleans PROVE ToldInv'
  <2>1. PICK ids, k :
          /\ Cleans(ids, k, router, router')
          /\ \/ router.at = "cleanup" /\ ids = router.ids /\ told' = told
             \/ \E s \in Stages, r \in Requests, p \in Requests : Fails(s, r, p, ids)
    BY <1>9 DEF RouterCleans
  <2>2. Cleaned(ids, router') /\ run # "drained" /\ run' = run
    BY <1>1, <2>1, CleansFacts DEF Cleans
  <2>3. \A r \in known' : r \in known /\ (r \in ids => router'.at = "cleanup" /\ r \in router'.ids)
    BY <2>2 DEF Cleaned
  <2>4. CASE router.at = "cleanup" /\ ids = router.ids /\ told' = told
    BY <1>1, <2>2, <2>3, <2>4 DEF ToldInv, AnsweredAtMostOnce, ToldAreOver
  <2>5. ASSUME NEW s \in Stages, NEW r \in Requests, NEW p \in Requests, Fails(s, r, p, ids)
        PROVE  ToldInv'
    <3>1. /\ p \in ids /\ r \in known /\ visits[r][s] # 0 /\ s \notin LLM /\ Tell(p)
          /\ \A x \in known : told[x] = 0
      BY <1>3, <2>2, <2>5, PointFacts DEF Fails
    <3>2. p = r
      <4> SUFFICES ASSUME p # r PROVE FALSE
        OBVIOUS
      <4>1. r \in Companions
        BY <1>1, <2>5, TrackerFields DEF Fails
      <4>2. s = 0
        BY <1>1, <3>1, <4>1 DEF VisitedInPlace
      <4>3. 0 \in LLM
        BY <1>1, <4>1 DEF CompanionsOnLlm, LLM
      <4> QED BY <3>1, <4>2, <4>3
    <3>3. \A q \in Requests : told'[q] = IF q = p THEN 1 ELSE told[q]
      BY <1>1, <3>1, <3>2, TellFacts
    <3>4. AnsweredAtMostOnce'
      BY <1>1, <3>3 DEF AnsweredAtMostOnce
    <3>5. ToldAreOver'
      BY <1>1, <2>3, <3>1, <3>3 DEF ToldAreOver
    <3> QED BY <3>4, <3>5 DEF ToldInv
  <2> QED BY <2>1, <2>4, <2>5
<1>10. ASSUME Routes PROVE ToldInv'
  <2>1. router.at # "cleanup" /\ run # "drained" /\ \A x \in known : told[x] = 0
    BY <1>3, <1>10, PointFacts DEF Routes, RouteStays
  <2>2. ASSUME NEW r \in Requests, NEW X, Finishes(r, X) PROVE ToldInv'
    <3>1. r \in known /\ known' \subseteq known \ {r} /\ Tell(r)
      BY <2>2 DEF Finishes
    <3>2. \A q \in Requests : told'[q] = IF q = r THEN 1 ELSE told[q]
      BY <1>1, <2>1, <3>1, TellFacts
    <3> QED BY <1>1, <2>1, <3>1, <3>2 DEF ToldInv, AnsweredAtMostOnce, ToldAreOver
  <2>3. ASSUME BreaksFatally PROVE ToldInv'
    <3>1. PICK lost \in SUBSET known : Tells(lost)
      BY <2>3 DEF BreaksFatally
    <3>2. /\ known' = known \ lost
          /\ \A q \in Requests : told'[q] = IF q \in lost THEN told[q] + 1 ELSE told[q]
      BY <1>1, <3>1 DEF Tells
    <3> QED BY <1>1, <2>1, <3>2 DEF ToldInv, AnsweredAtMostOnce, ToldAreOver
  <2>4. (\E X : Settles(X)) \/ (\E p, s, X : Forwards(p, s, X)) \/ Breaks
          => told' = told /\ known' \subseteq known
    BY DEF Settles, Forwards, Breaks
  <2> QED BY <1>2, <1>10, <2>1, <2>2, <2>3, <2>4 DEF Routes, RouteMoves
<1>11. IsRecorded => ToldInv'
  BY <1>2 DEF IsRecorded, Recorded
<1>12. ASSUME Drain PROVE ToldInv'
  <2>1. run # "drained" /\ run' = "drained"
    BY <1>12 DEF Drain
  <2>2. CASE ~fatal
    BY <1>1, <1>12, <2>1, <2>2 DEF Drain, ToldInv, AnsweredAtMostOnce, ToldAreOver
  <2>3. CASE fatal
    <3>1. \A x \in known : told[x] = 0
      BY <1>1, <1>3, <2>1, <2>3, PointFacts DEF EndInPlace
    <3> DEFINE queued == {queue[i].req : i \in {j \in DOMAIN queue : queue[j].type = "add"}}
    <3>2. \A r \in Requests : r \in queued => told[r] = 0
      <4> SUFFICES ASSUME NEW i \in DOMAIN queue, queue[i].type = "add", queue[i].req \in Requests
                   PROVE  told[queue[i].req] = 0
        OBVIOUS
      <4>1. queue[i] \in Msgs
        BY <1>1, LenProperties DEF Msgs
      <4>2. queue[i] = Entry(queue[i].req)
        BY <1>1, <4>1 DEF QueueInPlace
      <4> QED BY <1>1, <4>1, <4>2 DEF Fresh, FreshUnused
    <3>3. told' = [r \in Requests |-> told[r] + IF r \in queued \cup known THEN 1 ELSE 0]
      BY <1>12, <2>3 DEF Drain
    <3> HIDE DEF queued
    <3>4. AnsweredAtMostOnce'
      BY <1>1, <3>1, <3>2, <3>3 DEF AnsweredAtMostOnce
    <3> QED BY <2>1, <3>4 DEF ToldInv, ToldAreOver
  <2> QED BY <2>2, <2>3
<1> QED BY <1>4, <1>6, <1>7, <1>8, <1>9, <1>10, <1>11, <1>12, Forms

(* The invariant of the answers.                                            *)
LEMMA ToldAlways == CompanionsOnLlm => (Spec => []ToldInv)
<1> SUFFICES ASSUME CompanionsOnLlm PROVE Spec => []ToldInv
  OBVIOUS
<1>1. Init => ToldInv
  BY DEF Init, ToldInv, AnsweredAtMostOnce, ToldAreOver
<1>2. BaseInv /\ ToldInv /\ [Next]_vars => ToldInv'
  <2>1. ASSUME ToldInv, UNCHANGED vars PROVE ToldInv'
    BY <2>1 DEF vars, stateVars, endVars, ToldInv, AnsweredAtMostOnce, ToldAreOver
  <2> QED BY <2>1, ToldStep
<1> QED BY <1>1, <1>2, BaseAlways, PTL DEF Spec

(* The frontend gets at most one terminal message for a request, whichever  *)
(* of the routing of outputs, a stage's error, a stage's death and the      *)
(* final drain of the queue comes first.  Companions are run by an LLM      *)
(* stage, as the engine that expands the prompts has it.                    *)
THEOREM RequestsAnsweredOnce == CompanionsOnLlm => (Spec => []AnsweredAtMostOnce)
<1>1. ToldInv => AnsweredAtMostOnce
  BY DEF ToldInv
<1> QED BY <1>1, ToldAlways, PTL

(* Once the output loop has found an LLM stage dead (_fatal_error is set),  *)
(* whichever task failed first, every request that was sent before the      *)
(* drain and not given up has been told by the end of the drain, once: it   *)
(* was in the queue, or known, or told already.  What is sent after the     *)
(* drain stays in the queue and is told nothing.                            *)
THEOREM DeathTellsEveryone == CompanionsOnLlm => (Spec => []FatalTellsAll)
<1>1. BaseInv /\ ToldInv => FatalTellsAll
  <2> SUFFICES ASSUME BaseInv, ToldInv, run = "drained", fatal
               PROVE  /\ \A p \in sent \ (quit \cup late) : told[p] = 1
                      /\ \A p \in late : told[p] = 0
    BY DEF FatalTellsAll
  <2>1. /\ sent \subseteq Parents /\ late \subseteq sent /\ Parents \subseteq Requests
        /\ told \in [Requests -> Nat]
    BY SourceFacts DEF BaseInv, OrchestratorTypeOK
  <2>2. ASSUME NEW p \in sent \ (quit \cup late) PROVE told[p] = 1
    <3>1. p \notin known /\ Entry(p) \notin Msgs
      BY DEF BaseInv, EndInPlace, LateInPlace
    <3>2. told[p] # 0 /\ told[p] <= 1
      BY <2>1, <3>1 DEF BaseInv, NobodyForgotten, ToldInv, AnsweredAtMostOnce
    <3> QED BY <2>1, <3>2
  <2>3. ASSUME NEW p \in late PROVE told[p] = 0
    BY <2>1 DEF BaseInv, LateInPlace, FreshUnused, Fresh
  <2> QED BY <2>2, <2>3
<1> QED BY <1>1, BaseAlways, ToldAlways, PTL

-----------------------------------------------------------------------------
(* An abort reaches its requests wherever they are.                         *)

(* Every form of a step keeps the invariant of the aborts.                  *)
LEMMA AbortStep ==
  ASSUME ChunkedOnLlm, BaseInv, VisitInv, AbortInv, Next
  PROVE  AbortInv'
<1>1. /\ OrchestratorTypeOK /\ FreshUnused /\ VisitedInPlace /\ pipeline' = pipeline
      /\ visits \in [Requests -> [Stages -> Nat]] /\ known \subseteq Requests
      /\ work \in [Stages -> SUBSET Requests] /\ bound \in [Stages -> SUBSET Requests]
      /\ aborted \subseteq Requests /\ handler \in Coroutine /\ router \in Coroutine
      /\ pipeline \in Pipelines
  BY PipelineKept DEF BaseInv, OrchestratorTypeOK
<1>2. /\ AbortReachesStages /\ AbortedAreGone /\ KnownWorkIsBound
      /\ Passed(handler) /\ Passed(router) /\ MidCleanup(handler) /\ MidCleanup(router)
      /\ VisitsInOrder /\ AheadIsAlive
  BY DEF AbortInv
<1>3. /\ \A s \in Stages : s \in Nat
      /\ \A q \in Requests, x \in Stages : visits[q][x] # 0 => visits'[q][x] # 0
      /\ handler.ids \subseteq Requests /\ router.ids \subseteq Requests
      /\ handler.stage \in Stages /\ router.stage \in Stages
  BY <1>1, VisitMoves, StageFacts DEF Coroutine
<1> DEFINE Shrinks == \A x \in Stages : work'[x] \subseteq work[x]
           Gone == AbortReachesStages' /\ AbortedAreGone' /\ KnownWorkIsBound'
           HandlerPast == Passed(handler)' /\ MidCleanup(handler)'
           RouterPast == Passed(router)' /\ MidCleanup(router)'
\* A step that aborts nobody and submits nothing.
<1>4. ASSUME Shrinks, aborted' = aborted, known' \subseteq known,
             \A x \in Stages : bound'[x] \subseteq bound[x],
             \A x \in Stages, r \in known' : r \in bound[x] => r \in bound'[x]
      PROVE  Gone
  BY <1>1, <1>2, <1>4 DEF AbortReachesStages, AbortedAreGone, KnownWorkIsBound
<1>5. ASSUME Shrinks, known' \subseteq known, handler' = handler \/ handler'.at # "cleanup"
      PROVE  HandlerPast
  BY <1>1, <1>2, <1>3, <1>5 DEF Passed, MidCleanup
<1>6. ASSUME Shrinks, known' \subseteq known, router' = router \/ router'.at # "cleanup"
      PROVE  RouterPast
  BY <1>1, <1>2, <1>3, <1>6 DEF Passed, MidCleanup
<1>7. visits' = visits => VisitsInOrder'
  BY <1>1, <1>2 DEF VisitsInOrder
<1>8. ASSUME aborted' = aborted, handler' = handler \/ handler'.at # "submit",
             router' = router \/ router'.at # "cleanup"
      PROVE  AheadIsAlive'
  BY <1>1, <1>2, <1>8 DEF AheadIsAlive
\* A step that submits a request that is not aborted.
<1>9. ASSUME NEW r \in Requests, NEW s \in Stages, Submitted(r, s), r \notin aborted,
             aborted' = aborted,
             known' = known \/ (known' = known \cup {r} /\ \A x \in Stages : r \notin work[x])
      PROVE  Gone
  <2>1. /\ \A x \in Stages : bound'[x] = IF x = s THEN bound[x] \cup {r} ELSE bound[x]
        /\ \A x \in Stages : work'[x] = work[x] \/ (x = s /\ work'[x] = work[x] \cup {r})
    BY <1>9 DEF Submitted
  <2>2. AbortReachesStages'
    BY <1>1, <1>2, <1>9, <2>1 DEF AbortReachesStages
  <2>3. AbortedAreGone'
    BY <1>2, <1>9 DEF AbortedAreGone
  <2>4. KnownWorkIsBound'
    BY <1>2, <1>9, <2>1 DEF KnownWorkIsBound
  <2> QED BY <2>2, <2>3, <2>4
<1>10. ASSUME Still PROVE AbortInv'
  <2>1. /\ UNCHANGED <<known, bound, visits, aborted>> /\ Shrinks
        /\ handler' = handler \/ (handler'.at # "cleanup" /\ handler'.at # "submit")
        /\ router' = router \/ router'.at # "cleanup"
    BY <1>10 DEF Still, stateVars, Idle, Over
  <2> QED BY <1>4, <1>5, <1>6, <1>7, <1>8, <2>1 DEF AbortInv
<1>11. ASSUME NEW r \in Requests, Enters(r) PROVE AbortInv'
  <2>1. /\ \A s \in Stages : visits[r][s] = 0
        /\ r \notin known /\ r \notin aborted /\ r \notin router.ids
        /\ known' = known \cup {r} /\ aborted' = aborted /\ router' = router
    BY <1>1, <1>11 DEF Enters, Taken, FreshUnused
  <2>2. \A s \in Stages : r \notin work[s]
    BY <1>1, <2>1 DEF VisitedInPlace
  <2>3. handler'.at # "cleanup" /\ (handler'.at = "submit" => handler'.ids = {r})
    BY <1>11, PointFacts, StageFacts DEF Enters
  <2>4. HandlerPast
    BY <2>3 DEF Passed, MidCleanup
  <2>5. AheadIsAlive'
    BY <2>1, <2>3 DEF AheadIsAlive
  <2>6. MidCleanup(router)'
    BY <1>2, <1>3, <2>1 DEF MidCleanup
  <2>7. CASE Submit(r, 0)
    <3>1. Submitted(r, 0) /\ 0 \in Stages
      BY <1>1, <2>7, SubmitOnce, StageFacts
    <3>2. Gone
      BY <1>9, <2>1, <2>2, <3>1
    <3>3. \A q \in router.ids, x \in Stages : q \in work'[x] => q \in work[x]
      BY <2>1, <3>1 DEF Submitted
    <3>4. Passed(router)'
      BY <1>2, <2>1, <3>3 DEF Passed
    <3>5. \A q \in Requests, x \in Stages :
            visits'[q][x] # 0 <=> visits[q][x] # 0 \/ (q = r /\ x = 0)
      BY <1>1, <3>1 DEF Submitted
    <3>6. \A s \in Stages : s >= 0
      BY StageFacts
    <3>7. VisitsInOrder'
      BY <1>1, <1>2, <1>3, <2>1, <3>5, <3>6 DEF VisitsInOrder
    <3> QED BY <2>4, <2>5, <2>6, <3>2, <3>4, <3>7 DEF AbortInv
  <2>8. CASE UNCHANGED <<bound, work, visits>>
    <3>1. Gone
      BY <1>2, <2>1, <2>2, <2>8 DEF AbortReachesStages, AbortedAreGone, KnownWorkIsBound
    <3>2. Passed(router)'
      BY <1>2, <2>1, <2>8 DEF Passed
    <3> QED BY <1>7, <2>4, <2>5, <2>6, <2>8, <3>1, <3>2 DEF AbortInv
  <2> QED BY <1>11, <2>7, <2>8 DEF Enters
<1>12. ASSUME NEW p \in Parents, Ahead(p) PROVE AbortInv'
  <2> DEFINE s == handler.stage + 1
  <2>1. /\ p \in Requests /\ s \in Stages /\ s <= FinalStage[p] /\ pipeline.chunked
        /\ handler.at = "submit" /\ handler.ids = {p} /\ handler.stage \in Nat
        /\ UNCHANGED <<known, aborted, router>>
    BY <1>3, <1>12, SourceFacts DEF Ahead
  <2>2. handler.stage < FinalStage[p]
    <3>1. FinalStage[p] \in Nat
      BY <1>3, StageFacts
    <3> QED BY <2>1, <3>1
  <2>3. p \notin aborted /\ (router.at = "cleanup" => p \notin router.ids)
    BY <2>1, <2>2 DEF AbortInv, AheadIsAlive
  <2>4. handler'.at # "cleanup" /\ (handler'.at = "submit" => handler'.ids = {p})
    <3> HIDE DEF s
    <3> QED BY <1>12, <2>1, PointFacts DEF Ahead, s
  <2>5. HandlerPast
    BY <2>4 DEF Passed, MidCleanup
  <2>6. AheadIsAlive' /\ VisitsInOrder'
    BY <1>1, <2>1, <2>3, <2>4 DEF AheadIsAlive, VisitsInOrder
  <2>7. MidCleanup(router)'
    BY <1>2, <1>3, <2>1 DEF MidCleanup
  <2>8. CASE Submit(p, s)
    <3>1. Submitted(p, s)
      BY <1>1, <2>1, <2>8, SubmitOnce
    <3>2. Gone
      BY <1>9, <2>1, <2>3, <3>1
    <3>3. \A q \in router.ids, x \in Stages :
            router.at = "cleanup" /\ q \in work'[x] => q \in work[x]
      BY <2>3, <3>1 DEF Submitted
    <3>4. Passed(router)'
      BY <1>2, <2>1, <3>3 DEF Passed
    <3> QED BY <2>5, <2>6, <2>7, <3>2, <3>4 DEF AbortInv
  <2>9. CASE UNCHANGED <<bound, work>>
    BY <1>4, <1>6, <2>1, <2>5, <2>6, <2>9 DEF AbortInv
  <2> QED BY <1>12, <2>8, <2>9 DEF Ahead
\* A step of a cleanup: what it has passed is free of what it cleans up.
<1>13. ASSUME NEW ids, NEW k, NEW co, NEW next, Cleans(ids, k, co, next),
              Passed(co), MidCleanup(co), co \in Coroutine
       PROVE  /\ Gone /\ Shrinks /\ known' \subseteq known /\ visits' = visits
              /\ aborted' \subseteq aborted \cup ids /\ next.at # "submit"
              /\ next.at = "cleanup" =>
                   /\ next.ids = ids
                   /\ \A r \in next.ids \cap known', s \in Stages :
                        s <= next.stage => r \notin work'[s]
                   /\ \E q \in next.ids : visits'[q][next.stage] # 0
                   /\ \A p, q \in next.ids \cap Parents : p = q
  <2>1. Cleaned(ids, next) /\ visits' = visits /\ ids \in SUBSET Requests /\ k \in Nat
    BY <1>1, <1>13, CleansFacts DEF Cleans
  <2>2. Shrinks /\ known' \subseteq known /\ aborted' \subseteq aborted \cup ids /\ next.at # "submit"
    BY <2>1, PointFacts DEF Cleaned
  <2>3. \A p, q \in ids \cap Parents : p = q
    BY <1>13 DEF Cleans, MidCleanup
  <2>4. \A r \in ids \cap known, s \in Stages : s < k => r \notin work[s]
    <3>1. CASE k = 0
      BY <3>1, StageFacts
    <3>2. CASE co.at = "cleanup" /\ ids = co.ids /\ k = co.stage + 1
      <4>1. \A s \in Stages : s < k => s <= co.stage
        <5>1. co.stage \in Nat
          BY <1>3, <1>13 DEF Coroutine
        <5> QED BY <1>3, <3>2, <5>1
      <4> QED BY <1>13, <3>2, <4>1 DEF Passed
    <3> QED BY <1>13, <3>1, <3>2 DEF Cleans
  <2>5. \A s \in Stages : s < k \/ s >= k
    BY <1>3, <2>1
  <2>6. CASE CleanupEnds(ids, k, next)
    <3>1. /\ \A s \in Stages : s >= k => bound[s] \cap ids = {}
          /\ next = Idle /\ known' = known \ ids /\ work' = work
          /\ bound' = [s \in Stages |-> bound[s] \ ids]
          /\ aborted' = aborted \cup (ids \cap known)
      BY <2>6 DEF CleanupEnds
    <3>2. \A r \in ids \cap known, s \in Stages : r \notin work[s]
      BY <1>2, <2>4, <2>5, <3>1 DEF KnownWorkIsBound
    <3>3. AbortReachesStages'
      BY <1>1, <1>2, <3>1, <3>2 DEF AbortReachesStages
    <3>4. AbortedAreGone'
      BY <1>2, <3>1 DEF AbortedAreGone
    <3>5. KnownWorkIsBound'
      BY <1>2, <3>1 DEF KnownWorkIsBound
    <3>6. next.at # "cleanup"
      BY <3>1, PointFacts
    <3> QED BY <2>1, <2>2, <3>3, <3>4, <3>5, <3>6
  <2>7. CASE CleanupWaits(ids, k, next)
    <3>1. PICK s \in Stages :
            /\ s >= k /\ bound[s] \cap ids # {}
            /\ \A x \in Stages : x >= k /\ x < s => bound[x] \cap ids = {}
            /\ next = [at |-> "cleanup", ids |-> ids, stage |-> s, after |-> {}]
            /\ work' = [work EXCEPT ![s] = @ \ (ids \cap bound[s])]
            /\ known' = known /\ bound' = bound /\ aborted' = aborted
      BY <2>7 DEF CleanupWaits
    <3>2. next.at = "cleanup" /\ next.ids = ids /\ next.stage = s
      BY <3>1
    <3>3. Gone
      BY <1>4, <2>2, <3>1
    <3>4. ASSUME NEW r \in ids \cap known, NEW x \in Stages, x <= s PROVE r \notin work'[x]
      <4>1. x < k \/ x = s \/ (x >= k /\ x < s)
        BY <1>3, <2>1, <3>4
      <4>2. CASE x < k
        BY <2>2, <2>4, <4>2
      <4>3. CASE x = s
        BY <1>1, <1>2, <3>1, <4>3 DEF KnownWorkIsBound
      <4>4. CASE x >= k /\ x < s
        BY <1>2, <2>2, <3>1, <4>4 DEF KnownWorkIsBound
      <4> QED BY <4>1, <4>2, <4>3, <4>4
    <3>5. \E q \in ids : visits'[q][s] # 0
      BY <1>1, <2>1, <3>1 DEF VisitedInPlace
    <3> QED BY <2>1, <2>2, <2>3, <3>1, <3>2, <3>3, <3>4, <3>5
  <2> QED BY <1>13, <2>6, <2>7 DEF Cleans
<1>14. ASSUME HandlerCleans PROVE AbortInv'
  <2>1. PICK ids, k : Cleans(ids, k, handler, handler') /\ router' = router
    BY <1>14 DEF HandlerCleans
  <2>2. /\ Gone /\ Shrinks /\ known' \subseteq known /\ visits' = visits /\ handler'.at # "submit"
        /\ handler'.at = "cleanup" =>
             /\ \A r \in handler'.ids \cap known', s \in Stages :
                  s <= handler'.stage => r \notin work'[s]
             /\ \E q \in handler'.ids : visits'[q][handler'.stage] # 0
             /\ \A p, q \in handler'.ids \cap Parents : p = q
    BY <1>1, <1>2, <1>13, <2>1
  <2>3. HandlerPast
    BY <2>2 DEF Passed, MidCleanup
  <2>4. AheadIsAlive'
    BY <2>2 DEF AheadIsAlive
  <2> QED BY <1>6, <1>7, <2>1, <2>2, <2>3, <2>4 DEF AbortInv
<1>15. ASSUME RouterCleans PROVE AbortInv'
  <2>1. PICK ids, k :
          /\ Cleans(ids, k, router, router') /\ handler' = handler
          /\ \/ router.at = "cleanup" /\ ids = router.ids
             \/ \E s \in Stages, r \in Requests, q \in Requests : Fails(s, r, q, ids)
    BY <1>15 DEF RouterCleans
  <2>2. /\ Gone /\ Shrinks /\ known' \subseteq known /\ visits' = visits
        /\ aborted' \subseteq aborted \cup ids
        /\ router'.at = "cleanup" =>
             /\ router'.ids = ids
             /\ \A r \in router'.ids \cap known', s \in Stages :
                  s <= router'.stage => r \notin work'[s]
             /\ \E q \in router'.ids : visits'[q][router'.stage] # 0
             /\ \A p, q \in router'.ids \cap Parents : p = q
    BY <1>1, <1>2, <1>13, <2>1
  <2>3. RouterPast
    BY <2>2 DEF Passed, MidCleanup
  <2>4. ASSUME pipeline.chunked, handler.at = "submit", NEW p \in handler.ids \cap Parents,
               handler.stage < FinalStage[p]
        PROVE  p \notin ids
    <3>1. CASE router.at = "cleanup" /\ ids = router.ids
      BY <1>2, <2>4, <3>1 DEF AheadIsAlive
    <3>2. ASSUME NEW s \in Stages, NEW r \in Requests, NEW q \in Requests, Fails(s, r, q, ids),
                 p \in ids
          PROVE  FALSE
      <4>1. /\ p = q /\ s \notin LLM /\ visits[r][s] # 0
            /\ p # r => r \in cfg.map[p]
        BY <3>2 DEF Fails
      <4>2. /\ s \in Nat /\ handler.stage \in Nat /\ FinalStage[p] \in Nat
        BY <1>3, StageFacts
      <4>3. s >= FinalStage[p]
        BY <1>1, <2>4, <4>1, <4>2 DEF ChunkedOnLlm, LLM
      <4>4. CASE r = p
        <5>1. s > handler.stage
          BY <2>4, <4>2, <4>3
        <5> QED BY <2>4, <4>1, <4>4, <5>1 DEF VisitInv, ChunksInOrder
      <4>5. CASE r # p
        <5>1. r \in Companions
          BY <1>1, <4>1, <4>5, TrackerFields DEF OrchestratorTypeOK
        <5>2. s = 0
          BY <1>1, <4>1, <5>1 DEF VisitedInPlace
        <5> QED BY <2>4, <4>2, <4>3, <5>2
      <4> QED BY <4>4, <4>5
    <3> QED BY <2>1, <3>1, <3>2
  <2>5. AheadIsAlive'
    BY <1>1, <1>2, <2>1, <2>2, <2>4 DEF AheadIsAlive
  <2> QED BY <1>5, <1>7, <2>1, <2>2, <2>3, <2>5 DEF AbortInv
<1>16. ASSUME Routes PROVE AbortInv'
  <2>1. handler' = handler /\ aborted' = aborted /\ router.at # "cleanup" /\ run # "drained"
        /\ router = Idle
    BY <1>16, PointFacts DEF Routes, RouteStays
  <2>2. ASSUME NEW p \in Parents, NEW s \in Stages, NEW X \in SUBSET Companions, Forwards(p, s, X)
        PROVE  AbortInv'
    <3>1. /\ p \in Requests /\ p \in known /\ known' = known /\ ~pipeline.chunked
          /\ s + 1 \in Stages /\ Submit(p, s + 1) /\ s + 1 \notin submitted[p] /\ visits[p][s] # 0
          /\ router' = Submitting(p, s + 1, X) /\ X \in SUBSET Requests
      BY <2>2, SourceFacts, StageFacts DEF Forwards
    <3>2. Submitted(p, s + 1) /\ router'.at # "cleanup"
      BY <1>1, <3>1, SubmitOnce, PointFacts
    <3>3. p \notin aborted
      BY <1>2, <3>1 DEF AbortedAreGone
    <3>4. Gone
      BY <1>9, <2>1, <3>1, <3>2, <3>3
    <3>5. RouterPast /\ AheadIsAlive'
      BY <1>1, <3>1, <3>2 DEF Passed, MidCleanup, AheadIsAlive
    <3>6. MidCleanup(handler)'
      BY <1>2, <1>3, <2>1 DEF MidCleanup
    <3>7. \A q \in Requests, x \in Stages :
            visits'[q][x] # 0 <=> visits[q][x] # 0 \/ (q = p /\ x = s + 1)
      BY <1>1, <3>2 DEF Submitted
    <3>8. \A x \in Stages : x < s + 1 => x < s \/ x = s
      BY <1>3
    <3>9. VisitsInOrder'
      BY <1>1, <1>2, <3>1, <3>7, <3>8 DEF VisitsInOrder
    \* A cleanup of p that has passed the stage would have found p there.
    <3>10. handler.at = "cleanup" /\ p \in handler.ids => ~(s + 1 <= handler.stage)
      <4> SUFFICES ASSUME handler.at = "cleanup", p \in handler.ids, s + 1 <= handler.stage
                   PROVE  FALSE
        OBVIOUS
      <4>1. PICK q \in handler.ids : visits[q][handler.stage] # 0
        BY <1>2 DEF MidCleanup
      <4>2. handler.stage # 0
        BY <1>3
      <4>3. q \in Parents
        BY <1>1, <1>3, <4>1, <4>2 DEF VisitedInPlace, Requests
      <4>4. q = p
        BY <1>2, <4>1, <4>3 DEF MidCleanup
      <4>5. visits[p][s + 1] # 0
        <5>1. s + 1 = handler.stage \/ s + 1 < handler.stage
          BY <1>3
        <5> QED BY <1>2, <1>3, <3>1, <4>1, <4>4, <5>1 DEF VisitsInOrder
      <4> QED BY <2>1, <3>1, <4>5, PointFacts DEF VisitInv, VisitsRecorded
    <3>11. Passed(handler)'
      <4>1. \A q \in Requests, x \in Stages : q \in work'[x] => q \in work[x] \/ (q = p /\ x = s + 1)
        BY <3>2 DEF Submitted
      <4> QED BY <1>1, <1>2, <2>1, <3>1, <3>10, <4>1 DEF Passed
    <3> QED BY <3>4, <3>5, <3>6, <3>9, <3>11 DEF AbortInv
  <2>3. ASSUME known' \subseteq known, work' = work, visits' = visits,
               router' = router \/ router'.at # "cleanup",
               bound' = bound \/ \E X : known' \subseteq known \ X
                                        /\ bound' = [s \in Stages |-> bound[s] \ X]
        PROVE  AbortInv'
    <3>1. Shrinks
      BY <2>3
    <3>2. /\ \A x \in Stages : bound'[x] \subseteq bound[x]
          /\ \A x \in Stages, r \in known' : r \in bound[x] => r \in bound'[x]
      BY <2>3
    <3> QED BY <1>4, <1>5, <1>6, <1>7, <1>8, <2>1, <2>3, <3>1, <3>2 DEF AbortInv
  <2>4. ASSUME NEW X, Settles(X) PROVE AbortInv'
    BY <2>3, <2>4 DEF Settles
  <2>5. ASSUME NEW r \in Requests, NEW X, Finishes(r, X) PROVE AbortInv'
    BY <2>3, <2>5 DEF Finishes
  <2>6. BreaksFatally \/ Breaks => AbortInv'
    BY <2>3, PointFacts DEF BreaksFatally, Breaks, Tells
  <2> QED BY <1>16, <2>2, <2>4, <2>5, <2>6 DEF Routes, RouteMoves
<1>17. ASSUME IsRecorded PROVE AbortInv'
  <2>1. PICK p \in Parents : Recorded(p)
    BY <1>17 DEF IsRecorded
  <2>2. /\ known' = known \ router.after /\ bound' = [s \in Stages |-> bound[s] \ router.after]
        /\ work' = work /\ visits' = visits /\ aborted' = aborted /\ handler' = handler
        /\ router'.at # "cleanup"
    BY <2>1, PointFacts DEF Recorded, stageVars
  <2>3. /\ Shrinks /\ known' \subseteq known /\ \A x \in Stages : bound'[x] \subseteq bound[x]
        /\ \A x \in Stages, r \in known' : r \in bound[x] => r \in bound'[x]
    BY <2>2
  <2> QED BY <1>4, <1>5, <1>6, <1>7, <1>8, <2>2, <2>3 DEF AbortInv
<1>18. ASSUME Drain PROVE AbortInv'
  <2>1. /\ known' \subseteq known /\ Shrinks
        /\ UNCHANGED <<bound, visits, aborted>>
        /\ handler'.at \notin {"cleanup", "submit"} /\ router'.at # "cleanup"
    BY <1>18, PointFacts DEF Drain, stageVars
  <2> QED BY <1>4, <1>5, <1>6, <1>7, <1>8, <2>1 DEF AbortInv
<1>19. ParentEnters \/ CompanionEnters \/ GoesAhead => AbortInv'
  BY <1>11, <1>12, SourceFacts DEF ParentEnters, CompanionEnters, GoesAhead
<1> QED BY <1>10, <1>14, <1>15, <1>16, <1>17, <1>18, <1>19, Forms

(* The invariant of the aborts.                                             *)
LEMMA AbortAlways == ChunkedOnLlm => (Spec => []AbortInv)
<1> SUFFICES ASSUME ChunkedOnLlm PROVE Spec => []AbortInv
  OBVIOUS
<1>1. Init => AbortInv
  BY PointFacts DEF Init, AbortInv, AbortReachesStages, AbortedAreGone, KnownWorkIsBound, Passed,
     MidCleanup, VisitsInOrder, AheadIsAlive
<1>2. BaseInv /\ VisitInv /\ AbortInv /\ [Next]_vars => AbortInv'
  <2>1. ASSUME AbortInv, UNCHANGED vars PROVE AbortInv'
    BY <2>1 DEF vars, stateVars, stageVars, endVars, AbortInv, AbortReachesStages, AbortedAreGone,
       KnownWorkIsBound, Passed, MidCleanup, VisitsInOrder, AheadIsAlive
  <2> QED BY <2>1, AbortStep
<1> QED BY <1>1, <1>2, BaseAlways, VisitAlways, PTL DEF Spec

(* A request that was cleaned up with an abort runs nowhere and is bound    *)
(* nowhere, whichever coroutine aborted it and whatever the other submitted *)
(* in the meantime; in async-chunk mode, when only the last stage of a      *)
(* request may be one of diffusion, whose errors the output loop aborts.    *)
THEOREM AbortsReachStages == ChunkedOnLlm => (Spec => []AbortReachesStages)
<1> SUFFICES ASSUME ChunkedOnLlm PROVE Spec => []AbortReachesStages
  OBVIOUS
<1>1. AbortInv => AbortReachesStages
  BY DEF AbortInv
<1> QED BY <1>1, AbortAlways, PTL
-----------------------------------------------------------------------------
(* The orchestrator implements RequestJourney, step by step.               *)

\* The request in the handler's hands has visited the stage it is at.
HandlerVisited == handler.at = "submit" => \A r \in handler.ids : visits[r][handler.stage] # 0

(* Every form of a step keeps that.                                         *)
LEMMA HandlerVisitedStep ==
  ASSUME BaseInv, HandlerVisited, Next
  PROVE  HandlerVisited'
<1>1. /\ OrchestratorTypeOK /\ visits \in [Requests -> [Stages -> Nat]] /\ handler \in Coroutine
      /\ \A q \in Requests, x \in Stages : visits[q][x] # 0 => visits'[q][x] # 0
  BY VisitMoves DEF BaseInv, OrchestratorTypeOK
<1>2. handler' = handler => HandlerVisited'
  BY <1>1 DEF HandlerVisited, Coroutine
<1>3. handler'.at # "submit" => HandlerVisited'
  BY DEF HandlerVisited
<1>4. ASSUME NEW r \in Requests, NEW s \in Stages, Submit(r, s), handler' = Submitting(r, s, {})
      PROVE  HandlerVisited'
  <2>1. visits'[r][s] = visits[r][s] + 1
    BY <1>1, <1>4, SubmitOnce DEF Submitted
  <2>2. handler'.ids = {r} /\ handler'.stage = s /\ visits[r][s] \in Nat
    BY <1>1, <1>4 DEF Submitting
  <2> QED BY <2>1, <2>2 DEF HandlerVisited
<1>5. ASSUME NEW r \in Requests, Enters(r) PROVE HandlerVisited'
  BY <1>3, <1>4, <1>5, StageFacts, PointFacts DEF Enters
<1>6. ParentEnters \/ CompanionEnters => HandlerVisited'
  BY <1>5, SourceFacts DEF ParentEnters, CompanionEnters
<1>7. ASSUME NEW p \in Parents, Ahead(p) PROVE HandlerVisited'
  BY <1>3, <1>4, <1>7, SourceFacts, PointFacts DEF Ahead
<1>8. ASSUME HandlerCleans PROVE HandlerVisited'
  <2>1. handler'.at # "submit"
    BY <1>1, <1>8, CleansFacts, PointFacts DEF HandlerCleans, Cleaned
  <2> QED BY <1>3, <2>1
<1>9. Still => HandlerVisited'
  BY <1>2, <1>3, PointFacts DEF Still, Idle, Over
<1>10. RouterCleans \/ Routes \/ IsRecorded => HandlerVisited'
  BY <1>2 DEF RouterCleans, Routes, RouteStays, IsRecorded, Recorded
<1>11. Drain => HandlerVisited'
  BY <1>3, PointFacts DEF Drain
<1> QED BY <1>6, <1>7, <1>8, <1>9, <1>10, <1>11, Forms DEF GoesAhead

LEMMA HandlerVisitedAlways == Spec => []HandlerVisited
<1>1. Init => HandlerVisited
  BY PointFacts DEF Init, HandlerVisited
<1>2. BaseInv /\ HandlerVisited /\ [Next]_vars => HandlerVisited'
  <2>1. ASSUME HandlerVisited, UNCHANGED vars PROVE HandlerVisited'
    BY <2>1 DEF vars, HandlerVisited
  <2> QED BY <2>1, HandlerVisitedStep
<1> QED BY <1>1, <1>2, BaseAlways, PTL DEF Spec

\* Who is told in a step: known requests, and queued ones at the end of the run.
TellsOnly ==
  \/ told' = told
  \/ /\ visits' = visits /\ known' \subseteq known
     /\ \A r \in Requests : told'[r] # told[r] => r \in known \/ (r \in Parents /\ Fresh(r))

(* A step that tells somebody submits nobody and takes nobody.              *)
LEMMA WhoIsTold ==
  ASSUME CompanionsOnLlm, BaseInv, Next
  PROVE  TellsOnly
<1>1. /\ OrchestratorTypeOK /\ VisitedInPlace /\ QueueInPlace /\ told \in [Requests -> Nat]
      /\ known \subseteq Requests /\ queue \in Seq(MessageSet) /\ pipeline \in Pipelines
      /\ cfg \in Tracker
  BY DEF BaseInv, OrchestratorTypeOK, MessageSet
<1>2. ASSUME NEW lost \in SUBSET known, Tells(lost), visits' = visits PROVE TellsOnly
  <2>1. \A r \in Requests : told'[r] = told[r] + IF r \in lost THEN 1 ELSE 0
    BY <1>2 DEF Tells
  <2>2. known' \subseteq known
    BY <1>2 DEF Tells
  <2> QED BY <1>1, <1>2, <2>1, <2>2 DEF TellsOnly
<1>3. ASSUME NEW p \in known, Tell(p), visits' = visits, known' \subseteq known PROVE TellsOnly
  <2>1. \A r \in Requests : told'[r] # told[r] => r = p
    BY <1>1, <1>3, TellFacts
  <2> QED BY <1>3, <2>1 DEF TellsOnly
<1>4. Still \/ ParentEnters \/ CompanionEnters \/ GoesAhead \/ HandlerCleans \/ IsRecorded
        => told' = told
  BY DEF Still, ParentEnters, CompanionEnters, Enters, GoesAhead, Ahead, HandlerCleans,
         IsRecorded, Recorded
<1>5. ASSUME RouterCleans PROVE TellsOnly
  <2>1. PICK ids, k :
          /\ Cleans(ids, k, router, router')
          /\ \/ told' = told
             \/ \E s \in Stages, r \in Requests, p \in Requests : Fails(s, r, p, ids)
    BY <1>5 DEF RouterCleans
  <2>2. visits' = visits /\ known' \subseteq known
    BY <1>1, <2>1, CleansFacts DEF Cleaned, Cleans
  <2>3. ASSUME NEW s \in Stages, NEW r \in Requests, NEW p \in Requests, Fails(s, r, p, ids)
        PROVE  TellsOnly
    <3>1. Tell(p) /\ r \in known /\ s \notin LLM /\ visits[r][s] # 0
      BY <2>3 DEF Fails
    <3>2. p = r
      <4> SUFFICES ASSUME p # r PROVE FALSE
        OBVIOUS
      <4>1. r \in Companions
        BY <1>1, <2>3, TrackerFields DEF Fails
      <4>2. s = 0
        BY <1>1, <3>1, <4>1 DEF VisitedInPlace
      <4>3. 0 \in LLM
        BY <1>1, <4>1 DEF CompanionsOnLlm, LLM
      <4> QED BY <3>1, <4>2, <4>3
    <3> QED BY <1>3, <2>2, <3>1, <3>2
  <2> QED BY <2>1, <2>3 DEF TellsOnly
<1>6. ASSUME Routes PROVE TellsOnly
  <2>1. ASSUME NEW r \in Requests, NEW X, Finishes(r, X) PROVE TellsOnly
    <3>1. r \in known /\ Tell(r) /\ visits' = visits /\ known' \subseteq known
      BY <2>1 DEF Finishes
    <3> QED BY <1>3, <3>1
  <2>2. ASSUME BreaksFatally PROVE TellsOnly
    <3>1. PICK lost \in SUBSET known : Tells(lost) /\ visits' = visits
      BY <2>2 DEF BreaksFatally
    <3> QED BY <1>2, <3>1
  <2>3. (\E X : Settles(X)) \/ (\E p, s, X : Forwards(p, s, X)) \/ Breaks => told' = told
    BY DEF Settles, Forwards, Breaks
  <2> QED BY <1>6, <2>1, <2>2, <2>3 DEF Routes, RouteMoves, TellsOnly
<1>7. ASSUME Drain PROVE TellsOnly
  <2>1. CASE ~fatal
    BY <1>7, <2>1 DEF Drain, TellsOnly
  <2>2. CASE fatal
    <3> DEFINE queued == {queue[i].req : i \in {j \in DOMAIN queue : queue[j].type = "add"}}
    <3>1. /\ told' = [r \in Requests |-> told[r] + IF r \in queued \cup known THEN 1 ELSE 0]
          /\ known' = {} /\ visits' = visits
      BY <1>7, <2>2 DEF Drain
    <3>2. \A r \in Requests : r \in queued => r \in Parents /\ Fresh(r)
      <4> SUFFICES ASSUME NEW i \in DOMAIN queue, queue[i].type = "add", queue[i].req \in Requests
                   PROVE  queue[i].req \in Parents /\ Fresh(queue[i].req)
        OBVIOUS
      <4>1. queue[i] \in Msgs
        BY <1>1, LenProperties DEF Msgs
      <4>2. queue[i] = Entry(queue[i].req)
        BY <1>1, <4>1 DEF QueueInPlace
      <4>3. queue[i].req \in Parents
        BY <4>2, EntryForms
      <4> QED BY <4>1, <4>2, <4>3 DEF Fresh
    <3> HIDE DEF queued
    <3>3. \A r \in Requests : told'[r] = told[r] + IF r \in queued \cup known THEN 1 ELSE 0
      BY <3>1
    <3> QED BY <1>1, <3>1, <3>2, <3>3 DEF TellsOnly
  <2> QED BY <2>1, <2>2
<1> QED BY <1>4, <1>5, <1>6, <1>7, Forms DEF TellsOnly

\* Who is submitted in a step, and to which stage: to the first when it is taken,
\* to the next one after a stage it has visited.
SubmitsTo(r, s) ==
  /\ told' = told
  /\ \A q \in Requests, x \in Stages :
       visits'[q][x] = IF q = r /\ x = s THEN visits[q][x] + 1 ELSE visits[q][x]
Advances(r, s) ==
  /\ r \in Parents /\ known' = known /\ s + 1 \in Stages /\ visits[r][s] # 0
  /\ (r \in known /\ told[r] = 0) \/ pipeline.chunked
  /\ SubmitsTo(r, s + 1)
SubmitsOnly ==
  \/ visits' = visits
  \/ \E r \in Requests : Taken(r) /\ known' = known \cup {r} /\ SubmitsTo(r, 0)
  \/ \E r \in Requests, s \in Stages : ~Fresh(r) /\ Advances(r, s)

(* The submissions of a step.                                               *)
LEMMA WhoIsSubmitted ==
  ASSUME BaseInv, ToldInv, HandlerVisited, Next
  PROVE  SubmitsOnly
<1>1. /\ OrchestratorTypeOK /\ FreshUnused /\ told \in [Requests -> Nat]
      /\ visits \in [Requests -> [Stages -> Nat]] /\ handler \in Coroutine
  BY DEF BaseInv, OrchestratorTypeOK
<1>2. ASSUME NEW r \in Requests, Enters(r) PROVE SubmitsOnly
  <2>1. CASE Submit(r, 0)
    <3>1. SubmitsTo(r, 0)
      BY <1>1, <1>2, <2>1, SubmitOnce, StageFacts DEF Submitted, SubmitsTo, Enters
    <3> QED BY <1>2, <3>1 DEF SubmitsOnly, Enters
  <2>2. CASE visits' = visits
    BY <2>2 DEF SubmitsOnly
  <2> QED BY <1>2, <2>1, <2>2 DEF Enters
<1>3. ParentEnters \/ CompanionEnters => SubmitsOnly
  BY <1>2, SourceFacts DEF ParentEnters, CompanionEnters
<1>4. ASSUME NEW p \in Parents, NEW s \in Stages, s + 1 \in Stages, Submit(p, s + 1),
             told' = told, known' = known, visits[p][s] # 0, ~Fresh(p),
             (p \in known /\ told[p] = 0) \/ pipeline.chunked
      PROVE  SubmitsOnly
  <2>1. p \in Requests
    BY SourceFacts
  <2>2. SubmitsTo(p, s + 1)
    BY <1>1, <1>4, <2>1, SubmitOnce DEF Submitted, SubmitsTo
  <2>3. Advances(p, s)
    BY <1>4, <2>2 DEF Advances
  <2> QED BY <1>4, <2>1, <2>3 DEF SubmitsOnly
<1>5. ASSUME NEW p \in Parents, Ahead(p) PROVE SubmitsOnly
  <2>1. CASE Submit(p, handler.stage + 1)
    <3>1. /\ handler.at = "submit" /\ handler.ids = {p} /\ pipeline.chunked
          /\ handler.stage \in Stages /\ handler.stage + 1 \in Stages
          /\ told' = told /\ known' = known
      BY <1>1, <1>5 DEF Ahead, Coroutine
    <3>2. visits[p][handler.stage] # 0 /\ ~Fresh(p)
      BY <1>1, <3>1, SourceFacts DEF HandlerVisited, FreshUnused
    <3> QED BY <1>4, <2>1, <3>1, <3>2
  <2>2. CASE visits' = visits
    BY <2>2 DEF SubmitsOnly
  <2> QED BY <1>5, <2>1, <2>2 DEF Ahead
<1>6. HandlerCleans \/ RouterCleans \/ Still \/ IsRecorded \/ Drain => SubmitsOnly
  BY DEF SubmitsOnly, HandlerCleans, RouterCleans, Cleans, Still, IsRecorded, Recorded, Drain
<1>7. ASSUME Routes PROVE SubmitsOnly
  <2>1. ASSUME NEW p \in Parents, NEW s \in Stages, NEW X, Forwards(p, s, X) PROVE SubmitsOnly
    <3>1. /\ p \in Requests /\ s + 1 \in Stages /\ Submit(p, s + 1)
          /\ p \in known /\ visits[p][s] # 0 /\ told' = told /\ known' = known
      BY <2>1, SourceFacts, StageFacts DEF Forwards
    <3>2. ~Fresh(p)
      BY <1>1, <3>1 DEF FreshUnused
    <3>3. told[p] = 0
      BY <1>7, <3>1, PointFacts DEF Routes, RouteStays, ToldInv, ToldAreOver
    <3> QED BY <1>4, <3>1, <3>2, <3>3
  <2>2. CASE visits' = visits
    BY <2>2 DEF SubmitsOnly
  <2> QED BY <1>7, <2>1, <2>2
          DEF Routes, RouteMoves, Settles, Finishes, BreaksFatally, Breaks
<1> QED BY <1>3, <1>5, <1>6, <1>7, Forms DEF GoesAhead

(* The phase of a request, before and after a step.                         *)
LEMMA PhaseFacts ==
  /\ Phase \in [Requests -> {"new", "live", "over"}]
  /\ Phase' \in [Requests -> {"new", "live", "over"}]
  /\ \A r \in Requests :
       /\ Phase[r] = IF Fresh(r) THEN "new" ELSE IF r \in known THEN "live" ELSE "over"
       /\ Phase'[r] = IF Fresh(r)' THEN "new" ELSE IF r \in known' THEN "live" ELSE "over"
  BY DEF Phase

(* What a step does to one request: the submission of one stage is an       *)
(* update of its visits.                                                    *)
LEMMA OneVisit ==
  ASSUME visits \in [Requests -> [Stages -> Nat]], visits' \in [Requests -> [Stages -> Nat]],
         NEW r \in Requests, NEW s \in Stages, SubmitsTo(r, s)
  PROVE  /\ visits'[r] = Journey!Visited(r, s)
         /\ \A q \in Requests : q # r => visits'[q] = visits[q]
<1>1. \A x \in Stages : visits'[r][x] = IF x = s THEN visits[r][x] + 1 ELSE visits[r][x]
  BY DEF SubmitsTo
<1>2. visits'[r] \in [Stages -> Nat] /\ visits[r] \in [Stages -> Nat]
  OBVIOUS
<1>3. visits'[r] = [visits[r] EXCEPT ![s] = @ + 1]
  BY <1>1, <1>2
<1>4. \A q \in Requests : q # r => visits'[q] = visits[q]
  <2> SUFFICES ASSUME NEW q \in Requests, q # r PROVE visits'[q] = visits[q]
    OBVIOUS
  <2>1. \A x \in Stages : visits'[q][x] = visits[q][x]
    BY DEF SubmitsTo
  <2>2. visits'[q] \in [Stages -> Nat] /\ visits[q] \in [Stages -> Nat]
    OBVIOUS
  <2> QED BY <2>1, <2>2
<1> QED BY <1>3, <1>4 DEF Journey!Visited

(* Every step is, for every request, one of the abstract steps.             *)
LEMMA JourneyStep ==
  ASSUME CompanionsOnLlm, BaseInv, VisitInv, ToldInv, HandlerVisited, Next,
         BaseInv', EntersStageOnce', AnsweredAtMostOnce', NEW r \in Requests
  PROVE  Journey!RequestStep(r)
<1>1. /\ told \in [Requests -> Nat] /\ told' \in [Requests -> Nat]
      /\ visits \in [Requests -> [Stages -> Nat]] /\ visits' \in [Requests -> [Stages -> Nat]]
      /\ known \subseteq Requests
  BY DEF BaseInv, OrchestratorTypeOK
<1>2. /\ Fresh(r) => r \notin known /\ told[r] = 0 /\ \A s \in Stages : visits[r][s] = 0
      /\ Fresh(r)' => r \notin known' /\ told'[r] = 0 /\ \A s \in Stages : visits'[r][s] = 0
  BY DEF BaseInv, FreshUnused
<1>3. Fresh(r)' => Fresh(r)
  BY QueueMoves DEF QueueMove
<1>4. TellsOnly /\ SubmitsOnly
  BY WhoIsTold, WhoIsSubmitted
<1>5. told'[r] >= told[r] /\ told'[r] <= 1
  BY ToldMoves DEF AnsweredAtMostOnce
<1>6. told'[r] # told[r] =>
        /\ told[r] = 0 /\ told'[r] = 1 /\ visits' = visits /\ known' \subseteq known
        /\ r \in known \/ (r \in Parents /\ Fresh(r))
  <2>1. told[r] \in Nat /\ told'[r] \in Nat
    BY <1>1
  <2>2. told'[r] # told[r] => told[r] = 0 /\ told'[r] = 1
    BY <1>5, <2>1
  <2> QED BY <1>4, <2>2 DEF TellsOnly
<1>7. r \in known' => r \in known \/ Fresh(r)
  BY KnownMoves DEF Taken
\* How the visits of r may change.
<1>8. \/ visits'[r] = visits[r]
      \/ /\ Fresh(r) /\ ~Fresh(r)' /\ r \in known' /\ visits'[r] = Journey!Visited(r, 0)
      \/ \E s \in Stages : ~Fresh(r) /\ Advances(r, s) /\ visits'[r] = Journey!Visited(r, s + 1)
  <2>1. CASE visits' = visits
    BY <2>1
  <2>2. ASSUME NEW q \in Requests, Taken(q), known' = known \cup {q}, SubmitsTo(q, 0)
        PROVE  \/ visits'[r] = visits[r]
               \/ /\ Fresh(r) /\ ~Fresh(r)' /\ r \in known'
                  /\ visits'[r] = Journey!Visited(r, 0)
    <3>1. CASE q = r
      <4>1. visits'[r] = Journey!Visited(r, 0)
        BY <1>1, <2>2, <3>1, OneVisit, StageFacts
      <4>2. Fresh(r) /\ ~Fresh(r)' /\ r \in known'
        BY <2>2, <3>1 DEF Taken
      <4> QED BY <4>1, <4>2
    <3>2. CASE q # r
      BY <1>1, <2>2, <3>2, OneVisit, StageFacts
    <3> QED BY <3>1, <3>2
  <2>3. ASSUME NEW q \in Requests, NEW s \in Stages, ~Fresh(q), Advances(q, s)
        PROVE  \/ visits'[r] = visits[r]
               \/ ~Fresh(r) /\ Advances(r, s) /\ visits'[r] = Journey!Visited(r, s + 1)
    <3>1. s + 1 \in Stages /\ SubmitsTo(q, s + 1)
      BY <2>3 DEF Advances
    <3>2. CASE q = r
      BY <1>1, <2>3, <3>1, <3>2, OneVisit
    <3>3. CASE q # r
      BY <1>1, <3>1, <3>3, OneVisit
    <3> QED BY <3>2, <3>3
  <2> QED BY <1>4, <2>1, <2>2, <2>3 DEF SubmitsOnly
<1>9. CASE Fresh(r)'
  <2>1. told'[r] = told[r] /\ Phase[r] = "new" /\ Phase'[r] = "new"
    BY <1>2, <1>3, <1>9, PhaseFacts
  <2>2. visits'[r] = visits[r]
    <3>1. \A s \in Stages : visits'[r][s] = visits[r][s]
      BY <1>2, <1>3, <1>9
    <3>2. visits'[r] \in [Stages -> Nat] /\ visits[r] \in [Stages -> Nat]
      BY <1>1
    <3> QED BY <3>1, <3>2
  <2>3. Journey!Rest(r)
    BY <2>1, <2>2 DEF Journey!Rest, Journey!Becomes
  <2> QED BY <2>3 DEF Journey!RequestStep
<1>10. CASE Fresh(r) /\ ~Fresh(r)'
  <2>1. Phase[r] = "new" /\ told[r] = 0 /\ r \notin known
    BY <1>2, <1>10, PhaseFacts
  <2>2. CASE r \in known'
    <3>1. Phase'[r] = "live" /\ told'[r] = told[r]
      BY <1>6, <1>10, <2>1, <2>2, PhaseFacts
    <3>2. visits'[r] = visits[r] \/ visits'[r] = Journey!Visited(r, 0)
      BY <1>8, <1>10
    <3>3. Journey!Enter(r)
      BY <2>1, <3>1, <3>2 DEF Journey!Enter, Journey!Becomes
    <3> QED BY <3>3 DEF Journey!RequestStep
  <2>3. CASE r \notin known'
    <3>1. Phase'[r] = "over" /\ visits'[r] = visits[r]
      BY <1>8, <1>10, <2>3, PhaseFacts
    <3>2. CASE told'[r] # told[r]
      <4>1. Journey!Tell(r)
        BY <1>6, <2>1, <3>1, <3>2 DEF Journey!Tell, Journey!Becomes
      <4> QED BY <4>1 DEF Journey!RequestStep
    <3>3. CASE told'[r] = told[r]
      <4>1. r \notin Parents
        <5> SUFFICES ASSUME r \in Parents PROVE FALSE
          OBVIOUS
        <5>1. Source(r) = r
          BY SourceFacts
        <5>2. Source(r)' = Source(r) /\ Entry(r)' = Entry(r)
          BY DEF Source, Entry
        <5>3. r \in sent' /\ Entry(r) \notin Msgs'
          BY <1>10, <5>1, <5>2 DEF Fresh
        <5>4. Entry(r) \in Msgs
          BY <1>10, <5>1, <5>3, EntriesStay DEF Fresh
        <5> QED BY <2>1, <2>3, <3>3, <5>3, <5>4, EntriesStay
      <4>2. Journey!Drop(r)
        BY <2>1, <3>1, <3>3, <4>1 DEF Journey!Drop, Journey!Becomes
      <4> QED BY <4>2 DEF Journey!RequestStep
    <3> QED BY <3>2, <3>3
  <2> QED BY <2>2, <2>3
<1>11. CASE ~Fresh(r)
  <2>1. ~Fresh(r)' /\ (r \in known' => r \in known)
    BY <1>3, <1>7, <1>11
  <2>2. CASE told'[r] # told[r]
    <3>1. Phase[r] = "live" /\ Phase'[r] \in {"live", "over"} /\ visits'[r] = visits[r]
      BY <1>6, <1>11, <2>1, <2>2, PhaseFacts
    <3>2. Journey!Tell(r)
      BY <1>6, <2>2, <3>1 DEF Journey!Tell, Journey!Becomes
    <3> QED BY <3>2 DEF Journey!RequestStep
  <2>3. ASSUME NEW s \in Stages, Advances(r, s), visits'[r] = Journey!Visited(r, s + 1)
        PROVE  Journey!MoveOn(r)
    <3>1. /\ r \in Parents /\ known' = known /\ s + 1 \in Stages /\ visits[r][s] # 0
          /\ (r \in known /\ told[r] = 0) \/ pipeline.chunked
          /\ told' = told /\ visits'[r][s + 1] = visits[r][s + 1] + 1
      BY <2>3 DEF Advances, SubmitsTo
    <3>2. visits[r][s] = 1 /\ visits[r][s + 1] = 0
      <4>1. visits[r][s] \in Nat /\ visits[r][s + 1] \in Nat
        BY <1>1, <3>1
      <4>2. visits[r][s] <= 1 /\ visits'[r][s + 1] <= 1
        BY <3>1 DEF VisitInv, EntersStageOnce
      <4> QED BY <3>1, <4>1, <4>2
    <3>3. /\ Phase'[r] = Phase[r] /\ told'[r] = told[r]
          /\ (Phase[r] = "live" /\ told[r] = 0) \/ (Phase[r] # "new" /\ pipeline.chunked)
      BY <1>11, <2>1, <3>1, PhaseFacts
    <3>4. Journey!Becomes(r, Phase[r], told[r], Journey!Visited(r, s + 1))
      BY <2>3, <3>3 DEF Journey!Becomes
    <3> QED BY <3>1, <3>2, <3>3, <3>4 DEF Journey!MoveOn
  <2>4. CASE told'[r] = told[r] /\ visits'[r] = visits[r]
    <3>1. CASE r \in known /\ r \notin known'
      <4>1. Phase[r] = "live" /\ Phase'[r] = "over"
        BY <1>11, <2>1, <3>1, PhaseFacts
      <4>2. Journey!Leave(r)
        BY <2>4, <4>1 DEF Journey!Leave, Journey!Becomes
      <4> QED BY <4>2 DEF Journey!RequestStep
    <3>2. CASE r \in known <=> r \in known'
      <4>1. Phase'[r] = Phase[r]
        BY <1>11, <2>1, <3>2, PhaseFacts
      <4>2. Journey!Rest(r)
        BY <2>4, <4>1 DEF Journey!Rest, Journey!Becomes
      <4> QED BY <4>2 DEF Journey!RequestStep
    <3> QED BY <2>1, <3>1, <3>2
  <2>5. CASE told'[r] = told[r] /\ visits'[r] # visits[r]
    BY <1>8, <1>11, <2>3, <2>5 DEF Journey!RequestStep
  <2> QED BY <2>2, <2>4, <2>5
<1> QED BY <1>3, <1>9, <1>10, <1>11

(* The first state.                                                         *)
LEMMA JourneyInit == Init => Journey!Init
<1> SUFFICES ASSUME Init PROVE Journey!Init
  OBVIOUS
<1>1. \A r \in Requests : Fresh(r)
  BY DEF Init, Fresh
<1>2. Phase = [r \in Requests |-> "new"]
  BY <1>1 DEF Phase
<1>3. pipeline.chunked \in BOOLEAN
  BY StagesAssumption DEF Init
<1> QED BY <1>2, <1>3 DEF Init, Journey!Init

(* Every step of the orchestrator is a step of the journeys, or stutters.   *)
LEMMA JourneyNext ==
  CompanionsOnLlm /\ BaseInv /\ VisitInv /\ ToldInv /\ HandlerVisited /\ [Next]_vars
  /\ BaseInv' /\ VisitInv' /\ ToldInv'
    => [Journey!Next]_(Journey!journeyVars)
<1> SUFFICES ASSUME CompanionsOnLlm, BaseInv, VisitInv, ToldInv, HandlerVisited, [Next]_vars,
                    BaseInv', VisitInv', ToldInv'
             PROVE  [Journey!Next]_(Journey!journeyVars)
  OBVIOUS
<1>1. ASSUME Next PROVE Journey!Next
  <2>1. \A r \in Requests : Journey!RequestStep(r)
    BY <1>1, JourneyStep DEF VisitInv, ToldInv
  <2>2. told' \in [Requests -> Nat] /\ visits' \in [Requests -> [Stages -> Nat]]
    BY DEF BaseInv, OrchestratorTypeOK
  <2>3. Phase' \in [Requests -> Journey!Phases]
    BY PhaseFacts DEF Journey!Phases
  <2>4. pipeline.chunked' = pipeline.chunked
    BY <1>1, PipelineKept
  <2> QED BY <2>1, <2>2, <2>3, <2>4 DEF Journey!Next
<1>2. ASSUME UNCHANGED vars PROVE UNCHANGED Journey!journeyVars
  <2>1. UNCHANGED <<sent, queue, known, told, visits, pipeline>>
    BY <1>2 DEF vars, frontVars, stateVars
  <2>2. Phase' = Phase
    BY <2>1 DEF Phase, Fresh, Msgs, Source, Entry
  <2> QED BY <2>1, <2>2 DEF Journey!journeyVars
<1> QED BY <1>1, <1>2

(* The orchestrator implements the journeys of its requests: in whatever    *)
(* order the handler, the output loop, the stages and the frontend act, a   *)
(* request enters the stages in order, each once; it is told of once, is    *)
(* not forwarded after that, and once forgotten it never comes back.        *)
(* Companions are run by an LLM stage, as in RequestsAnsweredOnce.          *)
THEOREM OrchestratorImplementsJourney == CompanionsOnLlm => (Spec => JourneySpec)
<1> SUFFICES ASSUME CompanionsOnLlm PROVE Spec => JourneySpec
  OBVIOUS
<1> QED BY JourneyInit, JourneyNext, BaseAlways, VisitAlways, ToldAlways, HandlerVisitedAlways,
           PTL DEF Spec, JourneySpec, Journey!Spec

-----------------------------------------------------------------------------
(* No known request waits for nothing.                                     *)

\* The output loop goes on and all stages live.
Going == run = "running" /\ ~stopping /\ alive = Stages

Report(r, kind) == [req |-> r, kind |-> kind]
HasKv(r, s) == Report(r, "kv") \in outs[s]
Cleaning(r) ==
  (handler.at = "cleanup" /\ r \in handler.ids) \/ (router.at = "cleanup" /\ r \in router.ids)
AheadAt(p, s) == handler.at = "submit" /\ p \in handler.ids /\ handler.stage = s

\* Whom a cleanup is about, the tracker has forgotten.
Unlinked(co) == co.at = "cleanup" => \A q \in Parents : cfg.map[q] \cap co.ids = {}

\* A companion that is released after a submission has been taken, and is done.
AfterDone ==
  Going /\ router.at = "submit" => \A c \in router.after :
    visits[c][0] # 0 /\ \A q \in Parents : c \in cfg.map[q] => c \in cfg.done[q]
LinkInv == Unlinked(handler) /\ Unlinked(router) /\ AfterDone

\* What is recorded as submitted or finished was submitted.
RecordsAreVisits ==
  Going => \A r \in Requests, s \in Stages : s \in submitted[r] \cup finals[r] => visits[r][s] # 0
RouterVisited == router.at = "submit" => \A p \in router.ids : visits[p][router.stage] # 0

\* Stage s, which parent p has visited, owes its output, or that output has taken
\* p on: to the next stage, or into the deferral; ahead of the stages, the handler
\* takes it on.
StageServed(p, s) ==
  /\ \/ Owed(p, s)
     \/ /\ s \in EmitStages => s \in finals[p]
        /\ s < FinalStage[p] /\ ~pipeline.chunked =>
             visits[p][s + 1] # 0 \/ (Deferred(cfg, p) /\ cfg.pending[p].stage = s)
  /\ pipeline.chunked /\ s < FinalStage[p] => visits[p][s + 1] # 0 \/ AheadAt(p, s)

VisitsServed(p) ==
  /\ visits[p][0] # 0
  /\ \A s \in Stages : visits[p][s] # 0 => s <= FinalStage[p] /\ StageServed(p, s)

\* The KV of p is reported before the stage's last output; one of the outputs p
\* waits for is missing.
KvOwed(p) == \A s \in Stages : HasKv(p, s) => Owed(p, s)
OutputMissing(p) == \E s \in FinalOutputs[p] : s \notin finals[p]

\* The first stage owes the output of every companion that is not done; what a
\* deferred parent holds has not moved on, and more comes if it is not the last.
CompanionsServed(p) == \A c \in cfg.map[p] : c \in cfg.done[p] \/ (c \in known /\ Owed(c, 0))
DeferralServed(p) ==
  Deferred(cfg, p) => /\ visits[p][cfg.pending[p].stage + 1] = 0
                      /\ cfg.pending[p].complete \/ Owed(p, cfg.pending[p].stage)

FlowOf(p) ==
  VisitsServed(p) /\ KvOwed(p) /\ OutputMissing(p) /\ CompanionsServed(p) /\ DeferralServed(p)
FlowInv == Going => \A p \in known \cap Parents : ~Cleaning(p) => FlowOf(p)

(* A request visits its stages upwards, whoever submits it.                 *)
LEMMA VisitsOrderStep ==
  ASSUME BaseInv, HandlerVisited, VisitsInOrder, Next
  PROVE  VisitsInOrder'
<1>1. /\ OrchestratorTypeOK /\ visits \in [Requests -> [Stages -> Nat]] /\ pipeline' = pipeline
      /\ \A s \in Stages : s \in Nat
  BY PipelineKept, StageFacts DEF BaseInv, OrchestratorTypeOK
<1>2. visits' = visits => VisitsInOrder'
  BY <1>1 DEF VisitsInOrder
<1>3. ASSUME NEW r \in Requests, NEW s \in Stages, Submit(r, s),
             \A x \in Stages : x < s => visits[r][x] # 0
      PROVE  VisitsInOrder'
  <2>1. \A q \in Requests, x \in Stages :
          visits'[q][x] = IF q = r /\ x = s THEN visits[q][x] + 1 ELSE visits[q][x]
    BY <1>1, <1>3, SubmitOnce DEF Submitted
  <2>2. \A q \in Requests, x \in Stages : visits[q][x] \in Nat
    BY <1>1
  <2>3. \A q \in Requests, x \in Stages :
          /\ visits[q][x] # 0 => visits'[q][x] # 0
          /\ visits'[q][x] # 0 => visits[q][x] # 0 \/ (q = r /\ x = s)
    BY <2>1, <2>2
  <2>4. ASSUME ~pipeline.chunked, NEW q \in Requests, NEW x \in Stages, NEW y \in Stages,
               y < x, visits'[q][x] # 0
        PROVE  visits[q][y] # 0
    <3>1. CASE visits[q][x] # 0
      BY <2>4, <3>1 DEF VisitsInOrder
    <3>2. CASE q = r /\ x = s
      BY <1>3, <2>4, <3>2
    <3> QED BY <2>3, <2>4, <3>1, <3>2
  <2> QED BY <1>1, <2>3, <2>4 DEF VisitsInOrder
<1>4. ASSUME NEW r \in Requests, Enters(r) PROVE VisitsInOrder'
  <2>1. \A x \in Stages : ~(x < 0)
    BY <1>1
  <2> QED BY <1>2, <1>3, <1>4, <2>1, StageFacts DEF Enters
<1>5. ParentEnters \/ CompanionEnters => VisitsInOrder'
  BY <1>4, SourceFacts DEF ParentEnters, CompanionEnters
<1>6. GoesAhead => VisitsInOrder'
  <2>1. GoesAhead => pipeline.chunked
    BY DEF GoesAhead, Ahead
  <2> QED BY <1>1, <2>1 DEF VisitsInOrder
<1>7. HandlerCleans \/ RouterCleans \/ Still \/ IsRecorded \/ Drain => VisitsInOrder'
  BY <1>2 DEF HandlerCleans, RouterCleans, Cleans, Still, IsRecorded, Recorded, Drain
<1>8. ASSUME Routes PROVE VisitsInOrder'
  <2>1. ASSUME NEW p \in Parents, NEW s \in Stages, NEW X, Forwards(p, s, X)
        PROVE  VisitsInOrder'
    <3>1. /\ p \in Requests /\ s + 1 \in Stages /\ Submit(p, s + 1) /\ visits[p][s] # 0
          /\ ~pipeline.chunked
      BY <2>1, SourceFacts, StageFacts DEF Forwards
    <3>2. \A x \in Stages : x < s + 1 => visits[p][x] # 0
      <4> SUFFICES ASSUME NEW x \in Stages, x < s + 1 PROVE visits[p][x] # 0
        OBVIOUS
      <4>1. x = s \/ x < s
        BY <1>1
      <4> QED BY <3>1, <4>1 DEF VisitsInOrder
    <3> QED BY <1>3, <3>1, <3>2
  <2> QED BY <1>2, <1>8, <2>1
          DEF Routes, RouteMoves, Settles, Finishes, BreaksFatally, Breaks
<1> QED BY <1>5, <1>6, <1>7, <1>8, Forms

(* So it does in every state.                                               *)
LEMMA VisitsOrderAlways == Spec => []VisitsInOrder
<1>1. Init => VisitsInOrder
  BY DEF Init, VisitsInOrder
<1>2. BaseInv /\ HandlerVisited /\ VisitsInOrder /\ [Next]_vars => VisitsInOrder'
  <2>1. ASSUME VisitsInOrder, UNCHANGED vars PROVE VisitsInOrder'
    BY <2>1 DEF vars, VisitsInOrder
  <2> QED BY <2>1, VisitsOrderStep
<1> QED BY <1>1, <1>2, BaseAlways, HandlerVisitedAlways, PTL DEF Spec

(* Once the orchestrator no longer goes on, it never will again.            *)
LEMMA GoingBack ==
  ASSUME BaseInv, Next, Going'
  PROVE  /\ Going /\ alive' = alive /\ run' = run /\ stopping' = stopping
         /\ ~Drain /\ \A s \in Stages : ~StageDead(s) /\ ~EngineDies(s)
         /\ ~RouterStops /\ ~Shutdown
<1>1. /\ OrchestratorTypeOK /\ run \in {"running", "failing", "drained"} /\ alive \subseteq Stages
      /\ stopping \in BOOLEAN
  BY DEF BaseInv, OrchestratorTypeOK
<1>2. /\ run' = "running" /\ stopping' = FALSE /\ alive' = Stages
  BY <1>1, TypesKept DEF Going, BaseInv, OrchestratorTypeOK
<1>3. ~Drain /\ ~Shutdown
  BY <1>2 DEF Drain, Shutdown
<1>4. \A s \in Stages : ~StageDead(s)
  BY <1>2 DEF StageDead, Died, Fail
<1>5. \A s \in Stages : ~EngineDies(s)
  BY <1>1, <1>2 DEF EngineDies
<1> DEFINE Stays == alive' = alive /\ run' = run /\ stopping' = stopping
<1>6. ASSUME NEW p \in Parents, FrontSubmit(p) \/ FrontAbort(p) PROVE Stays
  BY <1>6 DEF FrontSubmit, FrontAbort, endVars, stageVars
<1>7. FrontRpc \/ FrontShutdown => Stays
  BY DEF FrontRpc, FrontShutdown, endVars, stageVars
<1>7a. ~ShutdownStages
  BY <1>2 DEF ShutdownStages, endVars
<1>8. AddRequest \/ AddCompanion \/ HandlerSubmitted => Stays
  BY <1>2 DEF AddRequest, AddCompanion, HandlerSubmitted, Fail
<1>9. Abort \/ HandlerAborted \/ Rpc \/ RpcAnswered => Stays
  BY DEF Abort, HandlerAborted, Rpc, RpcAnswered, endVars, stageVars
<1>10. HandlerStep => Stays
  BY <1>3, <1>8, <1>9 DEF HandlerStep
<1>11. RouterStep => Stays
  BY DEF RouterStep, RouterAborted, RouterSubmitted, RouterStops, endVars, stageVars
<1>12. ASSUME NEW r \in Requests, EngineKv(r) PROVE Stays
  BY <1>12 DEF EngineKv, Produce, endVars
<1>13. ASSUME NEW s \in Stages, NEW r \in Requests,
              DropOutput(s, r) \/ StageError(s, r) \/ EngineEnds(s, r)
       PROVE  Stays
  BY <1>13 DEF DropOutput, StageError, EngineEnds, Produce, endVars
<1>14. ASSUME NEW s \in Stages, NEW r \in Requests, RouteStep(s, r) PROVE Stays
  <2>1. RouteMoves /\ RouteStays
    BY <1>14, RouteFacts
  <2> QED BY <1>2, <2>1
          DEF RouteStays, RouteMoves, Settles, Forwards, Finishes, BreaksFatally, Breaks, Fail,
              endVars
<1>15. Stays
  BY <1>3, <1>4, <1>5, <1>6, <1>7, <1>10, <1>11, <1>12, <1>13, <1>14, <1>7a, StepForms
<1>16. Going
  BY <1>2, <1>15 DEF Going
<1> QED BY <1>3, <1>4, <1>5, <1>15, <1>16 DEF Going, RouterStops

\* A step of a cleanup of ids, at the coroutine that is then at next: only the ids
\* are touched; those of other families stay registered, and none of the ids does.
SameFamily(q) ==
  /\ cfg'.map[q] = cfg.map[q] /\ cfg'.done[q] = cfg.done[q] /\ cfg'.pending[q] = cfg.pending[q]
Sweeps(ids, next) ==
  /\ ids \subseteq Requests /\ known' \subseteq known /\ known \ ids \subseteq known'
  /\ next.at \in {"idle", "cleanup"}
  /\ next.at = "cleanup" => next.ids = ids
  /\ next.at = "idle" => known' \cap ids = {}
  /\ \A x \in Stages : work[x] \ ids \subseteq work'[x]
Sweeping(co, ids) == co.at = "idle" \/ (co.at = "cleanup" /\ co.ids = ids)
SweepMove(ids, next) ==
  /\ Sweeps(ids, next)
  /\ \A x \in Stages : outs'[x] \subseteq outs[x]
  /\ \A x \in Stages : \A o \in outs[x] : o.req \in ids \/ o \in outs'[x]
  /\ \A q \in Parents : q \in ids \/ (SameFamily(q) /\ cfg.map[q] \cap ids = {})
  /\ \A q \in Parents : cfg'.map[q] \cap ids = {}
  /\ \A q \in Parents : SameFamily(q) \/ cfg'.map[q] = {}
  /\ submitted' = Kept(submitted) /\ finals' = Kept(finals)
  /\ UNCHANGED <<visits, pipeline, alive, prefilled>>
  /\ \/ Sweeping(handler, ids) /\ handler' = next /\ router' = router
     \/ Sweeping(router, ids) /\ router' = next /\ handler' = handler

(* The stages and the known requests in a step of a cleanup.                *)
LEMMA SweepFacts ==
  ASSUME OrchestratorTypeOK, IsFiniteSet(known), NEW ids \in SUBSET Requests, NEW k,
         CleanupFrom(ids, k)
  PROVE  Sweeps(ids, CleanupPoint(ids, k))
<1>1. /\ work \in [Stages -> SUBSET Requests] /\ running \in Nat
  BY DEF OrchestratorTypeOK
<1> DEFINE next == CleanupPoint(ids, k)
<1>2. CleanupEnds(ids, k, next) \/ CleanupWaits(ids, k, next)
  BY <1>1, CleanupFromFacts
<1> HIDE DEF next
<1>3. CASE CleanupEnds(ids, k, next)
  <2>1. next = Idle /\ known' = known \ ids /\ work' = work
    BY <1>3 DEF CleanupEnds
  <2> QED BY <2>1, PointFacts DEF Sweeps, next
<1>4. CASE CleanupWaits(ids, k, next)
  <2>1. PICK s \in Stages :
          /\ next = [at |-> "cleanup", ids |-> ids, stage |-> s, after |-> {}]
          /\ work' = [work EXCEPT ![s] = @ \ (ids \cap bound[s])]
          /\ known' = known
    BY <1>4 DEF CleanupWaits
  <2>2. \A x \in Stages : work[x] \ ids \subseteq work'[x]
    BY <1>1, <2>1
  <2>3. next.at = "cleanup" /\ next.ids = ids
    BY <2>1
  <2> QED BY <2>1, <2>2, <2>3 DEF Sweeps, next
<1> QED BY <1>2, <1>3, <1>4

(* What the tracker forgets with a family.                                  *)
LEMMA FamilyForgotten ==
  ASSUME BaseInv, NEW p \in Parents, NEW ids, ids = {p} \cup cfg.map[p],
         cfg'.map = [cfg.map EXCEPT ![p] = {}], cfg'.done = [cfg.done EXCEPT ![p] = {}],
         cfg'.pending = [cfg.pending EXCEPT ![p] = NoResult]
  PROVE  /\ \A q \in Parents : q \in ids \/ (SameFamily(q) /\ cfg.map[q] \cap ids = {})
         /\ \A q \in Parents : cfg'.map[q] \cap ids = {}
         /\ \A q \in Parents : SameFamily(q) \/ cfg'.map[q] = {}
<1>1. /\ cfg \in Tracker /\ OwnCompanions(cfg)
      /\ cfg.map \in [Parents -> SUBSET Companions] /\ cfg.done \in [Parents -> SUBSET Companions]
      /\ cfg.pending \in [Parents -> Result \cup {NoResult}]
  BY TrackerFields DEF BaseInv, OrchestratorTypeOK, TrackerInPlace
<1>2. \A q \in Parents : q # p => SameFamily(q)
  BY <1>1 DEF SameFamily
<1>3. cfg'.map[p] = {}
  BY <1>1
<1>4. \A q \in Parents : q # p => cfg.map[q] \cap ids = {}
  BY <1>1, SourceFacts DEF OwnCompanions
<1>5. \A q \in Parents : q # p => cfg'.map[q] \cap ids = {}
  BY <1>2, <1>4 DEF SameFamily
<1> QED BY <1>2, <1>3, <1>4, <1>5

(* The tracker does not know the ids, and does not change.                  *)
LEMMA FamilyUntouched ==
  ASSUME NEW ids, cfg' = cfg, \A q \in Parents : cfg.map[q] \cap ids = {}
  PROVE  /\ \A q \in Parents : q \in ids \/ (SameFamily(q) /\ cfg.map[q] \cap ids = {})
         /\ \A q \in Parents : cfg'.map[q] \cap ids = {}
         /\ \A q \in Parents : SameFamily(q) \/ cfg'.map[q] = {}
  BY DEF SameFamily

\* The four actions of a cleanup.
Sweep ==
  \/ Abort \/ HandlerAborted \/ RouterAborted
  \/ \E s \in Stages, r \in Requests : StageError(s, r)
(* Each is a step of a cleanup of some ids.                                 *)
LEMMA SweepMoves ==
  ASSUME BaseInv, LinkInv, Sweep
  PROVE  \E ids, next : SweepMove(ids, next)
<1>1. /\ OrchestratorTypeOK /\ IsFiniteSet(known) /\ cfg \in Tracker /\ QueueInPlace
      /\ queue \in Seq(MessageSet) /\ quit \subseteq Parents /\ outs \in [Stages -> SUBSET Output]
      /\ handler \in Coroutine /\ router \in Coroutine /\ OwnCompanions(cfg)
      /\ cfg.map \in [Parents -> SUBSET Companions]
  BY TrackerFields DEF BaseInv, OrchestratorTypeOK, MessageSet, TrackerInPlace
<1>2. CASE Abort
  <2> DEFINE p == Head(queue).req
             ids == AbortIds(cfg, {p})
             next == CleanupPoint(ids, 0)
  <2>1. /\ Take("abort") /\ sent' = sent /\ quit' = quit /\ outs' = outs
        /\ CleanupFrom(ids, 0) /\ handler' = next /\ router' = router
        /\ cfg' = AbortParents(cfg, {p})
        /\ submitted' = Kept(submitted) /\ finals' = Kept(finals)
        /\ UNCHANGED <<visits, pipeline, alive, prefilled>>
    BY <1>2 DEF Abort, frontVars
  <2>2. Head(queue) \in Msgs /\ Head(queue).type = "abort"
    BY <1>1, <2>1, TakeFacts
  <2>3. p \in Parents
    BY <1>1, <2>2 DEF QueueInPlace
  <2>4. /\ ids = {p} \cup cfg.map[p]
        /\ cfg'.map = [cfg.map EXCEPT ![p] = {}] /\ cfg'.done = [cfg.done EXCEPT ![p] = {}]
        /\ cfg'.pending = [cfg.pending EXCEPT ![p] = NoResult]
    BY <1>1, <2>1, <2>3, AbortFacts
  <2>5. ids \in SUBSET Requests
    <3>1. p \in Requests /\ cfg.map[p] \subseteq Requests
      BY <1>1, <2>3, SourceFacts
    <3> HIDE DEF p, ids
    <3> QED BY <2>4, <3>1
  <2>6. handler.at = "idle"
    BY <2>1, PointFacts DEF Take
  <2> HIDE DEF ids, p, next
  <2>7. Sweeps(ids, next)
    BY <1>1, <2>1, <2>5, SweepFacts DEF next
  <2>8. SweepMove(ids, next)
    BY <2>1, <2>3, <2>4, <2>6, <2>7, FamilyForgotten DEF SweepMove, Sweeping
  <2> QED BY <2>8
<1>3. CASE HandlerAborted
  <2> DEFINE ids == handler.ids
             next == CleanupPoint(ids, handler.stage + 1)
  <2>1. /\ handler.at = "cleanup" /\ outs' = outs /\ cfg' = cfg
        /\ CleanupFrom(ids, handler.stage + 1) /\ handler' = next /\ router' = router
        /\ submitted' = Kept(submitted) /\ finals' = Kept(finals)
        /\ UNCHANGED <<visits, pipeline, alive, prefilled>>
    BY <1>3 DEF HandlerAborted
  <2>2. ids \in SUBSET Requests
    BY <1>1 DEF Coroutine
  <2>3. \A q \in Parents : cfg.map[q] \cap ids = {}
    BY <2>1 DEF LinkInv, Unlinked
  <2> HIDE DEF ids, next
  <2>4. Sweeps(ids, next)
    BY <1>1, <2>1, <2>2, SweepFacts DEF next
  <2>5. SweepMove(ids, next)
    BY <2>1, <2>3, <2>4, FamilyUntouched DEF SweepMove, Sweeping, ids
  <2> QED BY <2>5
<1>4. CASE RouterAborted
  <2> DEFINE ids == router.ids
             next == CleanupPoint(ids, router.stage + 1)
  <2>1. /\ router.at = "cleanup" /\ outs' = outs /\ cfg' = cfg
        /\ CleanupFrom(ids, router.stage + 1) /\ router' = next /\ handler' = handler
        /\ submitted' = Kept(submitted) /\ finals' = Kept(finals)
        /\ UNCHANGED <<visits, pipeline, alive, prefilled>>
    BY <1>4 DEF RouterAborted
  <2>2. ids \in SUBSET Requests
    BY <1>1 DEF Coroutine
  <2>3. \A q \in Parents : cfg.map[q] \cap ids = {}
    BY <2>1 DEF LinkInv, Unlinked
  <2> HIDE DEF ids, next
  <2>4. Sweeps(ids, next)
    BY <1>1, <2>1, <2>2, SweepFacts DEF next
  <2>5. SweepMove(ids, next)
    BY <2>1, <2>3, <2>4, FamilyUntouched DEF SweepMove, Sweeping, ids
  <2> QED BY <2>5
<1>5. ASSUME NEW s \in Stages, NEW r \in Requests, StageError(s, r)
      PROVE  \E ids, next : SweepMove(ids, next)
  <2> DEFINE p == IF IsCompanion(cfg, r) THEN ParentOf[r] ELSE r
             ids == IF p \in Parents THEN Family(cfg, p) ELSE {p}
             next == CleanupPoint(ids, 0)
  <2>1. /\ Poll(s, r, "err")
        /\ CleanupFrom(ids, 0) /\ router' = next /\ handler' = handler
        /\ cfg' = IF p \in Parents THEN CleanupParent(cfg, p) ELSE cfg
        /\ submitted' = Kept(submitted) /\ finals' = Kept(finals)
        /\ UNCHANGED <<visits, pipeline, alive, prefilled>>
    BY <1>5 DEF StageError
  <2>2. router.at = "idle" /\ outs' = [outs EXCEPT ![s] = @ \ {Report(r, "err")}]
    BY <2>1, PointFacts DEF Poll, Report
  <2>3. IsCompanion(cfg, r) => p \in Parents /\ r \in cfg.map[p]
    BY <1>1 DEF OwnCompanions, IsCompanion
  <2>4. r \in ids /\ ids \in SUBSET Requests
    BY <1>1, <2>3, SourceFacts DEF Family
  <2>5. /\ \A x \in Stages : outs'[x] \subseteq outs[x]
        /\ \A x \in Stages : \A o \in outs[x] : o.req = r \/ o \in outs'[x]
    BY <1>1, <2>2 DEF Report
  <2>6. CASE p \in Parents
    <3>1. ids = {p} \cup cfg.map[p]
      BY <2>6 DEF Family
    <3>2. /\ cfg'.map = [cfg.map EXCEPT ![p] = {}] /\ cfg'.done = [cfg.done EXCEPT ![p] = {}]
          /\ cfg'.pending = [cfg.pending EXCEPT ![p] = NoResult]
      <4>1. cfg' = CleanupParent(cfg, p)
        BY <2>1, <2>6
      <4> HIDE DEF p
      <4> QED BY <1>1, <2>6, <4>1, CleanupFacts
    <3> HIDE DEF ids, p, next
    <3>3. Sweeps(ids, next)
      BY <1>1, <2>1, <2>4, SweepFacts DEF next
    <3>4. /\ \A q \in Parents : q \in ids \/ (SameFamily(q) /\ cfg.map[q] \cap ids = {})
          /\ \A q \in Parents : cfg'.map[q] \cap ids = {}
          /\ \A q \in Parents : SameFamily(q) \/ cfg'.map[q] = {}
      BY <2>6, <3>1, <3>2, FamilyForgotten
    <3>5. \A x \in Stages : \A o \in outs[x] : o.req \in ids \/ o \in outs'[x]
      BY <2>4, <2>5
    <3>6. SweepMove(ids, next)
      BY <2>1, <2>2, <2>5, <3>3, <3>4, <3>5 DEF SweepMove, Sweeping
    <3> QED BY <3>6
  <2>7. CASE p \notin Parents
    <3>1. p = r /\ ~IsCompanion(cfg, r) /\ cfg' = cfg /\ ids = {r}
      BY <2>1, <2>3, <2>7
    <3>2. \A q \in Parents : cfg.map[q] \cap ids = {}
      BY <3>1 DEF IsCompanion
    <3> HIDE DEF ids, p, next
    <3>3. Sweeps(ids, next)
      BY <1>1, <2>1, <2>4, SweepFacts DEF next
    <3>4. SweepMove(ids, next)
      BY <2>1, <2>2, <2>4, <2>5, <3>1, <3>2, <3>3, FamilyUntouched DEF SweepMove, Sweeping
    <3> QED BY <3>4
  <2> QED BY <2>6, <2>7
<1> QED BY <1>2, <1>3, <1>4, <1>5 DEF Sweep

-----------------------------------------------------------------------------
(* What becomes of a parent in a step.                                     *)

\* What the stages owe of r is still owed, but for the stages in lost.
OwedStays(r, lost) == \A s \in Stages \ lost : Owed(r, s) => Owed(r, s)'
SameVisits(p) == \A s \in Stages : visits'[p][s] = visits[p][s]
AheadStays(p) ==
  \A s \in Stages : pipeline.chunked /\ s < FinalStage[p] /\ AheadAt(p, s) => AheadAt(p, s)'
KvStays(p) == \A s \in Stages : HasKv(p, s)' => HasKv(p, s) \/ Owed(p, s)'

\* Nothing happens to p itself.
Steady(p) ==
  /\ pipeline' = pipeline /\ SameVisits(p) /\ finals'[p] = finals[p]
  /\ cfg'.pending[p] = cfg.pending[p]
  /\ OwedStays(p, {}) /\ KvStays(p) /\ AheadStays(p)

(* The deferral of p has a stage, from which p moves on.                    *)
LEMMA DeferralFacts ==
  ASSUME BaseInv, NEW p \in Parents, Deferred(cfg, p)
  PROVE  /\ cfg.pending[p].stage \in Stages /\ cfg.pending[p].stage + 1 \in Stages
         /\ cfg.pending[p].complete \in BOOLEAN /\ cfg.pending[p].stage < FinalStage[p]
         /\ ~pipeline.chunked /\ visits[p][cfg.pending[p].stage] # 0
         /\ cfg.map[p] # {} /\ ~AllDone(cfg, p)
<1>1. /\ cfg \in Tracker /\ DeferralsAwait(cfg) /\ DeferralInPlace
  BY DEF BaseInv, OrchestratorTypeOK, TrackerInPlace
<1>2. cfg.pending[p] \in Result
  BY <1>1, TrackerFields DEF Deferred
<1>3. cfg.pending[p].stage \in Stages /\ cfg.pending[p].complete \in BOOLEAN
  BY <1>2 DEF Result
<1>4. /\ cfg.pending[p].stage < FinalStage[p] /\ ~pipeline.chunked
      /\ visits[p][cfg.pending[p].stage] # 0
  BY <1>1 DEF DeferralInPlace
<1>5. cfg.pending[p].stage + 1 \in Stages
  BY <1>3, <1>4, StageFacts
<1>6. cfg.map[p] # {} /\ ~AllDone(cfg, p)
  BY <1>1 DEF DeferralsAwait, AllDone
<1> QED BY <1>3, <1>4, <1>5, <1>6

(* The last stage that p has visited is unique.                             *)
LEMMA LastVisited ==
  ASSUME VisitsInOrder, ~pipeline.chunked, NEW p \in Parents, NEW s \in Stages, NEW x \in Stages,
         s + 1 \in Stages, x + 1 \in Stages,
         visits[p][s] # 0, visits[p][s + 1] = 0, visits[p][x] # 0, visits[p][x + 1] = 0
  PROVE  s = x
<1>1. s \in Nat /\ x \in Nat /\ p \in Requests
  BY StageFacts, SourceFacts
<1>2. ASSUME NEW y \in Stages, NEW z \in Stages, y < z, y + 1 \in Stages,
             visits[p][z] # 0, visits[p][y + 1] = 0
      PROVE  FALSE
  <2>1. y \in Nat /\ z \in Nat
    BY StageFacts
  <2>2. z = y + 1 \/ y + 1 < z
    BY <1>2, <2>1
  <2> QED BY <1>1, <1>2, <2>2 DEF VisitsInOrder
<1>3. ~(s < x) /\ ~(x < s)
  BY <1>2
<1> QED BY <1>1, <1>3

\* Parent p is submitted to the stages in new, the stages in lost owe it nothing any
\* more; what they have delivered took p on.
Serves(p, lost, new) ==
  /\ pipeline' = pipeline
  /\ \A s \in Stages : visits'[p][s] # 0 <=> visits[p][s] # 0 \/ s \in new
  /\ OwedStays(p, lost)
  /\ finals[p] \subseteq finals'[p]
  /\ \A s \in Stages : pipeline.chunked /\ s < FinalStage[p] /\ AheadAt(p, s) =>
       AheadAt(p, s)' \/ visits'[p][s + 1] # 0
  /\ \A s \in Stages \cap new :
       s <= FinalStage[p] /\ Owed(p, s)' /\ (pipeline.chunked /\ s < FinalStage[p] => AheadAt(p, s)')
  /\ \A s \in Stages \cap lost :
       /\ s \in EmitStages => s \in finals'[p]
       /\ s < FinalStage[p] /\ ~pipeline.chunked =>
            visits'[p][s + 1] # 0 \/ (Deferred(cfg, p)' /\ cfg'.pending[p].stage = s)
  /\ \A s \in Stages : Deferred(cfg, p) /\ cfg.pending[p].stage = s =>
       \/ Owed(p, s)' \/ visits'[p][s + 1] # 0
       \/ Deferred(cfg, p)' /\ cfg'.pending[p].stage = s

(* Then every stage it has visited still serves it.                         *)
LEMMA ServesFacts ==
  ASSUME NEW p \in Parents, NEW lost, NEW new, VisitsServed(p), Serves(p, lost, new)
  PROVE  VisitsServed(p)'
<1>1. visits'[p][0] # 0
  BY StageFacts DEF VisitsServed, Serves
<1>2. ASSUME NEW s \in Stages, visits'[p][s] # 0
      PROVE  s <= FinalStage[p] /\ StageServed(p, s)'
  <2>1. CASE s \in new
    BY <2>1 DEF Serves, StageServed
  <2>2. CASE s \notin new
    <3>1. visits[p][s] # 0
      BY <1>2, <2>2 DEF Serves
    <3>2. s <= FinalStage[p] /\ StageServed(p, s)
      BY <3>1 DEF VisitsServed
    <3>3. s < FinalStage[p] => s + 1 \in Stages
      BY StageFacts
    <3>4. \A x \in Stages : visits[p][x] # 0 => visits'[p][x] # 0
      BY DEF Serves
    <3> DEFINE A == \/ Owed(p, s)'
                    \/ /\ s \in EmitStages => s \in finals'[p]
                       /\ s < FinalStage[p] /\ ~pipeline.chunked =>
                            visits'[p][s + 1] # 0 \/ (Deferred(cfg, p)' /\ cfg'.pending[p].stage = s)
               B == pipeline.chunked /\ s < FinalStage[p] => visits'[p][s + 1] # 0 \/ AheadAt(p, s)'
    <3>5. ASSUME s \in lost PROVE A
      BY <3>5 DEF Serves
    <3>6. ASSUME s \notin lost, Owed(p, s) PROVE A
      BY <3>6 DEF Serves, OwedStays
    <3>7. ASSUME s \notin lost, ~Owed(p, s) PROVE A
      <4>1. s \in EmitStages => s \in finals'[p]
        BY <3>2, <3>7 DEF StageServed, Serves
      <4>2. CASE Owed(p, s)'
        BY <4>2
      <4>3. CASE ~Owed(p, s)'
        <5> SUFFICES ASSUME s < FinalStage[p], ~pipeline.chunked
                     PROVE  visits'[p][s + 1] # 0 \/ (Deferred(cfg, p)' /\ cfg'.pending[p].stage = s)
          BY <4>1
        <5>1. visits[p][s + 1] # 0 \/ (Deferred(cfg, p) /\ cfg.pending[p].stage = s)
          BY <3>2, <3>7 DEF StageServed
        <5> QED BY <3>3, <3>4, <4>3, <5>1 DEF Serves
      <4> QED BY <4>2, <4>3
    <3>8. A
      BY <3>5, <3>6, <3>7
    <3>9. B
      BY <3>2, <3>3, <3>4 DEF StageServed, Serves
    <3>10. pipeline' = pipeline
      BY DEF Serves
    <3> QED BY <3>2, <3>8, <3>9, <3>10 DEF StageServed
  <2> QED BY <2>1, <2>2
<1> QED BY <1>1, <1>2 DEF VisitsServed

(* What nothing happens to is served as before.                             *)
LEMMA SteadyFlow ==
  ASSUME BaseInv, NEW p \in Parents, FlowOf(p), Steady(p), CompanionsServed(p)'
  PROVE  FlowOf(p)'
<1>1. Deferred(cfg, p)' <=> Deferred(cfg, p)
  BY DEF Steady, Deferred
<1>2. Serves(p, {}, {})
  BY <1>1 DEF Steady, SameVisits, AheadStays, Serves
<1>3. VisitsServed(p)'
  BY <1>2, ServesFacts DEF FlowOf
<1>4. KvOwed(p)'
  BY DEF FlowOf, KvOwed, Steady, KvStays, OwedStays
<1>5. OutputMissing(p)'
  BY DEF FlowOf, OutputMissing, Steady
<1>6. DeferralServed(p)'
  <2> SUFFICES ASSUME Deferred(cfg, p), NEW s \in Stages, s = cfg.pending[p].stage
               PROVE  visits'[p][s + 1] = 0 /\ (cfg.pending[p].complete \/ Owed(p, s)')
    BY <1>1, DeferralFacts DEF DeferralServed, Steady
  <2>1. s + 1 \in Stages
    BY DeferralFacts
  <2> QED BY <2>1 DEF FlowOf, DeferralServed, Steady, SameVisits, OwedStays
<1> QED BY <1>3, <1>4, <1>5, <1>6 DEF FlowOf

(* Its companions are served as before.                                     *)
LEMMA CompanionsStay ==
  ASSUME NEW p \in Parents, CompanionsServed(p),
         cfg'.map[p] = cfg.map[p], cfg.done[p] \subseteq cfg'.done[p],
         \A c \in cfg.map[p] :
           c \in cfg'.done[p] \/ ((c \in known => c \in known') /\ (Owed(c, 0) => Owed(c, 0)'))
  PROVE  CompanionsServed(p)'
  BY DEF CompanionsServed

\* The parents that are known after the step are served.
FlowsOn == \A p \in known' \cap Parents : ~Cleaning(p)' => FlowOf(p)'

(* A parent that stays known as it was, with its companions.                *)
LEMMA FlowsSteadily ==
  ASSUME BaseInv, NEW p \in Parents, FlowOf(p), Steady(p),
         cfg'.map[p] = cfg.map[p], cfg.done[p] \subseteq cfg'.done[p],
         \A c \in cfg.map[p] :
           c \in cfg'.done[p] \/ ((c \in known => c \in known') /\ (Owed(c, 0) => Owed(c, 0)'))
  PROVE  FlowOf(p)'
<1>1. CompanionsServed(p)'
  BY CompanionsStay DEF FlowOf
<1> QED BY <1>1, SteadyFlow

(* Neither the requests nor the stages change.                              *)
LEMMA QuietFlow ==
  ASSUME BaseInv, FlowInv, Going,
         UNCHANGED <<stateVars, pipeline, stageVars, visits, router>>,
         handler' = handler \/ handler.at \notin {"submit", "cleanup"}
  PROVE  FlowsOn
<1> SUFFICES ASSUME NEW p \in Parents, p \in known', ~Cleaning(p)' PROVE FlowOf(p)'
  BY DEF FlowsOn
<1>1. UNCHANGED <<known, finals, cfg, pipeline, work, outs, visits, router>>
  BY DEF stateVars, stageVars
<1>2. ~Cleaning(p)
  BY <1>1 DEF Cleaning
<1>3. FlowOf(p)
  BY <1>1, <1>2 DEF FlowInv
<1>4. \A r, s : (Owed(r, s)' <=> Owed(r, s)) /\ (HasKv(r, s)' <=> HasKv(r, s))
  BY <1>1 DEF Owed, HasKv, Report
<1>5. AheadStays(p)
  BY DEF AheadStays, AheadAt
<1>6. Steady(p)
  BY <1>1, <1>4, <1>5 DEF Steady, SameVisits, OwedStays, KvStays
<1> QED BY <1>1, <1>3, <1>4, <1>6, FlowsSteadily

(* A cleanup touches its own family only.                                   *)
LEMMA SweepFlow ==
  ASSUME BaseInv, FlowInv, Going, NEW ids, NEW next, SweepMove(ids, next)
  PROVE  FlowsOn
<1> SUFFICES ASSUME NEW p \in Parents, p \in known', ~Cleaning(p)' PROVE FlowOf(p)'
  BY DEF FlowsOn
<1>1. /\ known' \subseteq known /\ known \ ids \subseteq known'
      /\ next.at \in {"idle", "cleanup"} /\ (next.at = "cleanup" => next.ids = ids)
      /\ next.at = "idle" => known' \cap ids = {}
      /\ \A x \in Stages : work[x] \ ids \subseteq work'[x]
  BY DEF SweepMove, Sweeps
<1>2. p \notin ids
  BY <1>1 DEF SweepMove, Cleaning
<1>3. ~Cleaning(p)
  BY <1>2 DEF SweepMove, Sweeping, Cleaning
<1>4. FlowOf(p) /\ p \in Requests
  BY <1>1, <1>3, SourceFacts DEF FlowInv
<1>5. SameFamily(p) /\ cfg.map[p] \cap ids = {} /\ cfg.map[p] \subseteq Requests
  <2>1. cfg.map[p] \subseteq Companions
    BY TrackerFields DEF BaseInv, OrchestratorTypeOK
  <2> QED BY <1>2, <2>1, SourceFacts DEF SweepMove
<1>6. ASSUME NEW r, r \notin ids, NEW x \in Stages, Owed(r, x) PROVE Owed(r, x)'
  <2>1. \A o \in outs[x] : o.req \in ids \/ o \in outs'[x]
    BY DEF SweepMove
  <2>2. \A kind : Report(r, kind).req = r
    BY DEF Report
  <2>3. \A kind : Report(r, kind) \in outs[x] => Report(r, kind) \in outs'[x]
    BY <1>6, <2>1, <2>2
  <2> QED BY <1>1, <1>6, <2>3 DEF Owed, Report
<1>7. \A x \in Stages : HasKv(p, x)' => HasKv(p, x)
  BY DEF SweepMove, HasKv, Report
<1>8. finals'[p] = finals[p]
  BY <1>4 DEF SweepMove, Kept
<1>9. AheadStays(p)
  BY DEF SweepMove, Sweeping, AheadStays, AheadAt
<1>10. visits' = visits /\ pipeline' = pipeline
  BY DEF SweepMove
<1>11. Steady(p)
  BY <1>2, <1>5, <1>6, <1>7, <1>8, <1>9, <1>10
     DEF Steady, SameFamily, SameVisits, OwedStays, KvStays
<1>12. \A c \in cfg.map[p] : (c \in known => c \in known') /\ (Owed(c, 0) => Owed(c, 0)')
  BY <1>1, <1>5, <1>6, StageFacts
<1> QED BY <1>4, <1>5, <1>11, <1>12, FlowsSteadily DEF SameFamily

(* What a submission adds, while the stage lives.                           *)
LEMMA SubmitsAlive ==
  ASSUME BaseInv, Going, NEW r \in Requests, NEW s \in Stages, Submit(r, s)
  PROVE  /\ \A x \in Stages : work[x] \subseteq work'[x]
         /\ r \in work'[s]
         /\ \A q \in Requests, x \in Stages : q # r => visits'[q][x] = visits[q][x]
         /\ \A x \in Stages : visits'[r][x] # 0 <=> visits[r][x] # 0 \/ x \in {s}
         /\ \A x \in Stages : x # s => visits'[r][x] = visits[r][x]
<1>1. OrchestratorTypeOK /\ work \in [Stages -> SUBSET Requests]
      /\ visits \in [Requests -> [Stages -> Nat]]
  BY DEF BaseInv, OrchestratorTypeOK
<1>2. Submitted(r, s)
  BY <1>1, SubmitOnce
<1>3. work' = [work EXCEPT ![s] = @ \cup {r}]
  BY DEF Submit, Going
<1>4. \A x \in Stages : visits'[r][x] = IF x = s THEN visits[r][x] + 1 ELSE visits[r][x]
  BY <1>2 DEF Submitted
<1>5. \A x \in Stages : visits[r][x] \in Nat
  BY <1>1
<1>6. \A x \in Stages : visits'[r][x] # 0 <=> visits[r][x] # 0 \/ x \in {s}
  BY <1>4, <1>5
<1> QED BY <1>1, <1>2, <1>3, <1>4, <1>6 DEF Submitted

(* Then nothing that a stage owes is lost.                                  *)
LEMMA OwedGrows ==
  ASSUME \A x \in Stages : work[x] \subseteq work'[x], \A x \in Stages : outs[x] \subseteq outs'[x]
  PROVE  \A r : \A x \in Stages : Owed(r, x) => Owed(r, x)'
  BY DEF Owed

(* A parent enters.                                                         *)
LEMMA EnterFlow ==
  ASSUME BaseInv, FlowInv, RecordsAreVisits, Going, run' = "running",
         NEW r \in Requests, Enters(r),
         \/ r \in Parents /\ cfg' = cfg
         \/ r \in Companions /\ cfg' = RegisterCompanion(cfg, r)
  PROVE  FlowsOn
<1>1. /\ Submit(r, 0) /\ handler' = Submitting(r, 0, {}) /\ handler = Idle
      /\ known' = known \cup {r} /\ finals' = finals /\ router' = router
      /\ pipeline' = pipeline /\ outs' = outs /\ Fresh(r)
  BY DEF Enters, Fail, Taken
<1>2. /\ 0 \in Stages /\ OrchestratorTypeOK /\ cfg \in Tracker /\ OwnCompanions(cfg)
      /\ finals \in [Requests -> SUBSET Stages]
      /\ cfg.map \in [Parents -> SUBSET Companions]
  BY StageFacts, TrackerFields DEF BaseInv, OrchestratorTypeOK, TrackerInPlace
<1>3. /\ \A x \in Stages : work[x] \subseteq work'[x]
      /\ r \in work'[0]
      /\ \A q \in Requests, x \in Stages : q # r => visits'[q][x] = visits[q][x]
      /\ \A x \in Stages : visits'[r][x] # 0 <=> visits[r][x] # 0 \/ x \in {0}
  BY <1>1, <1>2, SubmitsAlive
<1>4. \A q : \A x \in Stages : Owed(q, x) => Owed(q, x)'
  BY <1>1, <1>3, OwedGrows
<1>5. handler.at = "idle" /\ handler'.at = "submit" /\ handler'.ids = {r} /\ handler'.stage = 0
  BY <1>1, PointFacts DEF Submitting
<1>6. Owed(r, 0)'
  BY <1>3 DEF Owed
<1>7. /\ \A x \in Stages : visits[r][x] = 0
      /\ \A q \in Parents : r \notin cfg.map[q] /\ (r = q => cfg.map[q] = {})
      /\ r \notin known
  BY <1>1 DEF BaseInv, FreshUnused
<1>8. ASSUME NEW p \in Parents, p \in known', ~Cleaning(p)', p # r PROVE FlowOf(p)'
  <2>1. p \in known /\ ~Cleaning(p) /\ p \in Requests
    BY <1>1, <1>5, <1>8, SourceFacts DEF Cleaning
  <2>2. FlowOf(p)
    BY <2>1 DEF FlowInv
  <2>3. cfg'.pending = cfg.pending /\ cfg'.done = cfg.done
        /\ \A c \in cfg'.map[p] : c \in cfg.map[p] \/ c = r
    <3>1. CASE r \in Companions /\ cfg' = RegisterCompanion(cfg, r)
      <4>1. /\ cfg'.map = [cfg.map EXCEPT ![ParentOf[r]] = @ \cup {r}]
            /\ cfg'.done = cfg.done /\ cfg'.pending = cfg.pending
        BY <1>2, <3>1, RegisterFacts
      <4> QED BY <1>2, <3>1, <4>1, SourceFacts
    <3>2. CASE cfg' = cfg
      BY <3>2
    <3> QED BY <3>1, <3>2
  <2>4. Steady(p)
    <3>1. AheadStays(p)
      BY <1>5 DEF AheadStays, AheadAt
    <3>2. KvStays(p)
      BY <1>1 DEF KvStays, HasKv
    <3> QED BY <1>1, <1>3, <1>4, <1>8, <2>1, <2>3, <3>1, <3>2 DEF Steady, SameVisits, OwedStays
  <2>5. CompanionsServed(p)'
    <3>1. CompanionsServed(p)
      BY <2>2 DEF FlowOf
    <3> QED BY <1>1, <1>2, <1>4, <1>6, <2>3, <3>1 DEF CompanionsServed
  <2> QED BY <2>2, <2>4, <2>5, SteadyFlow
<1>9. ASSUME r \in Parents, cfg' = cfg PROVE FlowOf(r)'
  <2>1. finals[r] = {}
    BY <1>2, <1>7 DEF RecordsAreVisits
  <2>2. OutputMissing(r)'
    BY <1>1, <1>9, <2>1, FinalAssumption DEF OutputMissing
  <2>3. KvOwed(r)'
    <3>1. \A x \in Stages : \A o \in outs[x] : visits[o.req][x] # 0
      BY DEF BaseInv, VisitedInPlace
    <3>2. \A x \in Stages : ~HasKv(r, x)
      BY <1>7, <3>1 DEF HasKv, Report
    <3> QED BY <1>1, <3>2 DEF KvOwed, HasKv
  <2>4. ~Deferred(cfg, r)
    BY <1>7, <1>9, DeferralFacts
  <2>5. CompanionsServed(r)' /\ DeferralServed(r)'
    BY <1>7, <1>9, <2>4 DEF CompanionsServed, DeferralServed, Deferred
  <2>6. \A x \in Stages : visits'[r][x] # 0 <=> x = 0
    BY <1>3, <1>7
  <2>7. StageServed(r, 0)'
    <3>1. AheadAt(r, 0)'
      BY <1>5 DEF AheadAt
    <3> QED BY <1>6, <3>1 DEF StageServed
  <2>8. 0 <= FinalStage[r]
    BY <1>9, StageFacts
  <2>9. VisitsServed(r)'
    BY <1>2, <2>6, <2>7, <2>8 DEF VisitsServed
  <2> QED BY <2>2, <2>3, <2>5, <2>9 DEF FlowOf
<1>10. ASSUME NEW p \in Parents, p \in known', ~Cleaning(p)' PROVE FlowOf(p)'
  <2>1. p = r => r \in Parents /\ cfg' = cfg
    BY SourceFacts
  <2> QED BY <1>8, <1>9, <1>10, <2>1
<1> QED BY <1>10 DEF FlowsOn

(* The handler submits a parent ahead.                                      *)
LEMMA AheadFlow ==
  ASSUME BaseInv, FlowInv, Going, run' = "running", NEW r \in Parents, Ahead(r)
  PROVE  FlowsOn
<1>1. PICK n \in Stages :
      /\ n = handler.stage + 1
      /\ Submit(r, n) /\ handler' = Submitting(r, n, {}) /\ handler.at = "submit"
      /\ handler.ids = {r} /\ n <= FinalStage[r]
      /\ known' = known /\ finals' = finals /\ router' = router /\ cfg' = cfg
      /\ pipeline' = pipeline /\ outs' = outs /\ pipeline.chunked
  BY DEF Ahead, Fail
<1>2. /\ \A x \in Stages : work[x] \subseteq work'[x]
      /\ r \in work'[n] /\ r \in Requests
      /\ \A q \in Requests, x \in Stages : q # r => visits'[q][x] = visits[q][x]
      /\ \A x \in Stages : visits'[r][x] # 0 <=> visits[r][x] # 0 \/ x \in {n}
  BY <1>1, SubmitsAlive, SourceFacts
<1>3. \A q : \A x \in Stages : Owed(q, x) => Owed(q, x)'
  BY <1>1, <1>2, OwedGrows
<1>4. handler'.at = "submit" /\ handler'.ids = {r} /\ handler'.stage = n
  BY <1>1 DEF Submitting
<1>5. Owed(r, n)'
  BY <1>2 DEF Owed
<1> SUFFICES ASSUME NEW p \in Parents, p \in known', ~Cleaning(p)' PROVE FlowOf(p)'
  BY DEF FlowsOn
<1>6. p \in known /\ ~Cleaning(p) /\ p \in Requests
  BY <1>1, SourceFacts DEF Cleaning
<1>7. FlowOf(p) /\ ~Deferred(cfg, p)
  BY <1>1, <1>6, DeferralFacts DEF FlowInv
<1>8. KvStays(p)
  BY <1>1 DEF KvStays, HasKv
<1>9. \A c \in cfg.map[p] : (c \in known => c \in known') /\ (Owed(c, 0) => Owed(c, 0)')
  BY <1>1, <1>3, StageFacts
<1>10. CASE p # r
  <2>1. AheadStays(p)
    BY <1>1, <1>10 DEF AheadStays, AheadAt
  <2>2. Steady(p)
    BY <1>1, <1>2, <1>3, <1>6, <1>8, <1>10, <2>1 DEF Steady, SameVisits, OwedStays
  <2> QED BY <1>1, <1>7, <1>9, <2>2, FlowsSteadily
<1>11. CASE p = r
  <2>1. \A x \in Stages : AheadAt(p, x) => visits'[p][x + 1] # 0
    BY <1>1, <1>2, <1>11 DEF AheadAt
  <2>2. AheadAt(p, n)'
    BY <1>4, <1>11 DEF AheadAt
  <2>3. Serves(p, {}, {n})
    BY <1>1, <1>2, <1>3, <1>5, <1>7, <1>11, <2>1, <2>2 DEF Serves, OwedStays
  <2>4. VisitsServed(p)'
    BY <1>7, <2>3, ServesFacts DEF FlowOf
  <2>5. CompanionsServed(p)'
    BY <1>1, <1>7, <1>9, CompanionsStay DEF FlowOf
  <2>6. KvOwed(p)' /\ OutputMissing(p)'
    BY <1>1, <1>3, <1>7, <1>8 DEF FlowOf, KvOwed, KvStays, OutputMissing
  <2>7. DeferralServed(p)'
    BY <1>1, <1>7 DEF DeferralServed, Deferred
  <2> QED BY <2>4, <2>5, <2>6, <2>7 DEF FlowOf
<1> QED BY <1>10, <1>11

(* The handler's last submission of a request is sent.                      *)
LEMMA HandlerRests ==
  ASSUME BaseInv, FlowInv, Going, handler.at = "submit", handler'.at = "idle",
         \A r \in handler.ids \cap Parents :
           ~(pipeline.chunked /\ handler.stage + 1 <= FinalStage[r]),
         UNCHANGED <<known, finals, cfg, pipeline, stageVars, visits, router>>
  PROVE  FlowsOn
<1> SUFFICES ASSUME NEW p \in Parents, p \in known', ~Cleaning(p)' PROVE FlowOf(p)'
  BY DEF FlowsOn
<1>1. UNCHANGED <<known, finals, cfg, pipeline, work, outs, visits, router>>
  BY DEF stageVars
<1>2. ~Cleaning(p)
  BY <1>1 DEF Cleaning
<1>3. FlowOf(p)
  BY <1>1, <1>2 DEF FlowInv
<1>4. \A r, s : (Owed(r, s)' <=> Owed(r, s)) /\ (HasKv(r, s)' <=> HasKv(r, s))
  BY <1>1 DEF Owed, HasKv, Report
<1>5. AheadStays(p)
  <2> SUFFICES ASSUME NEW s \in Stages, pipeline.chunked, s < FinalStage[p], AheadAt(p, s)
               PROVE  FALSE
    BY DEF AheadStays
  <2>1. handler.stage = s /\ p \in handler.ids
    BY DEF AheadAt
  <2>2. s + 1 <= FinalStage[p]
    BY StageFacts
  <2> QED BY <2>1, <2>2
<1>6. Steady(p)
  BY <1>1, <1>4, <1>5 DEF Steady, SameVisits, OwedStays, KvStays
<1> QED BY <1>1, <1>3, <1>4, <1>6, FlowsSteadily

(* The output loop's submission is sent.                                    *)
LEMMA RecordedFlow ==
  ASSUME BaseInv, FlowInv, LinkInv, Going, NEW r \in Parents, Recorded(r)
  PROVE  FlowsOn
<1> SUFFICES ASSUME NEW p \in Parents, p \in known', ~Cleaning(p)' PROVE FlowOf(p)'
  BY DEF FlowsOn
<1>1. /\ known' = known \ router.after /\ finals' = Kept(finals) /\ router.at = "submit"
      /\ UNCHANGED <<cfg, pipeline, work, outs, visits, handler>>
  BY DEF Recorded, stageVars
<1>2. ~Cleaning(p) /\ p \in known /\ p \in Requests
  BY <1>1, SourceFacts DEF Cleaning
<1>3. FlowOf(p)
  BY <1>2 DEF FlowInv
<1>4. \A x, s : (Owed(x, s)' <=> Owed(x, s)) /\ (HasKv(x, s)' <=> HasKv(x, s))
  BY <1>1 DEF Owed, HasKv, Report
<1>5. finals'[p] = finals[p]
  BY <1>1, <1>2 DEF Kept
<1>6. AheadStays(p)
  BY <1>1 DEF AheadStays, AheadAt
<1>7. Steady(p)
  BY <1>1, <1>4, <1>5, <1>6 DEF Steady, SameVisits, OwedStays, KvStays
<1>8. \A c \in cfg.map[p] : c \in router.after => c \in cfg'.done[p]
  BY <1>1 DEF LinkInv, AfterDone
<1>9. \A c \in cfg.map[p] :
        c \in cfg'.done[p] \/ ((c \in known => c \in known') /\ (Owed(c, 0) => Owed(c, 0)'))
  BY <1>1, <1>4, <1>8
<1> QED BY <1>1, <1>3, <1>7, <1>9, FlowsSteadily

(* A stage produces: what it no longer works on, it delivers.               *)
LEMMA ProduceFlow ==
  ASSUME BaseInv, FlowInv, Going,
         UNCHANGED <<known, finals, cfg, pipeline, visits, handler, router>>,
         \A r : \A s \in Stages : Owed(r, s) => Owed(r, s)',
         \A r : \A s \in Stages : HasKv(r, s)' => HasKv(r, s) \/ Owed(r, s)'
  PROVE  FlowsOn
<1> SUFFICES ASSUME NEW p \in Parents, p \in known', ~Cleaning(p)' PROVE FlowOf(p)'
  BY DEF FlowsOn
<1>1. ~Cleaning(p)
  BY DEF Cleaning
<1>2. FlowOf(p)
  BY <1>1 DEF FlowInv
<1>3. AheadStays(p)
  BY DEF AheadStays, AheadAt
<1>4. Steady(p)
  BY <1>3 DEF Steady, SameVisits, OwedStays, KvStays
<1>5. \A c \in cfg.map[p] : (c \in known => c \in known') /\ (Owed(c, 0) => Owed(c, 0)')
  BY StageFacts
<1> QED BY <1>2, <1>4, <1>5, FlowsSteadily

(* The stages' own steps.                                                   *)
LEMMA EngineFlow ==
  ASSUME BaseInv, FlowInv, Going, NEW s \in Stages, NEW r \in Requests,
         EngineEnds(s, r) \/ EngineKv(r)
  PROVE  FlowsOn
<1>1. /\ OrchestratorTypeOK /\ work \in [Stages -> SUBSET Requests]
      /\ outs \in [Stages -> SUBSET Output]
  BY DEF BaseInv, OrchestratorTypeOK
<1> DEFINE G == /\ \A q : \A x \in Stages : Owed(q, x) => Owed(q, x)'
                /\ \A q : \A x \in Stages : HasKv(q, x)' => HasKv(q, x) \/ Owed(q, x)'
<1>2. CASE EngineEnds(s, r)
  <2>1. PICK kind \in {"fin", "err"} : Produce(s, r, kind) /\ work' = [work EXCEPT ![s] = @ \ {r}]
    BY <1>2 DEF EngineEnds
  <2>2. /\ outs' = [outs EXCEPT ![s] = @ \cup {Report(r, kind)}]
        /\ UNCHANGED <<known, finals, cfg, pipeline, visits, handler, router>>
    BY <2>1 DEF Produce, Report, stateVars
  <2>3. /\ \A x \in Stages : outs[x] \subseteq outs'[x]
        /\ Report(r, kind) \in outs'[s]
        /\ \A x \in Stages : \A o \in outs'[x] : o \in outs[x] \/ o = Report(r, kind)
        /\ \A q : \A x \in Stages : q \in work[x] => q \in work'[x] \/ (q = r /\ x = s)
    BY <1>1, <2>1, <2>2
  <2>4. \A q : \A x \in Stages : Owed(q, x) => Owed(q, x)'
    <3> SUFFICES ASSUME NEW q, NEW x \in Stages, Owed(q, x) PROVE Owed(q, x)'
      OBVIOUS
    <3>1. CASE q \in work[x]
      <4>1. CASE q \in work'[x]
        BY <4>1 DEF Owed
      <4>2. CASE q = r /\ x = s
        BY <2>1, <2>3, <4>2 DEF Owed, Report
      <4> QED BY <2>3, <3>1, <4>1, <4>2
    <3>2. CASE q \notin work[x]
      BY <2>3, <3>2 DEF Owed
    <3> QED BY <3>1, <3>2
  <2>5. \A q : Report(q, "kv") # Report(r, kind)
    BY <2>1 DEF Report
  <2>6. \A q : \A x \in Stages : HasKv(q, x)' => HasKv(q, x)
    BY <2>3, <2>5 DEF HasKv, Report
  <2> QED BY <2>2, <2>4, <2>6, ProduceFlow
<1>3. CASE EngineKv(r)
  <2>1. /\ outs' = [outs EXCEPT ![0] = @ \cup {Report(r, "kv")}] /\ r \in work[0] /\ work' = work
        /\ UNCHANGED <<known, finals, cfg, pipeline, visits, handler, router>>
    BY <1>3 DEF EngineKv, Produce, Report, stateVars
  <2>2. /\ \A x \in Stages : outs[x] \subseteq outs'[x]
        /\ \A x \in Stages : \A o \in outs'[x] : o \in outs[x] \/ (o = Report(r, "kv") /\ x = 0)
    BY <1>1, <2>1, StageFacts
  <2>3. \A q : \A x \in Stages : Owed(q, x) => Owed(q, x)'
    BY <2>1, <2>2 DEF Owed
  <2>4. \A q : \A x \in Stages : HasKv(q, x)' => HasKv(q, x) \/ Owed(q, x)'
    <3> SUFFICES ASSUME NEW q, NEW x \in Stages, HasKv(q, x)', ~HasKv(q, x) PROVE Owed(q, x)'
      OBVIOUS
    <3>1. Report(q, "kv") = Report(r, "kv") /\ x = 0
      BY <2>2 DEF HasKv, Report
    <3>2. q = r
      BY <3>1 DEF Report
    <3> QED BY <2>1, <3>1, <3>2 DEF Owed
  <2> QED BY <2>1, <2>3, <2>4, ProduceFlow
<1> QED BY <1>2, <1>3

(* What a poll takes from what the stages owe.                              *)
LEMMA PollOwed ==
  ASSUME OrchestratorTypeOK, NEW s \in Stages, NEW r, NEW kind, Poll(s, r, kind),
         \A x \in Stages : work[x] \subseteq work'[x]
  PROVE  /\ \A q : q # r \/ kind = "kv" => OwedStays(q, {})
         /\ \A q : OwedStays(q, {s})
         /\ \A q : \A x \in Stages : HasKv(q, x)' => HasKv(q, x)
         /\ kind = "kv" => HasKv(r, s)
<1>1. /\ outs \in [Stages -> SUBSET Output]
      /\ outs' = [outs EXCEPT ![s] = @ \ {Report(r, kind)}] /\ Report(r, kind) \in outs[s]
  BY DEF OrchestratorTypeOK, Poll, Report, HasKv
<1>2. /\ \A x \in Stages : outs'[x] \subseteq outs[x]
      /\ \A x \in Stages : \A o \in outs[x] : o \in outs'[x] \/ (o = Report(r, kind) /\ x = s)
  BY <1>1
<1>3. \A q : \A x \in Stages : HasKv(q, x)' => HasKv(q, x)
  BY <1>2 DEF HasKv, Report
<1>4. ASSUME NEW q, NEW x \in Stages, Owed(q, x), ~Owed(q, x)'
      PROVE  q = r /\ x = s /\ kind # "kv"
  <2>1. q \notin work[x]
    BY <1>4 DEF Owed
  <2>2. PICK k \in {"fin", "err"} : Report(q, k) \in outs[x] /\ Report(q, k) \notin outs'[x]
    BY <1>4, <2>1 DEF Owed, Report
  <2>3. Report(q, k) = Report(r, kind) /\ x = s
    BY <1>2, <2>2
  <2> QED BY <2>2, <2>3 DEF Report
<1>5. kind = "kv" => HasKv(r, s)
  BY <1>1 DEF HasKv
<1> QED BY <1>1, <1>3, <1>4, <1>5 DEF OwedStays

\* The companions of p are neither polled nor released, unless they are done.
CompanionsWait(p, r, kind) ==
  /\ cfg'.map[p] = cfg.map[p] /\ cfg.done[p] \subseteq cfg'.done[p]
  /\ \A c \in cfg.map[p] :
       c \in cfg'.done[p] \/ ((c \in known => c \in known') /\ (c # r \/ kind = "kv"))

(* Then they are served as before.                                          *)
LEMMA CompanionsPolled ==
  ASSUME OrchestratorTypeOK, NEW s \in Stages, NEW r, NEW kind, Poll(s, r, kind),
         \A x \in Stages : work[x] \subseteq work'[x],
         NEW p \in Parents, CompanionsServed(p), CompanionsWait(p, r, kind)
  PROVE  CompanionsServed(p)'
<1>1. \A q : q # r \/ kind = "kv" => OwedStays(q, {})
  BY PollOwed
<1>2. \A c \in cfg.map[p] :
        c \in cfg'.done[p] \/ ((c \in known => c \in known') /\ (Owed(c, 0) => Owed(c, 0)'))
  BY <1>1, StageFacts DEF OwedStays, CompanionsWait
<1> QED BY <1>2, CompanionsStay DEF CompanionsWait

(* A parent whose own state a poll and its handling leave alone.            *)
LEMMA BystanderFlow ==
  ASSUME BaseInv, NEW s \in Stages, NEW r, NEW kind, Poll(s, r, kind),
         \A x \in Stages : work[x] \subseteq work'[x], handler' = handler, pipeline' = pipeline,
         NEW p \in Parents, FlowOf(p), p # r \/ kind = "kv",
         SameVisits(p), finals'[p] = finals[p], cfg'.pending[p] = cfg.pending[p],
         CompanionsWait(p, r, kind)
  PROVE  FlowOf(p)'
<1>1. OrchestratorTypeOK
  BY DEF BaseInv
<1>2. OwedStays(p, {}) /\ KvStays(p)
  BY <1>1, PollOwed DEF KvStays
<1>3. AheadStays(p)
  BY DEF AheadStays, AheadAt
<1>4. Steady(p)
  BY <1>2, <1>3 DEF Steady
<1>5. CompanionsServed(p)'
  BY <1>1, CompanionsPolled DEF FlowOf
<1> QED BY <1>4, <1>5, SteadyFlow

(* A parent is submitted to the stage after s.                              *)
LEMMA OnwardFlow ==
  ASSUME BaseInv, Going, NEW y \in Stages, NEW r, NEW kind, Poll(y, r, kind),
         handler' = handler, pipeline' = pipeline, ~pipeline.chunked,
         NEW p \in Parents, NEW s \in Stages, FlowOf(p), s < FinalStage[p], Submit(p, s + 1),
         ~Deferred(cfg, p)', Deferred(cfg, p) => cfg.pending[p].stage = s,
         finals[p] \subseteq finals'[p], OutputMissing(p)', CompanionsWait(p, r, kind),
         p = r /\ kind # "kv" => y = s /\ (s \in EmitStages => s \in finals'[p])
  PROVE  FlowOf(p)'
<1> DEFINE lost == IF p = r /\ kind # "kv" THEN {s} ELSE {}
<1>1. OrchestratorTypeOK /\ p \in Requests /\ s + 1 \in Stages
  BY SourceFacts, StageFacts DEF BaseInv
<1>2. /\ \A x \in Stages : work[x] \subseteq work'[x]
      /\ p \in work'[s + 1]
      /\ \A x \in Stages : visits'[p][x] # 0 <=> visits[p][x] # 0 \/ x \in {s + 1}
  BY <1>1, SubmitsAlive
<1>3. /\ OwedStays(p, lost)
      /\ \A x \in Stages : HasKv(p, x)' => HasKv(p, x)
      /\ lost # {} => ~HasKv(p, s)
  <2>1. /\ p # r \/ kind = "kv" => OwedStays(p, {})
        /\ OwedStays(p, {y})
        /\ \A x \in Stages : HasKv(p, x)' => HasKv(p, x)
        /\ kind # "kv" => ~HasKv(r, y)
    <3>1. \A q : q # r \/ kind = "kv" => OwedStays(q, {})
      BY <1>1, <1>2, PollOwed
    <3>2. \A q : OwedStays(q, {y})
      BY <1>1, <1>2, PollOwed
    <3>3. \A q : \A x \in Stages : HasKv(q, x)' => HasKv(q, x)
      BY <1>1, <1>2, PollOwed
    <3>4. kind # "kv" => ~HasKv(r, y)
      BY DEF Poll, HasKv, Report
    <3> QED BY <3>1, <3>2, <3>3, <3>4
  <2>2. CASE p = r /\ kind # "kv"
    <3>1. lost = {y} /\ ~HasKv(p, s)
      BY <2>1, <2>2
    <3> QED BY <2>1, <3>1
  <2>3. CASE ~(p = r /\ kind # "kv")
    <3>1. lost = {}
      BY <2>3
    <3> QED BY <2>1, <2>3, <3>1
  <2> QED BY <2>2, <2>3
<1>4. Owed(p, s + 1)' /\ s + 1 <= FinalStage[p]
  BY <1>2, StageFacts DEF Owed
<1>5. visits'[p][s + 1] # 0
  BY <1>1, <1>2
<1>6. lost = {} \/ (lost = {s} /\ (s \in EmitStages => s \in finals'[p]))
  OBVIOUS
<1> HIDE DEF lost
<1>7. Serves(p, lost, {s + 1})
  <2>1. \A x \in Stages \cap lost :
          /\ x \in EmitStages => x \in finals'[p]
          /\ visits'[p][x + 1] # 0
    BY <1>5, <1>6
  <2>2. \A x \in Stages : Deferred(cfg, p) /\ cfg.pending[p].stage = x => visits'[p][x + 1] # 0
    BY <1>5
  <2>3. \A x \in Stages \cap {s + 1} : x <= FinalStage[p] /\ Owed(p, x)'
    BY <1>4
  <2> QED BY <1>2, <1>3, <2>1, <2>2, <2>3 DEF Serves
<1>8. VisitsServed(p)'
  BY <1>7, ServesFacts DEF FlowOf
<1>9. KvOwed(p)'
  <2>1. \A x \in Stages : HasKv(p, x)' => x \notin lost /\ Owed(p, x)
    BY <1>3, <1>6 DEF FlowOf, KvOwed
  <2> QED BY <1>3, <2>1 DEF KvOwed, OwedStays
<1>10. CompanionsServed(p)'
  BY <1>1, <1>2, CompanionsPolled DEF FlowOf
<1>11. DeferralServed(p)'
  BY DEF DeferralServed
<1> QED BY <1>8, <1>9, <1>10, <1>11 DEF FlowOf

(* A parent that is not submitted anywhere: it is deferred with what stage  *)
(* s has produced, or no more deferred, or what was polled was enough.      *)
LEMMA InPlaceFlow ==
  ASSUME BaseInv, NEW y \in Stages, NEW r, NEW kind, Poll(y, r, kind),
         work' = work, visits' = visits, handler' = handler, pipeline' = pipeline,
         NEW p \in Parents, FlowOf(p), finals[p] \subseteq finals'[p], OutputMissing(p)',
         CompanionsWait(p, r, kind), DeferralServed(p)',
         p = r /\ kind # "kv" =>
           /\ y \in EmitStages => y \in finals'[p]
           /\ y < FinalStage[p] /\ ~pipeline.chunked =>
                visits[p][y + 1] # 0 \/ (Deferred(cfg, p)' /\ cfg'.pending[p].stage = y),
         Deferred(cfg, p) =>
           \/ Deferred(cfg, p)' /\ cfg'.pending[p].stage = cfg.pending[p].stage
           \/ ~(p = r /\ kind # "kv") /\ Owed(p, cfg.pending[p].stage)
  PROVE  FlowOf(p)'
<1> DEFINE lost == IF p = r /\ kind # "kv" THEN {y} ELSE {}
<1>1. OrchestratorTypeOK /\ \A x \in Stages : work[x] \subseteq work'[x]
  BY DEF BaseInv
<1>2. /\ OwedStays(p, lost)
      /\ \A x \in Stages : HasKv(p, x)' => HasKv(p, x)
      /\ lost # {} => ~HasKv(p, y)
  <2>1. /\ p # r \/ kind = "kv" => OwedStays(p, {})
        /\ OwedStays(p, {y})
        /\ \A x \in Stages : HasKv(p, x)' => HasKv(p, x)
        /\ kind # "kv" => ~HasKv(r, y)
    <3>1. \A q : q # r \/ kind = "kv" => OwedStays(q, {})
      BY <1>1, PollOwed
    <3>2. \A q : OwedStays(q, {y})
      BY <1>1, PollOwed
    <3>3. \A q : \A x \in Stages : HasKv(q, x)' => HasKv(q, x)
      BY <1>1, PollOwed
    <3>4. kind # "kv" => ~HasKv(r, y)
      BY DEF Poll, HasKv, Report
    <3> QED BY <3>1, <3>2, <3>3, <3>4
  <2>2. CASE p = r /\ kind # "kv"
    <3>1. lost = {y} /\ ~HasKv(p, y)
      BY <2>1, <2>2
    <3> QED BY <2>1, <3>1
  <2>3. CASE ~(p = r /\ kind # "kv")
    <3>1. lost = {}
      BY <2>3
    <3> QED BY <2>1, <2>3, <3>1
  <2> QED BY <2>2, <2>3
<1>3. /\ lost = {} \/ lost = {y}
      /\ y \in lost => p = r /\ kind # "kv"
      /\ ~(p = r /\ kind # "kv") => lost = {}
  OBVIOUS
<1> HIDE DEF lost
<1>4. Serves(p, lost, {})
  <2>1. \A x \in Stages \cap lost :
          /\ x \in EmitStages => x \in finals'[p]
          /\ x < FinalStage[p] /\ ~pipeline.chunked =>
               visits'[p][x + 1] # 0 \/ (Deferred(cfg, p)' /\ cfg'.pending[p].stage = x)
    BY <1>3
  <2>2. \A x \in Stages : Deferred(cfg, p) /\ cfg.pending[p].stage = x =>
          Owed(p, x)' \/ (Deferred(cfg, p)' /\ cfg'.pending[p].stage = x)
    BY <1>2, <1>3 DEF OwedStays
  <2>3. \A x \in Stages : AheadAt(p, x) => AheadAt(p, x)'
    BY DEF AheadAt
  <2> QED BY <1>2, <2>1, <2>2, <2>3 DEF Serves
<1>5. VisitsServed(p)'
  BY <1>4, ServesFacts DEF FlowOf
<1>6. KvOwed(p)'
  <2>1. \A x \in Stages : HasKv(p, x)' => x \notin lost /\ Owed(p, x)
    BY <1>2, <1>3 DEF FlowOf, KvOwed
  <2> QED BY <1>2, <2>1 DEF KvOwed, OwedStays
<1>7. CompanionsServed(p)'
  BY <1>1, CompanionsPolled DEF FlowOf
<1> QED BY <1>5, <1>6, <1>7 DEF FlowOf

(* An output is dropped.                                                    *)
LEMMA DropFlow ==
  ASSUME BaseInv, FlowInv, LinkInv, Going, NEW s \in Stages, NEW r \in Requests, DropOutput(s, r)
  PROVE  FlowsOn
<1> SUFFICES ASSUME NEW p \in Parents, p \in known', ~Cleaning(p)' PROVE FlowOf(p)'
  BY DEF FlowsOn
<1>1. PICK kind : /\ Poll(s, r, kind)
                  /\ r \in known => Forgotten(s, r) \/ kind = "kv"
  BY DEF DropOutput
<1>2. UNCHANGED <<known, finals, cfg, pipeline, work, visits, handler, router>>
  BY DEF DropOutput, stateVars
<1>4. ~Cleaning(p) /\ p \in known
  BY <1>2 DEF Cleaning
<1>5. FlowOf(p)
  BY <1>4 DEF FlowInv
<1>6. Forgotten(s, r) => r \in handler.ids /\ handler.at = "cleanup"
  BY DEF Forgotten
<1>7. p # r \/ kind = "kv"
  BY <1>1, <1>4, <1>6 DEF Cleaning
<1>8. \A c \in cfg.map[p] : c \in cfg.done[p] \/ c # r \/ kind = "kv"
  <2>1. \A c \in cfg.map[p] : c \in cfg.done[p] \/ c \in known
    BY <1>5 DEF FlowOf, CompanionsServed
  <2>2. Forgotten(s, r) => r \notin cfg.map[p]
    BY <1>6 DEF LinkInv, Unlinked
  <2> QED BY <1>1, <2>1, <2>2
<1>9. CompanionsWait(p, r, kind)
  BY <1>2, <1>8 DEF CompanionsWait
<1> QED BY <1>1, <1>2, <1>5, <1>7, <1>9, BystanderFlow DEF SameVisits

\* What a forwarding of p from stage s, with tracker t, comes to while all goes on.
SameLinks(t) == cfg'.map = t.map /\ cfg'.done = t.done /\ cfg'.pending = t.pending
Onward(p, s, t, X) ==
  SameLinks(t) /\ known' = known /\ Submit(p, s + 1) /\ router' = Submitting(p, s + 1, X)
Ended(p, t, X) ==
  /\ cfg'.map = [t.map EXCEPT ![p] = {}] /\ cfg'.done = [t.done EXCEPT ![p] = {}]
  /\ cfg'.pending = [t.pending EXCEPT ![p] = NoResult]
  /\ known' = known \ ({p} \cup t.map[p] \cup X) /\ UNCHANGED <<router, work, visits>>
Waits(t, X) == SameLinks(t) /\ known' = known \ X /\ UNCHANGED <<router, work, visits>>

(* The orchestrator goes on: the submission is made, the request ends, or it
   waits for more. *)
LEMMA ForwardGoing ==
  ASSUME Going, Going', NEW p \in Parents, NEW s \in Stages, NEW t \in Tracker, NEW complete,
         NEW X, NEW poll, s < FinalStage[p], Forward(p, s, t, complete, X, poll)
  PROVE  Onward(p, s, t, X) \/ Ended(p, t, X) \/ (Waits(t, X) /\ ~complete)
<1> DEFINE next == s + 1
           t2 == IF next \in LLM THEN t ELSE PopOutputs(t, p)
<1>1. t2 \in Tracker /\ t2.map = t.map /\ t2.done = t.done /\ t2.pending = t.pending
  BY PopOutputsFacts
<1>2. next \in alive
  BY StageFacts DEF Going
<1> HIDE DEF t2
<1>3. CASE /\ Submit(p, next) /\ cfg' = t2 /\ router' = Submitting(p, next, X)
           /\ UNCHANGED <<told, known, running, endVars>>
  BY <1>1, <1>3 DEF Onward, SameLinks
<1>4. CASE /\ Tell(p) /\ cfg' = CleanupParent(t2, p) /\ Release(Family(t2, p) \cup X)
           /\ UNCHANGED <<router, work, visits, endVars>>
  <2>1. /\ cfg'.map = [t2.map EXCEPT ![p] = {}] /\ cfg'.done = [t2.done EXCEPT ![p] = {}]
        /\ cfg'.pending = [t2.pending EXCEPT ![p] = NoResult]
    BY <1>1, <1>4, CleanupFacts
  <2>2. known' = known \ ({p} \cup t2.map[p] \cup X)
    BY <1>4 DEF Release, Family
  <2> QED BY <1>1, <1>4, <2>1, <2>2 DEF Ended
<1>5. CASE /\ next \in LLM /\ ~complete /\ cfg' = t2 /\ Release(X)
           /\ UNCHANGED <<told, router, work, visits, endVars>>
  BY <1>1, <1>5 DEF Waits, SameLinks, Release
<1>6. CASE router' = Over /\ Fail
  BY <1>6 DEF Fail, Going
<1> QED BY <1>2, <1>3, <1>4, <1>5, <1>6 DEF Forward, t2

(* A request that the loop handles next has visited what is recorded.       *)
LEMMA RecordedVisits ==
  ASSUME BaseInv, VisitInv, RecordsAreVisits, Going, router = Idle, NEW p \in Parents, p \in known,
         NEW s \in Stages, s + 1 \in Stages, ~pipeline.chunked
  PROVE  NextSubmitted(p, s) <=> visits[p][s + 1] # 0
<1>1. router.at # "submit" /\ run # "drained" /\ p \in Requests
  BY PointFacts, SourceFacts DEF Going
<1>2. visits[p][s + 1] # 0 => s + 1 \in submitted[p]
  BY <1>1 DEF VisitInv, VisitsRecorded
<1> QED BY <1>1, <1>2 DEF RecordsAreVisits, NextSubmitted

\* All that is known of the orchestrator.
FlowHyp ==
  /\ BaseInv /\ VisitInv /\ HandlerVisited /\ VisitsInOrder
  /\ LinkInv /\ RecordsAreVisits /\ RouterVisited /\ FlowInv

(* A companion completes.                                                   *)
LEMMA CompanionReadyFlow ==
  ASSUME FlowHyp, Going, Going', NEW y \in Stages, NEW r \in Companions, NEW kind, Poll(y, r, kind),
         IsCompanion(cfg, r), NEW t \in Tracker,
         t.map = cfg.map, t.done = cfg.done, t.pending = cfg.pending,
         NEW X \in SUBSET {r}, NEW poll, CompanionReady(r, t, X, poll),
         handler' = handler, pipeline' = pipeline, finals' = Kept(finals)
  PROVE  FlowsOn
<1> DEFINE q == ParentOf[r]
           u == AfterCompletion(t, r)
           held == CompanionDone(t, r).pending[q]
           moves == Releases(t, r) /\ q \in known /\ ~NextSubmitted(q, held.stage)
<1>1. /\ BaseInv /\ OrchestratorTypeOK /\ cfg \in Tracker /\ OwnCompanions(cfg)
      /\ q \in Parents /\ r \notin Parents /\ r \in Requests /\ q \in Requests
      /\ FlowInv /\ VisitInv /\ RecordsAreVisits /\ router = Idle
      /\ cfg.map \in [Parents -> SUBSET Companions]
  BY SourceFacts, TrackerFields DEF FlowHyp, BaseInv, OrchestratorTypeOK, TrackerInPlace, Poll
<1>2. r \in cfg.map[q] /\ \A p \in Parents : r \in cfg.map[p] => p = q
  BY <1>1 DEF IsCompanion, OwnCompanions
<1>3. held = cfg.pending[q]
  BY DoneFacts
<1>4. /\ u \in Tracker /\ u.map = cfg.map
      /\ \A p \in Parents : cfg.done[p] \subseteq u.done[p]
      /\ \A p \in Parents : p # q => u.pending[p] = cfg.pending[p]
  BY CompletionFacts
<1>5. r \in u.done[q] /\ (~Releases(t, r) => u.pending[q] = cfg.pending[q])
  <2>1. IsCompanion(t, r)
    BY DEF IsCompanion
  <2> DEFINE v == CompanionDone(t, r)
  <2>2. v \in Tracker /\ v.pending = t.pending /\ v.done = [t.done EXCEPT ![q] = @ \cup {r}]
    BY <2>1, DoneFacts
  <2>3. r \in v.done[q]
    BY <1>1, <2>2, TrackerFields
  <2> HIDE DEF v, q
  <2>4. PopPending(v, q).done = v.done
    BY <1>1, <2>2, PopPendingFacts
  <2> QED BY <2>2, <2>3, <2>4 DEF AfterCompletion, v, q
<1>6. Releases(t, r) => u.pending[q] = NoResult /\ Deferred(cfg, q)
  BY ReleasedFacts DEF Releases, Deferred
<1>7. moves => Forward(q, held.stage, u, held.complete, X, poll)
  BY DEF CompanionReady, AfterCompletion
<1>8. ~moves => /\ cfg' = u /\ known' = known \ X /\ UNCHANGED <<router, work, visits>>
  BY DEF CompanionReady, AfterCompletion, Release
<1>9. moves => Deferred(cfg, q) /\ u.pending[q] = NoResult /\ q \in known
  BY <1>6
<1> HIDE DEF u, held, moves, q
<1> SUFFICES ASSUME NEW p \in Parents, p \in known', ~Cleaning(p)' PROVE FlowOf(p)'
  BY DEF FlowsOn
<1>10. p # r /\ p \in Requests
  BY <1>1, SourceFacts
<1>11. finals'[p] = finals[p]
  BY <1>10 DEF Kept
<1>12. ~Cleaning(p)
  BY <1>1, PointFacts DEF Cleaning
<1>13. \A c \in cfg.map[p] : c \in Companions /\ (c = r => p = q) /\ (p # q => c \notin cfg.map[q])
  BY <1>1, <1>2 DEF OwnCompanions
<1>14. CASE ~moves
  <2>1. p \in known /\ FlowOf(p)
    BY <1>1, <1>8, <1>12, <1>14 DEF FlowInv
  <2>2. cfg'.pending[p] = cfg.pending[p]
    <3>1. CASE p # q
      BY <1>4, <1>8, <1>14, <3>1
    <3>2. CASE p = q /\ ~Releases(t, r)
      BY <1>5, <1>8, <1>14, <3>2
    <3>3. CASE p = q /\ Releases(t, r)
      <4>1. Deferred(cfg, p) /\ NextSubmitted(p, held.stage)
        BY <1>6, <1>14, <2>1, <3>3 DEF moves
      <4>2. held.stage \in Stages /\ held.stage + 1 \in Stages /\ ~pipeline.chunked
        BY <1>1, <1>3, <3>3, <4>1, DeferralFacts
      <4>3. visits[p][held.stage + 1] # 0
        BY <1>1, <2>1, <4>1, <4>2, RecordedVisits
      <4>4. visits[p][held.stage + 1] = 0
        BY <1>3, <2>1, <3>3, <4>1 DEF FlowOf, DeferralServed
      <4> QED BY <4>3, <4>4
    <3> QED BY <3>1, <3>2, <3>3
  <2>3. CompanionsWait(p, r, kind)
    BY <1>4, <1>5, <1>8, <1>13, <1>14 DEF CompanionsWait
  <2> QED BY <1>1, <1>8, <1>10, <1>11, <1>14, <2>1, <2>2, <2>3, BystanderFlow DEF SameVisits
<1>15. CASE moves
  <2>1. /\ held.stage \in Stages /\ held.stage + 1 \in Stages /\ held.stage < FinalStage[q]
        /\ ~pipeline.chunked
    BY <1>1, <1>3, <1>9, <1>15, DeferralFacts
  <2>2. \/ Onward(q, held.stage, u, X) \/ Ended(q, u, X) \/ (Waits(u, X) /\ ~held.complete)
    BY <1>1, <1>4, <1>7, <1>15, <2>1, ForwardGoing
  <2>3. p \in known
    BY <2>2 DEF Onward, Ended, Waits
  <2>4. FlowOf(p)
    BY <1>1, <1>12, <2>3 DEF FlowInv
  <2>5. Ended(q, u, X) => p # q
    BY DEF Ended
  <2>6. /\ cfg'.map[p] = cfg.map[p] /\ cfg'.done[p] = u.done[p] /\ cfg'.pending[p] = u.pending[p]
    <3>1. CASE Ended(q, u, X)
      BY <1>1, <1>4, <2>5, <3>1, TrackerFields DEF Ended
    <3>2. CASE Onward(q, held.stage, u, X) \/ Waits(u, X)
      BY <1>4, <3>2 DEF Onward, Waits, SameLinks
    <3> QED BY <2>2, <3>1, <3>2
  <2>7. \A c \in cfg.map[p] : c = r \/ (c \in known => c \in known')
    <3>1. CASE Ended(q, u, X)
      BY <1>1, <1>4, <1>13, <2>5, <3>1, SourceFacts DEF Ended
    <3>2. CASE Onward(q, held.stage, u, X) \/ Waits(u, X)
      BY <3>2 DEF Onward, Waits
    <3> QED BY <2>2, <3>1, <3>2
  <2>8. CompanionsWait(p, r, kind)
    BY <1>4, <1>5, <1>13, <2>6, <2>7 DEF CompanionsWait
  <2>9. CASE p # q
    <3>1. SameVisits(p) /\ \A x \in Stages : work[x] \subseteq work'[x]
      <4>1. CASE Onward(q, held.stage, u, X)
        BY <1>1, <1>10, <2>1, <2>9, <4>1, SubmitsAlive DEF Onward, SameVisits
      <4>2. CASE Ended(q, u, X) \/ Waits(u, X)
        BY <4>2 DEF Ended, Waits, SameVisits
      <4> QED BY <2>2, <4>1, <4>2
    <3>2. cfg'.pending[p] = cfg.pending[p]
      BY <1>4, <2>6, <2>9
    <3> QED BY <1>1, <1>10, <1>11, <2>4, <2>8, <3>1, <3>2, BystanderFlow
  <2>10. CASE p = q
    <3>1. cfg'.pending[p] = NoResult /\ Deferred(cfg, p) /\ held = cfg.pending[p]
      BY <1>3, <1>9, <1>15, <2>6, <2>10
    <3>2. ~Deferred(cfg, p)'
      BY <3>1 DEF Deferred
    <3>3. OutputMissing(p)'
      BY <1>11, <2>4 DEF FlowOf, OutputMissing
    <3>4. CASE Onward(q, held.stage, u, X)
      <4>1. Submit(p, held.stage + 1)
        BY <2>10, <3>4 DEF Onward
      <4> QED BY <1>1, <1>10, <1>11, <2>1, <2>4, <2>8, <2>10, <3>1, <3>2, <3>3, <4>1, OnwardFlow
    <3>5. CASE Waits(u, X) /\ ~held.complete
      <4>1. Owed(p, cfg.pending[p].stage)
        BY <2>4, <3>1, <3>5 DEF FlowOf, DeferralServed
      <4>2. DeferralServed(p)'
        BY <3>2 DEF DeferralServed
      <4>3. work' = work /\ visits' = visits
        BY <3>5 DEF Waits
      <4> QED BY <1>1, <1>10, <1>11, <2>4, <2>8, <3>3, <4>1, <4>2, <4>3, InPlaceFlow
    <3> QED BY <2>2, <2>5, <2>10, <3>4, <3>5
  <2> QED BY <2>9, <2>10
<1> QED BY <1>14, <1>15

(* A parent's result goes on to the next stage, or waits for companions.    *)
LEMMA ForwardOrDeferFlow ==
  ASSUME FlowHyp, Going, Going', NEW s \in Stages, NEW r \in Parents, NEW kind, Poll(s, r, kind),
         NEW complete \in BOOLEAN, complete <=> kind # "kv", NEW poll,
         ForwardOrDefer(r, s, complete, poll), r \in known, ~pipeline.chunked,
         s < FinalStage[r], ~NextSubmitted(r, s), handler' = handler, pipeline' = pipeline,
         \A p \in Parents \cap known' : p # r \/ kind = "kv" => finals'[p] = finals[p],
         r \in known' => /\ finals[r] \subseteq finals'[r] /\ finals'[r] \subseteq finals[r] \cup {s}
                         /\ kind # "kv" /\ s \in EmitStages => s \in finals'[r]
  PROVE  FlowsOn
<1>1. /\ BaseInv /\ OrchestratorTypeOK /\ cfg \in Tracker /\ OwnCompanions(cfg)
      /\ r \in Requests /\ r \notin Companions /\ VisitedInPlace /\ VisitsInOrder
      /\ FlowInv /\ VisitInv /\ RecordsAreVisits /\ router = Idle
      /\ cfg.map \in [Parents -> SUBSET Companions]
  BY SourceFacts, TrackerFields DEF FlowHyp, BaseInv, OrchestratorTypeOK, TrackerInPlace, Poll
<1>2. s + 1 \in Stages /\ visits[r][s] # 0 /\ FinalStage[r] \in Stages
  BY <1>1, StageFacts, PollFacts
<1>3. visits[r][s + 1] = 0
  BY <1>1, <1>2, RecordedVisits
<1>4. FinalStage[r] \notin finals[r] \cup {s}
  <2>1. FinalStage[r] \in Nat /\ s \in Nat
    BY <1>2, StageFacts
  <2>2. FinalStage[r] = s + 1 \/ s + 1 < FinalStage[r]
    BY <2>1
  <2>3. visits[r][FinalStage[r]] = 0
    BY <1>1, <1>2, <1>3, <2>2 DEF VisitsInOrder
  <2>4. FinalStage[r] \notin finals[r]
    BY <1>1, <1>2, <2>3 DEF RecordsAreVisits
  <2> QED BY <2>1, <2>4
<1>5. r \in known' => OutputMissing(r)'
  BY <1>4, FinalAssumption DEF OutputMissing
<1>6. \A p \in Parents : \A c \in cfg.map[p] : c # r /\ c \in Companions
  BY <1>1
<1> SUFFICES ASSUME NEW p \in Parents, p \in known', ~Cleaning(p)' PROVE FlowOf(p)'
  BY DEF FlowsOn
<1>7. p \in Requests /\ ~Cleaning(p)
  BY <1>1, PointFacts, SourceFacts DEF Cleaning
<1>8. CASE HasCompanions(cfg, r) /\ ~AllDone(cfg, r)
  <2>1. /\ cfg' = DeferParent(cfg, r, s, complete)
        /\ UNCHANGED <<known, router, work, visits>>
    BY <1>8 DEF ForwardOrDefer
  <2>2. FlowOf(p)
    BY <1>1, <1>7, <2>1 DEF FlowInv
  <2>3. /\ cfg'.map = cfg.map /\ cfg'.done = cfg.done
        /\ cfg'.pending = [cfg.pending EXCEPT ![r] = [stage |-> s, complete |-> complete]]
    BY <1>1, <2>1, DeferFacts
  <2>4. CompanionsWait(p, r, kind)
    BY <1>6, <2>1, <2>3 DEF CompanionsWait
  <2>5. CASE p # r
    <3>1. cfg'.pending[p] = cfg.pending[p]
      BY <1>1, <2>3, <2>5, TrackerFields
    <3> QED BY <1>1, <2>1, <2>2, <2>4, <2>5, <3>1, BystanderFlow DEF SameVisits
  <2>6. CASE p = r
    <3>1. cfg'.pending[p] = [stage |-> s, complete |-> complete]
      BY <1>1, <2>3, <2>6, TrackerFields
    <3>2. /\ cfg'.pending[p].stage = s /\ cfg'.pending[p].complete = complete /\ Deferred(cfg, p)'
      <4>1. [stage |-> s, complete |-> complete] \in Result
        BY DEF Result
      <4> QED BY <3>1, <4>1, TrackerAssumption DEF Deferred
    <3>3. Deferred(cfg, p) => cfg.pending[p].stage = s
      <4>1. SUFFICES ASSUME Deferred(cfg, p) PROVE cfg.pending[p].stage = s
        OBVIOUS
      <4>2. /\ cfg.pending[p].stage \in Stages /\ cfg.pending[p].stage + 1 \in Stages
            /\ visits[p][cfg.pending[p].stage] # 0
        BY <1>1, <4>1, DeferralFacts
      <4>3. visits[p][cfg.pending[p].stage + 1] = 0
        BY <2>2, <4>1 DEF FlowOf, DeferralServed
      <4> QED BY <1>1, <1>2, <1>3, <2>6, <4>2, <4>3, LastVisited
    <3>4. kind = "kv" => Owed(p, s)'
      <4>1. kind = "kv" => Owed(p, s)
        <5>1. kind = "kv" => HasKv(p, s)
          BY <1>1, <2>1, <2>6, PollOwed
        <5> QED BY <2>2, <5>1 DEF FlowOf, KvOwed
      <4>2. kind = "kv" => OwedStays(p, {})
        BY <1>1, <2>1, PollOwed
      <4> QED BY <4>1, <4>2 DEF OwedStays
    <3>5. DeferralServed(p)'
      BY <1>3, <2>1, <2>6, <3>2, <3>4 DEF DeferralServed
    <3> QED BY <1>1, <1>5, <2>1, <2>2, <2>4, <2>6, <3>2, <3>3, <3>5, InPlaceFlow
  <2> QED BY <2>5, <2>6
<1>9. CASE ~(HasCompanions(cfg, r) /\ ~AllDone(cfg, r))
  <2>1. Forward(r, s, cfg, complete, {}, poll)
    BY <1>9 DEF ForwardOrDefer
  <2>2. ~Deferred(cfg, r)
    BY <1>1, <1>9, DeferralFacts DEF HasCompanions
  <2>3. Onward(r, s, cfg, {}) \/ Ended(r, cfg, {}) \/ (Waits(cfg, {}) /\ ~complete)
    BY <1>1, <2>1, ForwardGoing
  <2>4. p \in known /\ FlowOf(p)
    BY <1>1, <1>7, <2>3 DEF FlowInv, Onward, Ended, Waits
  <2>5. Ended(r, cfg, {}) => p # r
    BY DEF Ended
  <2>6. /\ cfg'.map[p] = cfg.map[p] /\ cfg'.done[p] = cfg.done[p]
        /\ cfg'.pending[p] = cfg.pending[p]
    <3>1. CASE Ended(r, cfg, {})
      BY <1>1, <2>5, <3>1, TrackerFields DEF Ended
    <3>2. CASE Onward(r, s, cfg, {}) \/ Waits(cfg, {})
      BY <3>2 DEF Onward, Waits, SameLinks
    <3> QED BY <2>3, <3>1, <3>2
  <2>7. \A c \in cfg.map[p] : c \in known => c \in known'
    <3>1. CASE Ended(r, cfg, {})
      BY <1>1, <1>6, <2>5, <3>1 DEF Ended, OwnCompanions
    <3>2. CASE Onward(r, s, cfg, {}) \/ Waits(cfg, {})
      BY <3>2 DEF Onward, Waits
    <3> QED BY <2>3, <3>1, <3>2
  <2>8. CompanionsWait(p, r, kind)
    BY <1>6, <2>6, <2>7 DEF CompanionsWait
  <2>9. CASE p = r /\ Onward(r, s, cfg, {})
    <3>1. ~Deferred(cfg, p)'
      BY <2>2, <2>6, <2>9 DEF Deferred
    <3>2. Submit(p, s + 1)
      BY <2>9 DEF Onward
    <3>3. kind # "kv" \/ finals[p] \subseteq finals'[p]
      BY <2>9
    <3> QED BY <1>1, <1>5, <2>2, <2>4, <2>8, <2>9, <3>1, <3>2, OnwardFlow
  <2>10. CASE ~(p = r /\ Onward(r, s, cfg, {}))
    <3>1. p # r \/ kind = "kv"
      BY <2>3, <2>5, <2>10
    <3>2. SameVisits(p) /\ \A x \in Stages : work[x] \subseteq work'[x]
      <4>1. CASE Onward(r, s, cfg, {})
        BY <1>1, <1>2, <1>7, <2>10, <4>1, SubmitsAlive DEF Onward, SameVisits
      <4>2. CASE Ended(r, cfg, {}) \/ Waits(cfg, {})
        BY <4>2 DEF Ended, Waits, SameVisits
      <4> QED BY <2>3, <4>1, <4>2
    <3> QED BY <1>1, <2>4, <2>6, <2>8, <3>1, <3>2, BystanderFlow
  <2> QED BY <2>9, <2>10
<1> QED BY <1>8, <1>9

(* The KV of a request is ready.                                            *)
LEMMA KvReadyFlow ==
  ASSUME FlowHyp, Going, Going', NEW s \in Stages, NEW r \in Requests, KvReady(s, r)
  PROVE  FlowsOn
<1>1. /\ Poll(s, r, "kv") /\ ~pipeline.chunked /\ r \in known /\ finals' = Kept(finals)
      /\ handler' = handler /\ pipeline' = pipeline /\ BaseInv /\ FlowInv /\ cfg \in Tracker
  BY DEF KvReady, FlowHyp, BaseInv, OrchestratorTypeOK
<1>2. router = Idle
  BY <1>1 DEF Poll
<1>3. \A p \in Parents \cap known' : finals'[p] = finals[p]
  BY <1>1, SourceFacts DEF Kept
<1>4. CASE IsCompanion(cfg, r)
  <2>1. CompanionReady(r, cfg, {}, Guarded(s))
    BY <1>4 DEF KvReady
  <2>2. r \in Companions
    BY <1>1, <1>4, TrackerFields DEF IsCompanion
  <2> QED BY <1>1, <1>4, <2>1, <2>2, CompanionReadyFlow
<1>5. CASE ~IsCompanion(cfg, r) /\ s < FinalStageOf(r) /\ ~NextSubmitted(r, s)
  <2>1. ForwardOrDefer(r, s, FALSE, Guarded(s))
    BY <1>5 DEF KvReady
  <2>2. r \in Parents /\ s < FinalStage[r]
    BY <1>5, StageFacts DEF FinalStageOf
  <2> QED BY <1>1, <1>3, <1>5, <2>1, <2>2, ForwardOrDeferFlow
<1>6. CASE ~IsCompanion(cfg, r) /\ ~(s < FinalStageOf(r) /\ ~NextSubmitted(r, s))
  <2>1. UNCHANGED <<known, cfg, router, work, visits>>
    BY <1>6 DEF KvReady
  <2> SUFFICES ASSUME NEW p \in Parents, p \in known', ~Cleaning(p)' PROVE FlowOf(p)'
    BY DEF FlowsOn
  <2>2. FlowOf(p)
    BY <1>1, <2>1 DEF FlowInv, Cleaning
  <2>3. CompanionsWait(p, r, "kv")
    BY <2>1 DEF CompanionsWait
  <2> QED BY <1>1, <1>3, <2>1, <2>2, <2>3, BystanderFlow DEF SameVisits
<1> QED BY <1>4, <1>5, <1>6

(* A companion's last output.                                               *)
LEMMA CompanionFinishedFlow ==
  ASSUME FlowHyp, Going, Going', NEW s \in Stages, NEW r \in Requests, CompanionFinished(s, r)
  PROVE  FlowsOn
<1>1. /\ Poll(s, r, "fin") /\ IsCompanion(cfg, r) /\ finals' = Kept(finals) /\ cfg \in Tracker
      /\ handler' = handler /\ pipeline' = pipeline
      /\ CompanionReady(r, SetOutput(cfg, r), {r}, Unguarded(s))
  BY DEF CompanionFinished, FlowHyp, BaseInv, OrchestratorTypeOK
<1>2. r \in Companions
  BY <1>1, TrackerFields DEF IsCompanion
<1> DEFINE t == SetOutput(cfg, r)
<1>3. t \in Tracker /\ t.map = cfg.map /\ t.done = cfg.done /\ t.pending = cfg.pending
  BY <1>1, <1>2, SetOutputFacts
<1>4. CompanionReady(r, t, {r}, Unguarded(s))
  BY <1>1
<1> HIDE DEF t
<1> QED BY <1>1, <1>2, <1>3, <1>4, CompanionReadyFlow

(* The last output of a stage.                                              *)
LEMMA RequestFinishedFlow ==
  ASSUME FlowHyp, Going, Going', NEW s \in Stages, NEW r \in Requests, RequestFinished(s, r)
  PROVE  FlowsOn
<1> DEFINE reached == IF s \in EmitStages THEN finals[r] \cup {s} ELSE finals[r]
           complete == s \in EmitStages /\ FinalOutputsOf(r) \subseteq reached
           onward == s < FinalStageOf(r) /\ ~pipeline.chunked /\ ~NextSubmitted(r, s)
<1>1. /\ Poll(s, r, "fin") /\ r \in known /\ ~IsCompanion(cfg, r)
      /\ finals' = Kept([finals EXCEPT ![r] = reached])
      /\ handler' = handler /\ pipeline' = pipeline
      /\ onward => ForwardOrDefer(r, s, TRUE, Unguarded(s))
      /\ ~onward /\ complete =>
           /\ Release(IF r \in Parents THEN Family(cfg, r) ELSE {r})
           /\ cfg' = IF r \in Parents THEN CleanupParent(cfg, r) ELSE cfg
           /\ UNCHANGED <<router, work, visits>>
      /\ ~onward /\ ~complete => UNCHANGED <<known, cfg, router, work, visits>>
  BY DEF RequestFinished
<1>2. /\ BaseInv /\ OrchestratorTypeOK /\ FlowInv /\ cfg \in Tracker /\ OwnCompanions(cfg)
      /\ finals \in [Requests -> SUBSET Stages] /\ router = Idle /\ VisitInv /\ RecordsAreVisits
      /\ cfg.map \in [Parents -> SUBSET Companions]
  BY <1>1, TrackerFields DEF FlowHyp, BaseInv, OrchestratorTypeOK, TrackerInPlace, Poll
<1>3. /\ finals[r] \subseteq reached /\ reached \subseteq finals[r] \cup {s}
      /\ s \in EmitStages => s \in reached
      /\ s \notin EmitStages => reached = finals[r]
  OBVIOUS
<1> HIDE DEF reached
<1>4. \A p \in Requests \cap known' : finals'[p] = IF p = r THEN reached ELSE finals[p]
  BY <1>1, <1>2 DEF Kept
<1>5. \A p \in Parents : p \in Requests /\ p \notin Companions
  BY SourceFacts
<1>6. CASE onward
  <2>1. r \in Parents /\ s < FinalStage[r] /\ ~pipeline.chunked /\ ~NextSubmitted(r, s)
    BY <1>6, StageFacts DEF FinalStageOf
  <2>2. ForwardOrDefer(r, s, TRUE, Unguarded(s))
    BY <1>1, <1>6
  <2>3. \A p \in Parents \cap known' : p # r \/ "fin" = "kv" => finals'[p] = finals[p]
    BY <1>4, <1>5
  <2>4. r \in known' => /\ finals[r] \subseteq finals'[r] /\ finals'[r] \subseteq finals[r] \cup {s}
                        /\ "fin" # "kv" /\ s \in EmitStages => s \in finals'[r]
    BY <1>3, <1>4
  <2>5. Poll(s, r, "fin") /\ r \in known /\ handler' = handler /\ pipeline' = pipeline
    BY <1>1
  <2>6. TRUE <=> "fin" # "kv"
    OBVIOUS
  <2> HIDE DEF onward, complete
  <2> QED BY <2>1, <2>2, <2>3, <2>4, <2>5, <2>6, ForwardOrDeferFlow
<1>7. CASE ~onward
  <2> SUFFICES ASSUME NEW p \in Parents, p \in known', ~Cleaning(p)' PROVE FlowOf(p)'
    BY DEF FlowsOn
  <2>1. UNCHANGED <<router, work, visits>>
    BY <1>1, <1>7
  <2>2. ~Cleaning(p) /\ p \in Requests
    BY <1>1, <1>5, <2>1 DEF Cleaning
  <2>3. \A c \in cfg.map[p] : c # r
    BY <1>1 DEF IsCompanion
  <2>4. CASE complete /\ r \in Parents
    <3>1. known' = known \ ({r} \cup cfg.map[r]) /\ cfg' = CleanupParent(cfg, r)
      BY <1>1, <1>7, <2>4 DEF Release, Family
    <3>2. p \in known /\ p # r /\ FlowOf(p)
      BY <1>2, <2>2, <3>1 DEF FlowInv
    <3>3. /\ cfg'.map = [cfg.map EXCEPT ![r] = {}] /\ cfg'.done = [cfg.done EXCEPT ![r] = {}]
          /\ cfg'.pending = [cfg.pending EXCEPT ![r] = NoResult]
      BY <1>2, <2>4, <3>1, CleanupFacts
    <3>4. cfg'.map[p] = cfg.map[p] /\ cfg'.done[p] = cfg.done[p] /\ cfg'.pending[p] = cfg.pending[p]
      BY <1>2, <3>2, <3>3, TrackerFields
    <3>5. \A c \in cfg.map[p] : c \in known => c \in known'
      BY <1>2, <1>5, <2>4, <3>1, <3>2 DEF OwnCompanions
    <3>6. CompanionsWait(p, r, "fin")
      BY <2>3, <3>4, <3>5 DEF CompanionsWait
    <3>7. finals'[p] = finals[p]
      BY <1>4, <2>2, <3>2
    <3> HIDE DEF onward, complete
    <3> QED BY <1>1, <1>2, <2>1, <3>2, <3>4, <3>6, <3>7, BystanderFlow DEF SameVisits
  <2>5. CASE ~(complete /\ r \in Parents)
    <3>1. /\ cfg' = cfg /\ \A q \in Requests : q \in known /\ q # r => q \in known'
          /\ known' \subseteq known
      BY <1>1, <1>7, <2>5 DEF Release
    <3>2. p \in known /\ FlowOf(p)
      BY <1>2, <2>2, <3>1 DEF FlowInv
    <3>3. CompanionsWait(p, r, "fin")
      <4>1. \A c \in cfg.map[p] : c \in Requests
        BY <1>2, SourceFacts
      <4> QED BY <2>3, <3>1, <4>1 DEF CompanionsWait
    <3>4. CASE p # r
      <4>1. finals'[p] = finals[p]
        BY <1>4, <2>2, <3>4
      <4> HIDE DEF onward, complete
      <4> QED BY <1>1, <1>2, <2>1, <3>1, <3>2, <3>3, <3>4, <4>1, BystanderFlow DEF SameVisits
    <3>5. CASE p = r
      <4>1. ~complete /\ finals'[p] = reached /\ r \in Parents
        BY <1>4, <2>2, <2>5, <3>5
      <4>2. s < FinalStage[p] /\ ~pipeline.chunked => NextSubmitted(p, s)
        BY <1>7, <3>5 DEF FinalStageOf
      <4>3. s < FinalStage[p] /\ ~pipeline.chunked => s + 1 \in Stages /\ visits[p][s + 1] # 0
        <5>1. s < FinalStage[p] => s + 1 \in Stages
          BY StageFacts
        <5> QED BY <1>2, <3>2, <4>2, <5>1, RecordedVisits
      <4>4. OutputMissing(p)'
        <5>1. CASE s \in EmitStages
          <6>1. ~(FinalOutputs[p] \subseteq reached)
            BY <3>5, <4>1, <5>1 DEF FinalOutputsOf
          <6> QED BY <4>1, <6>1 DEF OutputMissing
        <5>2. CASE s \notin EmitStages
          BY <1>3, <3>2, <3>5, <4>1, <5>2 DEF FlowOf, OutputMissing
        <5> QED BY <5>1, <5>2
      <4> HIDE DEF onward, complete
      <4>5. Deferred(cfg, p) => cfg.pending[p].stage # s
        <5> SUFFICES ASSUME Deferred(cfg, p), cfg.pending[p].stage = s PROVE FALSE
          OBVIOUS
        <5>1. s < FinalStage[p] /\ ~pipeline.chunked
          BY <1>2, DeferralFacts
        <5> QED BY <3>2, <4>3, <5>1 DEF FlowOf, DeferralServed
      <4>6. DeferralServed(p)'
        <5> SUFFICES ASSUME Deferred(cfg, p), NEW x \in Stages, x = cfg.pending[p].stage
                     PROVE  visits[p][x + 1] = 0 /\ (cfg.pending[p].complete \/ Owed(p, x)')
          BY <1>2, <2>1, <3>1, DeferralFacts DEF DeferralServed, Deferred
        <5>1. OwedStays(p, {s})
          BY <1>1, <1>2, <2>1, PollOwed
        <5>2. x # s
          BY <4>5
        <5> QED BY <3>2, <5>1, <5>2 DEF FlowOf, DeferralServed, OwedStays
      <4>7. (Deferred(cfg, p)' /\ cfg'.pending[p].stage = cfg.pending[p].stage) \/ ~Deferred(cfg, p)
        BY <3>1 DEF Deferred
      <4>8. finals[p] \subseteq finals'[p] /\ (s \in EmitStages => s \in finals'[p])
        BY <1>3, <3>5, <4>1
      <4> QED BY <1>1, <1>2, <2>1, <3>2, <3>3, <4>3, <4>4, <4>6, <4>7, <4>8, InPlaceFlow
    <3> QED BY <3>4, <3>5
  <2> QED BY <2>4, <2>5
<1> QED BY <1>6, <1>7

(* Every step of the output loop's routing.                                 *)
LEMMA RouteFlow ==
  ASSUME FlowHyp, Going, Going', NEW s \in Stages, NEW r \in Requests, RouteStep(s, r)
  PROVE  FlowsOn
  BY KvReadyFlow, CompanionFinishedFlow, RequestFinishedFlow DEF RouteStep

(* Every step.                                                              *)
LEMMA FlowStep ==
  ASSUME FlowHyp, Next
  PROVE  FlowInv'
<1> SUFFICES ASSUME Going' PROVE FlowsOn
  BY DEF FlowInv, FlowsOn
<1>1. /\ BaseInv /\ LinkInv /\ FlowInv /\ RecordsAreVisits /\ Going /\ run' = "running"
      /\ ~Drain /\ \A s \in Stages : ~StageDead(s) /\ ~EngineDies(s)
      /\ ~RouterStops /\ ~Shutdown
  <2>1. BaseInv /\ LinkInv /\ FlowInv /\ RecordsAreVisits
    BY DEF FlowHyp
  <2> QED BY <2>1, GoingBack DEF Going
<1>2. ASSUME NEW p \in Parents, FrontSubmit(p) \/ FrontAbort(p) PROVE FlowsOn
  BY <1>1, <1>2, QuietFlow DEF FrontSubmit, FrontAbort
<1>3. FrontRpc \/ FrontShutdown => FlowsOn
  BY <1>1, QuietFlow DEF FrontRpc, FrontShutdown
<1>4. AddRequest \/ AddCompanion => FlowsOn
  <2>1. ParentEnters \/ CompanionEnters => FlowsOn
    BY <1>1, EnterFlow, SourceFacts DEF ParentEnters, CompanionEnters
  <2>2. UNCHANGED <<stateVars, pipeline, stageVars, visits, router, handler>> => FlowsOn
    BY <1>1, QuietFlow
  <2> QED BY <1>1, <2>1, <2>2, EnterFacts
<1>5. ASSUME HandlerSubmitted PROVE FlowsOn
  <2>1. CASE GoesAhead
    BY <1>1, <2>1, AheadFlow DEF GoesAhead
  <2>2. CASE ~GoesAhead
    <3>1. handler.at = "submit" /\ HandlerInPlace /\ OrchestratorTypeOK /\ handler \in Coroutine
      BY <1>1, <1>5 DEF HandlerSubmitted, BaseInv, OrchestratorTypeOK
    <3>2. PICK r \in Requests : handler.ids = {r}
      BY <3>1 DEF HandlerInPlace
    <3>3. (CHOOSE x \in handler.ids : TRUE) = r
      BY <3>2
    <3>4. ~(pipeline.chunked /\ r \in Parents /\ handler.stage + 1 <= FinalStage[r])
      <4> SUFFICES ASSUME pipeline.chunked, r \in Parents, handler.stage + 1 <= FinalStage[r]
                   PROVE  GoesAhead
        BY <2>2
      <4>1. handler.stage + 1 \in Stages
        <5>1. handler.stage \in Stages /\ FinalStage[r] \in Stages
          BY <3>1, StageFacts DEF Coroutine
        <5> QED BY <5>1, StageFacts
      <4>2. Ahead(r)
        BY <1>5, <3>1, <3>2, <3>3, <4>1 DEF HandlerSubmitted, Ahead
      <4> QED BY <4>2 DEF GoesAhead
    <3>5. /\ handler' = Idle
          /\ UNCHANGED <<known, finals, cfg, pipeline, stageVars, visits, router>>
      BY <1>5, <3>3, <3>4 DEF HandlerSubmitted, stageVars
    <3> QED BY <1>1, <3>1, <3>2, <3>4, <3>5, HandlerRests, PointFacts
  <2> QED BY <2>1, <2>2
<1>6. Rpc \/ RpcAnswered => FlowsOn
  <2>1. Rpc => handler.at = "idle"
    BY PointFacts DEF Rpc, Take
  <2> QED BY <1>1, <2>1, QuietFlow DEF Rpc, RpcAnswered
<1>7. Abort \/ HandlerAborted \/ RouterAborted => FlowsOn
  BY <1>1, SweepMoves, SweepFlow DEF Sweep
<1>8. HandlerStep => FlowsOn
  BY <1>1, <1>4, <1>5, <1>6, <1>7 DEF HandlerStep
<1>9. RouterSubmitted => FlowsOn
  BY <1>1, RecordedFacts, RecordedFlow DEF IsRecorded
<1>10. RouterStep => FlowsOn
  BY <1>1, <1>7, <1>9 DEF RouterStep
<1>11. ASSUME NEW s \in Stages, NEW r \in Requests,
              DropOutput(s, r) \/ RouteStep(s, r) \/ StageError(s, r) \/ EngineEnds(s, r)
       PROVE  FlowsOn
  <2>1. StageError(s, r) => FlowsOn
    BY <1>1, SweepMoves, SweepFlow DEF Sweep
  <2> QED BY <1>1, <1>11, <2>1, DropFlow, RouteFlow, EngineFlow
<1>12. ASSUME NEW r \in Requests, EngineKv(r) PROVE FlowsOn
  BY <1>1, <1>12, EngineFlow, StageFacts
<1>13. ~ShutdownStages
  BY <1>1 DEF ShutdownStages, Going
<1> QED BY <1>1, <1>2, <1>3, <1>8, <1>10, <1>11, <1>12, <1>13, StepForms

(* The forms of a step, when cleanups and routing are told apart.           *)
LEMMA SweepForms ==
  ASSUME BaseInv, Next
  PROVE  \/ Still \/ ParentEnters \/ CompanionEnters \/ GoesAhead \/ IsRecorded \/ Sweep
         \/ \E s \in Stages, r \in Requests : RouteStep(s, r)
         \/ Drain \/ \E s \in Stages : StageDead(s)
<1>1. \A s \in Stages : EngineDies(s) => Still
  BY StillFacts
<1>2. AddCompanion => CompanionEnters \/ Still
  <2>1. /\ work \in [Stages -> SUBSET Requests] /\ outs \in [Stages -> SUBSET Output]
        /\ stopping \in BOOLEAN /\ prefilled \subseteq Requests
    BY DEF BaseInv, OrchestratorTypeOK
  <2>2. AddCompanion => run # "drained"
    BY DEF AddCompanion, Take
  <2> QED BY <2>1, <2>2, EnterFacts DEF Still, stageVars, endVars
<1>3. HandlerStep => Still \/ ParentEnters \/ CompanionEnters \/ GoesAhead \/ Sweep
  BY <1>2, EnterFacts, AheadFacts, StillFacts DEF HandlerStep, Sweep
<1>4. RouterStep => Still \/ IsRecorded \/ Sweep
  BY RecordedFacts, StillFacts DEF RouterStep, Sweep
<1>5. \A s \in Stages, r \in Requests :
        /\ DropOutput(s, r) \/ EngineEnds(s, r) => Still
        /\ StageError(s, r) => Sweep
  BY StillFacts DEF Sweep
<1>6. /\ \A p \in Parents : FrontSubmit(p) \/ FrontAbort(p) => Still
      /\ FrontRpc \/ FrontShutdown \/ ShutdownStages => Still
      /\ \A r \in Requests : EngineKv(r) => Still
  BY StillFacts
<1> QED BY <1>1, <1>3, <1>4, <1>5, <1>6, StepForms

(* While the orchestrator goes on, it does not end and no stage is found dead. *)
LEMMA GoingForms ==
  ASSUME BaseInv, Next, Going'
  PROVE  \/ Still \/ ParentEnters \/ CompanionEnters \/ GoesAhead \/ IsRecorded \/ Sweep
         \/ \E s \in Stages, r \in Requests : RouteStep(s, r)
  BY SweepForms, GoingBack

(* The stage the output loop submits to counts as visited.                  *)
LEMMA RouterVisitedStep ==
  ASSUME BaseInv, RouterVisited, Next
  PROVE  RouterVisited'
<1>1. /\ OrchestratorTypeOK /\ visits \in [Requests -> [Stages -> Nat]] /\ router \in Coroutine
      /\ \A q \in Requests, x \in Stages : visits[q][x] # 0 => visits'[q][x] # 0
  BY VisitMoves DEF BaseInv, OrchestratorTypeOK
<1>2. router' = router => RouterVisited'
  BY <1>1 DEF RouterVisited, Coroutine
<1>3. router'.at # "submit" => RouterVisited'
  BY DEF RouterVisited
<1>4. ASSUME NEW p \in Parents, NEW s \in Stages, NEW X, Forwards(p, s, X) PROVE RouterVisited'
  <2>1. p \in Requests /\ s + 1 \in Stages
    BY <1>4, SourceFacts, StageFacts DEF Forwards
  <2>2. visits'[p][s + 1] = visits[p][s + 1] + 1 /\ visits[p][s + 1] \in Nat
    BY <1>1, <1>4, <2>1, SubmitOnce DEF Forwards, Submitted
  <2>3. router'.ids = {p} /\ router'.stage = s + 1
    BY <1>4 DEF Forwards, Submitting
  <2> QED BY <2>2, <2>3 DEF RouterVisited
<1>5. Routes => RouterVisited'
  <2>1. router' = Over => RouterVisited'
    BY <1>3, PointFacts
  <2> QED BY <1>2, <1>4, <2>1 DEF Routes, RouteMoves, Settles, Finishes, BreaksFatally, Breaks
<1>6. ASSUME RouterCleans PROVE RouterVisited'
  <2>1. router'.at # "submit"
    BY <1>1, <1>6, CleansFacts, PointFacts DEF RouterCleans, Cleaned
  <2> QED BY <1>3, <2>1
<1>7. Still \/ IsRecorded \/ Drain => RouterVisited'
  BY <1>2, <1>3, PointFacts DEF Still, IsRecorded, Recorded, Drain
<1>8. ParentEnters \/ CompanionEnters \/ GoesAhead \/ HandlerCleans => RouterVisited'
  BY <1>2 DEF ParentEnters, CompanionEnters, Enters, GoesAhead, Ahead, HandlerCleans
<1> QED BY <1>5, <1>6, <1>7, <1>8, Forms

(* A record is made of a submission, or of an output.                       *)
LEMMA RecordsStep ==
  ASSUME BaseInv, RouterVisited, LinkInv, RecordsAreVisits, Next
  PROVE  RecordsAreVisits'
<1> DEFINE G == \A r \in Requests, s \in Stages :
             s \in submitted'[r] \cup finals'[r] =>
               s \in submitted[r] \cup finals[r] \/ visits'[r][s] # 0
<1> SUFFICES ASSUME Going' PROVE G
  <2>1. Going' => Going
    BY GoingBack
  <2>2. \A q \in Requests, x \in Stages : visits[q][x] # 0 => visits'[q][x] # 0
    BY VisitMoves
  <2> QED BY <2>1, <2>2 DEF RecordsAreVisits
<1>1. /\ OrchestratorTypeOK /\ VisitedInPlace /\ visits \in [Requests -> [Stages -> Nat]]
      /\ visits' \in [Requests -> [Stages -> Nat]]
      /\ submitted \in [Requests -> SUBSET Stages] /\ finals \in [Requests -> SUBSET Stages]
      /\ router \in Coroutine
      /\ run' = "running" /\ \A q \in Requests, x \in Stages : visits[q][x] # 0 => visits'[q][x] # 0
  BY VisitMoves, TypesKept DEF BaseInv, OrchestratorTypeOK, Going
<1>2. \A f \in [Requests -> SUBSET Stages] : \A r \in Requests : Kept(f)[r] \subseteq f[r]
  BY KeptFacts
<1>3. submitted' \in {submitted, Kept(submitted)} /\ finals' \in {finals, Kept(finals)} => G
  BY <1>1, <1>2
<1>4. ASSUME NEW r \in Requests, NEW s \in Stages, Submit(r, s)
      PROVE  visits'[r][s] # 0
  BY <1>1, <1>4, SubmitOnce DEF Submitted
<1>5. ASSUME NEW r \in Requests, Enters(r) PROVE G
  <2>1. Submit(r, 0) /\ 0 \in Stages
    BY <1>1, <1>5, StageFacts DEF Enters, Fail
  <2>2. submitted' = [submitted EXCEPT ![r] = {0}] /\ finals' = finals
    BY <1>5 DEF Enters
  <2>3. visits'[r][0] # 0
    BY <1>4, <2>1
  <2> QED BY <1>1, <2>1, <2>2, <2>3
<1>6. ParentEnters \/ CompanionEnters => G
  BY <1>5, SourceFacts DEF ParentEnters, CompanionEnters
<1>7. ASSUME NEW p \in Parents, Ahead(p) PROVE G
  <2> DEFINE n == handler.stage + 1
  <2>1. n \in Stages /\ Submit(p, n) /\ finals' = finals /\ p \in Requests
    BY <1>1, <1>7, SourceFacts DEF Ahead, Fail
  <2>2. submitted' \in {submitted, [submitted EXCEPT ![p] = @ \cup {n}]}
    BY <1>7 DEF Ahead
  <2> HIDE DEF n
  <2>3. visits'[p][n] # 0
    BY <1>4, <2>1
  <2> QED BY <1>1, <2>1, <2>2, <2>3
<1>8. ASSUME NEW p \in Parents, Recorded(p) PROVE G
  <2> DEFINE n == router.stage
             f == [submitted EXCEPT ![p] = @ \cup {n}]
  <2>1. n \in Stages /\ p \in Requests /\ visits'[p][n] # 0
    BY <1>1, <1>8, SourceFacts DEF Recorded, RouterVisited, Coroutine
  <2>2. f \in [Requests -> SUBSET Stages]
    BY <1>1, <2>1
  <2>3. submitted' = Kept(f) /\ finals' = Kept(finals)
    BY <1>8 DEF Recorded
  <2>4. \A r \in Requests : Kept(f)[r] \subseteq f[r] /\ Kept(finals)[r] \subseteq finals[r]
    BY <1>1, <1>2, <2>2
  <2>5. \A r \in Requests, s \in Stages : s \in f[r] => s \in submitted[r] \/ (r = p /\ s = n)
    BY <1>1
  <2> HIDE DEF f, n
  <2> QED BY <2>1, <2>3, <2>4, <2>5
<1>9. Still => G
  BY <1>3 DEF Still, stateVars
<1>10. Sweep => G
  <2>1. Sweep => submitted' = Kept(submitted) /\ finals' = Kept(finals)
    BY SweepMoves DEF Sweep, SweepMove
  <2> QED BY <1>3, <2>1
<1>11. ASSUME NEW s \in Stages, NEW r \in Requests, RouteStep(s, r) PROVE G
  <2>1. CASE KvReady(s, r) \/ CompanionFinished(s, r)
    BY <1>3, <2>1 DEF KvReady, CompanionFinished
  <2>2. CASE RequestFinished(s, r)
    <3> DEFINE reached == IF s \in EmitStages THEN finals[r] \cup {s} ELSE finals[r]
               f == [finals EXCEPT ![r] = reached]
    <3>1. /\ submitted' = Kept(submitted) /\ finals' = Kept(f) /\ Poll(s, r, "fin")
      BY <2>2 DEF RequestFinished
    <3>2. visits'[r][s] # 0
      BY <1>1, <3>1, PollFacts
    <3>3. f \in [Requests -> SUBSET Stages]
      BY <1>1
    <3>4. \A q \in Requests : Kept(f)[q] \subseteq f[q] /\ Kept(submitted)[q] \subseteq submitted[q]
      BY <1>1, <1>2, <3>3
    <3>5. \A q \in Requests, x \in Stages : x \in f[q] => x \in finals[q] \/ (q = r /\ x = s)
      BY <1>1
    <3> HIDE DEF f, reached
    <3> QED BY <3>1, <3>2, <3>4, <3>5
  <2> QED BY <1>11, <2>1, <2>2 DEF RouteStep
<1> QED BY <1>6, <1>7, <1>8, <1>9, <1>10, <1>11, GoingForms DEF GoesAhead, IsRecorded

(* What the tracker learns of a family, nobody has in hand.                 *)
LEMMA LinksStay ==
  ASSUME BaseInv, Next, NEW q \in Parents, NEW c \in cfg'.map[q]
  PROVE  \/ c \in cfg.map[q]
         \/ c \notin handler.ids /\ c \notin router.ids /\ visits[c][0] = 0
<1>1. \/ cfg'.map[q] \subseteq cfg.map[q]
      \/ \A x \in cfg'.map[q] \ cfg.map[q] : Taken(x)
  BY TrackerMoves
<1>2. cfg'.map[q] \subseteq Requests
  <2>1. cfg' \in Tracker
    BY TypesKept DEF OrchestratorTypeOK
  <2> QED BY <2>1, TrackerFields, SourceFacts
<1>3. c \in Requests /\ Fresh(c) =>
        c \notin handler.ids /\ c \notin router.ids /\ visits[c][0] = 0
  BY StageFacts DEF BaseInv, FreshUnused
<1> QED BY <1>1, <1>2, <1>3 DEF Taken

(* A companion whose parent is submitted in its name is done.               *)
LEMMA CompanionReadyAfter ==
  ASSUME BaseInv, Going, Going', NEW r \in Companions, IsCompanion(cfg, r), visits'[r][0] # 0,
         router = Idle, NEW t \in Tracker,
         t.map = cfg.map, t.done = cfg.done, t.pending = cfg.pending,
         NEW X \in SUBSET {r}, NEW poll, CompanionReady(r, t, X, poll)
  PROVE  AfterDone'
<1> DEFINE q == ParentOf[r]
           u == AfterCompletion(t, r)
           held == CompanionDone(t, r).pending[q]
           moves == Releases(t, r) /\ q \in known /\ ~NextSubmitted(q, held.stage)
<1>1. /\ BaseInv /\ cfg \in Tracker /\ OwnCompanions(cfg) /\ q \in Parents /\ q \in Requests
  BY SourceFacts DEF BaseInv, OrchestratorTypeOK, TrackerInPlace
<1>2. \A p \in Parents : r \in cfg.map[p] => p = q
  BY <1>1 DEF OwnCompanions
<1>3. held = cfg.pending[q]
  BY DoneFacts
<1>4. u \in Tracker /\ u.map = cfg.map
  BY CompletionFacts
<1>5. r \in u.done[q]
  <2>1. IsCompanion(t, r)
    BY DEF IsCompanion
  <2> DEFINE v == CompanionDone(t, r)
  <2>2. v \in Tracker /\ v.done = [t.done EXCEPT ![q] = @ \cup {r}]
    BY <2>1, DoneFacts
  <2>3. r \in v.done[q]
    BY <1>1, <2>2, TrackerFields
  <2> HIDE DEF v, q
  <2>4. PopPending(v, q).done = v.done
    BY <1>1, <2>2, PopPendingFacts
  <2> QED BY <2>2, <2>3, <2>4 DEF AfterCompletion, v, q
<1>6. moves => Deferred(cfg, q)
  BY DEF Releases, Deferred
<1>7. moves => Forward(q, held.stage, u, held.complete, X, poll)
  BY DEF CompanionReady, AfterCompletion
<1>8. ~moves => router' = router
  BY DEF CompanionReady
<1> HIDE DEF u, held, moves, q
<1>9. router'.at # "submit" => AfterDone'
  BY DEF AfterDone
<1>10. CASE ~moves
  BY <1>8, <1>9, <1>10, PointFacts
<1>11. CASE moves
  <2>1. held.stage \in Stages /\ held.stage < FinalStage[q]
    BY <1>1, <1>3, <1>6, <1>11, DeferralFacts
  <2>2. Onward(q, held.stage, u, X) \/ Ended(q, u, X) \/ Waits(u, X)
    BY <1>1, <1>4, <1>7, <1>11, <2>1, ForwardGoing
  <2>3. Ended(q, u, X) \/ Waits(u, X) => router'.at # "submit"
    BY PointFacts DEF Ended, Waits
  <2>4. ASSUME Onward(q, held.stage, u, X) PROVE AfterDone'
    <3>1. router'.after = X /\ cfg'.map = cfg.map /\ r \in cfg'.done[q]
      BY <1>4, <1>5, <2>4 DEF Onward, SameLinks, Submitting
    <3> QED BY <1>2, <3>1 DEF AfterDone
  <2> QED BY <1>9, <2>2, <2>3, <2>4
<1> QED BY <1>10, <1>11

(* A parent that is submitted for itself takes nobody with it.              *)
LEMMA ForwardOrDeferAfter ==
  ASSUME BaseInv, Going, Going', router = Idle, NEW p \in Parents, NEW s \in Stages,
         NEW complete, NEW poll, s < FinalStage[p], ForwardOrDefer(p, s, complete, poll)
  PROVE  AfterDone'
<1>1. router'.at # "submit" \/ router'.after = {} => AfterDone'
  BY DEF AfterDone
<1>2. CASE HasCompanions(cfg, p) /\ ~AllDone(cfg, p)
  BY <1>1, <1>2, PointFacts DEF ForwardOrDefer
<1>3. CASE ~(HasCompanions(cfg, p) /\ ~AllDone(cfg, p))
  <2>1. Forward(p, s, cfg, complete, {}, poll)
    BY <1>3 DEF ForwardOrDefer
  <2>2. cfg \in Tracker
    BY DEF BaseInv, OrchestratorTypeOK
  <2>3. Onward(p, s, cfg, {}) \/ Ended(p, cfg, {}) \/ Waits(cfg, {})
    BY <2>1, <2>2, ForwardGoing
  <2>4. Ended(p, cfg, {}) \/ Waits(cfg, {}) => router'.at # "submit"
    BY PointFacts DEF Ended, Waits
  <2>5. Onward(p, s, cfg, {}) => router'.after = {}
    BY DEF Onward, Submitting
  <2> QED BY <1>1, <2>3, <2>4, <2>5
<1> QED BY <1>2, <1>3

(* Whom the output loop will release, after it has routed an output.        *)
LEMMA RouteAfter ==
  ASSUME BaseInv, Next, Going, Going', NEW s \in Stages, NEW r \in Requests, RouteStep(s, r)
  PROVE  AfterDone'
<1>1. /\ OrchestratorTypeOK /\ VisitedInPlace /\ router = Idle /\ cfg \in Tracker
      /\ OwnCompanions(cfg)
  BY DEF BaseInv, OrchestratorTypeOK, TrackerInPlace, RouteStep, KvReady, CompanionFinished,
         RequestFinished, Poll
<1>2. ASSUME IsCompanion(cfg, r), NEW kind, Poll(s, r, kind)
      PROVE  r \in Companions /\ visits'[r][0] # 0
  <2>1. r \in Companions
    BY <1>1, <1>2, TrackerFields DEF IsCompanion
  <2>2. visits[r][s] # 0
    BY <1>1, <1>2, PollFacts
  <2>3. s = 0
    BY <1>1, <2>1, <2>2 DEF VisitedInPlace
  <2> QED BY <2>1, <2>2, <2>3, VisitMoves
<1>4. router' = router => AfterDone'
  BY <1>1, PointFacts DEF AfterDone
<1>5. s < FinalStageOf(r) => r \in Parents /\ s < FinalStage[r]
  BY StageFacts DEF FinalStageOf
<1>6. CASE KvReady(s, r)
  <2>1. CASE IsCompanion(cfg, r)
    <3>1. CompanionReady(r, cfg, {}, Guarded(s)) /\ Poll(s, r, "kv")
      BY <1>6, <2>1 DEF KvReady
    <3>2. r \in Companions /\ visits'[r][0] # 0
      BY <1>2, <2>1, <3>1
    <3>3. {} \in SUBSET {r}
      OBVIOUS
    <3> QED BY <1>1, <2>1, <3>1, <3>2, <3>3, CompanionReadyAfter
  <2>2. CASE ~IsCompanion(cfg, r) /\ s < FinalStageOf(r) /\ ~NextSubmitted(r, s)
    <3>1. ForwardOrDefer(r, s, FALSE, Guarded(s)) /\ r \in Parents /\ s < FinalStage[r]
      BY <1>5, <1>6, <2>2 DEF KvReady
    <3> QED BY <1>1, <3>1, ForwardOrDeferAfter
  <2>3. CASE ~IsCompanion(cfg, r) /\ ~(s < FinalStageOf(r) /\ ~NextSubmitted(r, s))
    BY <1>4, <1>6, <2>3 DEF KvReady
  <2> QED BY <2>1, <2>2, <2>3
<1>7. CASE CompanionFinished(s, r)
  <2>1. CompanionReady(r, SetOutput(cfg, r), {r}, Unguarded(s)) /\ Poll(s, r, "fin")
        /\ IsCompanion(cfg, r)
    BY <1>7 DEF CompanionFinished
  <2>2. r \in Companions /\ visits'[r][0] # 0
    BY <1>2, <2>1
  <2> DEFINE t == SetOutput(cfg, r)
  <2>3. t \in Tracker /\ t.map = cfg.map /\ t.done = cfg.done /\ t.pending = cfg.pending
    BY <1>1, <2>2, SetOutputFacts
  <2>4. {r} \in SUBSET {r} /\ CompanionReady(r, t, {r}, Unguarded(s))
    BY <2>1
  <2> HIDE DEF t
  <2> QED BY <1>1, <2>1, <2>2, <2>3, <2>4, CompanionReadyAfter
<1>8. CASE RequestFinished(s, r)
  <2>1. CASE s < FinalStageOf(r) /\ ~pipeline.chunked /\ ~NextSubmitted(r, s)
    <3>1. ForwardOrDefer(r, s, TRUE, Unguarded(s)) /\ r \in Parents /\ s < FinalStage[r]
      BY <1>5, <1>8, <2>1 DEF RequestFinished
    <3> QED BY <1>1, <3>1, ForwardOrDeferAfter
  <2>2. CASE ~(s < FinalStageOf(r) /\ ~pipeline.chunked /\ ~NextSubmitted(r, s))
    BY <1>4, <1>8, <2>2 DEF RequestFinished
  <2> QED BY <2>1, <2>2
<1> QED BY <1>6, <1>7, <1>8 DEF RouteStep

(* What a cleanup and the output loop have in hand stays apart.             *)
LEMMA LinkStep ==
  ASSUME BaseInv, LinkInv, Next
  PROVE  LinkInv'
<1>1. /\ OrchestratorTypeOK /\ visits' \in [Requests -> [Stages -> Nat]]
      /\ cfg.map \in [Parents -> SUBSET Companions] /\ router \in Coroutine
      /\ \A q \in Requests, x \in Stages : visits[q][x] # 0 => visits'[q][x] # 0
  BY VisitMoves, TypesKept, TrackerFields DEF BaseInv, OrchestratorTypeOK
<1>2. \A q \in Parents : \A c \in cfg'.map[q] :
        \/ c \in cfg.map[q]
        \/ c \notin handler.ids /\ c \notin router.ids /\ visits[c][0] = 0
  BY LinksStay
<1>3. ASSUME NEW co \in {handler, router}, co.at = "cleanup"
      PROVE  \A q \in Parents : cfg'.map[q] \cap co.ids = {}
  BY <1>2, <1>3 DEF LinkInv, Unlinked
<1>4. handler' = handler \/ handler'.at # "cleanup" => Unlinked(handler)'
  BY <1>3 DEF Unlinked
<1>5. router' = router \/ router'.at # "cleanup" => Unlinked(router)'
  BY <1>3 DEF Unlinked
<1>6. Sweep => Unlinked(handler)' /\ Unlinked(router)'
  <2>1. ASSUME NEW ids, NEW next, SweepMove(ids, next) PROVE Unlinked(handler)' /\ Unlinked(router)'
    <3>1. next.at = "cleanup" => \A q \in Parents : cfg'.map[q] \cap next.ids = {}
      BY <2>1 DEF SweepMove, Sweeps
    <3>2. handler' \in {handler, next} /\ router' \in {router, next}
      BY <2>1 DEF SweepMove
    <3>3. handler' = next => Unlinked(handler)'
      BY <3>1 DEF Unlinked
    <3>4. router' = next => Unlinked(router)'
      BY <3>1 DEF Unlinked
    <3> QED BY <1>4, <1>5, <3>2, <3>3, <3>4
  <2> QED BY <2>1, SweepMoves DEF Sweep
<1>7. ASSUME Going, Going', router' = router,
             \A q \in Parents : cfg'.map[q] = {} \/ cfg.done[q] \subseteq cfg'.done[q]
      PROVE  AfterDone'
  <2> SUFFICES ASSUME router.at = "submit", NEW c \in router.after
               PROVE  /\ visits'[c][0] # 0
                      /\ \A q \in Parents : c \in cfg'.map[q] => c \in cfg'.done[q]
    BY <1>7 DEF AfterDone
  <2>1. /\ visits[c][0] # 0 /\ \A q \in Parents : c \in cfg.map[q] => c \in cfg.done[q]
    BY <1>7 DEF LinkInv, AfterDone
  <2>2. c \in Requests
    BY <1>1 DEF Coroutine
  <2>3. visits'[c][0] # 0
    BY <1>1, <2>1, <2>2, StageFacts
  <2>4. \A q \in Parents : c \in cfg'.map[q] => c \in cfg.map[q]
    BY <1>2, <2>1
  <2> QED BY <1>7, <2>1, <2>3, <2>4
<1>8. AfterDone'
  <2> SUFFICES ASSUME Going' PROVE AfterDone'
    BY DEF AfterDone
  <2>1. Going
    BY GoingBack
  <2>2. router'.at # "submit" => AfterDone'
    BY DEF AfterDone
  <2>3. ParentEnters \/ GoesAhead => AfterDone'
    <3>1. ParentEnters \/ GoesAhead => router' = router /\ cfg' = cfg
      BY DEF ParentEnters, Enters, GoesAhead, Ahead
    <3> QED BY <1>7, <2>1, <3>1
  <2>4. Still => AfterDone'
    <3>1. Still => cfg' = cfg /\ (router' = router \/ router' = Over)
      BY DEF Still, stateVars
    <3> QED BY <1>7, <2>1, <2>2, <3>1, PointFacts
  <2>5. ASSUME CompanionEnters PROVE AfterDone'
    <3>1. PICK c \in Companions : Enters(c) /\ cfg' = RegisterCompanion(cfg, c)
      BY <2>5 DEF CompanionEnters
    <3>2. cfg \in Tracker
      BY <1>1 DEF OrchestratorTypeOK
    <3>3. router' = router /\ cfg'.done = cfg.done
      BY <3>1, <3>2, RegisterFacts DEF Enters
    <3> QED BY <1>7, <2>1, <3>3
  <2>6. Sweep => AfterDone'
    <3>1. ASSUME NEW ids, NEW next, SweepMove(ids, next) PROVE AfterDone'
      <4>1. \A q \in Parents : cfg'.map[q] = {} \/ cfg.done[q] \subseteq cfg'.done[q]
        BY <3>1 DEF SweepMove, SameFamily
      <4>2. router' = router \/ router'.at # "submit"
        BY <3>1 DEF SweepMove, Sweeps
      <4> QED BY <1>7, <2>1, <2>2, <4>1, <4>2
    <3> QED BY <3>1, SweepMoves DEF Sweep
  <2>7. IsRecorded => AfterDone'
    BY <2>2, PointFacts DEF IsRecorded, Recorded
  <2> QED BY <2>1, <2>3, <2>4, <2>5, <2>6, <2>7, RouteAfter, GoingForms
<1>9. Routes => Unlinked(handler)' /\ Unlinked(router)'
  <2>1. RouteMoves => router' = router \/ router'.at # "cleanup"
    BY PointFacts DEF RouteMoves, Settles, Forwards, Finishes, BreaksFatally, Breaks, Submitting
  <2> QED BY <1>4, <1>5, <2>1 DEF Routes, RouteStays
<1>10. ParentEnters \/ CompanionEnters \/ GoesAhead => Unlinked(handler)' /\ Unlinked(router)'
  <2>1. \A r, s : Submitting(r, s, {}).at # "cleanup"
    BY DEF Submitting
  <2> QED BY <1>4, <1>5, <2>1, PointFacts
          DEF ParentEnters, CompanionEnters, Enters, GoesAhead, Ahead
<1>11. Still \/ IsRecorded \/ Drain => Unlinked(handler)' /\ Unlinked(router)'
  <2>1. [Idle EXCEPT !.at = "rpc"].at # "cleanup"
    BY DEF Idle
  <2> QED BY <1>4, <1>5, <2>1, PointFacts DEF Still, IsRecorded, Recorded, Drain
<1>12. \A s \in Stages, r \in Requests : RouteStep(s, r) \/ StageDead(s) => Routes
  BY RouteFacts, StageDeadFacts DEF Routes
<1>13. \/ \E s \in Stages, r \in Requests : RouteStep(s, r)
       \/ \E s \in Stages : StageDead(s)
       => Routes
  BY <1>12, StageDeadFacts
<1> QED BY <1>6, <1>8, <1>9, <1>10, <1>11, <1>13, SweepForms DEF LinkInv

(* The invariant behind it, in every state.                                 *)
LEMMA FlowAlways == Spec => []FlowHyp
<1> DEFINE Own == LinkInv /\ RecordsAreVisits /\ RouterVisited /\ FlowInv
           Others == BaseInv /\ VisitInv /\ HandlerVisited /\ VisitsInOrder
<1>1. Init => Own
  <2> SUFFICES ASSUME Init PROVE Own
    OBVIOUS
  <2>1. handler.at = "idle" /\ router.at = "idle" /\ known = {}
    BY PointFacts DEF Init
  <2>2. \A r \in Requests : submitted[r] = {} /\ finals[r] = {}
    BY DEF Init
  <2> QED BY <2>1, <2>2
          DEF LinkInv, Unlinked, AfterDone, RecordsAreVisits, RouterVisited, FlowInv
<1>2. Own /\ Others /\ [Next]_vars => Own'
  <2>1. ASSUME Own, Others, Next PROVE Own'
    <3>1. FlowHyp
      BY <2>1 DEF FlowHyp
    <3> QED BY <2>1, <3>1, LinkStep, RecordsStep, RouterVisitedStep, FlowStep
  <2>2. ASSUME Own, UNCHANGED vars PROVE Own'
    <3>1. UNCHANGED <<known, submitted, finals, cfg, handler, router, stopping, run, pipeline,
                      work, outs, alive, visits>>
      BY <2>2 DEF vars, stateVars, endVars, stageVars
    <3>2. (Going' <=> Going) /\ (LinkInv' <=> LinkInv)
      BY <3>1 DEF Going, LinkInv, Unlinked, AfterDone
    <3>3. RecordsAreVisits' /\ RouterVisited'
      BY <2>2, <3>1, <3>2 DEF RecordsAreVisits, RouterVisited
    <3>4. /\ \A r, s : (Owed(r, s)' <=> Owed(r, s)) /\ (HasKv(r, s)' <=> HasKv(r, s))
          /\ \A p, s : AheadAt(p, s)' <=> AheadAt(p, s)
          /\ \A p \in Parents : /\ Cleaning(p)' <=> Cleaning(p)
                                /\ Deferred(cfg, p)' <=> Deferred(cfg, p)
      BY <3>1 DEF Owed, HasKv, AheadAt, Cleaning
    <3>5. \A p \in Parents : FlowOf(p) => FlowOf(p)'
      BY <3>1, <3>4
         DEF FlowOf, VisitsServed, StageServed, KvOwed, OutputMissing, CompanionsServed,
             DeferralServed
    <3> QED BY <2>2, <3>1, <3>2, <3>3, <3>4, <3>5 DEF FlowInv
  <2> QED BY <2>1, <2>2
<1>3. Own /\ Others => FlowHyp
  BY DEF FlowHyp
<1> QED BY <1>1, <1>2, <1>3, BaseAlways, VisitAlways, HandlerVisitedAlways, VisitsOrderAlways, PTL
        DEF Spec

(* The first stage that a parent which still misses an output has not visited
   follows one whose output was not enough to take it on. *)
LEMMA WaitsForSomething ==
  ASSUME FlowHyp, Going, NEW p \in Parents, p \in known, p \notin handler.ids \cup router.ids
  PROVE  \/ \E s \in Stages : Owed(p, s)
         \/ Deferred(cfg, p) /\ \E c \in cfg.map[p] \ cfg.done[p] : Owed(c, 0)
<1>1. BaseInv /\ ~Cleaning(p) /\ \A s \in Stages : ~AheadAt(p, s)
  BY DEF FlowHyp, Cleaning, AheadAt
<1>2. FlowOf(p)
  BY <1>1 DEF FlowHyp, FlowInv
<1> SUFFICES ASSUME \A s \in Stages : ~Owed(p, s)
             PROVE  Deferred(cfg, p) /\ \E c \in cfg.map[p] \ cfg.done[p] : Owed(c, 0)
  OBVIOUS
<1>3. PICK o \in FinalOutputs[p] : o \notin finals[p]
  BY <1>2 DEF FlowOf, OutputMissing
<1>4. o \in EmitStages /\ o \in Stages /\ o <= FinalStage[p]
  BY StagesAssumption, FinalAssumption
<1>5. visits[p][o] = 0
  BY <1>2, <1>4, <1>3 DEF FlowOf, VisitsServed, StageServed
<1> DEFINE unvisited == {s \in Stages : visits[p][s] = 0}
           n == First(unvisited)
<1>6. n \in Stages /\ visits[p][n] = 0 /\ n <= o /\ \A s \in Stages : visits[p][s] = 0 => n <= s
  <2>1. o \in unvisited /\ unvisited \in SUBSET Stages
    BY <1>4, <1>5
  <2> HIDE DEF unvisited
  <2>2. n \in unvisited /\ \A s \in unvisited : n <= s
    BY <2>1, FirstFacts
  <2> QED BY <2>1, <2>2 DEF unvisited
<1> HIDE DEF n, unvisited
<1>7. n # 0
  BY <1>2, <1>6 DEF FlowOf, VisitsServed
<1>8. PICK m \in Stages : n = m + 1
  <2>1. n \in 0 .. NumStages - 1 /\ NumStages \in Nat
    BY <1>6, StagesAssumption
  <2>2. n - 1 \in Stages /\ n = (n - 1) + 1
    BY <1>7, <2>1, StagesAssumption
  <2> QED BY <2>2
<1>9. m < FinalStage[p] /\ visits[p][m] # 0
  <2>1. m \in Nat /\ n \in Nat /\ o \in Nat /\ FinalStage[p] \in Nat
    BY <1>4, <1>6, StageFacts
  <2>2. m < n /\ m < FinalStage[p]
    BY <1>4, <1>6, <1>8, <2>1
  <2>3. ~(n <= m)
    BY <1>8, <2>1
  <2> QED BY <1>6, <2>2, <2>3
<1>10. StageServed(p, m) /\ ~Owed(p, m) /\ visits[p][m + 1] = 0
  BY <1>2, <1>6, <1>8, <1>9 DEF FlowOf, VisitsServed
<1>11. Deferred(cfg, p)
  BY <1>1, <1>9, <1>10 DEF StageServed
<1>12. PICK c \in cfg.map[p] : c \notin cfg.done[p]
  BY <1>1, <1>11, DeferralFacts DEF AllDone
<1>13. Owed(c, 0)
  BY <1>2, <1>12 DEF FlowOf, CompanionsServed
<1> QED BY <1>11, <1>12, <1>13

(* While the orchestrator and its stages live, no request it knows waits for
   nothing: between the handlers' waits no early return, no deferral and no
   cleanup of another family leaves one that nobody will ever answer. *)
THEOREM KnownAlwaysUnderWay == Spec => []KnownAreUnderWay
<1>1. FlowHyp => KnownAreUnderWay
  BY WaitsForSomething DEF KnownAreUnderWay, Going
<1> QED BY <1>1, FlowAlways, PTL
=============================================================================
