----------------------------- MODULE Orchestrator -----------------------------
(***************************************************************************)
(* The orchestrator (engine/orchestrator.py): requests walk through the    *)
(* stages of a pipeline.  Two coroutines of one event loop share its       *)
(* state: the request handler takes the frontend's messages one by one,    *)
(* the output loop polls the stages and routes what they produced.  Either *)
(* may be suspended while a submission or an abort is being sent to a      *)
(* stage, and the other runs meanwhile; between two such points a handler  *)
(* is atomic.  A step of this module is the code between two points.       *)
(*                                                                         *)
(* The stages' engines are the environment: one replica each, reached over *)
(* a FIFO, so that what a handler sends is seen in order although it waits *)
(* for the send.  Sessions that stream their input, prefill/decode pairs   *)
(* and distributed membership (DistributedPool) are left out.              *)
(***************************************************************************)
EXTENDS CfgCompanionTracker, Sequences, SequencesExt

CONSTANTS
  NumStages,
  Pipelines,     \* the deployments considered: [llm: the stages run by an LLM
                 \* engine (the others run diffusion), chunked: async_chunk]
  EmitStages,    \* the stages whose outputs go to the frontend (final_output)
  FinalStage,    \* [Parents -> Stages]: final_stage_id
  FinalOutputs,  \* [Parents -> SUBSET Stages]: final_output_stage_ids
  EarlyKv,       \* the requests whose KV may be reported ready before they end
  Fragile,       \* the stages whose engine may die
  Stoppable,     \* whether the frontend may shut the orchestrator down
  MaxUpsets      \* bound: aborts, RPCs, shutdowns and deaths in a behaviour

ASSUME StagesAssumption ==
  /\ NumStages \in Nat \ {0} /\ Stages = 0 .. NumStages - 1
  /\ Pipelines \subseteq [llm : SUBSET Stages, chunked : BOOLEAN]
  /\ EmitStages \subseteq Stages /\ Fragile \subseteq Stages /\ EarlyKv \subseteq Requests
  /\ Stoppable \in BOOLEAN /\ MaxUpsets \in Nat
ASSUME FinalAssumption ==
  /\ FinalStage \in [Parents -> Stages]
  /\ FinalOutputs \in [Parents -> SUBSET EmitStages]
  /\ \A p \in Parents : /\ FinalStage[p] \in FinalOutputs[p]
                        /\ \A s \in FinalOutputs[p] : s <= FinalStage[p]

VARIABLES
  sent,      \* the parents the frontend has submitted
  quit,      \* the parents it has given up
  closing,   \* AsyncOmniEngine's _shutdown_called
  late,      \* history: the parents submitted once run is "drained"
  upsets,    \* the aborts, RPCs, shutdowns and deaths so far
  queue,     \* request_async_queue: [type, req]
  told,      \* [Requests -> Nat]: terminal messages sent to the frontend
  known,     \* the keys of request_states
  submitted, \* [Requests -> SUBSET Stages]: stage_submit_ts
  finals,    \* [Requests -> SUBSET Stages]: finished_final_output_stage_ids
  cfg,       \* _cfg_tracker
  bound,     \* [Stages -> SUBSET Requests]: the pools' route bindings
  running,   \* _running_counter
  handler,   \* the request handler: where it is suspended
  router,    \* the output loop
  stopping,  \* _shutdown_event
  run,       \* run(): "running", "failing" once a task has raised, "drained" once its
             \* tasks are cancelled and the drain, if any, is over
  fatal,     \* _fatal_error is set
  pipeline,  \* the deployment
  work,      \* [Stages -> SUBSET Requests]: what the stage's engine works on
  outs,      \* [Stages -> SUBSET outputs]: produced, not yet polled
  prefilled, \* the requests whose KV was reported ready
  alive,     \* the stages whose engine lives
  visits,    \* history: [Requests -> [Stages -> Nat]], submissions
  aborted    \* history: the requests cleaned up with abort=True

frontVars == <<sent, quit, closing, late, upsets>>
stateVars == <<known, submitted, finals, cfg, bound, running>>
endVars == <<stopping, run, fatal>>
stageVars == <<work, outs, prefilled, alive>>
vars == <<frontVars, queue, told, stateVars, handler, router, endVars, pipeline,
          stageVars, visits, aborted>>

\* Where a coroutine is: waiting for a message or an output ("idle"), for the
\* submission of the one request in ids to a stage ("submit"), for an abort
\* sent to a stage ("cleanup"), for the answer to an RPC ("rpc"), or over.
\* after: what is released, without an abort, once a submission is sent.
Idle == [at |-> "idle", ids |-> {}, stage |-> 0, after |-> {}]
Over == [at |-> "over", ids |-> {}, stage |-> 0, after |-> {}]
Submitting(r, s, after) == [at |-> "submit", ids |-> {r}, stage |-> s, after |-> after]

LLM == pipeline.llm
Output == [req : Requests, kind : {"kv", "fin", "err"}]
FinalStageOf(r) == IF r \in Parents THEN FinalStage[r] ELSE 0
FinalOutputsOf(r) == IF r \in Parents THEN FinalOutputs[r] ELSE {0}
Family(t, p) == {p} \cup t.map[p]     \* [p, *cleanup_parent(p)]

Init ==
  /\ sent = {} /\ quit = {} /\ closing = FALSE /\ late = {} /\ upsets = 0
  /\ queue = << >>
  /\ told = [r \in Requests |-> 0]
  /\ known = {}
  /\ submitted = [r \in Requests |-> {}]
  /\ finals = [r \in Requests |-> {}]
  /\ cfg = EmptyTracker
  /\ bound = [s \in Stages |-> {}]
  /\ running = 0
  /\ handler = Idle /\ router = Idle
  /\ stopping = FALSE /\ run = "running" /\ fatal = FALSE
  /\ pipeline \in Pipelines
  /\ work = [s \in Stages |-> {}]
  /\ outs = [s \in Stages |-> {}]
  /\ prefilled = {}
  /\ alive = Stages
  /\ visits = [r \in Requests |-> [s \in Stages |-> 0]]
  /\ aborted = {}

-----------------------------------------------------------------------------
(* What the handlers are made of.                                          *)

\* The per-request state that dies with the request.
Kept(f) == [r \in Requests |-> IF r \in known' THEN f[r] ELSE {}]

\* A bug: the counter without its floor.
MutReleaseUnclamped(ids) ==
  /\ known' = known \ ids
  /\ bound' = [s \in Stages |-> bound[s] \ ids]
  /\ running' = running - Cardinality(known \cap ids)

\* _cleanup_request_ids without abort, and the end of it with: the bindings
\* and the logical state go, and the counter once per state that was there.
Release(ids) ==
  /\ known' = known \ ids
  /\ bound' = [s \in Stages |-> bound[s] \ ids]
  /\ LET left == Cardinality(known \cap ids)
     IN  running' = IF running > left THEN running - left ELSE 0

\* _abort_request_ids from stage k on: the pools without a bound id send
\* nothing; the first with one sends, and the caller waits.
MutToAbort(ids, k) == {s \in Stages : s > k /\ bound[s] \cap ids # {}}
ToAbort(ids, k) == {s \in Stages : s >= k /\ bound[s] \cap ids # {}}
First(S) == CHOOSE s \in S : \A x \in S : s <= x

CleanupPoint(ids, k) ==
  IF ToAbort(ids, k) = {} THEN Idle
  ELSE [at |-> "cleanup", ids |-> ids, stage |-> First(ToAbort(ids, k)), after |-> {}]

CleanupFrom(ids, k) ==
  IF ToAbort(ids, k) = {}
  THEN /\ Release(ids)
       /\ aborted' = aborted \cup (ids \cap known)
       /\ UNCHANGED work
  ELSE /\ LET s == First(ToAbort(ids, k))
          IN  work' = [work EXCEPT ![s] = @ \ (ids \cap bound[s])]
       /\ UNCHANGED <<known, bound, running, aborted>>

\* StagePool.submit_initial.  A stage that died unnoticed swallows the request;
\* one that is known to be dead raises EngineDeadError.
Submit(r, s) ==
  /\ bound' = [bound EXCEPT ![s] = @ \cup {r}]
  /\ work' = IF s \in alive THEN [work EXCEPT ![s] = @ \cup {r}] ELSE work
  /\ visits' = [visits EXCEPT ![r][s] = @ + 1]

\* An exception leaves a task: run()'s gather ends with it.
Fail == run' = "failing" /\ UNCHANGED fatal

-----------------------------------------------------------------------------
(* The frontend: it submits a prompt with its companions in one call, may  *)
(* give it up at any time, and makes control RPCs.                          *)

Message(type, r) == [type |-> type, req |-> r]
CompanionsOf(p) == {c \in Companions : ParentOf[c] = p}

Upset == upsets < MaxUpsets /\ upsets' = upsets + 1

\* add_request puts its message whatever has become of the orchestrator.
FrontSubmit(p) ==
  /\ p \notin sent
  /\ sent' = sent \cup {p}
  /\ late' = IF run = "drained" THEN late \cup {p} ELSE late
  /\ LET order == SetToSeq(CompanionsOf(p))
     IN  queue' = queue \o << Message("add", p) >>
                        \o [i \in DOMAIN order |-> Message("companion", order[i])]
  /\ UNCHANGED <<quit, closing, upsets, told, stateVars, handler, router, endVars, pipeline,
                 stageVars, visits, aborted>>

FrontAbort(p) ==
  /\ p \in sent \ quit /\ Upset
  /\ quit' = quit \cup {p}
  /\ queue' = Append(queue, Message("abort", p))
  /\ UNCHANGED <<sent, closing, late, told, stateVars, handler, router, endVars, pipeline,
                 stageVars, visits, aborted>>

FrontRpc ==
  /\ Upset
  /\ queue' = Append(queue, Message("rpc", NoResult))
  /\ UNCHANGED <<sent, quit, closing, late, told, stateVars, handler, router, endVars, pipeline,
                 stageVars, visits, aborted>>

FrontShutdown ==
  /\ Stoppable /\ ~closing /\ Upset
  /\ closing' = TRUE
  /\ queue' = Append(queue, Message("shutdown", NoResult))
  /\ UNCHANGED <<sent, quit, late, told, stateVars, handler, router, endVars, pipeline,
                 stageVars, visits, aborted>>

-----------------------------------------------------------------------------
(* The request handler.                                                    *)

Take(type) ==
  /\ handler = Idle /\ run # "drained"
  /\ queue # << >> /\ Head(queue).type = type
  /\ queue' = Tail(queue)

\* _handle_add_request up to the submission to stage 0.
AddRequest ==
  /\ Take("add")
  /\ LET p == Head(queue).req IN
       /\ known' = known \cup {p}
       /\ running' = running + 1
       /\ submitted' = [submitted EXCEPT ![p] = {0}]
       /\ \/ /\ Submit(p, 0)
             /\ handler' = Submitting(p, 0, {})
             /\ UNCHANGED <<run, fatal>>
          \/ /\ 0 \notin alive
             /\ handler' = Over
             /\ Fail
             /\ UNCHANGED <<bound, work, visits>>
  /\ UNCHANGED <<frontVars, told, finals, cfg, router, stopping, pipeline, outs,
                 prefilled, alive, aborted>>

\* _handle_add_companion: dropped when the parent is gone, otherwise tracked
\* and submitted to stage 0; no counter.
AddCompanion ==
  /\ Take("companion")
  /\ LET c == Head(queue).req IN
       \/ /\ ParentOf[c] \notin known
          /\ UNCHANGED <<known, submitted, cfg, bound, work, visits, handler, run, fatal>>
       \/ /\ ParentOf[c] \in known
          /\ cfg' = RegisterCompanion(cfg, c)
          /\ known' = known \cup {c}
          /\ submitted' = [submitted EXCEPT ![c] = {0}]
          /\ \/ /\ Submit(c, 0)
                /\ handler' = Submitting(c, 0, {})
                /\ UNCHANGED <<run, fatal>>
             \/ /\ 0 \notin alive
                /\ handler' = Over
                /\ Fail
                /\ UNCHANGED <<bound, work, visits>>
  /\ UNCHANGED <<frontVars, told, finals, running, router, stopping, pipeline, outs,
                 prefilled, alive, aborted>>

\* The submission is sent.  In async-chunk mode the handler goes on with the
\* next stage of a request, whatever has become of it (_prewarm_async_chunk_stages).
HandlerSubmitted ==
  /\ handler.at = "submit" /\ run # "drained"
  /\ LET r == CHOOSE x \in handler.ids : TRUE
         next == handler.stage + 1
     IN  IF pipeline.chunked /\ r \in Parents /\ next <= FinalStage[r]
         THEN /\ submitted' = IF r \in known
                              THEN [submitted EXCEPT ![r] = @ \cup {next}] ELSE submitted
              /\ \/ /\ Submit(r, next)
                    /\ handler' = Submitting(r, next, {})
                    /\ UNCHANGED <<run, fatal>>
                 \/ /\ next \notin alive
                    /\ handler' = Over
                    /\ Fail
                    /\ UNCHANGED <<bound, work, visits>>
         ELSE /\ handler' = Idle
              /\ UNCHANGED <<submitted, bound, work, visits, run, fatal>>
  /\ UNCHANGED <<frontVars, queue, told, known, finals, cfg, running, router, stopping,
                 pipeline, outs, prefilled, alive, aborted>>

\* _handle_abort: the tracker forgets the family at once, the stages hear of
\* it one after the other, the logical state goes last.
Abort ==
  /\ Take("abort")
  /\ LET ids == AbortIds(cfg, {Head(queue).req})
     IN  /\ cfg' = AbortParents(cfg, {Head(queue).req})
         /\ CleanupFrom(ids, 0)
         /\ handler' = CleanupPoint(ids, 0)
  /\ submitted' = Kept(submitted) /\ finals' = Kept(finals)
  /\ UNCHANGED <<frontVars, told, router, endVars, pipeline, outs, prefilled, alive, visits>>

HandlerAborted ==
  /\ handler.at = "cleanup" /\ run # "drained"
  /\ CleanupFrom(handler.ids, handler.stage + 1)
  /\ handler' = CleanupPoint(handler.ids, handler.stage + 1)
  /\ submitted' = Kept(submitted) /\ finals' = Kept(finals)
  /\ UNCHANGED <<frontVars, queue, told, cfg, router, endVars, pipeline, outs, prefilled,
                 alive, visits>>

\* _handle_collective_rpc: the handler waits for the stages' answers, for as
\* long as they take.
Rpc ==
  /\ Take("rpc")
  /\ handler' = [Idle EXCEPT !.at = "rpc"]
  /\ UNCHANGED <<frontVars, told, stateVars, router, endVars, pipeline, stageVars, visits, aborted>>

RpcAnswered ==
  /\ handler.at = "rpc" /\ run # "drained"
  /\ handler' = Idle
  /\ UNCHANGED <<frontVars, queue, told, stateVars, router, endVars, pipeline, stageVars,
                 visits, aborted>>

Shutdown ==
  /\ Take("shutdown")
  /\ stopping' = TRUE
  /\ handler' = Over
  /\ UNCHANGED <<frontVars, told, stateVars, router, run, fatal, pipeline, stageVars,
                 visits, aborted>>

-----------------------------------------------------------------------------
(* The output loop.                                                        *)

\* One output of one poll.
Poll(s, r, kind) ==
  /\ router = Idle /\ run # "drained" /\ ~stopping
  /\ [req |-> r, kind |-> kind] \in outs[s]
  /\ kind # "kv" => [req |-> r, kind |-> "kv"] \notin outs[s]
  /\ outs' = [outs EXCEPT ![s] = @ \ {[req |-> r, kind |-> kind]}]

\* The pool's output processor forgets a request once the abort to its engine
\* is sent; the raw outputs that follow are dropped.
Forgotten(s, r) ==
  /\ s \in LLM
  /\ handler.at = "cleanup" /\ r \in handler.ids /\ s < handler.stage

Tell(r) == told' = [told EXCEPT ![r] = @ + 1]
MutNextSubmitted(r, s) == s + 1 \in finals[r]
NextSubmitted(r, s) == s + 1 \in submitted[r]

\* An EngineDeadError in the loop.  Where the poll of an LLM stage s is guarded,
\* the requests submitted to s are told and forgotten, and the loop stops for
\* good; elsewhere the error just leaves the loop.
Died(s, guarded) ==
  /\ router' = Over
  /\ IF guarded
     THEN LET lost == {r \in known : s \in submitted[r]}
          IN  /\ told' = [r \in Requests |-> told[r] + IF r \in lost THEN 1 ELSE 0]
              /\ known' = known \ lost
              /\ stopping' = TRUE
              /\ run' = "failing" /\ fatal' = TRUE
     ELSE /\ Fail
          /\ UNCHANGED <<told, known, stopping>>

\* _forward_to_next_stage of what r produced at stage s, with tracker t, in the
\* handling of a poll [stage, guarded]; after: what the caller releases when
\* the submission is sent.
Forward(r, s, t, complete, after, poll) ==
  LET next == s + 1
      t2 == IF next \in LLM THEN t ELSE PopOutputs(t, r)
  IN  \/ /\ Submit(r, next)
         /\ cfg' = t2
         /\ router' = Submitting(r, next, after)
         /\ UNCHANGED <<told, known, running, endVars>>
      \/ /\ next \notin alive
         /\ cfg' = t2
         /\ Died(poll.stage, poll.guarded)
         /\ UNCHANGED <<bound, running, work, visits>>
      \/ /\ next \notin LLM \/ complete   \* no input for the next stage: it ends here
         /\ Tell(r)
         /\ cfg' = CleanupParent(t2, r)
         /\ Release(Family(t2, r) \cup after)
         /\ UNCHANGED <<router, work, visits, endVars>>
      \/ /\ next \in LLM /\ ~complete     \* it waits for more outputs
         /\ cfg' = t2
         /\ Release(after)
         /\ UNCHANGED <<told, router, work, visits, endVars>>
      \/ /\ cfg' = t2                   \* the stages' bridge function raises
         /\ router' = Over
         /\ Fail
         /\ UNCHANGED <<told, known, bound, running, work, visits, stopping>>

\* A bug: a parent waits although its companions are done.
MutForwardOrDefer(r, s, complete, poll) ==
  IF HasCompanions(cfg, r)
  THEN /\ cfg' = DeferParent(cfg, r, s, complete)
       /\ UNCHANGED <<told, known, bound, running, router, work, visits, endVars>>
  ELSE Forward(r, s, cfg, complete, {}, poll)

\* A parent's result for the next stage: it waits for its companions.
ForwardOrDefer(r, s, complete, poll) ==
  IF HasCompanions(cfg, r) /\ ~AllDone(cfg, r)
  THEN /\ cfg' = DeferParent(cfg, r, s, complete)
       /\ UNCHANGED <<told, known, bound, running, router, work, visits, endVars>>
  ELSE Forward(r, s, cfg, complete, {}, poll)

\* _handle_cfg_companion_ready: companion c completes (tracker t); a parent it
\* releases moves on unless it is gone or moved on before.
CompanionReady(c, t, after, poll) ==
  LET p == ParentOf[c]
      t2 == CompanionDone(t, c)
      held == t2.pending[p]
  IN  IF Releases(t, c) /\ p \in known /\ ~NextSubmitted(p, held.stage)
      THEN Forward(p, held.stage, PopPending(t2, p), held.complete, after, poll)
      ELSE /\ cfg' = IF Releases(t, c) THEN PopPending(t2, p) ELSE t2
           /\ Release(after)
           /\ UNCHANGED <<told, router, work, visits, endVars>>

\* handling happens inside the guard of the poll only for KV-ready outputs.
Guarded(s) == [stage |-> s, guarded |-> TRUE]
Unguarded(s) == [stage |-> s, guarded |-> FALSE]

\* An output of a request that is gone, or that its pool's processor forgot.
DropOutput(s, r) ==
  /\ \E kind \in {"kv", "fin", "err"} :
       /\ Poll(s, r, kind)
       /\ \/ r \notin known
          \/ kind = "fin" /\ Forgotten(s, r)
          \/ kind = "kv" /\ pipeline.chunked
  /\ UNCHANGED <<frontVars, queue, told, stateVars, handler, router, endVars, pipeline,
                 work, prefilled, alive, visits, aborted>>

\* _handle_kv_ready_raw_outputs: the KV of r is ready at stage s.
KvReady(s, r) ==
  /\ Poll(s, r, "kv") /\ ~pipeline.chunked /\ r \in known
  /\ IF IsCompanion(cfg, r) THEN CompanionReady(r, cfg, {}, Guarded(s))
     ELSE IF s < FinalStageOf(r) /\ ~NextSubmitted(r, s) THEN ForwardOrDefer(r, s, FALSE, Guarded(s))
     ELSE UNCHANGED <<told, known, bound, running, cfg, router, work, visits, endVars>>
  /\ submitted' = Kept(submitted) /\ finals' = Kept(finals)
  /\ UNCHANGED <<frontVars, queue, handler, pipeline, prefilled, alive, aborted>>

\* _route_output of a companion's last output: kept for the parent.
CompanionFinished(s, c) ==
  /\ Poll(s, c, "fin") /\ ~Forgotten(s, c)
  /\ c \in known /\ IsCompanion(cfg, c)
  /\ CompanionReady(c, SetOutput(cfg, c), {c}, Unguarded(s))
  /\ submitted' = Kept(submitted) /\ finals' = Kept(finals)
  /\ UNCHANGED <<frontVars, queue, handler, pipeline, prefilled, alive, aborted>>

\* _route_output of any other last output.  A request cannot be complete and
\* have a next stage to go to: its final stage is among those it waits for.
RequestFinished(s, r) ==
  /\ Poll(s, r, "fin") /\ ~Forgotten(s, r)
  /\ r \in known /\ ~IsCompanion(cfg, r)
  /\ LET reached == IF s \in EmitStages THEN finals[r] \cup {s} ELSE finals[r]
         complete == s \in EmitStages /\ FinalOutputsOf(r) \subseteq reached
     IN  /\ IF s < FinalStageOf(r) /\ ~pipeline.chunked /\ ~NextSubmitted(r, s)
            THEN ForwardOrDefer(r, s, TRUE, Unguarded(s))
            ELSE IF complete
            THEN /\ Tell(r)
                 /\ Release(IF r \in Parents THEN Family(cfg, r) ELSE {r})
                 /\ cfg' = IF r \in Parents THEN CleanupParent(cfg, r) ELSE cfg
                 /\ UNCHANGED <<router, work, visits, endVars>>
            ELSE UNCHANGED <<told, known, bound, running, cfg, router, work, visits, endVars>>
         /\ finals' = Kept([finals EXCEPT ![r] = reached])
  /\ submitted' = Kept(submitted)
  /\ UNCHANGED <<frontVars, queue, handler, pipeline, prefilled, alive, aborted>>

\* _handle_stage_error: the frontend hears of the parent, the family is aborted.
StageError(s, r) ==
  /\ Poll(s, r, "err") /\ r \in known
  /\ LET p == IF IsCompanion(cfg, r) THEN ParentOf[r] ELSE r
         ids == IF p \in Parents THEN Family(cfg, p) ELSE {p}
     IN  /\ Tell(p)
         /\ cfg' = IF p \in Parents THEN CleanupParent(cfg, p) ELSE cfg
         /\ CleanupFrom(ids, 0)
         /\ router' = CleanupPoint(ids, 0)
  /\ submitted' = Kept(submitted) /\ finals' = Kept(finals)
  /\ UNCHANGED <<frontVars, queue, handler, endVars, pipeline, prefilled, alive, visits>>

RouterAborted ==
  /\ router.at = "cleanup" /\ run # "drained"
  /\ CleanupFrom(router.ids, router.stage + 1)
  /\ router' = CleanupPoint(router.ids, router.stage + 1)
  /\ submitted' = Kept(submitted) /\ finals' = Kept(finals)
  /\ UNCHANGED <<frontVars, queue, told, cfg, handler, endVars, pipeline, outs, prefilled,
                 alive, visits>>

\* The forwarded submission is sent: only now is the stage recorded.
RouterSubmitted ==
  /\ router.at = "submit" /\ run # "drained"
  /\ LET r == CHOOSE x \in router.ids : TRUE
     IN  /\ Release(router.after)
         /\ submitted' = Kept([submitted EXCEPT ![r] = @ \cup {router.stage}])
  /\ finals' = Kept(finals)
  /\ router' = Idle
  /\ UNCHANGED <<frontVars, queue, told, cfg, handler, endVars, pipeline, stageVars, visits,
                 aborted>>

\* A poll finds a stage dead; the poll of a diffusion stage is not guarded.
StageDead(s) ==
  /\ router = Idle /\ run # "drained" /\ ~stopping
  /\ s \notin alive /\ outs[s] = {}
  /\ Died(s, s \in LLM)
  /\ submitted' = Kept(submitted) /\ finals' = Kept(finals)
  /\ UNCHANGED <<frontVars, queue, cfg, bound, running, handler, pipeline, stageVars, visits,
                 aborted>>

RouterStops ==
  /\ stopping /\ router = Idle /\ run # "drained"
  /\ router' = Over
  /\ UNCHANGED <<frontVars, queue, told, stateVars, handler, endVars, pipeline, stageVars,
                 visits, aborted>>

-----------------------------------------------------------------------------
\* The first part of run()'s finally: the tasks are cancelled where they are;
\* if _fatal_error is set, the queued and the remaining requests are told
\* (_drain_pending_requests_on_fatal), whichever task ended run().
MutDrain ==
  /\ \/ run = "failing"
     \/ run = "running" /\ handler = Over /\ router = Over
  /\ run' = "drained" /\ stopping' = TRUE
  /\ handler' = Over /\ router' = Over
  /\ IF fatal
     THEN /\ told' = [r \in Requests |-> told[r] + IF r \in known THEN 1 ELSE 0]
          /\ queue' = << >>
          /\ known' = {}
     ELSE UNCHANGED <<told, queue, known>>
  /\ submitted' = Kept(submitted) /\ finals' = Kept(finals)
  /\ UNCHANGED <<frontVars, cfg, bound, running, fatal, pipeline, stageVars, visits, aborted>>

Drain ==
  /\ \/ run = "failing"
     \/ run = "running" /\ handler = Over /\ router = Over
  /\ run' = "drained" /\ stopping' = TRUE
  /\ handler' = Over /\ router' = Over
  /\ IF fatal
     THEN LET queued == {queue[i].req : i \in {j \in DOMAIN queue : queue[j].type = "add"}}
          IN  /\ told' = [r \in Requests |->
                            told[r] + IF r \in queued \cup known THEN 1 ELSE 0]
              /\ queue' = << >>
              /\ known' = {}
     ELSE UNCHANGED <<told, queue, known>>
  /\ submitted' = Kept(submitted) /\ finals' = Kept(finals)
  /\ UNCHANGED <<frontVars, cfg, bound, running, fatal, pipeline, stageVars, visits, aborted>>

\* The rest of it: the stages are shut down.  What reached the queue since the
\* drain stays there.
ShutdownStages ==
  /\ run = "drained"
  /\ alive' = {}
  /\ work' = [s \in Stages |-> {}] /\ outs' = [s \in Stages |-> {}]
  /\ UNCHANGED <<frontVars, queue, told, stateVars, handler, router, endVars, pipeline,
                 prefilled, visits, aborted>>

-----------------------------------------------------------------------------
(* The stages' engines.                                                    *)

Produce(s, r, kind) ==
  /\ s \in alive /\ r \in work[s]
  /\ outs' = [outs EXCEPT ![s] = @ \cup {[req |-> r, kind |-> kind]}]
  /\ UNCHANGED <<frontVars, queue, told, stateVars, handler, router, endVars, pipeline,
                 alive, visits, aborted>>

EngineKv(r) ==
  /\ 0 \in LLM /\ r \in EarlyKv \ prefilled
  /\ Produce(0, r, "kv")
  /\ prefilled' = prefilled \cup {r}
  /\ UNCHANGED work

EngineEnds(s, r) ==
  /\ \/ Produce(s, r, "fin")
     \/ s \notin LLM /\ Produce(s, r, "err")
  /\ work' = [work EXCEPT ![s] = @ \ {r}]
  /\ UNCHANGED prefilled

EngineDies(s) ==
  /\ s \in Fragile \cap alive /\ Upset
  /\ alive' = alive \ {s}
  /\ work' = [work EXCEPT ![s] = {}]
  /\ UNCHANGED <<sent, quit, closing, late, queue, told, stateVars, handler, router, endVars,
                 pipeline, outs, prefilled, visits, aborted>>

-----------------------------------------------------------------------------
HandlerNext ==
  \/ AddRequest \/ AddCompanion \/ HandlerSubmitted \/ Abort \/ HandlerAborted
  \/ Rpc \/ Shutdown
RouteOutput(s, r) ==
  DropOutput(s, r) \/ KvReady(s, r) \/ CompanionFinished(s, r) \/ RequestFinished(s, r)
  \/ StageError(s, r)
RouterNext ==
  \/ RouterAborted \/ RouterSubmitted \/ RouterStops
  \/ \E s \in Stages : StageDead(s) \/ \E r \in Requests : RouteOutput(s, r)
EnginesNext == \E s \in Stages, r \in Requests : EngineEnds(s, r)
SystemNext == HandlerNext \/ RouterNext \/ Drain \/ ShutdownStages \/ EnginesNext

Next ==
  \/ SystemNext \/ RpcAnswered
  \/ \E p \in Parents : FrontSubmit(p) \/ FrontAbort(p)
  \/ FrontRpc \/ FrontShutdown
  \/ \E r \in Requests : EngineKv(r)
  \/ \E s \in Stages : EngineDies(s)

Spec == Init /\ [][Next]_vars

\* The event loop and the engines do not stop while one of them has something
\* to do; which one goes first is left open.  Nothing makes the frontend act,
\* an RPC return, an engine die or report its KV early.
FairSpec == Spec /\ WF_vars(SystemNext)
-----------------------------------------------------------------------------
(* Properties.                                                             *)

Coroutine == [at : {"idle", "submit", "cleanup", "rpc", "over"}, ids : SUBSET Requests,
              stage : Stages, after : SUBSET Requests]

\* Every variable has its type, and nothing is submitted to a stage twice over
\* the bound of its counter.
OrchestratorTypeOK ==
  /\ sent \subseteq Parents /\ quit \subseteq sent /\ late \subseteq sent
  /\ closing \in BOOLEAN /\ upsets \in 0 .. MaxUpsets
  /\ queue \in Seq([type : {"add", "companion", "abort", "rpc", "shutdown"},
                    req : Requests \cup {NoResult}])
  /\ told \in [Requests -> Nat]
  /\ known \subseteq Requests
  /\ submitted \in [Requests -> SUBSET Stages] /\ finals \in [Requests -> SUBSET Stages]
  /\ cfg \in Tracker
  /\ bound \in [Stages -> SUBSET Requests]
  /\ running \in Nat
  /\ handler \in Coroutine /\ router \in Coroutine
  /\ stopping \in BOOLEAN /\ run \in {"running", "failing", "drained"} /\ fatal \in BOOLEAN
  /\ pipeline \in Pipelines
  /\ work \in [Stages -> SUBSET Requests]
  /\ outs \in [Stages -> SUBSET Output]
  /\ prefilled \subseteq Requests /\ alive \subseteq Stages
  /\ visits \in [Requests -> [Stages -> Nat]]
  /\ aborted \subseteq Requests

\* The frontend gets at most one terminal message for a request: a finished
\* output, an error or a fatal error, whichever of the two tasks, of a stage's
\* death and of the final drain come first.
AnsweredAtMostOnce == \A r \in Requests : told[r] <= 1

\* A request enters a stage once: early, when its KV is ready, or when it is
\* finished, or when the last of its companions is, or ahead in async-chunk mode.
EntersStageOnce == \A r \in Requests, s \in Stages : visits[r][s] <= 1

\* A request that was cleaned up with an abort runs nowhere and is bound nowhere,
\* although the handlers that submit and abort are interleaved.
AbortReachesStages ==
  \A r \in aborted, s \in Stages : r \notin work[s] /\ r \notin bound[s]

\* Once the output loop has found an LLM stage dead, every request the frontend
\* sent before the drain and has not given up is told by the end of the drain,
\* once, in whatever task or queue it was and whichever task failed first; one
\* sent later is told nothing.
FatalTellsAll ==
  run = "drained" /\ fatal =>
    /\ \A p \in sent \ (quit \cup late) : told[p] = 1
    /\ \A p \in late : told[p] = 0

\* The stage has still to produce the last output of r, or the loop to poll it.
Owed(r, s) ==
  r \in work[s] \/ \E kind \in {"fin", "err"} : [req |-> r, kind |-> kind] \in outs[s]

\* While the orchestrator and its stages live, no request it knows waits for
\* nothing: a coroutine has it in hand, a stage owes an output of it, or it is
\* deferred and the first stage owes that of a companion which is not done.
KnownAreUnderWay ==
  run = "running" /\ ~stopping /\ alive = Stages =>
    \A p \in known \cap Parents :
      \/ p \in handler.ids \cup router.ids
      \/ \E s \in Stages : Owed(p, s)
      \/ Deferred(cfg, p) /\ \E c \in cfg.map[p] \ cfg.done[p] : Owed(c, 0)

\* Every request the orchestrator took ends: answered, aborted, or with the
\* orchestrator itself; companions and deferral never keep one forever.
RequestsEnd ==
  \A p \in Parents : p \in known ~> (p \notin known \/ run = "drained")
-----------------------------------------------------------------------------
(* The journey of a request.                                               *)

Msgs == {queue[i] : i \in 1 .. Len(queue)}

\* The message that brings a request, and the parent whose submission sends it.
Entry(r) == Message(IF r \in Parents THEN "add" ELSE "companion", r)
Source(r) == IF r \in Parents THEN r ELSE ParentOf[r]

\* The request handler has not taken the request.
Fresh(r) == Source(r) \notin sent \/ Entry(r) \in Msgs

Phase ==
  [r \in Requests |-> IF Fresh(r) THEN "new" ELSE IF r \in known THEN "live" ELSE "over"]

Journey == INSTANCE RequestJourney WITH phase <- Phase, ahead <- pipeline.chunked

\* Whatever the two coroutines do between each other's waits, a request enters
\* each stage once, in order; it is told of once, and, unless the deployment
\* submits ahead, not forwarded any more then; nothing brings it back once it is
\* forgotten.
JourneySpec == Journey!Spec
=============================================================================
