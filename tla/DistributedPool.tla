--------------------------- MODULE DistributedPool ---------------------------
(***************************************************************************)
(* A stage pool whose replicas come and go (engine/stage_pool.py with a    *)
(* hub, engine/membership_controller.py): a request is bound to a replica  *)
(* that the hub lists as UP and whose client is attached; a watcher polls  *)
(* the hub's list, and a replica that has left it is detached and its      *)
(* requests are told so.                                                   *)
(*                                                                         *)
(* One stage; the orchestrator's request handler, its output handler, the  *)
(* watcher and the membership tasks are tasks of one event loop, which     *)
(* interleave at the awaits; the frontend's thread preselects a replica    *)
(* and shares the pool's affinity table without a lock; the hub's list     *)
(* changes under everybody.  The load balancer may choose any candidate,   *)
(* which covers its three policies.  An address is given to one replica    *)
(* (the master assigns a new slot to a new one).  Streaming sessions and   *)
(* companions are left out.                                                *)
(***************************************************************************)
EXTENDS Naturals, Sequences, FiniteSets

CONSTANTS
  Requests,   \* request ids, each used once
  Addrs,      \* input_addr of the replicas
  Initial,    \* the replicas the pool was built with
  None,       \* no address, no request
  MaxUpsets   \* bound: crashes, cancellations, live replicas leaving the list

ASSUME AddrsAssumption == None \notin Requests \cup Addrs /\ Initial \subseteq Addrs
ASSUME UpsetsAssumption == MaxUpsets \in Nat

VARIABLES
  client,    \* [Requests -> "new", "sent", "answered"]: the caller's view
  told,      \* [Requests -> "no", "error", "finished"]: first message to it
  pre,       \* preselect_replica_id in the frontend's thread: [at, req, addr]
  affinity,  \* _affinity: [Requests -> Addrs \cup {None}]
  queue,     \* request_async_queue
  handler,   \* the request handler: [at, req, addr]
  active,    \* the requests with a state in the orchestrator
  attached,  \* the addresses with a client in the pool
  up,        \* the UP replicas of the hub's cached list
  lastUp,    \* last_up of the watcher
  joining,   \* register tasks in the client factory
  leaving,   \* unregister tasks that have not run yet
  proc,      \* [Addrs -> "new", "live", "crashed"]: the replica's process
  held,      \* [Addrs -> the requests its process works on]
  upsets,    \* how many of those have happened so far
  ended      \* the orchestrator has died of an error in its request handler

frontVars == <<client, told, pre>>
poolVars == <<affinity, attached>>
loopVars == <<queue, handler, active>>
memberVars == <<lastUp, joining, leaving>>
worldVars == <<up, proc, held>>
vars == <<frontVars, poolVars, loopVars, memberVars, worldVars, upsets, ended>>

Message == [type : {"add", "abort"}, req : Requests] \cup [type : {"register"}, addr : Addrs]
NoCall == [at |-> "idle", req |-> None, addr |-> None]

Init ==
  /\ client = [r \in Requests |-> "new"]
  /\ told = [r \in Requests |-> "no"]
  /\ pre = NoCall
  /\ affinity = [r \in Requests |-> None]
  /\ queue = << >>
  /\ handler = NoCall
  /\ active = {} /\ lastUp = {} /\ joining = {} /\ leaving = {}
  /\ attached = Initial /\ up = Initial
  /\ proc = [a \in Addrs |-> IF a \in Initial THEN "live" ELSE "new"]
  /\ held = [a \in Addrs |-> {}]
  /\ upsets = 0
  /\ ended = FALSE

\* _collect_serviceable_replicas: UP and attached.
Serviceable == up \cap attached

\* pick and preselect_replica_id: the replica of before, while it is
\* serviceable, else one that the load balancer chooses.
Choices(r) ==
  IF affinity[r] \in Serviceable THEN {affinity[r]} ELSE Serviceable

\* Messages to the caller; only the first one is read.
Tell(S, what) ==
  told' = [r \in Requests |-> IF r \in S /\ told[r] = "no" THEN what ELSE told[r]]

\* The orchestrator runs on.
Runs == ~ended /\ UNCHANGED ended

Upset == upsets < MaxUpsets /\ upsets' = upsets + 1

-----------------------------------------------------------------------------
(* The frontend.                                                           *)

\* The thread looks for a replica before it prepares the inputs, which only
\* some requests need and which may find none.
Preselect(r) ==
  /\ Runs
  /\ client[r] = "new" /\ pre = NoCall
  /\ \E a \in Choices(r) \cup {None} : pre' = [at |-> "chosen", req |-> r, addr |-> a]
  /\ UNCHANGED <<client, told, poolVars, loopVars, memberVars, worldVars, upsets>>

\* It records the choice, which may be outdated by now.
Record ==
  /\ Runs
  /\ pre.at = "chosen"
  /\ affinity' = [affinity EXCEPT ![pre.req] = pre.addr]
  /\ pre' = [pre EXCEPT !.at = "recorded"]
  /\ UNCHANGED <<client, told, attached, loopVars, memberVars, worldVars, upsets>>

\* A bug: the binding of a request that was never sent is kept.
MutSend ==
  /\ Runs
  /\ pre.at = "recorded"
  /\ pre' = NoCall
  /\ \/ /\ client' = [client EXCEPT ![pre.req] = "sent"]
        /\ queue' = Append(queue, [type |-> "add", req |-> pre.req])
        /\ UNCHANGED affinity
     \/ /\ client' = [client EXCEPT ![pre.req] = "answered"]
        /\ UNCHANGED <<affinity, queue>>
  /\ UNCHANGED <<told, attached, handler, active, memberVars, worldVars, upsets>>

\* The inputs are ready and the request goes to the orchestrator; or they are
\* wrong, the caller gets an exception and the binding is released.
Send ==
  /\ Runs
  /\ pre.at = "recorded"
  /\ pre' = NoCall
  /\ \/ /\ client' = [client EXCEPT ![pre.req] = "sent"]
        /\ queue' = Append(queue, [type |-> "add", req |-> pre.req])
        /\ UNCHANGED affinity
     \/ /\ client' = [client EXCEPT ![pre.req] = "answered"]
        /\ affinity' = [affinity EXCEPT ![pre.req] = None]
        /\ UNCHANGED queue
  /\ UNCHANGED <<told, attached, handler, active, memberVars, worldVars, upsets>>

\* The caller reads its answer; an error, or its own cancellation, sends an abort.
Answered(r) ==
  /\ Runs
  /\ client[r] = "sent"
  /\ client' = [client EXCEPT ![r] = "answered"]
  /\ \/ told[r] = "finished" /\ UNCHANGED queue
     \/ told[r] = "error" /\ queue' = Append(queue, [type |-> "abort", req |-> r])
  /\ UNCHANGED <<told, pre, poolVars, handler, active, memberVars, worldVars, upsets>>

Cancel(r) ==
  /\ Runs
  /\ client[r] = "sent" /\ Upset
  /\ client' = [client EXCEPT ![r] = "answered"]
  /\ queue' = Append(queue, [type |-> "abort", req |-> r])
  /\ UNCHANGED <<told, pre, poolVars, handler, active, memberVars, worldVars>>

-----------------------------------------------------------------------------
(* The request handler.                                                    *)

Take(type) == handler.at = "idle" /\ queue # << >> /\ Head(queue).type = type /\ queue' = Tail(queue)

\* _handle_add_request and the first look of pick: with a candidate the client's
\* add_request_async is awaited, without one the handler waits.
AddRequest ==
  /\ Runs
  /\ Take("add")
  /\ LET r == Head(queue).req IN
     /\ active' = active \cup {r}
     /\ \/ \E a \in Choices(r) :
             /\ affinity' = [affinity EXCEPT ![r] = a]
             /\ handler' = [at |-> "submit", req |-> r, addr |-> a]
        \/ /\ Choices(r) = {}
           /\ affinity' = [affinity EXCEPT ![r] = None]
           /\ handler' = [at |-> "pick", req |-> r, addr |-> None]
  /\ UNCHANGED <<frontVars, attached, memberVars, worldVars, upsets>>

\* A later look of pick finds a candidate.
PickAgain ==
  /\ Runs
  /\ handler.at = "pick"
  /\ \E a \in Serviceable :
       /\ affinity' = [affinity EXCEPT ![handler.req] = a]
       /\ handler' = [handler EXCEPT !.at = "submit", !.addr = a]
  /\ UNCHANGED <<frontVars, attached, queue, active, memberVars, worldVars, upsets>>

\* Ten seconds without a candidate: the error ends the orchestrator's run.
PickTimesOut ==
  /\ ~ended
  /\ handler.at = "pick" /\ Serviceable = {}
  /\ ended' = TRUE
  /\ UNCHANGED <<frontVars, poolVars, loopVars, memberVars, worldVars, upsets>>

\* The client has sent the request; a process that has crashed, or a client that
\* was shut down during the await, may not deliver it.
Submitted ==
  /\ Runs
  /\ handler.at = "submit"
  /\ LET a == handler.addr
         alive == proc[a] = "live"
         delivered == [held EXCEPT ![a] = @ \cup {handler.req}]
     IN \/ alive /\ held' = delivered
        \/ ~(alive /\ a \in attached) /\ UNCHANGED held
  /\ handler' = NoCall
  /\ UNCHANGED <<frontVars, poolVars, queue, active, memberVars, up, proc, upsets>>

\* Its error ends the orchestrator's run.
SubmitFails ==
  /\ ~ended
  /\ handler.at = "submit"
  /\ proc[handler.addr] # "live" \/ handler.addr \notin attached
  /\ affinity' = [affinity EXCEPT ![handler.req] = None]
  /\ ended' = TRUE
  /\ UNCHANGED <<frontVars, attached, loopVars, memberVars, worldVars, upsets>>

\* A bug: the bindings go first, and the abort finds none.
MutCleanup(S) ==
  /\ UNCHANGED held
  /\ affinity' = [r \in Requests |-> IF r \in S THEN None ELSE affinity[r]]
  /\ active' = active \ S

\* _cleanup_request_ids with abort: the abort goes to the replica a request is bound to,
\* then the bindings and the states go.
Cleanup(S) ==
  /\ held' = [a \in Addrs |->
               IF a \in attached THEN held[a] \ {r \in S : affinity[r] = a} ELSE held[a]]
  /\ affinity' = [r \in Requests |-> IF r \in S THEN None ELSE affinity[r]]
  /\ active' = active \ S

Abort ==
  /\ Runs
  /\ Take("abort")
  /\ Cleanup({Head(queue).req})
  /\ UNCHANGED <<frontVars, attached, handler, memberVars, up, proc, upsets>>

\* handle_register spawns a task, in which the factory connects to the replica.
Register ==
  /\ Runs
  /\ Take("register")
  /\ joining' = joining \cup {Head(queue).addr}
  /\ UNCHANGED <<frontVars, poolVars, handler, active, lastUp, leaving, worldVars, upsets>>

-----------------------------------------------------------------------------
(* The output handler and the membership controller.                       *)

\* The output of a request is polled from an attached client; one that has no
\* state any more is dropped.
Finish(a, r) ==
  /\ Runs
  /\ proc[a] = "live" /\ a \in attached /\ r \in held[a]
  /\ IF r \in active
     THEN /\ Tell({r}, "finished")
          /\ active' = active \ {r}
          /\ affinity' = [affinity EXCEPT ![r] = None]
     ELSE UNCHANGED <<told, active, affinity>>
  /\ held' = [held EXCEPT ![a] = @ \ {r}]
  /\ UNCHANGED <<client, pre, attached, queue, handler, memberVars, up, proc, upsets>>

\* add_client, whatever has become of the replica in the meantime; the factory
\* of a replica that has crashed may fail.
Attach(a) ==
  /\ Runs
  /\ a \in joining
  /\ joining' = joining \ {a}
  /\ \/ attached' = attached \cup {a}
     \/ proc[a] = "crashed" /\ UNCHANGED attached
  /\ UNCHANGED <<frontVars, affinity, loopVars, lastUp, leaving, worldVars, upsets>>

\* A bug: the difference of the two looks the wrong way round.
MutWatch ==
  /\ Runs
  /\ leaving' = leaving \cup (up \ lastUp)
  /\ lastUp' = up
  /\ UNCHANGED <<frontVars, poolVars, loopVars, joining, worldVars, upsets>>

\* One look of the watcher at the list.
Watch ==
  /\ Runs
  /\ leaving' = leaving \cup (lastUp \ up)
  /\ lastUp' = up
  /\ UNCHANGED <<frontVars, poolVars, loopVars, joining, worldVars, upsets>>

\* A bug: the affected requests are looked up when their binding is gone.
MutUnregister(a) ==
  /\ Runs
  /\ a \in leaving
  /\ leaving' = leaving \ {a}
  /\ affinity' = [r \in Requests |-> IF affinity[r] = a THEN None ELSE affinity[r]]
  /\ attached' = attached \ {a}
  /\ UNCHANGED <<client, told, pre, loopVars, lastUp, joining, worldVars, upsets>>

\* handle_unregister: the requests bound to the address lose their binding, the
\* client is detached, their states go and their callers are told.
Unregister(a) ==
  /\ Runs
  /\ a \in leaving
  /\ leaving' = leaving \ {a}
  /\ LET affected == {r \in Requests : affinity[r] = a} IN
     /\ affinity' = [r \in Requests |-> IF r \in affected THEN None ELSE affinity[r]]
     /\ active' = active \ affected
     /\ Tell(affected, "error")
  /\ attached' = attached \ {a}
  /\ UNCHANGED <<client, pre, queue, handler, lastUp, joining, worldVars, upsets>>

-----------------------------------------------------------------------------
(* The replicas and the hub's list.                                        *)

\* A new replica: the master tells the orchestrator, the coordinator the hub.
Start(a) ==
  /\ Runs
  /\ proc[a] = "new"
  /\ proc' = [proc EXCEPT ![a] = "live"]
  /\ queue' = Append(queue, [type |-> "register", addr |-> a])
  /\ UNCHANGED <<frontVars, poolVars, handler, active, memberVars, up, held, upsets>>

Crash(a) ==
  /\ Runs
  /\ proc[a] = "live" /\ Upset
  /\ proc' = [proc EXCEPT ![a] = "crashed"]
  /\ held' = [held EXCEPT ![a] = {}]
  /\ UNCHANGED <<frontVars, poolVars, loopVars, memberVars, up>>

HubAdds(a) ==
  /\ Runs
  /\ proc[a] = "live" /\ a \notin up
  /\ up' = up \cup {a}
  /\ UNCHANGED <<frontVars, poolVars, loopVars, memberVars, proc, held, upsets>>

\* A replica whose heartbeats are missing leaves the list.  The timeout is many
\* times the watcher's interval: the watcher has seen the replica before.
HubDrops(a) ==
  /\ Runs
  /\ a \in up /\ a \in lastUp
  /\ up' = up \ {a}
  /\ \/ proc[a] = "crashed" /\ UNCHANGED upsets
     \/ proc[a] = "live" /\ Upset
  /\ UNCHANGED <<frontVars, poolVars, loopVars, memberVars, proc, held>>

-----------------------------------------------------------------------------
HandlerNext ==
  AddRequest \/ PickAgain \/ PickTimesOut \/ Submitted \/ SubmitFails \/ Abort \/ Register

OtherNext ==
  \/ Record \/ Send \/ Watch
  \/ \E r \in Requests : Preselect(r) \/ Answered(r) \/ Cancel(r)
  \/ \E a \in Addrs :
       \/ Attach(a) \/ Unregister(a) \/ Start(a) \/ Crash(a) \/ HubAdds(a) \/ HubDrops(a)
       \/ \E r \in Requests : Finish(a, r)

Next == HandlerNext \/ OtherNext

Spec == Init /\ [][Next]_vars

\* The frontend's thread and each kind of task of the event loop go on, a live
\* replica finishes what it works on, and a crashed one leaves the hub's list.
Fairness ==
  /\ WF_vars(Record \/ Send \/ \E r \in Requests : Answered(r))
  /\ WF_vars(HandlerNext)
  /\ WF_vars(Watch)
  /\ WF_vars(\E a \in Addrs : Attach(a) \/ Unregister(a))
  /\ WF_vars(\E a \in Addrs : \E r \in Requests : Finish(a, r))
  /\ WF_vars(\E a \in Addrs : proc[a] = "crashed" /\ HubDrops(a))

FairSpec == Spec /\ Fairness

-----------------------------------------------------------------------------
(* Properties.                                                             *)

PoolTypeOK ==
  /\ client \in [Requests -> {"new", "sent", "answered"}]
  /\ told \in [Requests -> {"no", "error", "finished"}]
  /\ handler.at = "idle" <=> handler.req = None
  /\ handler.at = "submit" <=> handler.addr # None
  /\ pre \in [at : {"idle", "chosen", "recorded"}, req : Requests \cup {None},
              addr : Addrs \cup {None}]
  /\ affinity \in [Requests -> Addrs \cup {None}]
  /\ queue \in Seq(Message)
  /\ handler \in [at : {"idle", "pick", "submit"}, req : Requests \cup {None},
                  addr : Addrs \cup {None}]
  /\ active \subseteq Requests
  /\ attached \subseteq Addrs /\ up \subseteq Addrs /\ lastUp \subseteq Addrs
  /\ joining \subseteq Addrs /\ leaving \subseteq Addrs
  /\ proc \in [Addrs -> {"new", "live", "crashed"}]
  /\ held \in [Addrs -> SUBSET Requests]
  /\ upsets \in 0 .. MaxUpsets /\ ended \in BOOLEAN

\* A request that was given to a replica stays bound to a replica that is
\* attached, whatever the frontend's thread and the membership tasks do between
\* two awaits: so the loss of its replica finds it.
SubmittedIsBound ==
  ~ended => \A r \in active : (handler.at = "pick" /\ handler.req = r) \/ affinity[r] \in attached

\* An attached replica that is alive never works on a request the orchestrator
\* has forgotten: an abort reaches the replica before the binding goes.
NoOrphanWork ==
  \A a \in attached : proc[a] = "live" => held[a] \subseteq active

\* Once its caller has its answer and no message of it is left, a request has no
\* row in the affinity table.
AffinityReleased ==
  \A r \in Requests :
    (/\ client[r] = "answered" /\ r \notin active /\ ~ended
     /\ r \notin {handler.req, pre.req}
     /\ \A i \in 1 .. Len(queue) : queue[i].type = "register" \/ queue[i].req # r)
    => affinity[r] = None

\* Replica a works on r; or it has crashed, and is still to leave the list, or the
\* watcher to see that it has, or its requests to be told.
Serves(a, r) ==
  \/ proc[a] = "live" /\ r \in held[a]
  \/ proc[a] = "crashed" /\ a \in up \cup lastUp \cup leaving

\* Nobody waits for nothing: a request whose caller has been told nothing is in
\* the queue, in the handler's hands, or bound to an attached replica that works
\* on it or whose loss will be noticed.
SentAreServed ==
  ~ended => \A r \in Requests :
    client[r] = "sent" /\ told[r] = "no" =>
      \/ handler.req = r
      \/ \E i \in 1 .. Len(queue) : queue[i] = [type |-> "add", req |-> r]
      \/ \E a \in attached : affinity[r] = a /\ Serves(a, r)

\* Every request that was sent is answered, though its replica be lost before,
\* during or after its submission; or the orchestrator ends.
RequestsAnswered ==
  \A r \in Requests : client[r] = "sent" ~> (client[r] = "answered" \/ ended)
=============================================================================
