--------------------------- MODULE OmniCoordinator ---------------------------
(***************************************************************************)
(* The replica coordinator (distributed/omni_coordinator): every stage     *)
(* replica has a client that registers it and sends heartbeats; the        *)
(* coordinator keeps a table of the replicas, takes silent ones for dead,  *)
(* and broadcasts the list of those that are UP; the hub's client caches   *)
(* the last list it saw.                                                   *)
(*                                                                         *)
(* Three threads: the receiver handles events one by one, the periodic     *)
(* loop checks for timeouts and flushes broadcasts, the hub receives.      *)
(* Time passes in ticks, each as long as the heartbeat interval and the    *)
(* interval of the timeout check (5 s both); within a tick a client that   *)
(* is not suspended sends one heartbeat, its events arrive, and one check  *)
(* is made, in any order.  Events of one address arrive in order: one      *)
(* connection keeps the order, and a new process takes far longer to start *)
(* than the goodbye of the old one to arrive.  Malformed events and stage  *)
(* ids are left out.                                                       *)
(***************************************************************************)
EXTENDS Naturals, Sequences, FiniteSets

CONSTANTS
  Addrs,       \* input_addr of the replicas
  Loads,       \* queue lengths
  Gone,        \* no row in the table
  Timeout,     \* heartbeat_timeout, in ticks
  GcTtl,       \* gc_ttl, in ticks
  MaxWire,     \* bound: lists on their way to the hub
  MaxUpsets    \* bound: starts, stops, suspensions, load changes, failures

ASSUME AddrsAssumption == 0 \in Loads /\ Loads \subseteq Nat
ASSUME TimesAssumption ==
  /\ Timeout \in Nat \ {0} /\ GcTtl \in Nat /\ Timeout < GcTtl
  /\ MaxWire \in Nat \ {0} /\ MaxUpsets \in Nat

VARIABLES
  client,   \* [Addrs -> "off", "up", "stalled"]: the replica's process
  load,     \* [Addrs -> Loads]: _queue_length of its client
  beaten,   \* the clients that need not beat (again) in this tick
  inbox,    \* [Addrs -> Seq(events)]: on their way to the ROUTER socket
  replicas, \* _replicas: [Addrs -> rows \cup {Gone}]
  pending,  \* _pending_broadcast
  checked,  \* the timeouts were checked in this tick
  flush,    \* the periodic loop: [at, list]
  wire,     \* lists on their way to the hub
  hub,      \* the hub's client: [joined, list]
  upsets,   \* how many things have happened so far
  silence,  \* history: [Addrs -> ticks without a beat, up to GcTtl + 1]
  gap       \* history: [Addrs -> the longest silence so far]

clientVars == <<client, load, beaten>>
loopVars == <<pending, checked, flush>>
hubVars == <<wire, hub>>
timeVars == <<silence, gap>>
vars == <<clientVars, inbox, replicas, loopVars, hubVars, upsets, timeVars>>

Row == [status : {"up", "down", "error"}, load : Loads, age : 0 .. GcTtl + 1]
Event == [type : {"update", "heartbeat"}, status : {"up", "down"}, load : Loads]
ASSUME GoneAssumption == Gone \notin Row
\* A list names the replicas that are UP, with their loads.
Lists == SUBSET (Addrs \X Loads)

Older(n) == IF n > GcTtl THEN n ELSE n + 1

Init ==
  /\ client = [a \in Addrs |-> "off"]
  /\ load = [a \in Addrs |-> 0]
  /\ beaten = {}
  /\ inbox = [a \in Addrs |-> << >>]
  /\ replicas = [a \in Addrs |-> Gone]
  /\ pending = FALSE /\ checked = FALSE
  /\ flush = [at |-> "idle", list |-> {}]
  /\ wire = << >>
  /\ hub = [joined |-> FALSE, list |-> {}]
  /\ upsets = 0
  /\ silence = [a \in Addrs |-> 0]
  /\ gap = [a \in Addrs |-> 0]

Upset == upsets < MaxUpsets /\ upsets' = upsets + 1

-----------------------------------------------------------------------------
(* The stage replicas' clients.                                            *)

Send(a, type, status, n) ==
  inbox' = [inbox EXCEPT ![a] = Append(@, [type |-> type, status |-> status, load |-> n])]

\* The client registers its replica; its first heartbeat is one interval away.
Start(a) ==
  /\ client[a] = "off" /\ Upset
  /\ client' = [client EXCEPT ![a] = "up"]
  /\ load' = [load EXCEPT ![a] = 0]
  /\ beaten' = beaten \cup {a}
  /\ Send(a, "update", "up", 0)
  /\ UNCHANGED <<replicas, loopVars, hubVars, timeVars>>

\* _heartbeat_loop: the hook refreshes the load just before the beat.
Beat(a) ==
  /\ client[a] = "up" /\ a \notin beaten
  /\ beaten' = beaten \cup {a}
  /\ \E n \in Loads :
       /\ IF n = load[a] THEN UNCHANGED upsets ELSE Upset
       /\ load' = [load EXCEPT ![a] = n]
       /\ Send(a, "heartbeat", "up", n)
  /\ silence' = [silence EXCEPT ![a] = 0]
  /\ UNCHANGED <<client, replicas, loopVars, hubVars, gap>>

\* update_info of the load.
UpdateInfo(a) ==
  /\ client[a] = "up" /\ Upset
  /\ \E n \in Loads \ {load[a]} :
       /\ load' = [load EXCEPT ![a] = n]
       /\ Send(a, "update", "up", n)
  /\ UNCHANGED <<client, beaten, replicas, loopVars, hubVars, timeVars>>

\* The process is suspended, or its heartbeats are dropped, for a while.
Stall(a) ==
  /\ client[a] = "up" /\ Upset
  /\ client' = [client EXCEPT ![a] = "stalled"]
  /\ UNCHANGED <<load, beaten, inbox, replicas, loopVars, hubVars, timeVars>>

Resume(a) ==
  /\ client[a] = "stalled"
  /\ client' = [client EXCEPT ![a] = "up"]
  /\ UNCHANGED <<load, beaten, inbox, replicas, loopVars, hubVars, upsets, timeVars>>

\* close() announces the end; the socket is closed without lingering, so the
\* event may be lost.  A crash announces nothing.
Close(a) ==
  /\ client[a] = "up" /\ Upset
  /\ client' = [client EXCEPT ![a] = "off"]
  /\ \/ Send(a, "update", "down", load[a])
     \/ UNCHANGED inbox
  /\ UNCHANGED <<load, beaten, replicas, loopVars, hubVars, timeVars>>

Crash(a) ==
  /\ client[a] # "off" /\ Upset
  /\ client' = [client EXCEPT ![a] = "off"]
  /\ UNCHANGED <<load, beaten, inbox, replicas, loopVars, hubVars, timeVars>>

-----------------------------------------------------------------------------
(* The coordinator.                                                        *)

\* _handle_event of a heartbeat: it refreshes a known row, and promotes it when
\* it was taken for dead; an unknown replica is not registered.
MutHeartbeat(row, e) ==
  IF row = Gone THEN Gone
  ELSE IF row.load = e.load THEN row
  ELSE [status |-> IF row.status = "error" THEN "up" ELSE row.status,
        load |-> e.load, age |-> 0]
Heartbeat(row, e) ==
  IF row = Gone THEN Gone
  ELSE [status |-> IF row.status = "error" THEN "up" ELSE row.status,
        load |-> e.load, age |-> 0]

\* _handle_event of an update: registration, goodbye or new load.  A row that
\* is there keeps the time of its last heartbeat.
MutUpdate(row, e) ==
  IF row = Gone THEN [status |-> e.type, load |-> e.load, age |-> 0]
  ELSE IF e.status = "down" THEN [row EXCEPT !.status = "down"]
  ELSE [row EXCEPT !.status = e.status, !.load = e.load]
Update(row, e) ==
  IF row = Gone THEN [status |-> e.status, load |-> e.load, age |-> 0]
  ELSE IF e.status = "down" THEN [row EXCEPT !.status = "down"]
  ELSE [row EXCEPT !.status = e.status, !.load = e.load]

\* What a list to be published shows of a row.
Shown(row) == IF row = Gone THEN Gone ELSE <<row.status, row.load>>

Recv(a) ==
  /\ inbox[a] # << >>
  /\ inbox' = [inbox EXCEPT ![a] = Tail(@)]
  /\ LET e == Head(inbox[a])
         row == IF e.type = "heartbeat" THEN Heartbeat(replicas[a], e)
                ELSE Update(replicas[a], e)
     IN  /\ replicas' = [replicas EXCEPT ![a] = row]
         /\ pending' = (pending \/ e.type = "update" \/ Shown(row) # Shown(replicas[a]))
  /\ UNCHANGED <<clientVars, checked, flush, hubVars, upsets, timeVars>>

\* _check_heartbeat_timeouts, for one row.
Checked(row) ==
  IF row = Gone THEN Gone
  ELSE IF row.status = "up" /\ row.age > Timeout THEN [row EXCEPT !.status = "error"]
  ELSE IF row.status # "up" /\ row.age > GcTtl THEN Gone
  ELSE row

\* The heartbeat tick of _periodic_loop; every one asks for a broadcast.
MutCheck ==
  /\ flush.at = "idle" /\ ~checked
  /\ checked' = TRUE
  /\ replicas' = [a \in Addrs |-> Checked(replicas[a])]
  /\ pending' = (pending \/ \E a \in Addrs : Shown(replicas'[a]) # Shown(replicas[a]))
  /\ UNCHANGED <<clientVars, inbox, flush, hubVars, upsets, timeVars>>
Check ==
  /\ flush.at = "idle" /\ ~checked
  /\ checked' = TRUE
  /\ replicas' = [a \in Addrs |-> Checked(replicas[a])]
  /\ pending' = TRUE
  /\ UNCHANGED <<clientVars, inbox, flush, hubVars, upsets, timeVars>>

\* The flush of _periodic_loop reads the flag, then the table, publishes, and
\* clears the flag; the receiver runs between any two of these.
FlushBegins ==
  /\ flush.at = "idle" /\ pending
  /\ flush' = [flush EXCEPT !.at = "read"]
  /\ UNCHANGED <<clientVars, inbox, replicas, pending, checked, hubVars, upsets, timeVars>>

Active == {<<a, replicas[a].load>> :
             a \in {b \in Addrs : replicas[b] # Gone /\ replicas[b].status = "up"}}

GetActiveReplicas ==
  /\ flush.at = "read"
  /\ flush' = [at |-> "listed", list |-> Active]
  /\ UNCHANGED <<clientVars, inbox, replicas, pending, checked, hubVars, upsets, timeVars>>

\* PUB drops what nobody is subscribed to, and says it was sent.
Publish ==
  /\ flush.at = "listed" /\ Len(wire) < MaxWire
  /\ flush' = [at |-> "sent", list |-> {}]
  /\ wire' = IF hub.joined THEN Append(wire, flush.list) ELSE wire
  /\ UNCHANGED <<clientVars, inbox, replicas, pending, checked, hub, upsets, timeVars>>

PublishFails ==
  /\ flush.at = "listed" /\ Upset
  /\ flush' = [at |-> "idle", list |-> {}]
  /\ UNCHANGED <<clientVars, inbox, replicas, pending, checked, hubVars, timeVars>>

FlushEnds ==
  /\ flush.at = "sent"
  /\ flush' = [flush EXCEPT !.at = "idle"]
  /\ pending' = FALSE
  /\ UNCHANGED <<clientVars, inbox, replicas, checked, hubVars, upsets, timeVars>>

-----------------------------------------------------------------------------
(* The hub's client.                                                       *)

HubJoins ==
  /\ ~hub.joined
  /\ hub' = [hub EXCEPT !.joined = TRUE]
  /\ UNCHANGED <<clientVars, inbox, replicas, loopVars, wire, upsets, timeVars>>

\* A receive error: the socket is opened again, the cached list stays.
HubLoses ==
  /\ hub.joined /\ Upset
  /\ hub' = [hub EXCEPT !.joined = FALSE]
  /\ wire' = << >>
  /\ UNCHANGED <<clientVars, inbox, replicas, loopVars, timeVars>>

HubRecv ==
  /\ wire # << >>
  /\ wire' = Tail(wire)
  /\ hub' = [hub EXCEPT !.list = Head(wire)]
  /\ UNCHANGED <<clientVars, inbox, replicas, loopVars, upsets, timeVars>>

-----------------------------------------------------------------------------
\* A tick is over when every client that runs has beaten, its events have been
\* received, and the check was made.  The history counts the silence of an
\* address from its first registration on.
Heard(a) == replicas[a] # Gone \/ gap[a] > 0

Tick ==
  /\ checked
  /\ \A a \in Addrs : inbox[a] = << >> /\ (client[a] = "up" => a \in beaten)
  /\ beaten' = {} /\ checked' = FALSE
  /\ replicas' = [a \in Addrs |-> IF replicas[a] = Gone THEN Gone
                                  ELSE [replicas[a] EXCEPT !.age = Older(@)]]
  /\ silence' = [a \in Addrs |-> IF Heard(a) THEN Older(silence[a]) ELSE 0]
  /\ gap' = [a \in Addrs |-> IF silence'[a] > gap[a] THEN silence'[a] ELSE gap[a]]
  /\ UNCHANGED <<client, load, inbox, pending, flush, hubVars, upsets>>

Flush == FlushBegins \/ GetActiveReplicas \/ Publish \/ FlushEnds
Clock == Tick \/ Check \/ \E a \in Addrs : Beat(a) \/ Recv(a)

Next ==
  \/ \E a \in Addrs : \/ Start(a) \/ UpdateInfo(a) \/ Stall(a) \/ Resume(a)
                      \/ Close(a) \/ Crash(a)
  \/ Flush \/ PublishFails
  \/ HubJoins \/ HubLoses \/ HubRecv
  \/ Clock

Spec == Init /\ [][Next]_vars

\* The threads run (the flush fifty times a tick) and time passes; nobody has to
\* start, stop or resume.
Fairness == WF_vars(Flush) /\ WF_vars(Clock) /\ WF_vars(HubJoins) /\ WF_vars(HubRecv)
FairSpec == Spec /\ Fairness
-----------------------------------------------------------------------------
(* Properties.                                                             *)

\* Every variable has its type.
CoordTypeOK ==
  /\ client \in [Addrs -> {"off", "up", "stalled"}]
  /\ load \in [Addrs -> Loads]
  /\ beaten \subseteq Addrs
  /\ inbox \in [Addrs -> Seq(Event)]
  /\ replicas \in [Addrs -> Row \cup {Gone}]
  /\ pending \in BOOLEAN /\ checked \in BOOLEAN
  /\ flush \in [at : {"idle", "read", "listed", "sent"}, list : Lists]
  /\ wire \in Seq(Lists) /\ Len(wire) <= MaxWire
  /\ hub \in [joined : BOOLEAN, list : Lists]
  /\ upsets \in 0 .. MaxUpsets
  /\ silence \in [Addrs -> 0 .. GcTtl + 1] /\ gap \in [Addrs -> 0 .. GcTtl + 1]

\* A replica that runs, all of whose registrations have arrived, is UP in the
\* table, unless its address was silent for longer than the timeout; and it is
\* in the table at all, unless its address was silent for longer than the TTL.
RunningIsListed ==
  \A a \in Addrs :
    client[a] = "up" /\ (\A i \in DOMAIN inbox[a] : inbox[a][i].type # "update") =>
      \/ replicas[a] # Gone /\ replicas[a].status = "up"
      \/ replicas[a] # Gone /\ gap[a] > Timeout
      \/ gap[a] > GcTtl

\* When things settle, the hub's list is exactly the replicas that run and have
\* a row, with their present loads: lost goodbyes, crashes, lost and overtaken
\* broadcasts, late and lost connections and false alarms are all made good.
\* A replica whose row was collected is not: its heartbeats do not restore it.
HubConverges ==
  <>[](hub.list = {<<a, load[a]>> :
         a \in {b \in Addrs : client[b] = "up" /\ replicas[b] # Gone}})
=============================================================================
