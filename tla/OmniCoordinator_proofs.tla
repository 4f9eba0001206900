------------------------ MODULE OmniCoordinator_proofs ------------------------
(***************************************************************************)
(* For any replicas, loads, timeouts and bounds: a replica that runs is UP *)
(* in the coordinator's table, unless it was silent for too long.          *)
(*                                                                         *)
(* The argument is about one address at a time.  The age of a row is       *)
(* bounded by the address's silence, unless a heartbeat is on its way; so  *)
(* a row that is taken for dead, or collected, was silent for longer than  *)
(* the timeout, or the TTL.  And a goodbye of an earlier life is always    *)
(* followed by the registration of the present one.                        *)
(***************************************************************************)
EXTENDS OmniCoordinator, SequenceTheorems, TLAPS

IsUp(e) == e.type = "update" /\ e.status = "up"
UpComes(a) == \E i \in DOMAIN inbox[a] : IsUp(inbox[a][i])
BeatComes(a) == \E i \in DOMAIN inbox[a] : inbox[a][i].type = "heartbeat"
Listed(a) == replicas[a] # Gone

AgeBelowGap(a) == Listed(a) => replicas[a].age <= gap[a]
AgeBelowSilence(a) == Listed(a) /\ ~BeatComes(a) => replicas[a].age <= silence[a]
ErrorIsLate(a) == Listed(a) /\ replicas[a].status = "error" => gap[a] > Timeout

\* A registration that was not collected for its silence is still coming.
GoneIsLate(a) == client[a] # "off" /\ ~Listed(a) => UpComes(a) \/ gap[a] > GcTtl

\* The goodbye of an earlier life, received or not, is followed by a registration.
DownIsOver(a) ==
  client[a] # "off" =>
    /\ Listed(a) /\ replicas[a].status = "down" => UpComes(a)
    /\ \A i \in DOMAIN inbox[a] : inbox[a][i].status = "down" =>
         \E j \in DOMAIN inbox[a] : i < j /\ IsUp(inbox[a][j])

Late(a) ==
  AgeBelowGap(a) /\ AgeBelowSilence(a) /\ ErrorIsLate(a) /\ GoneIsLate(a) /\ DownIsOver(a)

CoordInv == CoordTypeOK /\ \A a \in Addrs : Late(a)

-----------------------------------------------------------------------------
(* Types.                                                                  *)

LEMMA Numbers == Timeout \in Nat /\ GcTtl \in Nat /\ Timeout < GcTtl /\ MaxUpsets \in Nat
BY TimesAssumption

LEMMA OlderFacts ==
  /\ \A n \in 0 .. GcTtl + 1 : Older(n) \in 0 .. GcTtl + 1
  /\ \A m, n \in 0 .. GcTtl + 1 : m <= n => Older(m) <= Older(n)
BY Numbers DEF Older

LEMMA UpsetFacts == upsets \in 0 .. MaxUpsets /\ Upset => upsets' \in 0 .. MaxUpsets
BY Numbers DEF Upset

LEMMA HeartbeatType ==
  ASSUME NEW row \in Row \cup {Gone}, NEW e \in Event
  PROVE  /\ row # Gone => Heartbeat(row, e) \in Row
         /\ row = Gone => Heartbeat(row, e) = Gone
BY Numbers DEF Heartbeat, Row, Event

LEMMA UpdateType ==
  ASSUME NEW row \in Row \cup {Gone}, NEW e \in Event
  PROVE  Update(row, e) \in Row /\ Update(row, e).status = e.status
<1>1. e.status \in {"up", "down"} /\ e.load \in Loads
  BY DEF Event
<1>2. CASE row = Gone
  BY <1>1, <1>2, Numbers DEF Update, Row
<1>3. CASE row \in Row /\ row # Gone
  <2>1. CASE e.status = "down"
    BY <1>3, <2>1 DEF Update, Row
  <2>2. CASE e.status = "up"
    BY <1>1, <1>3, <2>2 DEF Update, Row
  <2> QED BY <1>1, <2>1, <2>2
<1> QED BY <1>2, <1>3

LEMMA CheckedType ==
  ASSUME NEW row \in Row \cup {Gone}
  PROVE  Checked(row) \in Row \cup {Gone}
BY DEF Checked, Row

\* What a step that sends an event does to its address's inbox.
LEMMA SendFacts ==
  ASSUME CoordTypeOK, NEW a \in Addrs, NEW e \in Event,
         inbox' = [inbox EXCEPT ![a] = Append(@, e)]
  PROVE  /\ inbox' \in [Addrs -> Seq(Event)]
         /\ \A b \in Addrs : b # a => inbox'[b] = inbox[b]
         /\ DOMAIN inbox'[a] = 1 .. Len(inbox[a]) + 1
         /\ DOMAIN inbox[a] = 1 .. Len(inbox[a]) /\ Len(inbox[a]) \in Nat
         /\ \A i \in DOMAIN inbox[a] : inbox'[a][i] = inbox[a][i]
         /\ inbox'[a][Len(inbox[a]) + 1] = e
<1>1. inbox \in [Addrs -> Seq(Event)] /\ inbox[a] \in Seq(Event)
  BY DEF CoordTypeOK
<1>2. inbox'[a] = Append(inbox[a], e)
  BY <1>1
<1>3. /\ inbox'[a] \in Seq(Event) /\ Len(inbox'[a]) = Len(inbox[a]) + 1
      /\ Len(inbox[a]) \in Nat
      /\ DOMAIN inbox[a] = 1 .. Len(inbox[a]) /\ DOMAIN inbox'[a] = 1 .. Len(inbox'[a])
      /\ \A i \in 1 .. Len(inbox[a]) : inbox'[a][i] = inbox[a][i]
      /\ inbox'[a][Len(inbox[a]) + 1] = e
  BY <1>1, <1>2, AppendProperties, LenProperties
<1> QED BY <1>1, <1>3

LEMMA SentEvent ==
  ASSUME CoordTypeOK, NEW type \in {"update", "heartbeat"}, NEW status \in {"up", "down"},
         NEW n \in Loads
  PROVE  [type |-> type, status |-> status, load |-> n] \in Event
BY DEF Event

-----------------------------------------------------------------------------
(* The silence of an address.                                              *)

\* Steps that touch neither messages nor rows nor time, and start no client.
LEMMA QuietStep ==
  ASSUME CoordInv, UNCHANGED <<inbox, replicas, silence, gap>>,
         \A a \in Addrs : client'[a] # "off" => client[a] # "off"
  PROVE  \A a \in Addrs : Late(a)'
<1> TAKE a \in Addrs
<1>1. /\ (UpComes(a)' <=> UpComes(a)) /\ (BeatComes(a)' <=> BeatComes(a))
      /\ (Listed(a)' <=> Listed(a))
  BY DEF UpComes, BeatComes, Listed
<1> QED BY <1>1 DEF CoordInv, Late, AgeBelowGap, AgeBelowSilence, ErrorIsLate, GoneIsLate,
                    DownIsOver

\* A client sends an event: a heartbeat breaks the silence; only a registration
\* starts a client, only a goodbye is not UP, and it ends one.
LEMMA SendStep ==
  ASSUME CoordInv, NEW a \in Addrs, NEW e \in Event,
         inbox' = [inbox EXCEPT ![a] = Append(@, e)],
         UNCHANGED <<replicas, gap>>,
         \A b \in Addrs : b # a => client'[b] = client[b] /\ silence'[b] = silence[b],
         e.type = "heartbeat" \/ silence'[a] = silence[a],
         client'[a] # "off" => IsUp(e) \/ (client[a] # "off" /\ e.status = "up")
  PROVE  \A b \in Addrs : Late(b)'
<1>0. /\ \A b \in Addrs : b # a => inbox'[b] = inbox[b]
      /\ DOMAIN inbox'[a] = 1 .. Len(inbox[a]) + 1
      /\ DOMAIN inbox[a] = 1 .. Len(inbox[a]) /\ Len(inbox[a]) \in Nat
      /\ \A i \in DOMAIN inbox[a] : inbox'[a][i] = inbox[a][i]
      /\ inbox'[a][Len(inbox[a]) + 1] = e
  BY SendFacts DEF CoordInv
<1>1. ASSUME NEW b \in Addrs, b # a PROVE Late(b)'
  <2>1. /\ (UpComes(b)' <=> UpComes(b)) /\ (BeatComes(b)' <=> BeatComes(b))
        /\ (Listed(b)' <=> Listed(b))
    BY <1>0, <1>1 DEF UpComes, BeatComes, Listed
  <2> QED BY <1>0, <1>1, <2>1 DEF CoordInv, Late, AgeBelowGap, AgeBelowSilence, ErrorIsLate,
                                  GoneIsLate, DownIsOver
<1>2. Late(a)'
  <2>1. UpComes(a) \/ IsUp(e) => UpComes(a)'
    BY <1>0 DEF UpComes
  <2>2. BeatComes(a) \/ e.type = "heartbeat" => BeatComes(a)'
    BY <1>0 DEF BeatComes
  <2>3. Listed(a)' <=> Listed(a)
    BY DEF Listed
  <2>4. AgeBelowGap(a)' /\ ErrorIsLate(a)'
    BY <2>3 DEF CoordInv, Late, AgeBelowGap, ErrorIsLate
  <2>5. AgeBelowSilence(a)'
    BY <2>2, <2>3 DEF CoordInv, Late, AgeBelowSilence
  <2>6. GoneIsLate(a)'
    BY <2>1, <2>3 DEF CoordInv, Late, GoneIsLate
  <2>7. DownIsOver(a)'
    <3> SUFFICES ASSUME client'[a] # "off"
                 PROVE  /\ Listed(a)' /\ replicas'[a].status = "down" => UpComes(a)'
                        /\ \A i \in DOMAIN inbox'[a] : inbox'[a][i].status = "down" =>
                             \E j \in DOMAIN inbox'[a] : i < j /\ IsUp(inbox'[a][j])
      BY DEF DownIsOver
    <3>1. Listed(a)' /\ replicas'[a].status = "down" => UpComes(a)'
      BY <2>1, <2>3 DEF CoordInv, Late, DownIsOver
    <3>2. ASSUME NEW i \in DOMAIN inbox'[a], inbox'[a][i].status = "down"
          PROVE  \E j \in DOMAIN inbox'[a] : i < j /\ IsUp(inbox'[a][j])
      <4>0. e.status = "up"
        BY DEF IsUp
      <4>1. i \in DOMAIN inbox[a]
        BY <1>0, <3>2, <4>0
      <4>2. CASE IsUp(e)
        <5>1. Len(inbox[a]) + 1 \in DOMAIN inbox'[a] /\ i < Len(inbox[a]) + 1
          BY <1>0, <4>1
        <5> QED BY <1>0, <4>2, <5>1
      <4>3. CASE client[a] # "off"
        <5>1. PICK j \in DOMAIN inbox[a] : i < j /\ IsUp(inbox[a][j])
          BY <1>0, <3>2, <4>1, <4>3 DEF CoordInv, Late, DownIsOver
        <5> QED BY <1>0, <5>1
      <4> QED BY <4>2, <4>3
    <3> QED BY <3>1, <3>2
  <2> QED BY <2>4, <2>5, <2>6, <2>7 DEF Late
<1> QED BY <1>1, <1>2

\* The receiver handles the next event of an address.
LEMMA RecvStep ==
  ASSUME CoordInv, NEW a \in Addrs, Recv(a)
  PROVE  CoordInv'
<1> DEFINE e == Head(inbox[a])
           row == IF e.type = "heartbeat" THEN Heartbeat(replicas[a], e) ELSE Update(replicas[a], e)
<1>0. inbox \in [Addrs -> Seq(Event)] /\ inbox[a] \in Seq(Event) /\ inbox[a] # << >>
      /\ inbox' = [inbox EXCEPT ![a] = Tail(@)] /\ inbox'[a] = Tail(inbox[a])
      /\ replicas \in [Addrs -> Row \cup {Gone}] /\ replicas[a] \in Row \cup {Gone}
      /\ replicas' = [replicas EXCEPT ![a] = row] /\ replicas'[a] = row
      /\ UNCHANGED <<client, silence, gap>>
  BY DEF Recv, CoordInv, CoordTypeOK, clientVars, timeVars
<1>1. /\ inbox'[a] \in Seq(Event) /\ Len(inbox'[a]) = Len(inbox[a]) - 1
      /\ Len(inbox[a]) \in Nat \ {0}
      /\ DOMAIN inbox[a] = 1 .. Len(inbox[a]) /\ DOMAIN inbox'[a] = 1 .. Len(inbox[a]) - 1
      /\ \A i \in DOMAIN inbox'[a] : inbox'[a][i] = inbox[a][i + 1]
      /\ e = inbox[a][1] /\ e \in Event
  BY <1>0, HeadTailProperties, EmptySeq, LenProperties, ElementOfSeq
<1>2. /\ row \in Row \cup {Gone} /\ (e.type = "update" => row \in Row /\ row.status = e.status)
      /\ e.type = "heartbeat" /\ row = Gone => replicas[a] = Gone
  BY <1>0, <1>1, HeartbeatType, UpdateType, GoneAssumption DEF Event
<1>3. CoordTypeOK'
  <2>1. inbox' \in [Addrs -> Seq(Event)] /\ replicas' \in [Addrs -> Row \cup {Gone}]
    BY <1>0, <1>1, <1>2
  <2>2. pending' \in BOOLEAN
    BY DEF Recv
  <2> QED BY <2>1, <2>2 DEF Recv, CoordInv, CoordTypeOK, clientVars, hubVars, timeVars
<1>4. ASSUME NEW b \in Addrs, b # a PROVE Late(b)'
  <2>0. inbox'[b] = inbox[b] /\ replicas'[b] = replicas[b]
    BY <1>0, <1>4
  <2>1. /\ (UpComes(b)' <=> UpComes(b)) /\ (BeatComes(b)' <=> BeatComes(b))
        /\ (Listed(b)' <=> Listed(b))
    BY <2>0 DEF UpComes, BeatComes, Listed
  <2> QED BY <1>0, <2>0, <2>1 DEF CoordInv, Late, AgeBelowGap, AgeBelowSilence, ErrorIsLate,
                                  GoneIsLate, DownIsOver
<1>5. Late(a)'
  <2>0. silence[a] \in 0 .. GcTtl + 1 /\ gap[a] \in 0 .. GcTtl + 1
    BY DEF CoordInv, CoordTypeOK
  <2>1. UpComes(a) /\ ~IsUp(e) => UpComes(a)'
    <3> SUFFICES ASSUME NEW i \in DOMAIN inbox[a], IsUp(inbox[a][i]), ~IsUp(e)
                 PROVE  UpComes(a)'
      BY DEF UpComes
    <3>1. i - 1 \in DOMAIN inbox'[a] /\ inbox'[a][i - 1] = inbox[a][i]
      BY <1>1
    <3> QED BY <3>1 DEF UpComes
  <2>2. BeatComes(a) /\ e.type # "heartbeat" => BeatComes(a)'
    <3> SUFFICES ASSUME NEW i \in DOMAIN inbox[a], inbox[a][i].type = "heartbeat",
                        e.type # "heartbeat"
                 PROVE  BeatComes(a)'
      BY DEF BeatComes
    <3>1. i # 1
      BY <1>1
    <3>2. i - 1 \in DOMAIN inbox'[a] /\ inbox'[a][i - 1] = inbox[a][i]
      BY <1>1, <3>1
    <3> QED BY <3>2 DEF BeatComes
  <2>3. Listed(a)' => \/ row.age = 0
                      \/ Listed(a) /\ e.type # "heartbeat" /\ row.age = replicas[a].age
    BY <1>0, <1>1, <1>2 DEF Listed, Heartbeat, Update, Row, Event
  <2>4. AgeBelowGap(a)'
    BY <1>0, <2>0, <2>3 DEF CoordInv, Late, AgeBelowGap
  <2>5. AgeBelowSilence(a)'
    BY <1>0, <2>0, <2>2, <2>3 DEF CoordInv, Late, AgeBelowSilence
  <2>6. ErrorIsLate(a)'
    <3>1. Listed(a)' => row.status # "error"
      <4>1. CASE e.type = "heartbeat"
        BY <1>0, <1>2, <4>1 DEF Listed, Heartbeat, Row
      <4>2. CASE e.type = "update"
        BY <1>1, <1>2, <4>2 DEF Event
      <4> QED BY <1>1, <4>1, <4>2 DEF Event
    <3> QED BY <1>0, <3>1 DEF ErrorIsLate
  <2>7. GoneIsLate(a)'
    <3>1. CASE e.type = "heartbeat"
      <4>1. ~Listed(a)' => ~Listed(a)
        BY <1>0, <1>2, <3>1 DEF Listed
      <4>2. UpComes(a) => UpComes(a)'
        BY <2>1, <3>1 DEF IsUp
      <4> QED BY <1>0, <4>1, <4>2 DEF CoordInv, Late, GoneIsLate
    <3>2. CASE e.type = "update"
      BY <1>0, <1>2, <3>2, GoneAssumption DEF GoneIsLate, Listed
    <3> QED BY <1>1, <3>1, <3>2 DEF Event
  <2>8. DownIsOver(a)'
    <3> SUFFICES ASSUME client[a] # "off"
                 PROVE  /\ Listed(a)' /\ row.status = "down" => UpComes(a)'
                        /\ \A i \in DOMAIN inbox'[a] : inbox'[a][i].status = "down" =>
                             \E j \in DOMAIN inbox'[a] : i < j /\ IsUp(inbox'[a][j])
      BY <1>0 DEF DownIsOver
    <3>1. \A i \in DOMAIN inbox[a] : inbox[a][i].status = "down" =>
            \E j \in DOMAIN inbox[a] : i < j /\ IsUp(inbox[a][j])
      BY DEF CoordInv, Late, DownIsOver
    <3>2. ASSUME NEW i \in DOMAIN inbox'[a], inbox'[a][i].status = "down"
          PROVE  \E j \in DOMAIN inbox'[a] : i < j /\ IsUp(inbox'[a][j])
      <4>1. i + 1 \in DOMAIN inbox[a] /\ inbox[a][i + 1].status = "down"
        BY <1>1, <3>2
      <4>2. PICK j \in DOMAIN inbox[a] : i + 1 < j /\ IsUp(inbox[a][j])
        BY <3>1, <4>1
      <4>3. j - 1 \in DOMAIN inbox'[a] /\ i < j - 1 /\ inbox'[a][j - 1] = inbox[a][j]
        BY <1>1, <4>2
      <4> QED BY <4>2, <4>3
    <3>3. ASSUME Listed(a)', row.status = "down" PROVE UpComes(a)'
      <4>1. CASE e.type = "heartbeat"
        <5>1. Listed(a) /\ replicas[a].status = "down"
          BY <1>0, <1>2, <3>3, <4>1 DEF Listed, Heartbeat, Row
        <5>2. ~IsUp(e) /\ UpComes(a)
          BY <4>1, <5>1 DEF IsUp, CoordInv, Late, DownIsOver
        <5> QED BY <2>1, <5>2
      <4>2. CASE e.type = "update"
        <5>1. e.status = "down" /\ 1 \in DOMAIN inbox[a]
          BY <1>1, <1>2, <3>3, <4>2
        <5>2. ~IsUp(e) /\ UpComes(a)
          BY <1>1, <3>1, <5>1 DEF IsUp, UpComes
        <5> QED BY <2>1, <5>2
      <4> QED BY <1>1, <4>1, <4>2 DEF Event
    <3> QED BY <3>2, <3>3
  <2> QED BY <2>4, <2>5, <2>6, <2>7, <2>8 DEF Late
<1> QED BY <1>3, <1>4, <1>5 DEF CoordInv

\* The timeouts are checked.
LEMMA CheckStep ==
  ASSUME CoordInv, Check
  PROVE  CoordInv'
<1>0. /\ replicas \in [Addrs -> Row \cup {Gone}]
      /\ replicas' = [a \in Addrs |-> Checked(replicas[a])]
      /\ UNCHANGED <<client, inbox, silence, gap>>
  BY DEF Check, CoordInv, CoordTypeOK, clientVars, timeVars
<1>1. CoordTypeOK'
  <2>1. replicas' \in [Addrs -> Row \cup {Gone}]
    BY <1>0, CheckedType
  <2> QED BY <2>1 DEF Check, CoordInv, CoordTypeOK, clientVars, hubVars, timeVars
<1>2. ASSUME NEW a \in Addrs PROVE Late(a)'
  <2>0. /\ replicas[a] \in Row \cup {Gone} /\ replicas'[a] = Checked(replicas[a])
        /\ gap[a] \in 0 .. GcTtl + 1
    BY <1>0 DEF CoordInv, CoordTypeOK
  <2>1. (UpComes(a)' <=> UpComes(a)) /\ (BeatComes(a)' <=> BeatComes(a))
    BY <1>0 DEF UpComes, BeatComes
  <2>2. Listed(a)' => /\ Listed(a) /\ replicas'[a].age = replicas[a].age
                      /\ \/ replicas'[a].status = replicas[a].status
                         \/ replicas'[a].status = "error" /\ replicas[a].age > Timeout
    BY <2>0 DEF Listed, Checked, Row
  <2>3. Listed(a) /\ ~Listed(a)' => replicas[a].age > GcTtl
    BY <2>0, GoneAssumption DEF Listed, Checked, Row
  <2>4. Listed(a) => replicas[a].age \in 0 .. GcTtl + 1
    BY <2>0 DEF Listed, Row
  <2>5. AgeBelowGap(a)' /\ AgeBelowSilence(a)'
    BY <1>0, <2>1, <2>2 DEF CoordInv, Late, AgeBelowGap, AgeBelowSilence
  <2>6. ErrorIsLate(a)'
    BY <1>0, <2>0, <2>2, <2>4, Numbers DEF CoordInv, Late, AgeBelowGap, ErrorIsLate
  <2>7. GoneIsLate(a)'
    BY <1>0, <2>0, <2>1, <2>3, <2>4, Numbers DEF CoordInv, Late, AgeBelowGap, GoneIsLate
  <2>8. DownIsOver(a)'
    BY <1>0, <2>1, <2>2 DEF CoordInv, Late, DownIsOver
  <2> QED BY <2>5, <2>6, <2>7, <2>8 DEF Late
<1> QED BY <1>1, <1>2 DEF CoordInv

\* Time passes, when every event has arrived.
LEMMA TickStep ==
  ASSUME CoordInv, Tick
  PROVE  CoordInv'
<1>0. /\ replicas \in [Addrs -> Row \cup {Gone}]
      /\ silence \in [Addrs -> 0 .. GcTtl + 1] /\ gap \in [Addrs -> 0 .. GcTtl + 1]
      /\ UNCHANGED <<client, inbox>>
      /\ replicas' = [a \in Addrs |-> IF replicas[a] = Gone THEN Gone
                                      ELSE [replicas[a] EXCEPT !.age = Older(@)]]
      /\ silence' = [a \in Addrs |-> IF Heard(a) THEN Older(silence[a]) ELSE 0]
      /\ gap' = [a \in Addrs |-> IF silence'[a] > gap[a] THEN silence'[a] ELSE gap[a]]
  BY DEF Tick, CoordInv, CoordTypeOK
<1>1. silence' \in [Addrs -> 0 .. GcTtl + 1] /\ gap' \in [Addrs -> 0 .. GcTtl + 1]
  <2>1. silence' \in [Addrs -> 0 .. GcTtl + 1]
    BY <1>0, OlderFacts, Numbers
  <2> QED BY <1>0, <2>1
<1>2. CoordTypeOK'
  <2>1. replicas' \in [Addrs -> Row \cup {Gone}]
    <3>1. \A r \in Row : [r EXCEPT !.age = Older(@)] \in Row
      BY OlderFacts DEF Row
    <3> QED BY <1>0, <3>1
  <2>2. beaten' \subseteq Addrs /\ checked' \in BOOLEAN
    BY DEF Tick
  <2> QED BY <1>1, <2>1, <2>2 DEF Tick, CoordInv, CoordTypeOK, hubVars
<1>3. ASSUME NEW a \in Addrs PROVE Late(a)'
  <2>0. /\ silence'[a] <= gap'[a] /\ gap[a] <= gap'[a]
        /\ silence[a] \in 0 .. GcTtl + 1 /\ gap[a] \in 0 .. GcTtl + 1
        /\ silence'[a] \in 0 .. GcTtl + 1 /\ gap'[a] \in 0 .. GcTtl + 1
    BY <1>0, <1>1
  <2>1. (UpComes(a)' <=> UpComes(a)) /\ ~BeatComes(a)
    BY <1>0 DEF Tick, UpComes, BeatComes
  <2>2. (Listed(a)' => Listed(a)) /\ (Listed(a) => Listed(a)')
    <3>1. Listed(a) => [replicas[a] EXCEPT !.age = Older(@)] \in Row
      BY <1>0, OlderFacts DEF Listed, Row
    <3> QED BY <1>0, <3>1, GoneAssumption DEF Listed
  <2>3. Listed(a) => /\ replicas'[a].age = Older(replicas[a].age)
                     /\ replicas'[a].status = replicas[a].status
                     /\ silence'[a] = Older(silence[a])
                     /\ replicas[a].age \in 0 .. GcTtl + 1
    BY <1>0 DEF Listed, Heard, Row
  <2>4. Listed(a) => replicas'[a].age <= silence'[a] /\ replicas'[a].age \in 0 .. GcTtl + 1
    BY <2>0, <2>1, <2>3, OlderFacts DEF CoordInv, Late, AgeBelowSilence
  <2>5. AgeBelowGap(a)' /\ AgeBelowSilence(a)'
    BY <2>0, <2>2, <2>4 DEF AgeBelowGap, AgeBelowSilence
  <2>6. ErrorIsLate(a)'
    BY <2>0, <2>2, <2>3, Numbers DEF CoordInv, Late, ErrorIsLate
  <2>7. GoneIsLate(a)'
    BY <1>0, <2>0, <2>1, <2>2, Numbers DEF CoordInv, Late, GoneIsLate
  <2>8. DownIsOver(a)'
    BY <1>0, <2>1, <2>2, <2>3 DEF CoordInv, Late, DownIsOver
  <2> QED BY <2>5, <2>6, <2>7, <2>8 DEF Late
<1> QED BY <1>2, <1>3 DEF CoordInv

-----------------------------------------------------------------------------
(* Every step.                                                             *)

LEMMA CoordInit == Init => CoordInv
<1> SUFFICES ASSUME Init PROVE CoordInv
  OBVIOUS
<1>1. CoordTypeOK
  <2>1. /\ inbox \in [Addrs -> Seq(Event)] /\ wire \in Seq(Lists) /\ Len(wire) = 0
        /\ {} \in Lists
    BY EmptySeq DEF Init, Lists
  <2>2. load \in [Addrs -> Loads]
    BY AddrsAssumption DEF Init
  <2>3. /\ upsets \in 0 .. MaxUpsets /\ 0 <= MaxWire
        /\ silence \in [Addrs -> 0 .. GcTtl + 1] /\ gap \in [Addrs -> 0 .. GcTtl + 1]
    BY TimesAssumption DEF Init
  <2> QED BY <2>1, <2>2, <2>3 DEF Init, CoordTypeOK
<1>2. ASSUME NEW a \in Addrs PROVE Late(a)
  BY <1>2 DEF Init, Late, AgeBelowGap, AgeBelowSilence, ErrorIsLate, GoneIsLate, DownIsOver, Listed
<1> QED BY <1>1, <1>2 DEF CoordInv

\* The steps of a client.
LEMMA ClientStep ==
  ASSUME CoordInv, NEW a \in Addrs,
         Start(a) \/ Beat(a) \/ UpdateInfo(a) \/ Stall(a) \/ Resume(a) \/ Close(a) \/ Crash(a)
  PROVE  CoordInv'
<1>0. CoordTypeOK
  BY DEF CoordInv
<1>1. CASE Start(a)
  <2> DEFINE e == [type |-> "update", status |-> "up", load |-> 0]
  <2>1. e \in Event /\ IsUp(e)
    BY AddrsAssumption, SentEvent, <1>0 DEF IsUp
  <2>2. inbox' = [inbox EXCEPT ![a] = Append(@, e)]
    BY <1>1 DEF Start, Send
  <2> HIDE DEF e
  <2>3. CoordTypeOK'
    BY <1>0, <1>1, <2>1, <2>2, SendFacts, UpsetFacts, AddrsAssumption
    DEF Start, CoordTypeOK, hubVars, loopVars, timeVars
  <2>4. \A b \in Addrs : b # a => client'[b] = client[b] /\ silence'[b] = silence[b]
    BY <1>0, <1>1 DEF Start, CoordTypeOK, timeVars
  <2>5. UNCHANGED <<replicas, gap, silence>>
    BY <1>1 DEF Start, timeVars
  <2> QED BY <2>1, <2>2, <2>3, <2>4, <2>5, SendStep DEF CoordInv
<1>2. CASE Beat(a)
  <2>0. PICK n \in Loads :
          /\ IF n = load[a] THEN UNCHANGED upsets ELSE Upset
          /\ load' = [load EXCEPT ![a] = n]
          /\ Send(a, "heartbeat", "up", n)
    BY <1>2 DEF Beat
  <2> DEFINE e == [type |-> "heartbeat", status |-> "up", load |-> n]
  <2>1. e \in Event /\ e.type = "heartbeat" /\ e.status = "up"
    BY SentEvent, <1>0
  <2>2. inbox' = [inbox EXCEPT ![a] = Append(@, e)]
    BY <2>0 DEF Send
  <2> HIDE DEF e
  <2>6. upsets' \in 0 .. MaxUpsets
    BY <1>0, <2>0, UpsetFacts DEF CoordTypeOK
  <2>7. silence' \in [Addrs -> 0 .. GcTtl + 1]
    BY <1>0, <1>2, Numbers DEF Beat, CoordTypeOK
  <2>3. CoordTypeOK'
    BY <1>0, <1>2, <2>0, <2>1, <2>2, <2>6, <2>7, SendFacts
    DEF Beat, CoordTypeOK, hubVars, loopVars
  <2>4. \A b \in Addrs : b # a => client'[b] = client[b] /\ silence'[b] = silence[b]
    BY <1>0, <1>2 DEF Beat, CoordTypeOK
  <2>5. UNCHANGED <<replicas, gap, client>> /\ client[a] = "up"
    BY <1>2 DEF Beat
  <2> QED BY <2>1, <2>2, <2>3, <2>4, <2>5, SendStep DEF CoordInv
<1>3. CASE UpdateInfo(a)
  <2>0. PICK n \in Loads : load' = [load EXCEPT ![a] = n] /\ Send(a, "update", "up", n)
    BY <1>3 DEF UpdateInfo
  <2> DEFINE e == [type |-> "update", status |-> "up", load |-> n]
  <2>1. e \in Event /\ IsUp(e)
    BY SentEvent, <1>0 DEF IsUp
  <2>2. inbox' = [inbox EXCEPT ![a] = Append(@, e)]
    BY <2>0 DEF Send
  <2> HIDE DEF e
  <2>3. CoordTypeOK'
    BY <1>0, <1>3, <2>0, <2>1, <2>2, SendFacts, UpsetFacts
    DEF UpdateInfo, CoordTypeOK, hubVars, loopVars, timeVars
  <2>4. UNCHANGED <<replicas, gap, silence, client>>
    BY <1>3 DEF UpdateInfo, timeVars
  <2> QED BY <2>1, <2>2, <2>3, <2>4, SendStep DEF CoordInv
<1>4. CASE Stall(a)
  <2>1. CoordTypeOK'
    BY <1>0, <1>4, UpsetFacts DEF Stall, CoordTypeOK, hubVars, loopVars, timeVars
  <2>2. \A b \in Addrs : client'[b] # "off" => client[b] # "off"
    BY <1>0, <1>4 DEF Stall, CoordTypeOK
  <2>3. UNCHANGED <<inbox, replicas, silence, gap>>
    BY <1>4 DEF Stall, timeVars
  <2> QED BY <2>1, <2>2, <2>3, QuietStep DEF CoordInv
<1>5. CASE Resume(a)
  <2>1. CoordTypeOK'
    BY <1>0, <1>5 DEF Resume, CoordTypeOK, hubVars, loopVars, timeVars
  <2>2. \A b \in Addrs : client'[b] # "off" => client[b] # "off"
    BY <1>0, <1>5 DEF Resume, CoordTypeOK
  <2>3. UNCHANGED <<inbox, replicas, silence, gap>>
    BY <1>5 DEF Resume, timeVars
  <2> QED BY <2>1, <2>2, <2>3, QuietStep DEF CoordInv
<1>6. CASE Close(a)
  <2>0. /\ client' = [client EXCEPT ![a] = "off"] /\ client'[a] = "off"
        /\ UNCHANGED <<load, beaten, replicas, silence, gap>>
        /\ \A b \in Addrs : b # a => client'[b] = client[b]
    BY <1>0, <1>6 DEF Close, CoordTypeOK, timeVars
  <2>1. CASE Send(a, "update", "down", load[a])
    <3> DEFINE e == [type |-> "update", status |-> "down", load |-> load[a]]
    <3>1. e \in Event
      BY <1>0 DEF CoordTypeOK, Event
    <3>2. inbox' = [inbox EXCEPT ![a] = Append(@, e)]
      BY <2>1 DEF Send
    <3> HIDE DEF e
    <3>3. CoordTypeOK'
      BY <1>0, <1>6, <3>1, <3>2, SendFacts, UpsetFacts
      DEF Close, CoordTypeOK, hubVars, loopVars, timeVars
    <3> QED BY <2>0, <3>1, <3>2, <3>3, SendStep DEF CoordInv
  <2>2. CASE UNCHANGED inbox
    <3>1. CoordTypeOK'
      BY <1>0, <1>6, <2>2, UpsetFacts DEF Close, CoordTypeOK, hubVars, loopVars, timeVars
    <3> QED BY <2>0, <2>2, <3>1, QuietStep DEF CoordInv
  <2> QED BY <1>6, <2>1, <2>2 DEF Close
<1>7. CASE Crash(a)
  <2>1. CoordTypeOK'
    BY <1>0, <1>7, UpsetFacts DEF Crash, CoordTypeOK, hubVars, loopVars, timeVars
  <2>2. \A b \in Addrs : client'[b] # "off" => client[b] # "off"
    BY <1>0, <1>7 DEF Crash, CoordTypeOK
  <2>3. UNCHANGED <<inbox, replicas, silence, gap>>
    BY <1>7 DEF Crash, timeVars
  <2> QED BY <2>1, <2>2, <2>3, QuietStep DEF CoordInv
<1> QED BY <1>1, <1>2, <1>3, <1>4, <1>5, <1>6, <1>7

\* The flush and the hub's client move lists only.
LEMMA ListStep ==
  ASSUME CoordInv, Flush \/ PublishFails \/ HubJoins \/ HubLoses \/ HubRecv
  PROVE  CoordInv'
<1>0. CoordTypeOK
  BY DEF CoordInv
<1>1. UNCHANGED <<client, inbox, replicas, silence, gap>>
  BY DEF Flush, FlushBegins, GetActiveReplicas, Publish, PublishFails, FlushEnds, HubJoins,
         HubLoses, HubRecv, clientVars, timeVars
<1>2. CoordTypeOK'
  <2>1. CASE FlushBegins
    BY <1>0, <2>1 DEF FlushBegins, CoordTypeOK, clientVars, hubVars, timeVars
  <2>2. CASE GetActiveReplicas
    <3>1. Active \in Lists
      BY <1>0 DEF Active, Lists, CoordTypeOK, Row
    <3> QED BY <1>0, <2>2, <3>1
            DEF GetActiveReplicas, CoordTypeOK, clientVars, hubVars, timeVars
  <2>3. CASE Publish
    <3>1. wire' \in Seq(Lists) /\ Len(wire') <= MaxWire
      <4>1. Append(wire, flush.list) \in Seq(Lists) /\ Len(Append(wire, flush.list)) = Len(wire) + 1
        BY <1>0, AppendProperties DEF CoordTypeOK
      <4>2. Len(wire) + 1 <= MaxWire
        BY <1>0, <2>3, TimesAssumption, LenProperties DEF Publish, CoordTypeOK
      <4> QED BY <1>0, <2>3, <4>1, <4>2 DEF Publish, CoordTypeOK
    <3>2. {} \in Lists
      BY DEF Lists
    <3> QED BY <1>0, <2>3, <3>1, <3>2 DEF Publish, CoordTypeOK, clientVars, timeVars
  <2>4. CASE PublishFails
    <3>1. {} \in Lists
      BY DEF Lists
    <3> QED BY <1>0, <2>4, <3>1, UpsetFacts
            DEF PublishFails, CoordTypeOK, clientVars, hubVars, timeVars
  <2>5. CASE FlushEnds
    BY <1>0, <2>5 DEF FlushEnds, CoordTypeOK, clientVars, hubVars, timeVars
  <2>6. CASE HubJoins
    BY <1>0, <2>6 DEF HubJoins, CoordTypeOK, clientVars, loopVars, timeVars
  <2>7. CASE HubLoses
    <3>1. << >> \in Seq(Lists) /\ Len(<< >>) = 0 /\ 0 <= MaxWire
      BY EmptySeq, TimesAssumption
    <3> QED BY <1>0, <2>7, <3>1, UpsetFacts
            DEF HubLoses, CoordTypeOK, clientVars, loopVars, timeVars
  <2>8. CASE HubRecv
    <3>1. /\ Tail(wire) \in Seq(Lists) /\ Len(Tail(wire)) = Len(wire) - 1 /\ Len(wire) \in Nat
          /\ Head(wire) \in Lists
      BY <1>0, <2>8, HeadTailProperties, LenProperties, EmptySeq DEF HubRecv, CoordTypeOK
    <3>2. Len(Tail(wire)) <= MaxWire
      BY <1>0, <3>1, TimesAssumption DEF CoordTypeOK
    <3> QED BY <1>0, <2>8, <3>1, <3>2 DEF HubRecv, CoordTypeOK, clientVars, loopVars, timeVars
  <2> QED BY <2>1, <2>2, <2>3, <2>4, <2>5, <2>6, <2>7, <2>8 DEF Flush
<1> QED BY <1>1, <1>2, QuietStep DEF CoordInv

LEMMA CoordNext == CoordInv /\ [Next]_vars => CoordInv'
<1> SUFFICES ASSUME CoordInv, [Next]_vars PROVE CoordInv'
  OBVIOUS
<1>1. CASE UNCHANGED vars
  <2>1. UNCHANGED <<client, inbox, replicas, silence, gap>>
    BY <1>1 DEF vars, clientVars, timeVars
  <2>2. CoordTypeOK'
    BY <1>1 DEF CoordInv, CoordTypeOK, vars, clientVars, loopVars, hubVars, timeVars
  <2> QED BY <2>1, <2>2, QuietStep DEF CoordInv
<1>2. CASE Next
  <2>1. ASSUME NEW a \in Addrs,
               Start(a) \/ Beat(a) \/ UpdateInfo(a) \/ Stall(a) \/ Resume(a) \/ Close(a) \/ Crash(a)
        PROVE  CoordInv'
    BY <2>1, ClientStep
  <2>2. CASE Flush \/ PublishFails \/ HubJoins \/ HubLoses \/ HubRecv
    BY <2>2, ListStep
  <2>3. ASSUME NEW a \in Addrs, Recv(a) PROVE CoordInv'
    BY <2>3, RecvStep
  <2> QED BY <1>2, <2>1, <2>2, <2>3, CheckStep, TickStep DEF Next, Clock
<1> QED BY <1>1, <1>2

-----------------------------------------------------------------------------
(* The theorems.                                                           *)

\* The bounds on age and silence, and the order of goodbyes and registrations,
\* hold in every reachable state of the coordinator and its clients.
THEOREM CoordInvAlways == Spec => []CoordInv
BY CoordInit, CoordNext, PTL DEF Spec

\* The coordinator's table, the events, the lists and the clients always have
\* their types.
THEOREM CoordTypeCorrect == Spec => []CoordTypeOK
<1>1. CoordInv => CoordTypeOK
  BY DEF CoordInv
<1> QED BY <1>1, CoordInvAlways, PTL

\* For any timeouts with Timeout < GcTtl: a replica that runs and whose
\* registrations have arrived is UP in _replicas; it is in error only when it
\* was silent for longer than heartbeat_timeout, and missing only when it was
\* silent for longer than gc_ttl, however starts, goodbyes, crashes and
\* heartbeats follow one another.
THEOREM RunningAlwaysListed == Spec => []RunningIsListed
<1>1. CoordInv => RunningIsListed
  <2> SUFFICES ASSUME CoordInv, NEW a \in Addrs, client[a] = "up",
                      \A i \in DOMAIN inbox[a] : inbox[a][i].type # "update"
               PROVE  \/ replicas[a] # Gone /\ replicas[a].status = "up"
                      \/ replicas[a] # Gone /\ gap[a] > Timeout
                      \/ gap[a] > GcTtl
    BY DEF RunningIsListed
  <2>1. ~UpComes(a)
    BY DEF UpComes, IsUp
  <2>2. CASE ~Listed(a)
    BY <2>1, <2>2 DEF CoordInv, Late, GoneIsLate
  <2>3. CASE Listed(a)
    <3>1. replicas[a] \in Row
      BY <2>3 DEF CoordInv, CoordTypeOK, Listed
    <3>2. replicas[a].status # "down"
      BY <2>1, <2>3 DEF CoordInv, Late, DownIsOver
    <3>3. replicas[a].status \in {"up", "error"}
      BY <3>1, <3>2 DEF Row
    <3> QED BY <2>3, <3>3 DEF Listed, CoordInv, Late, ErrorIsLate
  <2> QED BY <2>2, <2>3
<1> QED BY <1>1, CoordInvAlways, PTL
===============================================================================
