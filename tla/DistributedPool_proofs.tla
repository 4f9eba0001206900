------------------------ MODULE DistributedPool_proofs ------------------------
(***************************************************************************)
(* For any requests, replicas and bound: a request that was given to a     *)
(* replica is bound to an attached one, and an attached replica that is    *)
(* alive works only on requests the orchestrator knows.  An address whose  *)
(* replica is still to be attached is Fresh: nothing can be bound to it    *)
(* yet, which is why an attachment never brings forgotten work along.      *)
(***************************************************************************)
EXTENDS DistributedPool, SequenceTheorems, TLAPS

AddMsg(r) == [type |-> "add", req |-> r]
AbortMsg(r) == [type |-> "abort", req |-> r]
RegMsg(a) == [type |-> "register", addr |-> a]
Msgs == {queue[i] : i \in 1 .. Len(queue)}

\* The request in the frontend's thread has not been sent.
PreIsNew == pre.at # "idle" => pre.req \in Requests /\ client[pre.req] = "new"

\* Nobody knows a request that has not been sent, or only the queue does.
Unknown(r) ==
  r \notin active /\ handler.req # r /\ \A a \in Addrs : r \notin held[a]
NewIsUnknown == \A r \in Requests : client[r] = "new" => Unknown(r) /\ AddMsg(r) \notin Msgs
AddedIsUnknown == \A r \in Requests : AddMsg(r) \in Msgs => Unknown(r)

\* Only aborts are in the queue twice.
OnceInQueue ==
  \A i, j \in 1 .. Len(queue) : queue[i] = queue[j] /\ queue[i].type # "abort" => i = j

\* The handler's request is bound to the replica it is being submitted to, unless
\* that replica is gone.
HandlerBound ==
  ~ended /\ handler.at # "idle" =>
    /\ \A a \in Addrs : handler.req \notin held[a]
    /\ handler.at = "pick" => handler.req \in active /\ affinity[handler.req] = None
    /\ handler.at = "submit" /\ handler.addr \in attached =>
         handler.req \in active /\ affinity[handler.req] = handler.addr

HeldIsBound ==
  \A a \in attached : proc[a] = "live" => \A r \in held[a] : r \in active /\ affinity[r] = a

\* An address that will be attached.
Fresh(a) == proc[a] = "new" \/ RegMsg(a) \in Msgs \/ a \in joining
FreshIsUnused ==
  \A a \in Addrs : Fresh(a) => a \notin attached /\ held[a] = {} /\ handler.addr # a

\* It will be attached once.
FreshOnce ==
  \A a \in Addrs : /\ proc[a] = "new" => RegMsg(a) \notin Msgs /\ a \notin joining
                   /\ RegMsg(a) \in Msgs => a \notin joining

\* A request whose caller was told its end is nowhere any more.
FinishedIsGone ==
  \A r \in Requests : told[r] = "finished" =>
    affinity[r] = None /\ client[r] # "new" /\ AddMsg(r) \notin Msgs /\ r \notin active

\* AffinityReleased, though the handler be at work on the request.
Released ==
  \A r \in Requests :
    (/\ client[r] = "answered" /\ r \notin active /\ ~ended
     /\ AddMsg(r) \notin Msgs /\ AbortMsg(r) \notin Msgs) => affinity[r] = None

PoolInv ==
  /\ PoolTypeOK /\ PreIsNew /\ NewIsUnknown /\ AddedIsUnknown /\ OnceInQueue
  /\ HandlerBound /\ HeldIsBound /\ FreshIsUnused /\ FreshOnce /\ SubmittedIsBound
  /\ FinishedIsGone /\ Released

-----------------------------------------------------------------------------
(* Messages and the queue.                                                 *)

LEMMA MessageForms ==
  /\ \A r \in Requests : AddMsg(r) \in Message /\ AddMsg(r).req = r /\ AddMsg(r).type = "add"
  /\ \A a \in Addrs : RegMsg(a) \in Message /\ RegMsg(a).addr = a /\ RegMsg(a).type = "register"
  /\ \A m \in Message : m.type = "add" => m.req \in Requests /\ m = AddMsg(m.req)
  /\ \A r \in Requests : /\ AbortMsg(r) \in Message
                          /\ AbortMsg(r).req = r /\ AbortMsg(r).type = "abort"
  /\ \A m \in Message : m.type = "abort" => m.req \in Requests /\ m = AbortMsg(m.req)
  /\ \A m \in Message : m.type = "register" => m.addr \in Addrs /\ m = RegMsg(m.addr)
BY DEF Message, AddMsg, AbortMsg, RegMsg

LEMMA TakeFacts ==
  ASSUME queue \in Seq(Message), OnceInQueue, NEW type, Take(type)
  PROVE  /\ queue' \in Seq(Message)
         /\ Head(queue) \in Message /\ Head(queue) \in Msgs /\ Head(queue).type = type
         /\ Msgs' \subseteq Msgs /\ Msgs \ {Head(queue)} \subseteq Msgs'
         /\ type # "abort" => Head(queue) \notin Msgs'
         /\ OnceInQueue'
<1>1. queue # << >> /\ queue' = Tail(queue) /\ Head(queue).type = type
  BY DEF Take
<1>2. /\ queue' \in Seq(Message) /\ Len(queue') = Len(queue) - 1 /\ Len(queue) \in Nat \ {0}
      /\ \A i \in 1 .. Len(queue') : queue'[i] = queue[i + 1]
      /\ Head(queue) = queue[1]
  BY <1>1, HeadTailProperties, EmptySeq, LenProperties
<1>3. Head(queue) \in Message /\ Head(queue) \in Msgs
  BY <1>2, ElementOfSeq DEF Msgs
<1>4. Msgs' \subseteq Msgs
  BY <1>2 DEF Msgs
<1>7. Msgs \ {Head(queue)} \subseteq Msgs'
  <2> SUFFICES ASSUME NEW i \in 1 .. Len(queue), queue[i] # Head(queue)
               PROVE  \E j \in 1 .. Len(queue') : queue'[j] = queue[i]
    BY DEF Msgs
  <2>1. i - 1 \in 1 .. Len(queue') /\ queue'[i - 1] = queue[i]
    BY <1>2
  <2> QED BY <2>1
<1>5. type # "abort" => Head(queue) \notin Msgs'
  BY <1>1, <1>2 DEF Msgs, OnceInQueue
<1>6. OnceInQueue'
  BY <1>2 DEF OnceInQueue
<1> QED BY <1>1, <1>2, <1>3, <1>4, <1>5, <1>6, <1>7

LEMMA AppendFacts ==
  ASSUME queue \in Seq(Message), OnceInQueue, NEW m \in Message, queue' = Append(queue, m),
         m.type = "abort" \/ m \notin Msgs
  PROVE  queue' \in Seq(Message) /\ Msgs' = Msgs \cup {m} /\ OnceInQueue'
<1>1. /\ queue' \in Seq(Message) /\ Len(queue') = Len(queue) + 1 /\ Len(queue) \in Nat
      /\ \A i \in 1 .. Len(queue) : queue'[i] = queue[i]
      /\ queue'[Len(queue')] = m
  BY AppendProperties, LenProperties
<1>2. Msgs' = Msgs \cup {m}
  BY <1>1 DEF Msgs
<1>3. OnceInQueue'
  BY <1>1 DEF OnceInQueue, Msgs
<1> QED BY <1>1, <1>2, <1>3

LEMMA QueueStays ==
  ASSUME queue' = queue, OnceInQueue
  PROVE  Msgs' = Msgs /\ OnceInQueue'
BY DEF Msgs, OnceInQueue

-----------------------------------------------------------------------------
(* The invariant.                                                          *)

LEMMA PoolInit == Init => PoolInv
<1> SUFFICES ASSUME Init PROVE PoolInv
  OBVIOUS
<1>1. Msgs = {} /\ queue \in Seq(Message) /\ OnceInQueue
  BY EmptySeq DEF Init, Msgs, OnceInQueue
<1>2. PoolTypeOK
  <2>1. /\ client \in [Requests -> {"new", "sent", "answered"}]
        /\ told \in [Requests -> {"no", "error", "finished"}]
        /\ affinity \in [Requests -> Addrs \cup {None}]
        /\ proc \in [Addrs -> {"new", "live", "crashed"}]
        /\ held \in [Addrs -> SUBSET Requests]
    BY DEF Init
  <2>2. /\ pre \in [at : {"idle", "chosen", "recorded"}, req : Requests \cup {None},
                    addr : Addrs \cup {None}]
        /\ handler \in [at : {"idle", "pick", "submit"}, req : Requests \cup {None},
                        addr : Addrs \cup {None}]
        /\ handler.at = "idle" /\ handler.req = None /\ handler.addr = None
    BY DEF Init, NoCall
  <2>3. upsets \in 0 .. MaxUpsets
    BY UpsetsAssumption DEF Init
  <2>5. ended \in BOOLEAN
    BY DEF Init
  <2>4. /\ active \subseteq Requests /\ attached \subseteq Addrs /\ up \subseteq Addrs
        /\ lastUp \subseteq Addrs /\ joining \subseteq Addrs /\ leaving \subseteq Addrs
    BY AddrsAssumption DEF Init
  <2> QED BY <1>1, <2>1, <2>2, <2>3, <2>4, <2>5 DEF PoolTypeOK
<1>3. PreIsNew /\ NewIsUnknown /\ AddedIsUnknown
  <2>1. \A r \in Requests : Unknown(r)
    BY AddrsAssumption DEF Init, Unknown, NoCall
  <2> QED BY <1>1, <2>1 DEF Init, PreIsNew, NewIsUnknown, AddedIsUnknown, NoCall
<1>4. HandlerBound /\ HeldIsBound /\ SubmittedIsBound
  BY AddrsAssumption DEF Init, HandlerBound, HeldIsBound, SubmittedIsBound, NoCall
<1>5. FreshIsUnused /\ FreshOnce
  BY <1>1, AddrsAssumption DEF Init, FreshIsUnused, FreshOnce, Fresh, NoCall
<1>6. FinishedIsGone /\ Released
  BY DEF Init, FinishedIsGone, Released
<1> QED BY <1>1, <1>2, <1>3, <1>4, <1>5, <1>6 DEF PoolInv

LEMMA PreselectStep ==
  ASSUME PoolInv, NEW r \in Requests, Preselect(r)
  PROVE  PoolInv'
<1>0. Msgs' = Msgs
  BY DEF Msgs, Preselect, NoCall, Runs, poolVars, loopVars, memberVars, worldVars
<1>1. PoolTypeOK'
  <2>1. PICK b \in Addrs \cup {None} : pre' = [at |-> "chosen", req |-> r, addr |-> b]
    BY AddrsAssumption DEF Preselect, Choices, Serviceable, PoolInv, PoolTypeOK
  <2> QED BY <2>1
       DEF PoolInv, PoolTypeOK, Preselect, Runs, poolVars, loopVars, memberVars, worldVars
<1>2. /\ NewIsUnknown' /\ AddedIsUnknown' /\ OnceInQueue' /\ HandlerBound' /\ HeldIsBound'
      /\ FreshIsUnused' /\ FreshOnce' /\ SubmittedIsBound' /\ FinishedIsGone' /\ Released'
  BY <1>0
  DEF PoolInv, NewIsUnknown, AddedIsUnknown, OnceInQueue, HandlerBound, HeldIsBound,
      FreshIsUnused, FreshOnce, SubmittedIsBound, FinishedIsGone, Released, Unknown, Fresh,
      Preselect, Runs, poolVars, loopVars, memberVars, worldVars
<1>3. PreIsNew'
  BY DEF PreIsNew, Preselect
<1> QED BY <1>1, <1>2, <1>3 DEF PoolInv

LEMMA RecordStep ==
  ASSUME PoolInv, Record
  PROVE  PoolInv'
<1>0. Msgs' = Msgs
  BY DEF Msgs, Record, Runs, loopVars, memberVars, worldVars
<1>a. pre.req \in Requests /\ client[pre.req] = "new" /\ Unknown(pre.req)
  BY DEF Record, PoolInv, PreIsNew, NewIsUnknown
<1>b. \A q \in Requests : q # pre.req => affinity'[q] = affinity[q]
  BY DEF Record, PoolInv, PoolTypeOK
<1>1. PoolTypeOK'
  BY <1>0, MessageForms, AddrsAssumption, UpsetsAssumption
  DEF PoolInv, PoolTypeOK, Record, Runs, loopVars, memberVars, worldVars
<1>2. NewIsUnknown' /\ AddedIsUnknown' /\ OnceInQueue' /\ FreshIsUnused' /\ FreshOnce'
  BY <1>0
  DEF PoolInv, NewIsUnknown, AddedIsUnknown, OnceInQueue, FreshIsUnused, FreshOnce, Unknown,
      Fresh, Record, loopVars, memberVars, worldVars
<1>3. PreIsNew'
  BY DEF PoolInv, PreIsNew, Record
<1>4. HandlerBound'
  <2>1. handler.req # pre.req /\ (handler.at # "idle" => handler.req \in Requests)
    BY <1>a DEF PoolInv, PoolTypeOK, Unknown
  <2> QED BY <1>b, <2>1 DEF PoolInv, HandlerBound, Record, Runs, loopVars, worldVars
<1>5. HeldIsBound'
  <2> SUFFICES ASSUME NEW b \in attached', proc'[b] = "live", NEW q \in held'[b]
               PROVE  q \in active' /\ affinity'[q] = b
    BY DEF HeldIsBound
  <2>1. b \in attached /\ b \in Addrs /\ proc[b] = "live" /\ q \in held[b] /\ q \in Requests
    BY DEF Record, worldVars, PoolInv, PoolTypeOK
  <2>2. q # pre.req
    BY <1>a, <2>1 DEF Unknown
  <2> QED BY <1>b, <2>1, <2>2 DEF PoolInv, HeldIsBound, Record, loopVars
<1>6. SubmittedIsBound'
  <2>1. pre.req \notin active
    BY <1>a DEF Unknown
  <2> QED BY <1>b, <2>1 DEF PoolInv, PoolTypeOK, SubmittedIsBound, Record, Runs, loopVars
<1>7. FinishedIsGone'
  BY <1>0, <1>a DEF PoolInv, FinishedIsGone, Record, loopVars
<1>8. Released'
  BY <1>0, <1>a DEF PoolInv, Released, Record, Runs, loopVars
<1> QED BY <1>1, <1>2, <1>3, <1>4, <1>5, <1>6, <1>7, <1>8 DEF PoolInv

LEMMA SendStep ==
  ASSUME PoolInv, Send
  PROVE  PoolInv'
<1>a. /\ pre.req \in Requests /\ client[pre.req] = "new" /\ Unknown(pre.req)
      /\ AddMsg(pre.req) \notin Msgs
  BY DEF Send, PoolInv, PreIsNew, NewIsUnknown
<1>b. /\ client' \in [Requests -> {"new", "sent", "answered"}]
      /\ client'[pre.req] # "new" /\ \A q \in Requests : q # pre.req => client'[q] = client[q]
  BY <1>a DEF Send, PoolInv, PoolTypeOK
<1>c. /\ affinity' \in [Requests -> Addrs \cup {None}]
      /\ \A q \in Requests : q # pre.req => affinity'[q] = affinity[q]
  BY <1>a DEF Send, PoolInv, PoolTypeOK
<1>d. /\ pre' = NoCall
      /\ UNCHANGED <<told, attached, handler, active, lastUp, joining, leaving, up, proc,
                     held, upsets, ended>>
  BY DEF Send, Runs, memberVars, worldVars
<1>0. /\ Msgs \subseteq Msgs' /\ Msgs' \subseteq Msgs \cup {AddMsg(pre.req)}
      /\ queue' \in Seq(Message) /\ OnceInQueue'
  <2>1. CASE queue' = Append(queue, AddMsg(pre.req))
    BY <1>a, <2>1, AppendFacts, MessageForms DEF PoolInv, PoolTypeOK
  <2>2. CASE queue' = queue
    BY <2>2, QueueStays DEF PoolInv, PoolTypeOK
  <2> QED BY <2>1, <2>2 DEF Send, AddMsg
<1>1. PoolTypeOK'
  BY <1>0, <1>b, <1>c, <1>d DEF PoolInv, PoolTypeOK, NoCall
<1>2. PreIsNew'
  BY <1>d DEF PreIsNew, NoCall
<1>3. NewIsUnknown'
  <2> SUFFICES ASSUME NEW q \in Requests, client'[q] = "new"
               PROVE  Unknown(q)' /\ AddMsg(q) \notin Msgs'
    BY DEF NewIsUnknown
  <2>1. q # pre.req /\ client[q] = "new"
    BY <1>b
  <2>2. AddMsg(q) # AddMsg(pre.req)
    BY <1>a, <2>1, MessageForms
  <2>3. AddMsg(q) \notin Msgs'
    BY <1>0, <2>1, <2>2 DEF PoolInv, NewIsUnknown
  <2>4. Unknown(q)'
    BY <1>d, <2>1 DEF PoolInv, NewIsUnknown, Unknown
  <2> QED BY <2>3, <2>4
<1>4. AddedIsUnknown'
  BY <1>0, <1>a, <1>d, MessageForms DEF PoolInv, AddedIsUnknown, Unknown
<1>5. HandlerBound'
  <2>1. handler.req # pre.req /\ (handler.at # "idle" => handler.req \in Requests)
    BY <1>a DEF PoolInv, PoolTypeOK, Unknown
  <2> QED BY <1>c, <1>d, <2>1 DEF PoolInv, HandlerBound
<1>6. HeldIsBound'
  <2> SUFFICES ASSUME NEW b \in attached', proc'[b] = "live", NEW q \in held'[b]
               PROVE  q \in active' /\ affinity'[q] = b
    BY DEF HeldIsBound
  <2>1. b \in attached /\ b \in Addrs /\ proc[b] = "live" /\ q \in held[b] /\ q \in Requests
    BY <1>d DEF PoolInv, PoolTypeOK
  <2>2. q # pre.req
    BY <1>a, <2>1 DEF Unknown
  <2> QED BY <1>c, <1>d, <2>1, <2>2 DEF PoolInv, HeldIsBound
<1>7. FreshIsUnused'
  BY <1>0, <1>a, <1>d, MessageForms DEF PoolInv, FreshIsUnused, Fresh
<1>8. FreshOnce'
  BY <1>0, <1>a, <1>d, MessageForms DEF PoolInv, FreshOnce
<1>9. SubmittedIsBound'
  <2>1. pre.req \notin active
    BY <1>a DEF Unknown
  <2> QED BY <1>c, <1>d, <2>1 DEF PoolInv, PoolTypeOK, SubmittedIsBound
<1>10. FinishedIsGone'
  <2> SUFFICES ASSUME NEW q \in Requests, told'[q] = "finished"
               PROVE  /\ affinity'[q] = None /\ client'[q] # "new" /\ AddMsg(q) \notin Msgs'
                      /\ q \notin active'
    BY DEF FinishedIsGone
  <2>1. /\ q # pre.req /\ affinity[q] = None /\ client[q] # "new" /\ AddMsg(q) \notin Msgs
        /\ q \notin active
    BY <1>a, <1>d DEF PoolInv, FinishedIsGone
  <2>2. AddMsg(q) # AddMsg(pre.req)
    BY <1>a, <2>1, MessageForms
  <2> QED BY <1>0, <1>b, <1>c, <1>d, <2>1, <2>2
<1>11. Released'
  <2> SUFFICES ASSUME NEW q \in Requests, client'[q] = "answered", q \notin active', ~ended',
                      AddMsg(q) \notin Msgs', AbortMsg(q) \notin Msgs'
               PROVE  affinity'[q] = None
    BY DEF Released
  <2>1. CASE q = pre.req
    BY <1>a, <2>1 DEF Send, PoolInv, PoolTypeOK
  <2>2. CASE q # pre.req
    BY <1>0, <1>b, <1>c, <1>d, <2>2 DEF PoolInv, Released
  <2> QED BY <2>1, <2>2
<1> QED BY <1>0, <1>1, <1>2, <1>3, <1>4, <1>5, <1>6, <1>7, <1>8, <1>9, <1>10, <1>11 DEF PoolInv

LEMMA AnsweredStep ==
  ASSUME PoolInv, NEW r \in Requests, Answered(r)
  PROVE  PoolInv'
<1>0. /\ Msgs \subseteq Msgs' /\ Msgs' \subseteq Msgs \cup {AbortMsg(r)}
      /\ queue' \in Seq(Message) /\ OnceInQueue'
      /\ AbortMsg(r) \in Msgs' \/ (told[r] = "finished" /\ queue' = queue)
  <2>1. CASE queue' = Append(queue, AbortMsg(r))
    BY <2>1, AppendFacts, MessageForms DEF PoolInv, PoolTypeOK
  <2>2. CASE queue' = queue /\ told[r] = "finished"
    BY <2>2, QueueStays DEF PoolInv, PoolTypeOK
  <2> QED BY <2>1, <2>2 DEF Answered, AbortMsg
<1>1. PoolTypeOK'
  BY <1>0 DEF PoolInv, PoolTypeOK, Answered, Runs, poolVars, memberVars, worldVars
<1>2. HandlerBound' /\ HeldIsBound' /\ SubmittedIsBound'
  BY DEF PoolInv, HandlerBound, HeldIsBound, SubmittedIsBound, Answered, Runs, poolVars,
         worldVars
<1>3. PreIsNew'
  BY DEF PoolInv, PreIsNew, Answered
<1>4. NewIsUnknown'
  BY <1>0, MessageForms DEF PoolInv, NewIsUnknown, Unknown, Answered, worldVars
<1>5. AddedIsUnknown'
  BY <1>0, MessageForms DEF PoolInv, AddedIsUnknown, Unknown, Answered, worldVars
<1>6. FreshIsUnused'
  BY <1>0, MessageForms
  DEF PoolInv, FreshIsUnused, Fresh, Answered, poolVars, memberVars, worldVars
<1>7. FreshOnce'
  BY <1>0, MessageForms DEF PoolInv, FreshOnce, Answered, Runs, memberVars, worldVars
<1>8. FinishedIsGone'
  BY <1>0, MessageForms DEF PoolInv, FinishedIsGone, Answered, poolVars
<1>9. Released'
  <2>1. /\ \A q \in Requests : q # r => client'[q] = client[q]
        /\ UNCHANGED <<active, affinity, ended>>
    BY DEF Answered, Runs, poolVars, PoolInv, PoolTypeOK
  <2>2. AbortMsg(r) \in Msgs' \/ affinity[r] = None
    BY <1>0 DEF PoolInv, FinishedIsGone
  <2> QED BY <1>0, <2>1, <2>2 DEF PoolInv, Released
<1> QED BY <1>0, <1>1, <1>2, <1>3, <1>4, <1>5, <1>6, <1>7, <1>8, <1>9 DEF PoolInv

LEMMA CancelStep ==
  ASSUME PoolInv, NEW r \in Requests, Cancel(r)
  PROVE  PoolInv'
<1>0. /\ Msgs \subseteq Msgs' /\ Msgs' \subseteq Msgs \cup {AbortMsg(r)}
      /\ queue' \in Seq(Message) /\ OnceInQueue'
      /\ AbortMsg(r) \in Msgs' \/ (told[r] = "finished" /\ queue' = queue)
  <2>1. CASE queue' = Append(queue, AbortMsg(r))
    BY <2>1, AppendFacts, MessageForms DEF PoolInv, PoolTypeOK
  <2>2. CASE queue' = queue /\ told[r] = "finished"
    BY <2>2, QueueStays DEF PoolInv, PoolTypeOK
  <2> QED BY <2>1, <2>2 DEF Cancel, AbortMsg
<1>1. PoolTypeOK'
  BY <1>0, UpsetsAssumption
  DEF PoolInv, PoolTypeOK, Cancel, Runs, Upset, poolVars, memberVars, worldVars
<1>2. HandlerBound' /\ HeldIsBound' /\ SubmittedIsBound'
  BY DEF PoolInv, HandlerBound, HeldIsBound, SubmittedIsBound, Cancel, Runs, poolVars, worldVars
<1>3. PreIsNew'
  BY DEF PoolInv, PreIsNew, Cancel
<1>4. NewIsUnknown'
  BY <1>0, MessageForms DEF PoolInv, NewIsUnknown, Unknown, Cancel, worldVars
<1>5. AddedIsUnknown'
  BY <1>0, MessageForms DEF PoolInv, AddedIsUnknown, Unknown, Cancel, worldVars
<1>6. FreshIsUnused'
  BY <1>0, MessageForms
  DEF PoolInv, FreshIsUnused, Fresh, Cancel, poolVars, memberVars, worldVars
<1>7. FreshOnce'
  BY <1>0, MessageForms DEF PoolInv, FreshOnce, Cancel, memberVars, worldVars
<1>8. FinishedIsGone'
  BY <1>0, MessageForms DEF PoolInv, FinishedIsGone, Cancel, poolVars
<1>9. Released'
  <2>1. /\ \A q \in Requests : q # r => client'[q] = client[q]
        /\ UNCHANGED <<active, affinity, ended>>
    BY DEF Cancel, Runs, poolVars, PoolInv, PoolTypeOK
  <2>2. AbortMsg(r) \in Msgs' \/ affinity[r] = None
    BY <1>0 DEF PoolInv, FinishedIsGone
  <2> QED BY <1>0, <2>1, <2>2 DEF PoolInv, Released
<1> QED BY <1>0, <1>1, <1>2, <1>3, <1>4, <1>5, <1>6, <1>7, <1>8, <1>9 DEF PoolInv

LEMMA AddRequestStep ==
  ASSUME PoolInv, AddRequest
  PROVE  PoolInv'
<1>0. /\ queue' \in Seq(Message)
      /\ Head(queue) \in Message /\ Head(queue) \in Msgs /\ Head(queue).type = "add"
      /\ Msgs' \subseteq Msgs /\ Msgs \ {Head(queue)} \subseteq Msgs'
      /\ Head(queue) \notin Msgs'
      /\ OnceInQueue'
  BY TakeFacts DEF PoolInv, PoolTypeOK, AddRequest
<1> DEFINE r == Head(queue).req
<1>a. r \in Requests /\ AddMsg(r) \in Msgs /\ AddMsg(r) \notin Msgs' /\ Unknown(r)
  BY <1>0, MessageForms DEF PoolInv, AddedIsUnknown
<1>b. PICK b \in Addrs \cup {None} :
        /\ affinity' = [affinity EXCEPT ![r] = b]
        /\ \/ b \in attached /\ handler' = [at |-> "submit", req |-> r, addr |-> b]
           \/ b = None /\ handler' = [at |-> "pick", req |-> r, addr |-> None]
  <2>1. Choices(r) \subseteq attached
    BY DEF Choices, Serviceable
  <2> QED BY <2>1 DEF AddRequest, PoolInv, PoolTypeOK
<1>c. /\ active' = active \cup {r}
      /\ UNCHANGED <<client, told, pre, attached, lastUp, joining, leaving, up, proc, held,
                     upsets, ended>>
  BY DEF AddRequest, Runs, frontVars, memberVars, worldVars
<1> HIDE DEF r
<1>d. /\ affinity' \in [Requests -> Addrs \cup {None}] /\ affinity'[r] = b
      /\ \A q \in Requests : q # r => affinity'[q] = affinity[q]
  BY <1>a, <1>b DEF PoolInv, PoolTypeOK
<1>e. handler.at = "idle"
  BY DEF AddRequest, Take
<1>1. PoolTypeOK'
  <2>1. /\ handler' \in [at : {"idle", "pick", "submit"}, req : Requests \cup {None},
                     addr : Addrs \cup {None}]
        /\ handler'.at = "idle" <=> handler'.req = None
        /\ handler'.at = "submit" <=> handler'.addr # None
    BY <1>a, <1>b, AddrsAssumption DEF PoolInv, PoolTypeOK
  <2> QED BY <1>0, <1>a, <1>c, <1>d, <2>1 DEF PoolInv, PoolTypeOK
<1>2. NewIsUnknown'
  <2>1. client[r] # "new"
    BY <1>a DEF PoolInv, NewIsUnknown
  <2> QED BY <1>0, <1>a, <1>b, <1>c, <2>1 DEF PoolInv, NewIsUnknown, Unknown
<1>3. AddedIsUnknown'
  BY <1>0, <1>a, <1>b, <1>c DEF PoolInv, AddedIsUnknown, Unknown
<1>4. HandlerBound'
  BY <1>a, <1>b, <1>c, <1>d DEF HandlerBound, Unknown
<1>5. HeldIsBound'
  <2> SUFFICES ASSUME NEW d \in attached', proc'[d] = "live", NEW q \in held'[d]
               PROVE  q \in active' /\ affinity'[q] = d
    BY DEF HeldIsBound
  <2>1. d \in attached /\ d \in Addrs /\ proc[d] = "live" /\ q \in held[d] /\ q \in Requests
    BY <1>c DEF PoolInv, PoolTypeOK
  <2>2. q # r
    BY <1>a, <2>1 DEF Unknown
  <2> QED BY <1>c, <1>d, <2>1, <2>2 DEF PoolInv, HeldIsBound
<1>6. FreshIsUnused'
  BY <1>0, <1>b, <1>c, AddrsAssumption DEF PoolInv, FreshIsUnused, Fresh
<1>7. FreshOnce'
  BY <1>0, <1>c DEF PoolInv, FreshOnce
<1>8. SubmittedIsBound'
  BY <1>a, <1>b, <1>c, <1>d, <1>e DEF PoolInv, PoolTypeOK, SubmittedIsBound
<1>9. FinishedIsGone'
  <2>1. told[r] # "finished"
    BY <1>a DEF PoolInv, FinishedIsGone
  <2> QED BY <1>0, <1>a, <1>c, <1>d, <2>1 DEF PoolInv, FinishedIsGone
<1>10. Released'
  <2> SUFFICES ASSUME NEW q \in Requests, client'[q] = "answered", q \notin active', ~ended',
                      AddMsg(q) \notin Msgs', AbortMsg(q) \notin Msgs'
               PROVE  affinity'[q] = None
    BY DEF Released
  <2>1. q # r /\ client[q] = "answered" /\ q \notin active /\ ~ended
    BY <1>c
  <2>2. AddMsg(q) \notin Msgs /\ AbortMsg(q) \notin Msgs
    BY <1>0, <1>a, <2>1, MessageForms
  <2> QED BY <1>d, <2>1, <2>2 DEF PoolInv, Released
<1>11. PreIsNew'
  BY <1>c DEF PoolInv, PreIsNew
<1> QED BY <1>0, <1>1, <1>2, <1>3, <1>4, <1>5, <1>6, <1>7, <1>8, <1>9, <1>10, <1>11 DEF PoolInv

LEMMA PickAgainStep ==
  ASSUME PoolInv, PickAgain
  PROVE  PoolInv'
<1>0. Msgs' = Msgs
  BY DEF Msgs, PickAgain, Runs, Serviceable, frontVars, memberVars, worldVars
<1>a. PICK a \in attached :
        /\ affinity' = [affinity EXCEPT ![handler.req] = a]
        /\ handler' = [handler EXCEPT !.at = "submit", !.addr = a]
  BY DEF PickAgain, Serviceable
<1>b. handler.req \in Requests /\ a \in Addrs /\ a # None
  BY AddrsAssumption DEF PickAgain, PoolInv, PoolTypeOK
<1>c. /\ handler.req \in active
      /\ (\A q \in Requests : q # handler.req => affinity'[q] = affinity[q])
  BY <1>a, <1>b DEF PickAgain, Runs, PoolInv, PoolTypeOK, HandlerBound
<1>1. PoolTypeOK'
  <2>1. /\ handler' \in [at : {"idle", "pick", "submit"}, req : Requests \cup {None},
                     addr : Addrs \cup {None}]
        /\ handler'.at = "idle" <=> handler'.req = None
        /\ handler'.at = "submit" <=> handler'.addr # None
    BY <1>a, <1>b, AddrsAssumption DEF PoolInv, PoolTypeOK
  <2>2. affinity' \in [Requests -> Addrs \cup {None}]
    BY <1>a, <1>b DEF PoolInv, PoolTypeOK
  <2> QED BY <2>1, <2>2
       DEF PoolInv, PoolTypeOK, PickAgain, Runs, frontVars, memberVars, worldVars
<1>2. PreIsNew' /\ OnceInQueue' /\ FreshOnce'
  BY <1>0
  DEF PoolInv, PreIsNew, OnceInQueue, FreshOnce, PickAgain, frontVars, memberVars, worldVars
<1>3. NewIsUnknown'
  BY <1>0 DEF PoolInv, NewIsUnknown, Unknown, PickAgain, frontVars, worldVars
<1>4. AddedIsUnknown'
  BY <1>0 DEF PoolInv, AddedIsUnknown, Unknown, PickAgain, worldVars
<1>5. HandlerBound'
  BY DEF PoolInv, PoolTypeOK, HandlerBound, PickAgain, Runs, worldVars
<1>6. HeldIsBound'
  <2> SUFFICES ASSUME NEW b \in attached', proc'[b] = "live", NEW q \in held'[b]
               PROVE  q \in active' /\ affinity'[q] = b
    BY DEF HeldIsBound
  <2>1. b \in attached /\ b \in Addrs /\ proc[b] = "live" /\ q \in held[b] /\ q \in Requests
    BY DEF PickAgain, worldVars, PoolInv, PoolTypeOK
  <2>2. q # handler.req
    BY <2>1 DEF PickAgain, Runs, PoolInv, HandlerBound
  <2>3. affinity'[q] = affinity[q]
    BY <1>a, <2>1, <2>2 DEF PoolInv, PoolTypeOK
  <2> QED BY <2>1, <2>3 DEF PoolInv, HeldIsBound, PickAgain
<1>7. FreshIsUnused'
  BY <1>0 DEF PoolInv, FreshIsUnused, Fresh, PickAgain, Serviceable, memberVars, worldVars
<1>8. SubmittedIsBound'
  BY DEF PoolInv, PoolTypeOK, SubmittedIsBound, PickAgain, Runs, Serviceable
<1>9. FinishedIsGone'
  BY <1>0, <1>c DEF PoolInv, FinishedIsGone, PickAgain, frontVars
<1>10. Released'
  BY <1>0, <1>c DEF PoolInv, Released, PickAgain, Runs, frontVars
<1> QED BY <1>1, <1>2, <1>3, <1>4, <1>5, <1>6, <1>7, <1>8, <1>9, <1>10 DEF PoolInv

LEMMA PickTimesOutStep ==
  ASSUME PoolInv, PickTimesOut
  PROVE  PoolInv'
<1>0. Msgs' = Msgs
  BY DEF Msgs, PickTimesOut, frontVars, poolVars, loopVars, memberVars, worldVars
<1>1. PoolTypeOK'
  BY DEF PoolInv, PoolTypeOK, PickTimesOut, frontVars, poolVars, loopVars, memberVars, worldVars
<1>2. /\ PreIsNew' /\ NewIsUnknown' /\ AddedIsUnknown' /\ OnceInQueue' /\ HeldIsBound'
      /\ FreshIsUnused' /\ FreshOnce' /\ FinishedIsGone'
  BY <1>0
  DEF PoolInv, PreIsNew, NewIsUnknown, AddedIsUnknown, OnceInQueue, HeldIsBound,
      FreshIsUnused, FreshOnce, FinishedIsGone, Unknown, Fresh, PickTimesOut, frontVars,
      poolVars, loopVars, memberVars, worldVars
<1>3. HandlerBound'
  BY DEF HandlerBound, PickTimesOut
<1>4. SubmittedIsBound'
  BY DEF SubmittedIsBound, PickTimesOut
<1>5. Released'
  BY DEF Released, PickTimesOut
<1> QED BY <1>1, <1>2, <1>3, <1>4, <1>5 DEF PoolInv

LEMMA SubmittedStep ==
  ASSUME PoolInv, Submitted
  PROVE  PoolInv'
<1>0. Msgs' = Msgs
  BY DEF Msgs, Submitted, Runs, NoCall, frontVars, poolVars, memberVars
<1>1. PoolTypeOK'
  BY AddrsAssumption
  DEF PoolInv, PoolTypeOK, Submitted, Runs, NoCall, frontVars, poolVars, memberVars
<1>2. PreIsNew' /\ OnceInQueue' /\ FreshOnce' /\ FinishedIsGone' /\ Released'
  BY <1>0
  DEF PoolInv, PreIsNew, OnceInQueue, FreshOnce, FinishedIsGone, Released, Submitted, Runs,
      frontVars, poolVars, memberVars
<1>3. NewIsUnknown'
  BY <1>0, MessageForms, AddrsAssumption
  DEF PoolInv, PoolTypeOK, NewIsUnknown, Unknown, Submitted, NoCall, frontVars
<1>4. AddedIsUnknown'
  BY <1>0, AddrsAssumption DEF PoolInv, PoolTypeOK, AddedIsUnknown, Unknown, Submitted, NoCall
<1>5. HandlerBound'
  BY DEF HandlerBound, Submitted, NoCall
<1>6. HeldIsBound'
  <2> SUFFICES ASSUME NEW b \in attached', proc'[b] = "live", NEW q \in held'[b]
               PROVE  q \in active' /\ affinity'[q] = b
    BY DEF HeldIsBound
  <2>1. b \in attached /\ b \in Addrs /\ proc[b] = "live"
    BY DEF Submitted, poolVars, PoolInv, PoolTypeOK
  <2>2. q \in held[b] \/ (q = handler.req /\ b = handler.addr)
    BY <2>1 DEF Submitted, PoolInv, PoolTypeOK
  <2> QED BY <2>1, <2>2 DEF PoolInv, HeldIsBound, HandlerBound, Submitted, Runs, poolVars
<1>7. FreshIsUnused'
  BY <1>0, AddrsAssumption
  DEF PoolInv, PoolTypeOK, FreshIsUnused, Fresh, Submitted, NoCall, poolVars, memberVars
<1>8. SubmittedIsBound'
  BY DEF PoolInv, SubmittedIsBound, Submitted, Runs, poolVars
<1> QED BY <1>1, <1>2, <1>3, <1>4, <1>5, <1>6, <1>7, <1>8 DEF PoolInv

LEMMA SubmitFailsStep ==
  ASSUME PoolInv, SubmitFails
  PROVE  PoolInv'
<1>0. Msgs' = Msgs
  BY DEF Msgs, SubmitFails, frontVars, loopVars, memberVars, worldVars
<1>1. PoolTypeOK'
  BY DEF PoolInv, PoolTypeOK, SubmitFails, frontVars, loopVars, memberVars, worldVars
<1>2. /\ PreIsNew' /\ NewIsUnknown' /\ AddedIsUnknown' /\ OnceInQueue' /\ FreshIsUnused'
      /\ FreshOnce'
  BY <1>0
  DEF PoolInv, PreIsNew, NewIsUnknown, AddedIsUnknown, OnceInQueue, FreshIsUnused,
      FreshOnce, Unknown, Fresh, SubmitFails, frontVars, loopVars, memberVars, worldVars
<1>3. HandlerBound'
  BY DEF HandlerBound, SubmitFails
<1>4. HeldIsBound'
  <2> SUFFICES ASSUME NEW b \in attached', proc'[b] = "live", NEW q \in held'[b]
               PROVE  q \in active' /\ affinity'[q] = b
    BY DEF HeldIsBound
  <2>1. b \in attached /\ b \in Addrs /\ proc[b] = "live" /\ q \in held[b] /\ q \in Requests
    BY DEF SubmitFails, worldVars, PoolInv, PoolTypeOK
  <2>2. q # handler.req
    BY <2>1 DEF SubmitFails, PoolInv, HandlerBound
  <2>3. affinity'[q] = affinity[q]
    BY <2>1, <2>2 DEF SubmitFails, PoolInv, PoolTypeOK
  <2> QED BY <2>1, <2>3 DEF PoolInv, HeldIsBound, SubmitFails, loopVars
<1>5. SubmittedIsBound'
  BY DEF SubmittedIsBound, SubmitFails
<1>6. FinishedIsGone'
  BY <1>0 DEF PoolInv, FinishedIsGone, SubmitFails, frontVars, loopVars
<1>7. Released'
  BY DEF Released, SubmitFails
<1> QED BY <1>1, <1>2, <1>3, <1>4, <1>5, <1>6, <1>7 DEF PoolInv

LEMMA AbortStep ==
  ASSUME PoolInv, Abort
  PROVE  PoolInv'
<1>0. /\ queue' \in Seq(Message)
      /\ Head(queue) \in Message /\ Head(queue) \in Msgs /\ Head(queue).type = "abort"
      /\ Msgs' \subseteq Msgs /\ Msgs \ {Head(queue)} \subseteq Msgs'
      /\ "abort" # "abort" => Head(queue) \notin Msgs'
      /\ OnceInQueue'
  BY TakeFacts DEF PoolInv, PoolTypeOK, Abort
<1>1. PoolTypeOK'
  BY <1>0 DEF PoolInv, PoolTypeOK, Abort, Runs, Cleanup, frontVars, memberVars
<1>2. PreIsNew'
  BY DEF PoolInv, PreIsNew, Abort, frontVars
<1>3. NewIsUnknown'
  BY <1>0 DEF PoolInv, NewIsUnknown, Unknown, Abort, Cleanup, frontVars
<1>4. AddedIsUnknown'
  BY <1>0 DEF PoolInv, AddedIsUnknown, Unknown, Abort, Cleanup
<1>5. HandlerBound'
  BY DEF HandlerBound, Abort, Take
<1>6. HeldIsBound'
  BY DEF PoolInv, PoolTypeOK, HeldIsBound, Abort, Cleanup
<1>7. FreshIsUnused'
  BY <1>0 DEF PoolInv, FreshIsUnused, Fresh, Abort, Cleanup, memberVars
<1>8. FreshOnce'
  BY <1>0 DEF PoolInv, FreshOnce, Abort, memberVars
<1>9. SubmittedIsBound'
  BY DEF PoolInv, PoolTypeOK, SubmittedIsBound, Abort, Runs, Cleanup
<1>10. FinishedIsGone'
  BY <1>0 DEF PoolInv, FinishedIsGone, Abort, Cleanup, frontVars
<1>11. Released'
  BY <1>0, MessageForms DEF PoolInv, Released, Abort, Runs, Cleanup, frontVars
<1> QED BY <1>0, <1>1, <1>2, <1>3, <1>4, <1>5, <1>6, <1>7, <1>8, <1>9, <1>10, <1>11 DEF PoolInv

LEMMA RegisterStep ==
  ASSUME PoolInv, Register
  PROVE  PoolInv'
<1>0. /\ queue' \in Seq(Message)
      /\ Head(queue) \in Message /\ Head(queue) \in Msgs /\ Head(queue).type = "register"
      /\ Msgs' \subseteq Msgs /\ Msgs \ {Head(queue)} \subseteq Msgs'
      /\ "register" # "abort" => Head(queue) \notin Msgs'
      /\ OnceInQueue'
  BY TakeFacts DEF PoolInv, PoolTypeOK, Register
<1>1. PoolTypeOK'
  BY <1>0, MessageForms DEF PoolInv, PoolTypeOK, Register, Runs, frontVars, poolVars, worldVars
<1>2. PreIsNew' /\ HandlerBound' /\ HeldIsBound' /\ SubmittedIsBound'
  BY DEF PoolInv, PreIsNew, HandlerBound, HeldIsBound, SubmittedIsBound, Register, Runs,
         frontVars, poolVars, worldVars
<1>3. NewIsUnknown'
  BY <1>0 DEF PoolInv, NewIsUnknown, Unknown, Register, frontVars, worldVars
<1>4. AddedIsUnknown'
  BY <1>0 DEF PoolInv, AddedIsUnknown, Unknown, Register, worldVars
<1>5. FreshIsUnused'
  BY <1>0, MessageForms DEF PoolInv, FreshIsUnused, Fresh, Register, poolVars, worldVars
<1>6. FreshOnce'
  BY <1>0, MessageForms DEF PoolInv, FreshOnce, Register, worldVars
<1>7. FinishedIsGone'
  BY <1>0 DEF PoolInv, FinishedIsGone, Register, frontVars, poolVars
<1>8. Released'
  BY <1>0, MessageForms DEF PoolInv, Released, Register, Runs, frontVars, poolVars
<1> QED BY <1>0, <1>1, <1>2, <1>3, <1>4, <1>5, <1>6, <1>7, <1>8 DEF PoolInv

LEMMA FinishStep ==
  ASSUME PoolInv, NEW a \in Addrs, NEW r \in Requests, Finish(a, r)
  PROVE  PoolInv'
<1>0. Msgs' = Msgs
  BY DEF Msgs, Finish, Runs, Tell, memberVars
<1>1. PoolTypeOK'
  BY DEF PoolInv, PoolTypeOK, Finish, Runs, Tell, memberVars
<1>2. PreIsNew' /\ OnceInQueue' /\ FreshOnce'
  BY <1>0 DEF PoolInv, PreIsNew, OnceInQueue, FreshOnce, Finish, memberVars
<1>3. NewIsUnknown'
  BY <1>0 DEF PoolInv, NewIsUnknown, Unknown, Finish
<1>4. AddedIsUnknown'
  BY <1>0 DEF PoolInv, AddedIsUnknown, Unknown, Finish
<1>5. HandlerBound'
  BY DEF PoolInv, PoolTypeOK, HandlerBound, Finish, Runs
<1>6. HeldIsBound'
  BY DEF PoolInv, PoolTypeOK, HeldIsBound, Finish
<1>7. FreshIsUnused'
  BY <1>0 DEF PoolInv, FreshIsUnused, Fresh, Finish, memberVars
<1>8. SubmittedIsBound'
  BY DEF PoolInv, PoolTypeOK, SubmittedIsBound, Finish, Runs
<1>9. FinishedIsGone'
  <2> SUFFICES ASSUME NEW q \in Requests, told'[q] = "finished"
               PROVE  /\ affinity'[q] = None /\ client'[q] # "new" /\ AddMsg(q) \notin Msgs'
                      /\ q \notin active'
    BY DEF FinishedIsGone
  <2>1. CASE told[q] = "finished"
    BY <1>0, <2>1 DEF Finish, PoolInv, PoolTypeOK, FinishedIsGone
  <2>2. CASE told[q] # "finished"
    <3>1. q = r /\ r \in active /\ affinity'[r] = None /\ active' = active \ {r}
      BY <2>2 DEF Finish, Tell, PoolInv, PoolTypeOK
    <3>2. ~Unknown(r)
      BY DEF Finish, Unknown
    <3> QED BY <1>0, <3>1, <3>2 DEF Finish, PoolInv, NewIsUnknown, AddedIsUnknown
  <2> QED BY <2>1, <2>2
<1>10. Released'
  BY <1>0 DEF PoolInv, PoolTypeOK, Released, Finish, Runs
<1> QED BY <1>1, <1>2, <1>3, <1>4, <1>5, <1>6, <1>7, <1>8, <1>9, <1>10 DEF PoolInv

LEMMA AttachStep ==
  ASSUME PoolInv, NEW a \in Addrs, Attach(a)
  PROVE  PoolInv'
<1>0. Msgs' = Msgs
  BY DEF Msgs, Attach, Runs, frontVars, loopVars, worldVars
<1>a. a \in joining /\ a \notin attached /\ held[a] = {} /\ handler.addr # a
      /\ proc[a] # "new" /\ RegMsg(a) \notin Msgs
  BY DEF Attach, PoolInv, FreshIsUnused, FreshOnce, Fresh
<1>b. /\ attached' \subseteq attached \cup {a} /\ attached \subseteq attached'
      /\ joining' = joining \ {a}
  BY DEF Attach
<1>c. UNCHANGED <<affinity, active, handler, proc, held, ended>>
  BY DEF Attach, Runs, loopVars, worldVars
<1>1. PoolTypeOK'
  BY DEF PoolInv, PoolTypeOK, Attach, Runs, frontVars, loopVars, worldVars
<1>2. /\ PreIsNew' /\ NewIsUnknown' /\ AddedIsUnknown' /\ OnceInQueue' /\ FinishedIsGone'
      /\ Released'
  BY <1>0
  DEF PoolInv, PreIsNew, NewIsUnknown, AddedIsUnknown, OnceInQueue, FinishedIsGone,
      Released, Unknown, Attach, Runs, frontVars, loopVars, worldVars
<1>3. HandlerBound'
  BY <1>a, <1>b, <1>c DEF PoolInv, HandlerBound
<1>4. HeldIsBound'
  BY <1>a, <1>b, <1>c DEF PoolInv, HeldIsBound
<1>5. FreshIsUnused'
  BY <1>0, <1>a, <1>b, <1>c DEF PoolInv, FreshIsUnused, Fresh
<1>6. FreshOnce'
  BY <1>0 DEF PoolInv, FreshOnce, Attach, worldVars
<1>7. SubmittedIsBound'
  BY DEF PoolInv, SubmittedIsBound, Attach, Runs, loopVars
<1> QED BY <1>1, <1>2, <1>3, <1>4, <1>5, <1>6, <1>7 DEF PoolInv

LEMMA WatchStep ==
  ASSUME PoolInv, Watch
  PROVE  PoolInv'
<1>0. Msgs' = Msgs
  BY DEF Msgs, Watch, Runs, frontVars, poolVars, loopVars, worldVars
<1>1. PoolTypeOK'
  BY DEF PoolInv, PoolTypeOK, Watch, Runs, frontVars, poolVars, loopVars, worldVars
<1>2. /\ PreIsNew' /\ NewIsUnknown' /\ AddedIsUnknown' /\ OnceInQueue' /\ HandlerBound'
      /\ HeldIsBound' /\ FreshIsUnused' /\ FreshOnce' /\ SubmittedIsBound'
      /\ FinishedIsGone' /\ Released'
  BY <1>0
  DEF PoolInv, PreIsNew, NewIsUnknown, AddedIsUnknown, OnceInQueue, HandlerBound,
      HeldIsBound, FreshIsUnused, FreshOnce, SubmittedIsBound, FinishedIsGone, Released,
      Unknown, Fresh, Watch, Runs, frontVars, poolVars, loopVars, worldVars
<1> QED BY <1>1, <1>2 DEF PoolInv

LEMMA UnregisterStep ==
  ASSUME PoolInv, NEW a \in Addrs, Unregister(a)
  PROVE  PoolInv'
<1>0. Msgs' = Msgs
  BY DEF Msgs, Unregister, Runs, Tell, worldVars
<1>1. PoolTypeOK'
  BY DEF PoolInv, PoolTypeOK, Unregister, Runs, Tell, worldVars
<1>2. PreIsNew' /\ OnceInQueue' /\ FreshOnce'
  BY <1>0 DEF PoolInv, PreIsNew, OnceInQueue, FreshOnce, Unregister, worldVars
<1>3. NewIsUnknown'
  BY <1>0 DEF PoolInv, NewIsUnknown, Unknown, Unregister, worldVars
<1>4. AddedIsUnknown'
  BY <1>0 DEF PoolInv, AddedIsUnknown, Unknown, Unregister, worldVars
<1>5. HandlerBound'
  BY AddrsAssumption DEF PoolInv, PoolTypeOK, HandlerBound, Unregister, Runs, worldVars
<1>6. HeldIsBound'
  BY DEF PoolInv, PoolTypeOK, HeldIsBound, Unregister, worldVars
<1>7. FreshIsUnused'
  BY <1>0 DEF PoolInv, FreshIsUnused, Fresh, Unregister, worldVars
<1>8. SubmittedIsBound'
  BY DEF PoolInv, PoolTypeOK, SubmittedIsBound, Unregister, Runs
<1>9. FinishedIsGone'
  BY <1>0 DEF PoolInv, FinishedIsGone, Unregister, Tell
<1>10. Released'
  BY <1>0 DEF PoolInv, Released, Unregister, Runs
<1> QED BY <1>1, <1>2, <1>3, <1>4, <1>5, <1>6, <1>7, <1>8, <1>9, <1>10 DEF PoolInv

LEMMA StartStep ==
  ASSUME PoolInv, NEW a \in Addrs, Start(a)
  PROVE  PoolInv'
<1>0. Msgs' = Msgs \cup {RegMsg(a)} /\ queue' \in Seq(Message) /\ OnceInQueue'
  <2>1. queue' = Append(queue, RegMsg(a)) /\ RegMsg(a) \notin Msgs
    BY DEF Start, RegMsg, PoolInv, FreshOnce
  <2> QED BY <2>1, AppendFacts, MessageForms DEF PoolInv, PoolTypeOK
<1>1. PoolTypeOK'
  BY <1>0 DEF PoolInv, PoolTypeOK, Start, Runs, frontVars, poolVars, memberVars
<1>2. PreIsNew' /\ HandlerBound' /\ SubmittedIsBound'
  BY DEF PoolInv, PreIsNew, HandlerBound, SubmittedIsBound, Start, Runs, frontVars, poolVars
<1>3. NewIsUnknown'
  BY <1>0, MessageForms DEF PoolInv, NewIsUnknown, Unknown, Start, frontVars
<1>4. AddedIsUnknown'
  BY <1>0, MessageForms DEF PoolInv, AddedIsUnknown, Unknown, Start
<1>5. HeldIsBound'
  <2> SUFFICES ASSUME NEW b \in attached', proc'[b] = "live", NEW q \in held'[b]
               PROVE  q \in active' /\ affinity'[q] = b
    BY DEF HeldIsBound
  <2>1. b # a
    BY DEF Start, Fresh, FreshIsUnused, PoolInv, poolVars
  <2>2. b \in attached /\ b \in Addrs /\ proc[b] = "live" /\ q \in held[b]
    BY <2>1 DEF Start, poolVars, PoolInv, PoolTypeOK
  <2> QED BY <2>2 DEF PoolInv, HeldIsBound, Start, poolVars
<1>6. FreshIsUnused'
  BY <1>0, MessageForms DEF PoolInv, FreshIsUnused, Fresh, Start, poolVars, memberVars
<1>7. FreshOnce'
  BY <1>0, MessageForms DEF PoolInv, PoolTypeOK, FreshOnce, Start, memberVars
<1>8. FinishedIsGone'
  BY <1>0, MessageForms DEF PoolInv, FinishedIsGone, Start, frontVars, poolVars
<1>9. Released'
  BY <1>0 DEF PoolInv, Released, Start, Runs, frontVars, poolVars
<1> QED BY <1>0, <1>1, <1>2, <1>3, <1>4, <1>5, <1>6, <1>7, <1>8, <1>9 DEF PoolInv

LEMMA CrashStep ==
  ASSUME PoolInv, NEW a \in Addrs, Crash(a)
  PROVE  PoolInv'
<1>0. Msgs' = Msgs
  BY DEF Msgs, Crash, Runs, Upset, frontVars, poolVars, loopVars, memberVars
<1>1. PoolTypeOK'
  BY UpsetsAssumption
  DEF PoolInv, PoolTypeOK, Crash, Runs, Upset, frontVars, poolVars, loopVars, memberVars
<1>2. PreIsNew' /\ OnceInQueue' /\ SubmittedIsBound' /\ FinishedIsGone' /\ Released'
  BY <1>0
  DEF PoolInv, PreIsNew, OnceInQueue, SubmittedIsBound, FinishedIsGone, Released, Crash,
      Runs, frontVars, poolVars, loopVars
<1>3. NewIsUnknown'
  BY <1>0 DEF PoolInv, NewIsUnknown, Unknown, Crash, frontVars, loopVars
<1>4. AddedIsUnknown'
  BY <1>0 DEF PoolInv, AddedIsUnknown, Unknown, Crash, loopVars
<1>5. HandlerBound'
  BY DEF PoolInv, HandlerBound, Crash, Runs, poolVars, loopVars
<1>6. HeldIsBound'
  BY DEF PoolInv, HeldIsBound, Crash, poolVars, loopVars
<1>7. FreshIsUnused'
  BY <1>0 DEF PoolInv, FreshIsUnused, Fresh, Crash, poolVars, loopVars, memberVars
<1>8. FreshOnce'
  BY <1>0 DEF PoolInv, FreshOnce, Crash, memberVars
<1> QED BY <1>1, <1>2, <1>3, <1>4, <1>5, <1>6, <1>7, <1>8 DEF PoolInv

LEMMA HubAddsStep ==
  ASSUME PoolInv, NEW a \in Addrs, HubAdds(a)
  PROVE  PoolInv'
<1>0. Msgs' = Msgs
  BY DEF Msgs, HubAdds, Runs, frontVars, poolVars, loopVars, memberVars
<1>1. PoolTypeOK'
  BY DEF PoolInv, PoolTypeOK, HubAdds, Runs, frontVars, poolVars, loopVars, memberVars
<1>2. /\ PreIsNew' /\ NewIsUnknown' /\ AddedIsUnknown' /\ OnceInQueue' /\ HandlerBound'
      /\ HeldIsBound' /\ FreshIsUnused' /\ FreshOnce' /\ SubmittedIsBound'
      /\ FinishedIsGone' /\ Released'
  BY <1>0
  DEF PoolInv, PreIsNew, NewIsUnknown, AddedIsUnknown, OnceInQueue, HandlerBound,
      HeldIsBound, FreshIsUnused, FreshOnce, SubmittedIsBound, FinishedIsGone, Released,
      Unknown, Fresh, HubAdds, Runs, frontVars, poolVars, loopVars, memberVars
<1> QED BY <1>1, <1>2 DEF PoolInv

LEMMA HubDropsStep ==
  ASSUME PoolInv, NEW a \in Addrs, HubDrops(a)
  PROVE  PoolInv'
<1>0. Msgs' = Msgs
  BY DEF Msgs, HubDrops, Runs, Upset, frontVars, poolVars, loopVars, memberVars
<1>1. PoolTypeOK'
  BY UpsetsAssumption
  DEF PoolInv, PoolTypeOK, HubDrops, Runs, Upset, frontVars, poolVars, loopVars, memberVars
<1>2. /\ PreIsNew' /\ NewIsUnknown' /\ AddedIsUnknown' /\ OnceInQueue' /\ HandlerBound'
      /\ HeldIsBound' /\ FreshIsUnused' /\ FreshOnce' /\ SubmittedIsBound'
      /\ FinishedIsGone' /\ Released'
  BY <1>0
  DEF PoolInv, PreIsNew, NewIsUnknown, AddedIsUnknown, OnceInQueue, HandlerBound,
      HeldIsBound, FreshIsUnused, FreshOnce, SubmittedIsBound, FinishedIsGone, Released,
      Unknown, Fresh, HubDrops, Runs, frontVars, poolVars, loopVars, memberVars
<1> QED BY <1>1, <1>2 DEF PoolInv

-----------------------------------------------------------------------------
LEMMA PoolNext == PoolInv /\ [Next]_vars => PoolInv'
<1> SUFFICES ASSUME PoolInv, [Next]_vars PROVE PoolInv'
  OBVIOUS
<1>1. CASE HandlerNext
  BY <1>1, AddRequestStep, PickAgainStep, PickTimesOutStep, SubmittedStep, SubmitFailsStep,
     AbortStep, RegisterStep
  DEF HandlerNext
<1>2. CASE OtherNext
  BY <1>2, RecordStep, SendStep, WatchStep, PreselectStep, AnsweredStep, CancelStep, AttachStep,
     UnregisterStep, StartStep, CrashStep, HubAddsStep, HubDropsStep, FinishStep
  DEF OtherNext
<1>3. CASE UNCHANGED vars
  <2>1. Msgs' = Msgs
    BY <1>3 DEF Msgs, vars, loopVars
  <2>2. PoolTypeOK' /\ PreIsNew'
    BY <1>3
    DEF vars, frontVars, poolVars, loopVars, memberVars, worldVars, PoolInv, PoolTypeOK,
        PreIsNew
  <2>3. NewIsUnknown' /\ AddedIsUnknown' /\ OnceInQueue'
    BY <1>3, <2>1
    DEF vars, frontVars, loopVars, worldVars, PoolInv, NewIsUnknown, AddedIsUnknown,
                      Unknown, OnceInQueue
  <2>4. HandlerBound' /\ HeldIsBound' /\ SubmittedIsBound'
    BY <1>3 DEF vars, poolVars, loopVars, worldVars, PoolInv, HandlerBound, HeldIsBound,
                SubmittedIsBound
  <2>5. FreshIsUnused' /\ FreshOnce'
    BY <1>3, <2>1
    DEF vars, poolVars, loopVars, memberVars, worldVars, PoolInv, FreshIsUnused, FreshOnce,
        Fresh
  <2>6. FinishedIsGone' /\ Released'
    BY <1>3, <2>1 DEF vars, frontVars, poolVars, loopVars, PoolInv, FinishedIsGone, Released
  <2> QED BY <2>2, <2>3, <2>4, <2>5, <2>6 DEF PoolInv
<1> QED BY <1>1, <1>2, <1>3 DEF Next

-----------------------------------------------------------------------------
(* Nobody waits for nothing.                                               *)

\* A request whose caller waits is on its way to the handler, in its hands, or
\* with the replica it is bound to, unless that one has crashed.
OnItsWay(r) ==
  \/ AddMsg(r) \in Msgs
  \/ /\ r \in active
     /\ \/ handler.req = r /\ affinity[r] = handler.addr
        \/ handler.req # r /\ (proc[affinity[r]] = "live" => r \in held[affinity[r]])
WaitersOnTheirWay ==
  ~ended => \A r \in Requests : client[r] = "sent" /\ told[r] = "no" => OnItsWay(r)

\* Only callers that have their answer abort.
AbortsAreAnswered == \A r \in Requests : AbortMsg(r) \in Msgs => client[r] = "answered"

\* Should the replica a request is bound to leave the list, its request is told.
Watched(a) == a \in up \cup lastUp \cup leaving
BoundIsWatched == ~ended => \A r \in active : affinity[r] # None => Watched(affinity[r])

ServeInv == WaitersOnTheirWay /\ AbortsAreAnswered /\ BoundIsWatched

(* A message more in the queue.                                            *)
LEMMA MsgsAppend ==
  ASSUME queue \in Seq(Message), NEW m \in Message, queue' = Append(queue, m)
  PROVE  Msgs' = Msgs \cup {m}
<1>1. /\ Len(queue') = Len(queue) + 1 /\ Len(queue) \in Nat
      /\ \A i \in 1 .. Len(queue) : queue'[i] = queue[i]
      /\ queue'[Len(queue')] = m
  BY AppendProperties, LenProperties
<1> QED BY <1>1 DEF Msgs

(* The tasks that look at the list, and the end of the orchestrator.       *)
LEMMA ServeQuiet ==
  ASSUME PoolInv, ServeInv,
         \/ Watch \/ PickTimesOut \/ SubmitFails \/ UNCHANGED vars
         \/ \E r \in Requests : Preselect(r)
         \/ \E a \in Addrs : HubAdds(a) \/ HubDrops(a)
  PROVE  ServeInv'
<1>1. Msgs' = Msgs
  BY DEF Watch, PickTimesOut, SubmitFails, Preselect, HubAdds, HubDrops, vars, loopVars, Msgs
<1>2. CASE PickTimesOut \/ SubmitFails
  BY <1>1, <1>2
  DEF PickTimesOut, SubmitFails, ServeInv, WaitersOnTheirWay, AbortsAreAnswered, BoundIsWatched,
      frontVars
<1>3. CASE ~(PickTimesOut \/ SubmitFails)
  <2>1. UNCHANGED <<client, told, active, handler, affinity, held, proc, ended>>
    BY <1>3
    DEF Watch, Preselect, HubAdds, HubDrops, vars, frontVars, poolVars, loopVars, memberVars,
        worldVars, Runs
  <2>2. WaitersOnTheirWay' /\ AbortsAreAnswered'
    BY <1>1, <2>1 DEF ServeInv, WaitersOnTheirWay, OnItsWay, AbortsAreAnswered
  <2>3. \A a \in Addrs : Watched(a) => Watched(a)'
    BY <1>3
    DEF Watch, Preselect, HubAdds, HubDrops, vars, memberVars, worldVars, Watched
  <2>4. \A r \in active : affinity[r] # None => affinity[r] \in Addrs
    BY DEF PoolInv, PoolTypeOK
  <2> QED BY <2>1, <2>2, <2>3, <2>4 DEF ServeInv, BoundIsWatched
<1> QED BY <1>2, <1>3

(* The frontend's thread touches only what has not been sent.              *)
LEMMA ServeFront ==
  ASSUME PoolInv, ServeInv, Record \/ Send
  PROVE  ServeInv'
<1>1. /\ pre.req \in Requests /\ client[pre.req] = "new" /\ pre.req \notin active
      /\ AddMsg(pre.req) \notin Msgs
  BY DEF Record, Send, PoolInv, PreIsNew, NewIsUnknown, Unknown
<1>2. \A q \in Requests : q # pre.req => affinity'[q] = affinity[q] /\ client'[q] = client[q]
  BY <1>1 DEF Record, Send, PoolInv, PoolTypeOK
<1>3. UNCHANGED <<told, active, handler, held, proc, ended, up, lastUp, leaving>>
  BY DEF Record, Send, loopVars, memberVars, worldVars, Runs
<1>4. /\ Msgs \subseteq Msgs' /\ Msgs' \subseteq Msgs \cup {AddMsg(pre.req)}
      /\ client'[pre.req] = "sent" => AddMsg(pre.req) \in Msgs'
  <2>1. CASE queue' = Append(queue, AddMsg(pre.req))
    BY <1>1, <2>1, MsgsAppend, MessageForms DEF PoolInv, PoolTypeOK
  <2>2. CASE queue' = queue /\ client'[pre.req] # "sent"
    BY <2>2 DEF Msgs
  <2>3. Record => queue' = queue /\ client'[pre.req] = "new"
    BY <1>1 DEF Record, loopVars
  <2>4. Send => \/ queue' = Append(queue, AddMsg(pre.req))
                \/ queue' = queue /\ client'[pre.req] = "answered"
    BY <1>1 DEF Send, AddMsg, PoolInv, PoolTypeOK
  <2> QED BY <2>1, <2>2, <2>3, <2>4
<1>5. WaitersOnTheirWay'
  BY <1>1, <1>2, <1>3, <1>4 DEF ServeInv, WaitersOnTheirWay, OnItsWay
<1>6. AbortsAreAnswered'
  BY <1>1, <1>2, <1>4, MessageForms DEF ServeInv, AbortsAreAnswered
<1>7. BoundIsWatched'
  BY <1>1, <1>2, <1>3 DEF ServeInv, BoundIsWatched, Watched, PoolInv, PoolTypeOK
<1> QED BY <1>5, <1>6, <1>7 DEF ServeInv

(* A caller has its answer, or gives up; a new replica is announced.       *)
LEMMA ServeMessages ==
  ASSUME PoolInv, ServeInv,
         \/ \E r \in Requests : Answered(r) \/ Cancel(r)
         \/ \E a \in Addrs : Start(a)
  PROVE  ServeInv'
<1>1. UNCHANGED <<told, active, handler, affinity, held, ended, up, lastUp, leaving>>
  BY DEF Answered, Cancel, Start, frontVars, poolVars, memberVars, worldVars, Runs
<1>2. BoundIsWatched'
  BY <1>1 DEF ServeInv, BoundIsWatched, Watched
<1>3. ASSUME NEW r \in Requests, Answered(r) \/ Cancel(r)
      PROVE  WaitersOnTheirWay' /\ AbortsAreAnswered'
  <2>1. /\ client' = [client EXCEPT ![r] = "answered"] /\ UNCHANGED proc
        /\ client \in [Requests -> {"new", "sent", "answered"}]
    BY <1>3 DEF Answered, Cancel, worldVars, PoolInv, PoolTypeOK
  <2>2. Msgs \subseteq Msgs' /\ Msgs' \subseteq Msgs \cup {AbortMsg(r)}
    <3>1. CASE queue' = Append(queue, AbortMsg(r))
      BY <3>1, MsgsAppend, MessageForms DEF PoolInv, PoolTypeOK
    <3>2. CASE queue' = queue
      BY <3>2 DEF Msgs
    <3> QED BY <1>3, <3>1, <3>2 DEF Answered, Cancel, AbortMsg
  <2>3. WaitersOnTheirWay'
    BY <1>1, <2>1, <2>2 DEF ServeInv, WaitersOnTheirWay, OnItsWay
  <2>4. AbortsAreAnswered'
    BY <2>1, <2>2, MessageForms DEF ServeInv, AbortsAreAnswered
  <2> QED BY <2>3, <2>4
<1>4. ASSUME NEW a \in Addrs, Start(a)
      PROVE  WaitersOnTheirWay' /\ AbortsAreAnswered'
  <2>1. /\ proc[a] = "new" /\ proc' = [proc EXCEPT ![a] = "live"] /\ UNCHANGED client
        /\ proc \in [Addrs -> {"new", "live", "crashed"}] /\ a \notin attached /\ handler.addr # a
    BY <1>4 DEF Start, frontVars, PoolInv, PoolTypeOK, FreshIsUnused, Fresh
  <2>2. Msgs' = Msgs \cup {RegMsg(a)}
    BY <1>4, MsgsAppend, MessageForms DEF Start, RegMsg, PoolInv, PoolTypeOK
  <2>3. ASSUME ~ended, NEW r \in active, handler.req # r PROVE proc'[affinity[r]] = proc[affinity[r]]
    <3>1. affinity[r] # a
      BY <2>1, <2>3 DEF PoolInv, SubmittedIsBound
    <3>2. affinity[r] \in Addrs
      BY <2>3 DEF PoolInv, SubmittedIsBound, PoolTypeOK
    <3> QED BY <2>1, <3>1, <3>2
  <2>4. WaitersOnTheirWay'
    BY <1>1, <2>1, <2>2, <2>3 DEF ServeInv, WaitersOnTheirWay, OnItsWay
  <2>5. AbortsAreAnswered'
    BY <2>1, <2>2, MessageForms DEF ServeInv, AbortsAreAnswered
  <2> QED BY <2>4, <2>5
<1> QED BY <1>2, <1>3, <1>4 DEF ServeInv

(* The handler takes a request and looks for a replica.                    *)
LEMMA ServePick ==
  ASSUME PoolInv, ServeInv, AddRequest \/ PickAgain
  PROVE  ServeInv'
<1>1. UNCHANGED <<client, told, held, proc, ended, up, lastUp, leaving, attached>> /\ ~ended
  BY DEF AddRequest, PickAgain, frontVars, memberVars, worldVars, Runs
<1>2. PICK r \in Requests :
        /\ active' = active \cup {r} /\ handler'.req = r
        /\ affinity'[r] = handler'.addr
        /\ affinity'[r] # None => affinity'[r] \in up
        /\ \A q \in Requests : q # r => affinity'[q] = affinity[q]
        /\ \A q \in Requests : q # r => handler.req # q
        /\ \A q \in Requests : q # r /\ AddMsg(q) \in Msgs => AddMsg(q) \in Msgs'
        /\ Msgs' \subseteq Msgs
  <2>0. /\ affinity \in [Requests -> Addrs \cup {None}] /\ active \subseteq Requests
        /\ handler \in [at : {"idle", "pick", "submit"}, req : Requests \cup {None},
                        addr : Addrs \cup {None}]
        /\ handler.at = "idle" <=> handler.req = None
        /\ queue \in Seq(Message) /\ OnceInQueue /\ None \notin Requests
    BY AddrsAssumption DEF PoolInv, PoolTypeOK
  <2>1. CASE AddRequest
    <3>1. /\ Head(queue) \in Message /\ Head(queue).type = "add" /\ Msgs' \subseteq Msgs
          /\ Msgs \ {Head(queue)} \subseteq Msgs' /\ handler.at = "idle"
      BY <2>0, <2>1, TakeFacts DEF AddRequest, Take
    <3> DEFINE r == Head(queue).req
    <3>2. r \in Requests /\ Head(queue) = AddMsg(r)
      BY <3>1, MessageForms
    <3>3. \A q \in Requests : q # r => AddMsg(q) # AddMsg(r)
      BY <3>2, MessageForms
    <3>4. /\ active' = active \cup {r} /\ handler'.req = r /\ affinity'[r] = handler'.addr
          /\ affinity'[r] # None => affinity'[r] \in up
          /\ \A q \in Requests : q # r => affinity'[q] = affinity[q]
      BY <2>0, <2>1, <3>2 DEF AddRequest, Choices, Serviceable
    <3>5. \A q \in Requests : handler.req # q
      BY <2>0, <3>1
    <3> HIDE DEF r
    <3> QED BY <3>1, <3>2, <3>3, <3>4, <3>5
  <2>2. CASE PickAgain
    <3> DEFINE r == handler.req
    <3>1. r \in Requests /\ r \in active
      BY <1>1, <2>0, <2>2 DEF PickAgain, PoolInv, HandlerBound
    <3>2. /\ active' = active \cup {r} /\ handler'.req = r /\ affinity'[r] = handler'.addr
          /\ affinity'[r] # None => affinity'[r] \in up
          /\ \A q \in Requests : q # r => affinity'[q] = affinity[q]
      <4>1. PICK a \in up :
              /\ affinity' = [affinity EXCEPT ![handler.req] = a]
              /\ handler' = [handler EXCEPT !.at = "submit", !.addr = a]
        BY <2>2 DEF PickAgain, Serviceable
      <4>2. handler'.req = handler.req /\ handler'.addr = a
        BY <2>0, <4>1
      <4>3. affinity'[r] = a /\ \A q \in Requests : q # r => affinity'[q] = affinity[q]
        BY <2>0, <3>1, <4>1
      <4>4. active' = active
        BY <2>2 DEF PickAgain
      <4> QED BY <3>1, <4>2, <4>3, <4>4
    <3>3. Msgs' = Msgs
      BY <2>2 DEF PickAgain, Msgs
    <3> QED BY <3>1, <3>2, <3>3
  <2> QED BY <2>1, <2>2
<1>3. WaitersOnTheirWay'
  BY <1>1, <1>2 DEF ServeInv, WaitersOnTheirWay, OnItsWay
<1>4. AbortsAreAnswered'
  BY <1>1, <1>2 DEF ServeInv, AbortsAreAnswered
<1>5. BoundIsWatched'
  BY <1>1, <1>2 DEF ServeInv, BoundIsWatched, Watched, PoolInv, PoolTypeOK
<1> QED BY <1>3, <1>4, <1>5 DEF ServeInv

(* The replica has the request, or has crashed.                            *)
LEMMA ServeSubmitted ==
  ASSUME PoolInv, ServeInv, Submitted
  PROVE  ServeInv'
<1>1. /\ UNCHANGED <<client, told, active, affinity, attached, proc, ended, up, lastUp, leaving>>
      /\ Msgs' = Msgs /\ ~ended /\ handler'.req = None
  BY DEF Submitted, frontVars, poolVars, memberVars, Runs, Msgs, NoCall
<1>2. /\ handler.at = "submit" /\ handler.req \in Requests /\ handler.addr \in Addrs
      /\ None \notin Requests /\ held \in [Addrs -> SUBSET Requests]
  BY AddrsAssumption DEF Submitted, PoolInv, PoolTypeOK
<1>3. \A a \in Addrs : held[a] \subseteq held'[a]
  BY <1>2 DEF Submitted
<1>4. handler.addr \in attached /\ proc[handler.addr] = "live" => handler.req \in held'[handler.addr]
  BY <1>2 DEF Submitted
<1>5. ASSUME NEW r \in Requests, client[r] = "sent", told[r] = "no" PROVE OnItsWay(r)'
  <2>1. CASE AddMsg(r) \in Msgs
    BY <1>1, <2>1 DEF OnItsWay
  <2>2. CASE r \in active /\ handler.req = r /\ affinity[r] = handler.addr
    <3>1. affinity[r] \in attached
      BY <1>1, <1>2, <2>2 DEF PoolInv, SubmittedIsBound
    <3> QED BY <1>1, <1>2, <1>4, <2>2, <3>1 DEF OnItsWay
  <2>3. CASE r \in active /\ handler.req # r /\ (proc[affinity[r]] = "live" => r \in held[affinity[r]])
    <3>1. affinity[r] \in Addrs
      BY <1>1, <2>3 DEF PoolInv, SubmittedIsBound, PoolTypeOK
    <3> QED BY <1>1, <1>2, <1>3, <2>3, <3>1 DEF OnItsWay
  <2> QED BY <1>1, <1>5, <2>1, <2>2, <2>3 DEF ServeInv, WaitersOnTheirWay, OnItsWay
<1>6. WaitersOnTheirWay'
  BY <1>1, <1>5 DEF WaitersOnTheirWay
<1>7. AbortsAreAnswered' /\ BoundIsWatched'
  BY <1>1 DEF ServeInv, AbortsAreAnswered, BoundIsWatched, Watched
<1> QED BY <1>6, <1>7 DEF ServeInv

(* An abort is not of a request somebody waits for; a registration concerns *)
(* nobody.                                                                 *)
LEMMA ServeTaken ==
  ASSUME PoolInv, ServeInv, Abort \/ Register
  PROVE  ServeInv'
<1>1. /\ UNCHANGED <<client, told, handler, attached, proc, ended, up, lastUp, leaving>>
      /\ handler.at = "idle"
  BY DEF Abort, Register, Take, frontVars, poolVars, memberVars, worldVars, Runs
<1>2. /\ Head(queue) \in Message /\ Head(queue) \in Msgs /\ Head(queue).type # "add"
      /\ Msgs' \subseteq Msgs /\ Msgs \ {Head(queue)} \subseteq Msgs'
  <2>1. queue \in Seq(Message) /\ OnceInQueue
    BY DEF PoolInv, PoolTypeOK
  <2> QED BY <2>1, TakeFacts DEF Abort, Register
<1>3. \A r \in Requests : AddMsg(r) \in Msgs => AddMsg(r) \in Msgs'
  BY <1>2, MessageForms
<1>4. ASSUME NEW r \in Requests, client[r] # "answered"
      PROVE  /\ r \in active => r \in active' /\ affinity'[r] = affinity[r]
             /\ \A a \in Addrs : r \in held[a] => r \in held'[a]
  <2>1. CASE Register
    BY <2>1 DEF Register, poolVars, worldVars
  <2>2. CASE Abort
    <3> DEFINE q == Head(queue).req
    <3>1. Head(queue).type = "abort" /\ Cleanup({q})
      BY <2>2 DEF Abort, Take
    <3>2. q \in Requests /\ AbortMsg(q) \in Msgs
      BY <1>2, <3>1, MessageForms
    <3>3. q # r
      BY <1>4, <3>2 DEF ServeInv, AbortsAreAnswered
    <3> HIDE DEF q
    <3> QED BY <3>1, <3>3 DEF Cleanup, PoolInv, PoolTypeOK
  <2> QED BY <2>1, <2>2
<1>5. \A r \in active' : r \in active /\ (affinity'[r] # None => affinity'[r] = affinity[r])
  BY DEF Abort, Register, Cleanup, poolVars, PoolInv, PoolTypeOK
<1>6. ASSUME ~ended, NEW r \in Requests, client[r] = "sent", told[r] = "no" PROVE OnItsWay(r)'
  <2>1. CASE AddMsg(r) \in Msgs
    BY <1>3, <2>1 DEF OnItsWay
  <2>2. CASE r \in active /\ handler.req # r /\ (proc[affinity[r]] = "live" => r \in held[affinity[r]])
    <3>1. affinity[r] \in Addrs
      BY <1>1, <1>6, <2>2 DEF PoolInv, SubmittedIsBound, PoolTypeOK
    <3> QED BY <1>1, <1>4, <1>6, <2>2, <3>1 DEF OnItsWay
  <2>3. handler.req # r
    BY <1>1, AddrsAssumption DEF PoolInv, PoolTypeOK
  <2> QED BY <1>6, <2>1, <2>2, <2>3 DEF ServeInv, WaitersOnTheirWay, OnItsWay
<1>7. WaitersOnTheirWay'
  BY <1>1, <1>6 DEF WaitersOnTheirWay
<1>8. AbortsAreAnswered' /\ BoundIsWatched'
  BY <1>1, <1>2, <1>5 DEF ServeInv, AbortsAreAnswered, BoundIsWatched, Watched
<1> QED BY <1>7, <1>8 DEF ServeInv

(* An output is handled: its caller is told.                               *)
LEMMA ServeFinish ==
  ASSUME PoolInv, ServeInv, NEW a \in Addrs, NEW r \in Requests, Finish(a, r)
  PROVE  ServeInv'
<1>1. /\ UNCHANGED <<client, handler, attached, proc, ended, up, lastUp, leaving>> /\ ~ended
      /\ Msgs' = Msgs
  BY DEF Finish, memberVars, Runs, Msgs
<1>2. r \in active /\ proc[a] = "live" /\ a \in attached /\ r \in held[a]
  BY DEF Finish, PoolInv, HeldIsBound
<1>3. /\ told'[r] # "no" /\ active' = active \ {r}
      /\ \A q \in Requests : q # r => told'[q] = told[q] /\ affinity'[q] = affinity[q]
  BY <1>2 DEF Finish, Tell, PoolInv, PoolTypeOK
<1>4. \A b \in Addrs : held[b] \ {r} \subseteq held'[b]
  BY DEF Finish, PoolInv, PoolTypeOK
<1>5. ASSUME NEW q \in Requests, client[q] = "sent", told'[q] = "no" PROVE OnItsWay(q)'
  <2>1. q # r /\ OnItsWay(q)
    BY <1>1, <1>3, <1>5 DEF ServeInv, WaitersOnTheirWay
  <2>2. q \in active /\ handler.req # q => affinity[q] \in Addrs
    BY <1>1 DEF PoolInv, SubmittedIsBound, PoolTypeOK
  <2> QED BY <1>1, <1>3, <1>4, <2>1, <2>2 DEF OnItsWay
<1>6. WaitersOnTheirWay'
  BY <1>1, <1>5 DEF WaitersOnTheirWay
<1>7. AbortsAreAnswered' /\ BoundIsWatched'
  BY <1>1, <1>3 DEF ServeInv, AbortsAreAnswered, BoundIsWatched, Watched, PoolInv, PoolTypeOK
<1> QED BY <1>6, <1>7 DEF ServeInv

(* A replica is attached, or crashes.                                      *)
LEMMA ServeReplica ==
  ASSUME PoolInv, ServeInv, NEW a \in Addrs, Attach(a) \/ Crash(a)
  PROVE  ServeInv'
<1>1. /\ UNCHANGED <<client, told, active, handler, affinity, ended, up, lastUp, leaving>>
      /\ Msgs' = Msgs /\ ~ended
  BY DEF Attach, Crash, frontVars, poolVars, loopVars, memberVars, worldVars, Runs, Msgs
<1>2. \A b \in Addrs : proc'[b] = "live" => proc[b] = "live" /\ held'[b] = held[b]
  BY DEF Attach, Crash, worldVars, PoolInv, PoolTypeOK
<1>3. ASSUME NEW q \in Requests, client[q] = "sent", told[q] = "no" PROVE OnItsWay(q)'
  <2>1. OnItsWay(q)
    BY <1>1, <1>3 DEF ServeInv, WaitersOnTheirWay
  <2>2. q \in active /\ handler.req # q => affinity[q] \in Addrs
    BY <1>1 DEF PoolInv, SubmittedIsBound, PoolTypeOK
  <2> QED BY <1>1, <1>2, <2>1, <2>2 DEF OnItsWay
<1>4. WaitersOnTheirWay'
  BY <1>1, <1>3 DEF WaitersOnTheirWay
<1>5. AbortsAreAnswered' /\ BoundIsWatched'
  BY <1>1 DEF ServeInv, AbortsAreAnswered, BoundIsWatched, Watched
<1> QED BY <1>4, <1>5 DEF ServeInv

(* A replica that has left the list: who is bound to it is told.           *)
LEMMA ServeUnregister ==
  ASSUME PoolInv, ServeInv, NEW a \in Addrs, Unregister(a)
  PROVE  ServeInv'
<1>1. /\ UNCHANGED <<client, handler, proc, held, ended, up, lastUp>> /\ ~ended /\ Msgs' = Msgs
      /\ leaving' = leaving \ {a}
  BY DEF Unregister, worldVars, Runs, Msgs
<1>2. ASSUME NEW q \in Requests
      PROVE  \/ affinity[q] = a /\ affinity'[q] = None /\ q \notin active' /\ told'[q] # "no"
             \/ /\ affinity[q] # a /\ affinity'[q] = affinity[q] /\ told'[q] = told[q]
                /\ q \in active <=> q \in active'
  BY DEF Unregister, Tell, PoolInv, PoolTypeOK
<1>3. ASSUME NEW q \in Requests, client[q] = "sent", told'[q] = "no" PROVE OnItsWay(q)'
  <2>1. affinity'[q] = affinity[q] /\ told[q] = "no" /\ (q \in active <=> q \in active')
    BY <1>2, <1>3
  <2>2. OnItsWay(q)
    BY <1>1, <1>3, <2>1 DEF ServeInv, WaitersOnTheirWay
  <2> QED BY <1>1, <2>1, <2>2 DEF OnItsWay
<1>4. WaitersOnTheirWay'
  BY <1>1, <1>3 DEF WaitersOnTheirWay
<1>5. active' \subseteq active /\ active \subseteq Requests
  BY DEF Unregister, PoolInv, PoolTypeOK
<1>6. BoundIsWatched'
  BY <1>1, <1>2, <1>5 DEF ServeInv, BoundIsWatched, Watched
<1>7. AbortsAreAnswered'
  BY <1>1 DEF ServeInv, AbortsAreAnswered
<1> QED BY <1>4, <1>6, <1>7 DEF ServeInv

-----------------------------------------------------------------------------
\* The invariant holds in every state, however the tasks, the frontend's thread
\* and the hub's list interleave.
THEOREM PoolInvAlways == Spec => []PoolInv
BY PoolInit, PoolNext, PTL DEF Spec

\* A request that was given to a replica is bound to an attached one until it
\* ends, for any number of requests and replicas: whatever replica is lost, its
\* requests are found by their binding and their callers are told.
THEOREM SubmittedAlwaysBound == Spec => []SubmittedIsBound
<1>1. PoolInv => SubmittedIsBound
  BY DEF PoolInv
<1> QED BY <1>1, PoolInvAlways, PTL

\* An attached replica that is alive never works on a request the orchestrator
\* has forgotten, for any number of requests and replicas.
THEOREM NeverOrphanWork == Spec => []NoOrphanWork
<1>1. PoolInv => NoOrphanWork
  BY DEF PoolInv, HeldIsBound, NoOrphanWork
<1> QED BY <1>1, PoolInvAlways, PTL

\* A request that is over, and of which no message is left, has no row in the
\* affinity table, for any number of requests and replicas.
THEOREM AffinityAlwaysReleased == Spec => []AffinityReleased
<1>1. ASSUME PoolInv PROVE AffinityReleased
  <2> SUFFICES ASSUME NEW r \in Requests, client[r] = "answered", r \notin active, ~ended,
                      \A i \in 1 .. Len(queue) : queue[i].type = "register" \/ queue[i].req # r
               PROVE  affinity[r] = None
    BY DEF AffinityReleased
  <2>1. AddMsg(r) \notin Msgs /\ AbortMsg(r) \notin Msgs
    BY MessageForms DEF Msgs
  <2> QED BY <1>1, <2>1 DEF PoolInv, Released
<1> QED BY <1>1, PoolInvAlways, PTL

\* The types of the pool's variables, for any constants.
THEOREM PoolTypeCorrect == Spec => []PoolTypeOK
<1>1. PoolInv => PoolTypeOK
  BY DEF PoolInv
<1> QED BY <1>1, PoolInvAlways, PTL

\* No caller waits for nothing, for any number of requests and replicas: its
\* request is on its way to a replica, one works on it, or the loss of the one
\* it was given to is still to be noticed.
THEOREM SentAlwaysServed == Spec => []SentAreServed
<1>1. Init => ServeInv
  <2> SUFFICES ASSUME Init PROVE ServeInv
    OBVIOUS
  <2>1. Msgs = {}
    BY EmptySeq DEF Init, Msgs
  <2> QED BY <2>1 DEF Init, ServeInv, WaitersOnTheirWay, AbortsAreAnswered, BoundIsWatched
<1>2. PoolInv /\ ServeInv /\ [Next]_vars => ServeInv'
  <2> SUFFICES ASSUME PoolInv, ServeInv, [Next]_vars PROVE ServeInv'
    OBVIOUS
  <2>1. CASE HandlerNext
    BY <2>1, ServeQuiet, ServePick, ServeSubmitted, ServeTaken DEF HandlerNext
  <2>2. CASE OtherNext
    BY <2>2, ServeQuiet, ServeFront, ServeMessages, ServeFinish, ServeReplica, ServeUnregister
    DEF OtherNext
  <2> QED BY <2>1, <2>2, ServeQuiet DEF Next
<1>3. PoolInv /\ ServeInv => SentAreServed
  <2> SUFFICES ASSUME PoolInv, ServeInv, ~ended, NEW r \in Requests, client[r] = "sent",
                      told[r] = "no", handler.req # r,
                      ~\E i \in 1 .. Len(queue) : queue[i] = AddMsg(r)
               PROVE  \E a \in attached : affinity[r] = a /\ Serves(a, r)
    BY DEF SentAreServed, AddMsg
  <2>1. /\ r \in active
        /\ proc[affinity[r]] = "live" => r \in held[affinity[r]]
    BY DEF ServeInv, WaitersOnTheirWay, OnItsWay, Msgs
  <2>2. affinity[r] \in attached /\ affinity[r] \in Addrs /\ affinity[r] # None
    BY <2>1, AddrsAssumption DEF PoolInv, SubmittedIsBound, PoolTypeOK
  <2>3. proc[affinity[r]] \in {"live", "crashed"}
    BY <2>2 DEF PoolInv, PoolTypeOK, FreshIsUnused, Fresh
  <2>4. affinity[r] \in up \cup lastUp \cup leaving
    BY <2>1, <2>2 DEF ServeInv, BoundIsWatched, Watched
  <2> QED BY <2>1, <2>2, <2>3, <2>4 DEF Serves
<1> QED BY <1>1, <1>2, <1>3, PoolInvAlways, PTL DEF Spec
===============================================================================
