--------------------------- MODULE SessionProofs ---------------------------
(***************************************************************************)
(* What is proved of Session for every set of calls and ids: its type      *)
(* invariant, and that a session reads Disconnected only when its user     *)
(* closed or dropped it.                                                   *)
(***************************************************************************)
EXTENDS Session, TLAPS

\* QuietEndIsAsked is not inductive: that the wait task sets Disconnected
\* only for a user's close rests on who cancelled the token, and on the
\* keepalive having set Failed before it cancels.
EndInv ==
  /\ QuietEndIsAsked
  /\ waiter = "setting" /\ next = "Disconnected" => holder # "held"
  /\ waiter # "waiting" /\ next = "Disconnected" => service = "Cancelled"
  /\ waiter # "waiting" => next # "none"
  /\ service = "Cancelled" => cancel
  /\ cancel /\ holder = "held" => conn = "Failed"
  /\ keepalive \in {"failed", "emitted"} /\ holder = "held" => conn = "Failed"

\* The initial state is well typed.
LEMMA InitTypeOK == Init => TypeOK
<1> SUFFICES ASSUME Init PROVE TypeOK
  OBVIOUS
<1>1. caller \in [Requests -> {"idle"} \cup InProgress \cup Ended]
  BY DEF Init
<1>2. queue \in Seq(Messages) /\ ends \in Seq({"Disconnected", "Failed"})
  BY DEF Init
<1> QED BY <1>1, <1>2 DEF Init, TypeOK, KeepaliveRunning

\* What the queue takes in keeps it a queue of messages.
LEMMA QueueTyped ==
  ASSUME queue \in Seq(Messages)
  PROVE  /\ \A id \in Ids : /\ Append(queue, <<"request", id>>) \in Seq(Messages)
                           /\ Append(queue, <<"cancelled", id>>) \in Seq(Messages)
         /\ <<>> \in Seq(Messages)
<1>1. \A id \in Ids : <<"request", id>> \in Messages /\ <<"cancelled", id>> \in Messages
  BY DEF Messages
<1> QED BY <1>1

\* No step of a call leaves the types.
LEMMA CallsTypeOK == TypeOK /\ Calls => TypeOK'
<1> SUFFICES ASSUME TypeOK, NEW r \in Requests,
                    \/ Call(r) \/ TakeAnswer(r) \/ SeeClosed(r) \/ TimeOut(r)
                    \/ GiveUp(r) \/ Forget(r) \/ NotifyCancelled(r)
             PROVE  TypeOK'
  BY DEF Calls
<1> USE DEF TypeOK, InProgress, Ended, calls, wire, ending
<1>1. CASE Call(r)
  <2>1. queue' \in Seq(Messages)
    BY <1>1, QueueTyped DEF Call, Ids
  <2>2. caller' \in [Requests -> {"idle"} \cup InProgress \cup Ended]
    BY <1>1 DEF Call
  <2> QED BY <1>1, <2>1, <2>2 DEF Call
<1>2. CASE TakeAnswer(r)
  BY <1>2 DEF TakeAnswer
<1>3. CASE SeeClosed(r)
  BY <1>3 DEF SeeClosed
<1>4. CASE TimeOut(r)
  BY <1>4 DEF TimeOut
<1>5. CASE GiveUp(r)
  BY <1>5 DEF GiveUp
<1>6. CASE Forget(r)
  BY <1>6 DEF Forget, Strike
<1>7. CASE NotifyCancelled(r)
  <2>1. queue' \in Seq(Messages)
    BY <1>7, QueueTyped DEF NotifyCancelled, Ids
  <2> QED BY <1>7, <2>1 DEF NotifyCancelled
<1> QED BY <1>1, <1>2, <1>3, <1>4, <1>5, <1>6, <1>7

\* No step of rmcp's loop, the transport or the server leaves the types.
LEMMA WireTypeOK == TypeOK /\ (Transport \/ Server) => TypeOK'
<1> SUFFICES ASSUME TypeOK, Transport \/ Server
             PROVE  TypeOK'
  OBVIOUS
<1> USE DEF TypeOK, calls, ending
<1>1. CASE ServiceSends
  <2>1. /\ Head(queue) \in Messages
        /\ Tail(queue) \in Seq(Messages)
    BY <1>1 DEF ServiceSends
  <2>2. Head(queue)[2] \in Ids
    BY <2>1 DEF Messages
  <2>3. CASE inHand' \in {inHand, inHand \ {Head(queue)[2]}} /\ UNCHANGED inflight
    BY <1>1, <2>1, <2>3 DEF ServiceSends
  <2>4. CASE /\ inflight' = inflight \cup {<<"Inbound", Head(queue)[2]>>}
             /\ inHand' = inHand \cup {Head(queue)[2]}
    BY <1>1, <2>1, <2>2, <2>4 DEF ServiceSends, Directions
  <2> QED BY <1>1, <2>3, <2>4 DEF ServiceSends
<1>2. CASE ServiceCancelled \/ ServerCloses
  <2>1. queue' \in Seq(Messages)
    BY <1>2, QueueTyped DEF ServiceCancelled, ServerCloses, Quits
  <2> QED BY <1>2, <2>1 DEF ServiceCancelled, ServerCloses, Quits
<1>3. CASE GetsQuiet \/ ServerSpeaks \/ ServerGoesSilent
  BY <1>3 DEF GetsQuiet, ServerSpeaks, ServerGoesSilent
<1>4. CASE \E id \in Ids : ServiceReceives(id) \/ ServerAnswers(id)
  <2>1. PICK id \in Ids : ServiceReceives(id) \/ ServerAnswers(id)
    BY <1>4
  <2>2. CASE ServiceReceives(id)
    BY <2>2 DEF ServiceReceives, Answered
  <2>3. CASE ServerAnswers(id)
    BY <2>3 DEF ServerAnswers
  <2> QED BY <2>1, <2>2, <2>3
<1>5. CASE \E s \in ServerIds : AnswerServer(s) \/ ServerRequests(s)
  <2>1. PICK s \in ServerIds : AnswerServer(s) \/ ServerRequests(s)
    BY <1>5
  <2>2. CASE AnswerServer(s)
    BY <2>2 DEF AnswerServer, Answered
  <2>3. CASE ServerRequests(s)
    <3>1. <<"Outbound", s>> \in Directions \X (Ids \cup ServerIds)
      BY DEF Directions
    <3> QED BY <2>3, <3>1 DEF ServerRequests
  <2> QED BY <2>1, <2>2, <2>3
<1> QED BY <1>1, <1>2, <1>3, <1>4, <1>5 DEF Transport, Server

\* No step of the keepalive, the wait task or the handles leaves the types.
LEMMA TasksTypeOK ==
  TypeOK /\ EndInv /\ (Keepalive \/ Wait \/ Close \/ Drop) => TypeOK'
<1> SUFFICES ASSUME TypeOK, EndInv, Keepalive \/ Wait \/ Close \/ Drop
             PROVE  TypeOK'
  OBVIOUS
<1> USE DEF TypeOK, calls, wire, ending, KeepaliveAt, KeepaliveGoes, KeepaliveRunning
<1>1. CASE ReadQuiet \/ CheckAwaiting \/ PingAnswered \/ KeepaliveStops \/ PingTimesOut
  BY <1>1 DEF ReadQuiet, CheckAwaiting, PingAnswered, KeepaliveStops, PingTimesOut
<1>2. CASE SendPing
  <2>1. queue' \in Seq(Messages)
    BY <1>2, QueueTyped DEF SendPing, Ids
  <2> QED BY <1>2, <2>1 DEF SendPing
<1>3. CASE KeepaliveFails \/ KeepaliveEmits \/ KeepaliveCancels
  <2>1. ends' \in Seq({"Disconnected", "Failed"})
    <3>1. Append(ends, "Failed") \in Seq({"Disconnected", "Failed"})
      OBVIOUS
    <3> QED BY <1>3, <3>1 DEF KeepaliveFails, KeepaliveEmits, KeepaliveCancels
  <2> QED BY <1>3, <2>1 DEF KeepaliveFails, KeepaliveEmits, KeepaliveCancels
<1>4. CASE WaitReturns \/ WaitDecides
  BY <1>4 DEF WaitReturns, EndFor, WaitDecides, AfterWaiting
<1>6. CASE Close \/ Drop
  BY <1>6 DEF Close, Drop
<1>5. CASE WaitSets \/ WaitEmits
  <2>1. next \in {"Disconnected", "Failed"}
    BY <1>5 DEF EndInv, WaitSets, WaitEmits
  <2>2. Append(ends, next) \in Seq({"Disconnected", "Failed"})
    BY <2>1
  <2> QED BY <1>5, <2>1, <2>2 DEF WaitSets, WaitEmits
<1> QED BY <1>1, <1>2, <1>3, <1>4, <1>5, <1>6 DEF Keepalive, Wait

\* Every step keeps the invariant on how the session ends.
LEMMA EndStep == TypeOK /\ EndInv /\ [Next]_vars => EndInv'
<1> SUFFICES ASSUME TypeOK, EndInv, [Next]_vars
             PROVE  EndInv'
  OBVIOUS
<1> USE DEF EndInv, QuietEndIsAsked
<1>1. CASE Calls
  BY <1>1 DEF Calls, Call, TakeAnswer, SeeClosed, TimeOut, GiveUp, Forget,
              NotifyCancelled, ending
<1>2. CASE Transport \/ Server
  <2>1. CASE ServiceCancelled \/ ServerCloses
    BY <2>1 DEF ServiceCancelled, ServerCloses, Quits, TypeOK
  <2>2. CASE ~(ServiceCancelled \/ ServerCloses)
    <3>1. UNCHANGED <<ending, keepalive>>
      BY <1>2, <2>2 DEF Transport, Server, ServiceSends, GetsQuiet, ServiceReceives,
           AnswerServer, ServerSpeaks, ServerGoesSilent, ServerAnswers, ServerRequests
    <3> QED BY <3>1 DEF ending
  <2> QED BY <2>1, <2>2
<1>3. CASE Keepalive
  <2>1. CASE ReadQuiet \/ CheckAwaiting \/ SendPing \/ PingAnswered
               \/ KeepaliveStops \/ PingTimesOut
    BY <2>1 DEF ReadQuiet, CheckAwaiting, SendPing, PingAnswered, KeepaliveStops,
                PingTimesOut, KeepaliveAt, KeepaliveGoes, ending
  <2>2. CASE KeepaliveFails \/ KeepaliveEmits \/ KeepaliveCancels
    BY <2>2 DEF KeepaliveFails, KeepaliveEmits, KeepaliveCancels, KeepaliveAt,
                KeepaliveGoes
  <2> QED BY <1>3, <2>1, <2>2 DEF Keepalive
<1>4. CASE Wait
  <2>1. CASE WaitReturns
    BY <2>1 DEF WaitReturns, EndFor
  <2>2. CASE WaitDecides
    BY <2>2 DEF WaitDecides, AfterWaiting, TypeOK
  <2>3. CASE WaitSets
    BY <2>3 DEF WaitSets, TypeOK
  <2>4. CASE WaitEmits
    BY <2>4 DEF WaitEmits
  <2> QED BY <1>4, <2>1, <2>2, <2>3, <2>4 DEF Wait
<1>5. CASE Close \/ Drop
  BY <1>5 DEF Close, Drop
<1>6. CASE UNCHANGED vars
  BY <1>6 DEF vars
<1> QED BY <1>1, <1>2, <1>3, <1>4, <1>5, <1>6 DEF Next

\* Type correctness and the invariant on how the session ends, together: the
\* wait task's steps are well typed only because it has chosen a state.
THEOREM SessionInvariant == Safety => [](TypeOK /\ EndInv)
<1>1. Init => TypeOK /\ EndInv
  BY InitTypeOK DEF Init, EndInv, QuietEndIsAsked
<1>2. TypeOK /\ EndInv /\ [Next]_vars => (TypeOK /\ EndInv)'
  <2> SUFFICES ASSUME TypeOK, EndInv, [Next]_vars
               PROVE  (TypeOK /\ EndInv)'
    OBVIOUS
  <2>1. CASE UNCHANGED vars
    BY <2>1, EndStep DEF vars, TypeOK
  <2>2. CASE Next
    BY <2>2, CallsTypeOK, WireTypeOK, TasksTypeOK, EndStep DEF Next
  <2> QED BY <2>1, <2>2
<1> QED BY <1>1, <1>2, PTL DEF Safety

\* Every reachable state is well typed.
THEOREM SessionTypeCorrect == Spec => []TypeOK
BY SessionInvariant, PTL DEF Spec

\* A session reads Disconnected only when its user closed or dropped it: the
\* keepalive's own cancel, racing the wait task, never passes for one.
THEOREM SessionQuietEnd == Spec => []QuietEndIsAsked
<1>1. EndInv => QuietEndIsAsked
  BY DEF EndInv
<1> QED BY <1>1, SessionInvariant, PTL DEF Spec

-----------------------------------------------------------------------------
(* A slow call is not a silent server.                                     *)

Queued(r) == \E i \in DOMAIN queue : queue[i] = <<"request", r>>

\* A call is in one place at a time, from the queue to the server to the
\* answer on the wire, and on record from the queue on.
Placed(r) ==
  /\ caller[r] = "idle" => ~Queued(r) /\ r \notin inHand \cup answers
  /\ \A i, j \in DOMAIN queue :
       queue[i] = <<"request", r>> /\ queue[j] = <<"request", r>> => i = j
  /\ Queued(r) => r \notin inHand \cup answers
  /\ ~(r \in inHand /\ r \in answers)
  /\ caller[r] = "waiting" /\ r \in inHand \cup answers => InPlay(r)

CallsPlaced == \A r \in Requests : Placed(r)

\* The queue has one more place at its end, and m is there.
Grows(m) ==
  \E n : /\ n \notin DOMAIN queue
         /\ DOMAIN queue' = DOMAIN queue \cup {n}
         /\ queue'[n] = m
         /\ \A i \in DOMAIN queue : queue'[i] = queue[i]

\* A message appended to the queue is its only new one.
LEMMA AppendQueued ==
  ASSUME TypeOK, NEW m \in Messages, queue' = Append(queue, m)
  PROVE  Grows(m)
<1>1. queue \in Seq(Messages)
  BY DEF TypeOK
<1>2. /\ DOMAIN queue' = DOMAIN queue \cup {Len(queue) + 1}
      /\ queue'[Len(queue) + 1] = m
      /\ \A i \in DOMAIN queue : queue'[i] = queue[i]
      /\ Len(queue) + 1 \notin DOMAIN queue
  BY <1>1
<1> QED BY <1>2 DEF Grows

\* No step of a call misplaces one.
LEMMA CallsPlacedCalls == TypeOK /\ CallsPlaced /\ Calls => CallsPlaced'
<1> SUFFICES ASSUME TypeOK, CallsPlaced, NEW c \in Requests,
                    \/ Call(c) \/ TakeAnswer(c) \/ SeeClosed(c) \/ TimeOut(c)
                    \/ GiveUp(c) \/ Forget(c) \/ NotifyCancelled(c),
                    NEW r \in Requests
             PROVE  Placed(r)'
  BY DEF Calls, CallsPlaced
<1>p. Placed(r)
  BY DEF CallsPlaced
<1>t. caller \in [Requests -> {"idle"} \cup InProgress \cup Ended]
  BY DEF TypeOK
<1>1. CASE Call(c)
  <2>1. CASE service = "running"
    <3>1. Grows(<<"request", c>>)
      <4>1. queue' = Append(queue, <<"request", c>>) /\ <<"request", c>> \in Messages
        BY <1>1, <2>1 DEF Call, Messages, Ids
      <4> QED BY <4>1, AppendQueued
    <3>2. /\ caller[c] = "idle"
          /\ UNCHANGED <<inHand, answers, inflight>>
          /\ caller'[c] = "waiting"
          /\ r # c => caller'[r] = caller[r]
      BY <1>1, <1>t, <2>1 DEF Call
    <3> QED BY <1>p, <3>1, <3>2 DEF Grows, Placed, Queued, InPlay
  <2>2. CASE service # "running"
    BY <1>1, <1>p, <1>t, <2>2 DEF Call, Placed, Queued, InPlay
  <2> QED BY <2>1, <2>2
<1>2. CASE TakeAnswer(c) \/ SeeClosed(c) \/ TimeOut(c) \/ GiveUp(c)
  BY <1>2, <1>p, <1>t DEF TakeAnswer, SeeClosed, TimeOut, GiveUp, wire, Placed,
                          Queued, InPlay
<1>3. CASE Forget(c)
  BY <1>3, <1>p, <1>t DEF Forget, Strike, Placed, Queued, InPlay
<1>4. CASE NotifyCancelled(c)
  <2>1. /\ caller[c] = "forgot"
        /\ caller'[c] = "gaveUp"
        /\ r # c => caller'[r] = caller[r]
        /\ UNCHANGED <<inHand, answers, inflight>>
    BY <1>4, <1>t DEF NotifyCancelled
  <2>2. CASE service = "running"
    <3>1. Grows(<<"cancelled", c>>)
      <4>1. queue' = Append(queue, <<"cancelled", c>>) /\ <<"cancelled", c>> \in Messages
        BY <1>4, <2>2 DEF NotifyCancelled, Messages, Ids
      <4> QED BY <4>1, AppendQueued
    <3>2. <<"cancelled", c>> # <<"request", r>>
      OBVIOUS
    <3> QED BY <1>p, <2>1, <3>1, <3>2 DEF Grows, Placed, Queued, InPlay
  <2>3. CASE service # "running"
    BY <1>4, <1>p, <2>1, <2>3 DEF NotifyCancelled, Placed, Queued, InPlay
  <2> QED BY <2>2, <2>3
<1> QED BY <1>1, <1>2, <1>3, <1>4

\* No step of rmcp's loop, the transport or the server misplaces a call.
LEMMA CallsPlacedWire == TypeOK /\ CallsPlaced /\ (Transport \/ Server) => CallsPlaced'
<1> SUFFICES ASSUME TypeOK, CallsPlaced, Transport \/ Server, NEW r \in Requests
             PROVE  Placed(r)'
  BY DEF CallsPlaced
<1>p. Placed(r)
  BY DEF CallsPlaced
<1>1. CASE ServiceSends
  <2>0. queue \in Seq(Messages) /\ queue # <<>> /\ queue' = Tail(queue)
    BY <1>1 DEF ServiceSends, TypeOK
  <2>1. /\ \A i \in DOMAIN queue' : i + 1 \in DOMAIN queue /\ queue'[i] = queue[i + 1]
        /\ 1 \in DOMAIN queue /\ Head(queue) = queue[1]
        /\ DOMAIN queue' \subseteq Nat \ {0}
    BY <2>0
  <2>2. UNCHANGED <<caller, answers>>
    BY <1>1 DEF ServiceSends, calls
  <2>3. CASE Head(queue) = <<"request", r>>
    <3>1. inflight' = inflight \cup {<<"Inbound", r>>} /\ inHand' = inHand \cup {r}
      BY <1>1, <2>3 DEF ServiceSends
    <3>2. Queued(r) /\ ~Queued(r)'
      BY <1>p, <2>1, <2>3 DEF Placed, Queued
    <3> QED BY <1>p, <2>2, <3>1, <3>2 DEF Placed, Queued, InPlay
  <2>4. CASE Head(queue) # <<"request", r>>
    <3>1. Queued(r)' <=> Queued(r)
      <4>1. Queued(r)' => Queued(r)
        BY <2>1 DEF Queued
      <4>2. \A i \in DOMAIN queue : i # 1 => i - 1 \in DOMAIN queue' /\ queue'[i - 1] = queue[i]
        BY <2>0
      <4> QED BY <4>1, <4>2, <2>1, <2>4 DEF Queued
    <3>2. \A i, j \in DOMAIN queue' :
            queue'[i] = <<"request", r>> /\ queue'[j] = <<"request", r>> => i = j
      <4> SUFFICES ASSUME NEW i \in DOMAIN queue', NEW j \in DOMAIN queue',
                          queue'[i] = <<"request", r>>, queue'[j] = <<"request", r>>
                   PROVE  i = j
        OBVIOUS
      <4>1. i + 1 = j + 1
        BY <1>p, <2>1 DEF Placed
      <4> QED BY <4>1, <2>1
    <3>3. /\ r \in inHand' => r \in inHand
          /\ inflight \subseteq inflight'
      <4>1. Head(queue) \in Messages
        BY <2>0
      <4>2. Head(queue) = <<Head(queue)[1], Head(queue)[2]>>
        BY <4>1 DEF Messages
      <4> QED BY <1>1, <2>4, <4>2 DEF ServiceSends
    <3> QED BY <1>p, <2>2, <3>1, <3>2, <3>3 DEF Placed, Queued, InPlay
  <2> QED BY <2>3, <2>4
<1>2. CASE ServiceCancelled \/ ServerCloses
  BY <1>2, <1>p DEF ServiceCancelled, ServerCloses, Quits, calls, Placed, Queued, InPlay
<1>3. CASE GetsQuiet \/ ServerSpeaks \/ ServerGoesSilent
  BY <1>3, <1>p DEF GetsQuiet, ServerSpeaks, ServerGoesSilent, calls, Placed, Queued, InPlay
<1>4. CASE \E id \in Ids : ServiceReceives(id)
  BY <1>4, <1>p DEF ServiceReceives, Answered, Placed, Queued, InPlay
<1>5. CASE \E id \in Ids : ServerAnswers(id)
  BY <1>5, <1>p DEF ServerAnswers, calls, Placed, Queued, InPlay
<1>6. CASE \E s \in ServerIds : AnswerServer(s) \/ ServerRequests(s)
  BY <1>6, <1>p DEF AnswerServer, ServerRequests, Answered, calls, Placed, Queued, InPlay
<1> QED BY <1>1, <1>2, <1>3, <1>4, <1>5, <1>6 DEF Transport, Server

\* No step of the keepalive, the wait task or the handles misplaces a call.
LEMMA CallsPlacedTasks ==
  TypeOK /\ CallsPlaced /\ (Keepalive \/ Wait \/ Close \/ Drop) => CallsPlaced'
<1> SUFFICES ASSUME TypeOK, CallsPlaced, Keepalive \/ Wait \/ Close \/ Drop,
                    NEW r \in Requests
             PROVE  Placed(r)'
  BY DEF CallsPlaced
<1>p. Placed(r)
  BY DEF CallsPlaced
<1>1. CASE SendPing
  <2>1. CASE queue' = Append(queue, <<"request", Ping>>)
    <3>1. <<"request", Ping>> \in Messages /\ <<"request", Ping>> # <<"request", r>>
      BY RequestsAssumption DEF Messages, Ids
    <3>2. Grows(<<"request", Ping>>)
      BY <2>1, <3>1, AppendQueued
    <3>3. UNCHANGED <<caller, inflight, inHand, answers>>
      BY <1>1 DEF SendPing, calls
    <3> QED BY <1>p, <3>1, <3>2, <3>3 DEF Grows, Placed, Queued, InPlay
  <2>2. CASE UNCHANGED queue
    BY <1>1, <1>p, <2>2 DEF SendPing, calls, Placed, Queued, InPlay
  <2> QED BY <1>1, <2>1, <2>2 DEF SendPing
<1>2. CASE ~SendPing
  <2>1. UNCHANGED <<caller, queue, inflight, inHand, answers>>
    BY <1>2 DEF Keepalive, Wait, ReadQuiet, CheckAwaiting, PingAnswered,
         KeepaliveStops, PingTimesOut, KeepaliveFails, KeepaliveEmits,
         KeepaliveCancels, WaitReturns, WaitDecides, WaitSets, WaitEmits, Close,
         Drop, calls, wire
  <2> QED BY <1>p, <2>1 DEF Placed, Queued, InPlay
<1> QED BY <1>1, <1>2

\* Every call keeps its one place.
THEOREM SessionCallsPlaced == Safety => []CallsPlaced
<1>1. Init => CallsPlaced
  BY DEF Init, CallsPlaced, Placed, Queued
<1>2. TypeOK /\ CallsPlaced /\ [Next]_vars => CallsPlaced'
  <2> SUFFICES ASSUME TypeOK, CallsPlaced, [Next]_vars PROVE CallsPlaced'
    OBVIOUS
  <2>1. CASE UNCHANGED vars
    BY <2>1 DEF vars, CallsPlaced, Placed, Queued, InPlay
  <2> QED BY <2>1, CallsPlacedCalls, CallsPlacedWire, CallsPlacedTasks DEF Next
<1> QED BY <1>1, <1>2, SessionInvariant, PTL DEF Safety

\* The keepalive decides to ping only when the server holds no call that
\* somebody still waits on.
THEOREM SessionSlowCall == Spec => SlowCallIsNotSilence
<1>1. TypeOK /\ CallsPlaced /\ [Next]_vars =>
        [keepalive = "wasQuiet" /\ keepalive' = "checked" =>
           \A r \in Requests : caller[r] = "waiting" => r \notin inHand \cup answers]_vars
  <2> SUFFICES ASSUME CallsPlaced, Next, keepalive = "wasQuiet", keepalive' = "checked",
                      NEW r \in Requests, caller[r] = "waiting"
               PROVE  r \notin inHand \cup answers
    OBVIOUS
  <2>1. CheckAwaiting
    BY DEF Next, Calls, Transport, Server, Keepalive, Wait, Close, Drop, Call,
         TakeAnswer, SeeClosed, TimeOut, GiveUp, Forget, NotifyCancelled,
         ServiceSends, ServiceCancelled, Quits, GetsQuiet, ServiceReceives,
         AnswerServer, ServerSpeaks, ServerGoesSilent, ServerCloses,
         ServerAnswers, ServerRequests, ReadQuiet, SendPing, PingAnswered,
         KeepaliveStops, PingTimesOut, KeepaliveFails, KeepaliveEmits,
         KeepaliveCancels, WaitReturns, WaitDecides, WaitSets, WaitEmits,
         KeepaliveAt, KeepaliveGoes
  <2>2. ~AwaitingServer
    BY <2>1 DEF CheckAwaiting, KeepaliveGoes
  <2>3. ~InPlay(r)
    BY <2>2 DEF AwaitingServer, InPlay, Ids
  <2> QED BY <2>3 DEF CallsPlaced, Placed
<1> QED BY <1>1, SessionInvariant, SessionCallsPlaced, PTL DEF Spec, Safety, SlowCallIsNotSilence
=============================================================================
