------------------------------ MODULE Session ------------------------------
(***************************************************************************)
(* The life of one connected session of mcp-core: the requests it has in   *)
(* flight, the transport's record of them, the keepalive that pings a      *)
(* silent server, and the wait task that says how the session ended.       *)
(*                                                                         *)
(* Source: crates/mcp-core/src/session.rs (send, timed, keepalive_loop,    *)
(* the wait task, close, Drop) and crates/mcp-core/src/transport.rs        *)
(* (Heard, record, TracedTransport).  Every task runs on a multi-threaded  *)
(* tokio runtime, so a step here is a stretch of code between two points   *)
(* where another task can be seen: an await, or a lock or watch cell       *)
(* shared with one.                                                        *)
(*                                                                         *)
(* External, modelled from how the code uses it: rmcp's service loop (one  *)
(* FIFO channel in, one transport out), the server, and the user.          *)
(*                                                                         *)
(* Time is abstract: "quiet" says the keepalive interval has passed since  *)
(* the server was last heard, and a timeout may fire whenever it is armed. *)
(***************************************************************************)
EXTENDS Naturals, Sequences, FiniteSets

CONSTANTS
  Requests,    \* ids of the calls the user makes, each at most once
  Timed,       \* those made through `timed` (subscribe, unsubscribe,
               \* logging/setLevel); the others go through `send`
  ServerIds,   \* ids of requests the server makes; ids of the two sides
               \* are chosen independently and may coincide
  Ping         \* the id of the keepalive's ping

ASSUME RequestsAssumption == Timed \subseteq Requests /\ Ping \notin Requests

VARIABLES
  conn,        \* the state watch: what the application shows
  ends,        \* StateChange events emitted since Connected, in order
  holder,      \* the session's handles: "held", "closed" (close) or "dropped"
  cancel,      \* the session's cancellation token
  service,     \* rmcp's loop: "running", or the reason it quit
  queue,       \* messages handed to rmcp's loop and not yet taken by it
  caller,      \* where each call is
  ready,       \* requests whose answer rmcp's loop has handed to the caller
  inflight,    \* the transport's record: <<who answers, id>>
  inHand,      \* what the server has received and not answered
  answers,     \* answers the server has sent and the client not received
  serverAsks,  \* requests the server has made so far
  alive,       \* FALSE once the server has gone silent, transport still open
  quiet,       \* heard.since() >= interval
  keepalive,   \* where the keepalive loop is
  waiter,      \* where the wait task is
  next,        \* the wait task's local: the state it is about to set
  missed       \* history: calls struck from the record before rmcp's loop
               \* had put them there

vars == <<conn, ends, holder, cancel, service, queue, caller, ready, inflight,
          inHand, answers, serverAsks, alive, quiet, keepalive, waiter, next,
          missed>>

wire    == <<queue, inflight, inHand, answers, serverAsks, alive, quiet>>
calls   == <<caller, ready, missed>>
ending  == <<conn, ends, holder, cancel, service, waiter, next>>

Ids == Requests \cup {Ping}
Directions == {"Inbound", "Outbound"}      \* the side that answers
Messages == {"request", "cancelled"} \X Ids

InProgress == {"waiting", "givingUp", "forgot"}
Ended == {"answered", "gaveUp", "timedOut", "closed"}

KeepaliveRunning == {"watching", "wasQuiet", "checked", "pinging"}

TypeOK ==
  /\ conn \in {"Connected", "Disconnected", "Failed"}
  /\ ends \in Seq({"Disconnected", "Failed"})
  /\ holder \in {"held", "closed", "dropped"}
  /\ cancel \in BOOLEAN
  /\ service \in {"running", "Cancelled", "Closed"}
  /\ queue \in Seq(Messages)
  /\ caller \in [Requests -> {"idle"} \cup InProgress \cup Ended]
  /\ ready \subseteq Ids
  /\ inflight \subseteq Directions \X (Ids \cup ServerIds)
  /\ inHand \subseteq Ids
  /\ answers \subseteq Ids
  /\ serverAsks \subseteq ServerIds
  /\ alive \in BOOLEAN
  /\ quiet \in BOOLEAN
  /\ keepalive \in KeepaliveRunning \cup {"gaveUp", "failed", "emitted", "ended"}
  /\ waiter \in {"waiting", "deciding", "setting", "emitting", "done"}
  /\ next \in {"none", "Disconnected", "Failed"}
  /\ missed \subseteq Requests

\* A session that has just reached Connected, its tasks spawned.
Init ==
  /\ conn = "Connected" /\ ends = <<>>
  /\ holder = "held" /\ cancel = FALSE /\ service = "running"
  /\ queue = <<>> /\ caller = [r \in Requests |-> "idle"] /\ ready = {}
  /\ inflight = {} /\ inHand = {} /\ answers = {} /\ serverAsks = {}
  /\ alive = TRUE /\ quiet = FALSE
  /\ keepalive = "watching" /\ waiter = "waiting" /\ next = "none"
  /\ missed = {}

-----------------------------------------------------------------------------
(* Calls: `send` and `timed`.                                              *)

\* Whether a request this client sent is on record as unanswered.
AwaitingServer == \E id \in Ids : <<"Inbound", id>> \in inflight

\* The request is handed to rmcp's loop, which may take it only later.
Call(r) ==
  /\ caller[r] = "idle" /\ holder # "dropped"
  /\ IF service = "running"
       THEN /\ queue' = Append(queue, <<"request", r>>)
            /\ caller' = [caller EXCEPT ![r] = "waiting"]
       ELSE /\ caller' = [caller EXCEPT ![r] = "closed"]
            /\ UNCHANGED queue
  /\ UNCHANGED <<ready, missed, inflight, inHand, answers, serverAsks, alive,
                 quiet, keepalive, ending>>

TakeAnswer(r) ==
  /\ caller[r] = "waiting" /\ r \in ready
  /\ caller' = [caller EXCEPT ![r] = "answered"]
  /\ ready' = ready \ {r}
  /\ UNCHANGED <<missed, wire, keepalive, ending>>

\* rmcp's loop has gone, and the caller's answer channel with it.
SeeClosed(r) ==
  /\ caller[r] = "waiting" /\ r \notin ready /\ service # "running"
  /\ caller' = [caller EXCEPT ![r] = "closed"]
  /\ UNCHANGED <<ready, missed, wire, keepalive, ending>>

\* `timed`: the timeout drops the future and nothing else happens.  (A future
\* that is done by then wins: tokio polls it first.)
TimeOut(r) ==
  /\ r \in Timed /\ caller[r] = "waiting" /\ r \notin ready /\ service = "running"
  /\ caller' = [caller EXCEPT ![r] = "timedOut"]
  /\ UNCHANGED <<ready, missed, wire, keepalive, ending>>

\* `send`: cancelled by the caller or out of time, even when an answer is
\* ready (select! picks any branch that is).
GiveUp(r) ==
  /\ r \notin Timed /\ caller[r] = "waiting"
  /\ caller' = [caller EXCEPT ![r] = "givingUp"]
  /\ ready' = ready \ {r}
  /\ UNCHANGED <<missed, wire, keepalive, ending>>

\* Mutant of Strike: the request stays on the transport's record.
StrikeNothing(r) == inflight

\* Heard::forget.
Strike(r) == inflight \ {<<"Inbound", r>>}

\* `send` strikes the request from the transport's record (Heard::forget).
Forget(r) ==
  /\ caller[r] = "givingUp"
  /\ caller' = [caller EXCEPT ![r] = "forgot"]
  /\ inflight' = Strike(r)
  /\ missed' = IF \E i \in DOMAIN queue : queue[i] = <<"request", r>>
                 THEN missed \cup {r} ELSE missed
  /\ UNCHANGED <<ready, queue, inHand, answers, serverAsks, alive, quiet,
                 keepalive, ending>>

\* `send` tells the server, if rmcp's loop still takes messages.
NotifyCancelled(r) ==
  /\ caller[r] = "forgot"
  /\ caller' = [caller EXCEPT ![r] = "gaveUp"]
  /\ queue' = IF service = "running" THEN Append(queue, <<"cancelled", r>>)
                                     ELSE queue
  /\ UNCHANGED <<ready, missed, inflight, inHand, answers, serverAsks, alive,
                 quiet, keepalive, ending>>

-----------------------------------------------------------------------------
(* rmcp's loop and the traced transport around the server's.               *)

\* TracedTransport::send: the message is recorded, then put on the wire.
ServiceSends ==
  /\ service = "running" /\ queue # <<>>
  /\ queue' = Tail(queue)
  /\ \/ /\ Head(queue)[1] = "request"
        /\ inflight' = inflight \cup {<<"Inbound", Head(queue)[2]>>}
        /\ inHand' = inHand \cup {Head(queue)[2]}
     \/ /\ Head(queue)[1] = "cancelled"
        /\ inHand' \in {inHand, inHand \ {Head(queue)[2]}}
        /\ UNCHANGED inflight
  /\ UNCHANGED <<calls, answers, serverAsks, alive, quiet, keepalive, ending>>

\* Mutant of Answered: the record is kept by id alone, and the two sides
\* choose their ids independently.
AnsweredById(side, id) == {e \in inflight : e[2] # id}

\* `record` of an answer by one side.
Answered(side, id) == inflight \ {<<side, id>>}

\* TracedTransport::receive of an answer, which rmcp hands to its caller.
ServiceReceives(id) ==
  /\ service = "running" /\ id \in answers
  /\ answers' = answers \ {id}
  /\ quiet' = FALSE
  /\ inflight' = Answered("Inbound", id)
  /\ ready' = IF id = Ping \/ caller[id] = "waiting" THEN ready \cup {id} ELSE ready
  /\ UNCHANGED <<caller, missed, queue, inHand, serverAsks, alive, keepalive, ending>>

\* TracedTransport::receive of a notification.
ServerSpeaks ==
  /\ service = "running" /\ alive
  /\ quiet' = FALSE
  /\ UNCHANGED <<calls, queue, inflight, inHand, answers, serverAsks, alive,
                 keepalive, ending>>

\* TracedTransport::receive of a request of the server's own (sampling,
\* roots, elicitation), recorded as the client's to answer.
ServerRequests(s) ==
  /\ service = "running" /\ alive /\ s \notin serverAsks
  /\ serverAsks' = serverAsks \cup {s}
  /\ quiet' = FALSE
  /\ inflight' = inflight \cup {<<"Outbound", s>>}
  /\ UNCHANGED <<calls, queue, inHand, answers, alive, keepalive, ending>>

\* TracedTransport::send of the answer, whenever the person gives one.
AnswerServer(s) ==
  /\ service = "running" /\ <<"Outbound", s>> \in inflight
  /\ inflight' = Answered("Outbound", s)
  /\ UNCHANGED <<calls, queue, inHand, answers, serverAsks, alive, quiet,
                 keepalive, ending>>

\* The server answers what it has, in any order, while it lives.
ServerAnswers(id) ==
  /\ alive /\ id \in inHand
  /\ inHand' = inHand \ {id}
  /\ answers' = answers \cup {id}
  /\ UNCHANGED <<calls, queue, inflight, serverAsks, alive, quiet, keepalive, ending>>

\* The server goes away without closing its transport.
ServerGoesSilent ==
  /\ alive /\ service = "running"
  /\ alive' = FALSE
  /\ UNCHANGED <<calls, queue, inflight, inHand, answers, serverAsks, quiet,
                 keepalive, ending>>

\* rmcp's loop quits: what it had not taken and what is on the wire is gone,
\* the transport's record is not.
Quits(reason) ==
  /\ service = "running"
  /\ service' = reason
  /\ queue' = <<>> /\ inHand' = {} /\ answers' = {}
  /\ UNCHANGED <<calls, inflight, serverAsks, alive, quiet, keepalive,
                 conn, ends, holder, cancel, waiter, next>>

\* The transport closes: the child exits, the connection ends.
ServerCloses == Quits("Closed")

\* rmcp's loop sees the session's token.
ServiceCancelled == cancel /\ Quits("Cancelled")

\* The keepalive interval passes without a word from the server.
GetsQuiet ==
  /\ ~quiet /\ quiet' = TRUE
  /\ UNCHANGED <<calls, queue, inflight, inHand, answers, serverAsks, alive,
                 keepalive, ending>>

-----------------------------------------------------------------------------
(* keepalive_loop: dropping the last handle aborts it at an await.         *)

KeepaliveAt(p) == keepalive = p
KeepaliveGoes(p) == keepalive' = p

\* heard.since() is read ...
ReadQuiet ==
  /\ KeepaliveAt("watching") /\ holder # "dropped" /\ quiet
  /\ KeepaliveGoes("wasQuiet")
  /\ UNCHANGED <<calls, wire, ending>>

\* ... and then heard.awaiting_server(), under its own lock.
CheckAwaiting ==
  /\ KeepaliveAt("wasQuiet")
  /\ KeepaliveGoes(IF AwaitingServer THEN "watching" ELSE "checked")
  /\ UNCHANGED <<calls, wire, ending>>

\* The ping is handed to rmcp's loop, behind whatever is queued by now.
SendPing ==
  /\ KeepaliveAt("checked")
  /\ IF service = "running"
       THEN KeepaliveGoes("pinging") /\ queue' = Append(queue, <<"request", Ping>>)
       ELSE KeepaliveGoes("ended") /\ UNCHANGED queue
  /\ UNCHANGED <<calls, inflight, inHand, answers, serverAsks, alive, quiet, ending>>

PingAnswered ==
  /\ KeepaliveAt("pinging") /\ holder # "dropped" /\ Ping \in ready
  /\ KeepaliveGoes("watching")
  /\ ready' = ready \ {Ping}
  /\ UNCHANGED <<caller, missed, wire, ending>>

\* The loop is gone, or the token is cancelled, or the task is aborted.
KeepaliveStops ==
  /\ \/ KeepaliveAt("pinging") /\ Ping \notin ready /\ service # "running"
     \/ keepalive \in {"watching", "pinging"} /\ cancel
  /\ KeepaliveGoes("ended")
  /\ UNCHANGED <<calls, wire, ending>>

PingTimesOut ==
  /\ KeepaliveAt("pinging") /\ holder # "dropped"
  /\ Ping \notin ready /\ service = "running"
  /\ KeepaliveGoes("gaveUp")
  /\ UNCHANGED <<calls, wire, ending>>

KeepaliveFails ==
  /\ KeepaliveAt("gaveUp")
  /\ KeepaliveGoes("failed")
  /\ conn' = "Failed"
  /\ UNCHANGED <<calls, wire, ends, holder, cancel, service, waiter, next>>

KeepaliveEmits ==
  /\ KeepaliveAt("failed")
  /\ KeepaliveGoes("emitted")
  /\ ends' = Append(ends, "Failed")
  /\ UNCHANGED <<calls, wire, conn, holder, cancel, service, waiter, next>>

\* Mutant of KeepaliveCancels: the session is failed but not closed.
KeepaliveLeaves ==
  /\ KeepaliveAt("emitted")
  /\ KeepaliveGoes("ended")
  /\ UNCHANGED <<calls, wire, conn, ends, holder, cancel, service, waiter, next>>

KeepaliveCancels ==
  /\ KeepaliveAt("emitted")
  /\ KeepaliveGoes("ended")
  /\ cancel' = TRUE
  /\ UNCHANGED <<calls, wire, conn, ends, holder, service, waiter, next>>

-----------------------------------------------------------------------------
(* The wait task, and the handles.                                         *)

EndFor == IF service = "Cancelled" THEN "Disconnected" ELSE "Failed"

\* service.waiting() returns why rmcp's loop quit.
WaitReturns ==
  /\ waiter = "waiting" /\ service # "running"
  /\ waiter' = "deciding"
  /\ next' = EndFor
  /\ UNCHANGED <<calls, wire, keepalive, conn, ends, holder, cancel, service>>

\* Mutant of AfterWaiting: the state is not read.
AfterWaitingAlways == "setting"

AfterWaiting == IF conn = "Failed" THEN "done" ELSE "setting"

\* The state is read: a Failed session keeps its reason.
WaitDecides ==
  /\ waiter = "deciding"
  /\ waiter' = AfterWaiting
  /\ UNCHANGED <<calls, wire, keepalive, conn, ends, holder, cancel, service, next>>

WaitSets ==
  /\ waiter = "setting"
  /\ waiter' = "emitting"
  /\ conn' = next
  /\ UNCHANGED <<calls, wire, keepalive, ends, holder, cancel, service, next>>

WaitEmits ==
  /\ waiter = "emitting"
  /\ waiter' = "done"
  /\ ends' = Append(ends, next)
  /\ UNCHANGED <<calls, wire, keepalive, conn, holder, cancel, service, next>>

\* Session::close: safe to call more than once.
Close ==
  /\ holder = "held"
  /\ holder' = "closed" /\ cancel' = TRUE
  /\ UNCHANGED <<calls, wire, keepalive, conn, ends, service, waiter, next>>

\* Drop for Inner: a call borrows the session, so none is in progress.
Drop ==
  /\ holder # "dropped"
  /\ \A r \in Requests : caller[r] \notin InProgress
  /\ holder' = "dropped" /\ cancel' = TRUE
  /\ UNCHANGED <<calls, wire, keepalive, conn, ends, service, waiter, next>>

-----------------------------------------------------------------------------
Calls == \E r \in Requests :
           \/ Call(r) \/ TakeAnswer(r) \/ SeeClosed(r) \/ TimeOut(r)
           \/ GiveUp(r) \/ Forget(r) \/ NotifyCancelled(r)
Transport == \/ ServiceSends \/ ServiceCancelled \/ GetsQuiet
             \/ \E id \in Ids : ServiceReceives(id)
             \/ \E s \in ServerIds : AnswerServer(s)
Server == \/ ServerSpeaks \/ ServerGoesSilent \/ ServerCloses
          \/ \E id \in Ids : ServerAnswers(id)
          \/ \E s \in ServerIds : ServerRequests(s)
Keepalive == \/ ReadQuiet \/ CheckAwaiting \/ SendPing \/ PingAnswered
             \/ KeepaliveStops \/ PingTimesOut \/ KeepaliveFails
             \/ KeepaliveEmits \/ KeepaliveCancels
Wait == WaitReturns \/ WaitDecides \/ WaitSets \/ WaitEmits

Next == Calls \/ Transport \/ Server \/ Keepalive \/ Wait \/ Close \/ Drop

Safety == Init /\ [][Next]_vars

\* Every task of the program is scheduled again and every armed timer fires.
\* The server, the user and the person answering the server owe nothing.
Fairness ==
  /\ WF_vars(ServiceSends) /\ WF_vars(ServiceCancelled) /\ WF_vars(GetsQuiet)
  /\ \A id \in Ids : WF_vars(ServiceReceives(id))
  /\ \A r \in Requests :
       WF_vars(TakeAnswer(r) \/ SeeClosed(r) \/ TimeOut(r) \/ GiveUp(r)
                 \/ Forget(r) \/ NotifyCancelled(r))
  /\ WF_vars(Keepalive)
  /\ WF_vars(Wait)

Spec == Safety /\ Fairness

-----------------------------------------------------------------------------
(* Properties.                                                             *)

InPlay(r) == <<"Inbound", r>> \in inflight

\* A session reads Disconnected, the quiet end, only when its user closed or
\* dropped it; one the keepalive or the transport ended does not, although
\* the keepalive ends a session by the same token as close does.
QuietEndIsAsked == conn = "Disconnected" => holder # "held"

\* The keepalive decides to ping only when the server holds no call that
\* somebody still waits on: a slow call is not a silent server.
SlowCallIsNotSilence ==
  [][keepalive = "wasQuiet" /\ keepalive' = "checked" =>
       \A r \in Requests : caller[r] = "waiting" => r \notin inHand \cup answers]_vars

\* A server that goes silent is found out: the session stops reading as
\* Connected, unless a call that timed out in `timed`, or was given up
\* before rmcp's loop had recorded it, is still on record: nothing strikes
\* it, and the keepalive waits on it for good.  (A server stays silent, so
\* this says the same as leads-to.)
SilentServerFound ==
  []<>(~alive => \/ conn # "Connected"
                 \/ \E r \in Timed \cup missed : InPlay(r))

\* However the session ends, its end is shown and told: the state watch
\* leaves Connected and an event says the state it then has.
EndReported ==
  []<>(service # "running" => conn # "Connected" /\ \E i \in DOMAIN ends : ends[i] = conn)

\* A session the keepalive failed is also closed: its child process or
\* connection does not live on behind a session that reads Failed.
FailedIsClosed == []<>(conn = "Failed" => service # "running")

\* A session's end is whole: shown, told and followed by its service's.
EndIsWhole == EndReported /\ FailedIsClosed

\* The one below does not hold of the code.

\* "A server that went away without closing its transport would otherwise
\* read as connected until the next request failed": with the keepalive, it
\* does not stay connected.
SilentServerFailed == ~alive ~> conn # "Connected"
=============================================================================
