-------------------------------- MODULE Agents --------------------------------
(***************************************************************************)
(* Who the desktop app shows as connected through its gateway, and the     *)
(* calls of theirs that it records.  The gateway's tasks report what they  *)
(* see, each when it gets to it, into a channel the window reads; the      *)
(* window files each report under the server that the path is of when the  *)
(* report is read.                                                         *)
(*                                                                         *)
(* Source: apps/desktop/src/gateway.rs (Tap, relayed, relay_call,          *)
(* record_agent_call, gateway_detach); the order of the reports is that of *)
(* crates/mcp-gateway/src/server.rs (connect, post, set_servers) and       *)
(* relay.rs (post, route, close).  A step is the report of one task, or    *)
(* the filing of one.  External: the agents and the servers.  Of the rows  *)
(* of the log it is kept whether a connection was announced.  History has  *)
(* what becomes of a call that is recorded, Serving when a run begins.     *)
(***************************************************************************)
EXTENDS Naturals, Sequences, FiniteSets, Functions

CONSTANTS
  Servers,
  Paths,
  Plans,        \* what Settings::plan may come to: the server of each path
  Conns,        \* agents' connections
  PathOf,       \* the path each is made to
  Calls,        \* requests that History keeps
  ConnOf,       \* the connection each is made on
  MaxPending,   \* MAX_PENDING
  MaxRuns       \* bound: runs of the gateway

None == "none"
Nothing == [x \in {} |-> x]
Kinds == {"opened", "client", "request", "cancel", "answer", "closed"}

VARIABLES
  \* the gateway
  served,     \* the servers it was told of, by path
  conn,       \* each connection: how far it is opened, and how far ended
  reaches,    \* the server it was opened to, and in which run
  call,       \* each request
  \* the window
  plan,       \* the servers and their paths
  run,        \* GatewayState::run
  inbox,      \* what the tap sent and the window has not filed
  agents,     \* GatewayState::agents
  pending,    \* GatewayState::pending, by when each was asked
  asked,      \* GatewayState::asked
  recorded,   \* calls handed to the job that records them
  \* history
  moved,      \* connections whose path was of another server when they were filed
  early,      \* connections told closed before they were told opened
  late,       \* requests told after their connection was told closed
  due,        \* calls answered before they were cancelled and their connection closed
  gone,       \* calls whose server was deleted when their answer was filed
  evicted     \* calls dropped for others, the table being full

gateway == <<served, conn, reaches, call>>
window == <<plan, run, agents, pending, asked, recorded>>
history == <<moved, early, late, due, gone, evicted>>
vars == <<gateway, window, inbox, history>>

Reports == [kind : Kinds, of : Conns, call : Calls \cup {None}]

TypeOK ==
  /\ served \in Plans /\ plan \in Plans
  /\ conn \in [Conns -> [opened : {"no", "started", "told", "client"},
                         ended : {"no", "ending", "told"}]]
  /\ reaches \in [Conns -> [server : Servers \cup {None}, run : 0..MaxRuns]]
  /\ call \in [Calls -> {"no", "posting", "overtaken", "out", "cancelled", "answered"}]
  /\ run \in 1..MaxRuns /\ inbox \in Seq(Reports)
  /\ DOMAIN agents \subseteq Conns
  /\ Range(agents) \subseteq [server : Servers, named : BOOLEAN, announced : BOOLEAN]
  /\ DOMAIN pending \subseteq Calls /\ Range(pending) \subseteq 1..asked
  /\ asked \in 0..Cardinality(Calls)
  /\ recorded \in [Calls -> SUBSET [server : Servers, named : BOOLEAN]]
  /\ moved \subseteq Conns /\ early \subseteq Conns /\ late \subseteq Calls
  /\ due \subseteq Calls /\ gone \subseteq Calls /\ evicted \subseteq Calls

Init ==
  /\ plan \in Plans /\ served = plan
  /\ conn = [c \in Conns |-> [opened |-> "no", ended |-> "no"]]
  /\ reaches = [c \in Conns |-> [server |-> None, run |-> 0]]
  /\ call = [k \in Calls |-> "no"]
  /\ run = 1 /\ inbox = <<>> /\ agents = Nothing /\ pending = Nothing /\ asked = 0
  /\ recorded = [k \in Calls |-> {}]
  /\ moved = {} /\ early = {} /\ late = {} /\ due = {} /\ gone = {} /\ evicted = {}

-----------------------------------------------------------------------------
(* What the gateway's tasks do, and tell.                                  *)

\* Of a gateway that was let go nothing is filed any more.
Tells(c, kind, k) ==
  inbox' = IF reaches[c].run = run
             THEN Append(inbox, [kind |-> kind, of |-> c, call |-> k]) ELSE inbox

\* connect: the relay is started, and may end, before it is told opened.
Connects(c) ==
  /\ conn[c].opened = "no" /\ served[PathOf[c]] # None
  /\ conn' = [conn EXCEPT ![c].opened = "started"]
  /\ reaches' = [reaches EXCEPT ![c] = [server |-> served[PathOf[c]], run |-> run]]
  /\ UNCHANGED <<served, call, window, inbox, history>>

TellOpened(c) ==
  /\ conn[c].opened = "started" /\ conn' = [conn EXCEPT ![c].opened = "told"]
  /\ Tells(c, "opened", None)
  /\ early' = IF conn[c].ended = "told" THEN early \cup {c} ELSE early
  /\ UNCHANGED <<served, reaches, call, window, moved, late, due, gone, evicted>>

\* post, of the agent's initialize; only its answer lets the agent go on.
TellClient(c) ==
  /\ conn[c].opened = "told" /\ conn' = [conn EXCEPT ![c].opened = "client"]
  /\ Tells(c, "client", None)
  /\ UNCHANGED <<served, reaches, call, window, history>>

\* Relay::post: whether the connection ended is asked before the request is told.
Posts(k) ==
  /\ call[k] = "no" /\ conn[ConnOf[k]].opened = "client" /\ conn[ConnOf[k]].ended = "no"
  /\ call' = [call EXCEPT ![k] = "posting"]
  /\ UNCHANGED <<served, conn, reaches, window, inbox, history>>

TellRequest(k) ==
  /\ call[k] \in {"posting", "overtaken"} /\ call' = [call EXCEPT ![k] = "out"]
  /\ Tells(ConnOf[k], "request", k)
  /\ late' = IF conn[ConnOf[k]].ended = "told" THEN late \cup {k} ELSE late
  /\ UNCHANGED <<served, conn, reaches, window, moved, early, due, gone, evicted>>

\* The agent gives up on a request, in a POST of its own, which may be told
\* before the request is.
TellCancel(k) ==
  /\ call[k] \in {"posting", "out"} /\ conn[ConnOf[k]].ended = "no"
  /\ call' = [call EXCEPT ![k] = IF @ = "out" THEN "cancelled" ELSE "overtaken"]
  /\ Tells(ConnOf[k], "cancel", k)
  /\ UNCHANGED <<served, conn, reaches, window, history>>

\* Relay::route; a server may answer what was cancelled, and the pump may be
\* giving an answer its place while the connection ends.
TellAnswer(k) ==
  /\ call[k] \in {"out", "cancelled"} /\ call' = [call EXCEPT ![k] = "answered"]
  /\ Tells(ConnOf[k], "answer", k)
  /\ due' = IF /\ call[k] = "out" /\ conn[ConnOf[k]].ended # "told"
               /\ reaches[ConnOf[k]].run = run
              THEN due \cup {k} ELSE due
  /\ UNCHANGED <<served, conn, reaches, window, moved, early, late, gone, evicted>>

\* Relay::close, in its two steps.
Ends(c) ==
  /\ conn[c].opened # "no" /\ conn[c].ended = "no"
  /\ conn' = [conn EXCEPT ![c].ended = "ending"]
  /\ UNCHANGED <<served, reaches, call, window, inbox, history>>

TellClosed(c) ==
  /\ conn[c].ended = "ending" /\ conn' = [conn EXCEPT ![c].ended = "told"]
  /\ Tells(c, "closed", None)
  /\ UNCHANGED <<served, reaches, call, window, history>>

\* Gateway::set_servers: connections to a path that is another server's end.
SetServers ==
  /\ served # plan /\ served' = plan
  /\ conn' = [c \in Conns |->
       IF /\ conn[c].opened \notin {"no", "started"} /\ conn[c].ended = "no"
          /\ served[PathOf[c]] # plan[PathOf[c]]
         THEN [conn[c] EXCEPT !.ended = "ending"] ELSE conn[c]]
  /\ UNCHANGED <<reaches, call, window, inbox, history>>

-----------------------------------------------------------------------------
(* The window.                                                             *)

\* Servers are edited, deleted or given other paths.
PlanChanges(p) ==
  /\ plan # p /\ plan' = p
  /\ UNCHANGED <<gateway, run, inbox, agents, pending, asked, recorded, history>>

\* gateway_detach: stopped, or started again.  The reports of the run that was
\* are dropped when they are read.
Detach ==
  /\ run < MaxRuns /\ run' = run + 1
  /\ agents' = Nothing /\ pending' = Nothing /\ inbox' = <<>>
  /\ conn' = [c \in Conns |->
       IF conn[c].opened # "no" /\ conn[c].ended = "no"
         THEN [conn[c] EXCEPT !.ended = "ending"] ELSE conn[c]]
  /\ served' = plan
  /\ UNCHANGED <<reaches, call, plan, asked, recorded, history>>

Read(kind) ==
  /\ inbox # <<>> /\ Head(inbox).kind = kind /\ inbox' = Tail(inbox)

Exists(s) == \E p \in Paths : plan[p] = s

\* relayed, Relayed::Opened.
FileOpened == LET c == Head(inbox).of IN
  /\ Read("opened")
  /\ agents' = IF plan[PathOf[c]] = None THEN agents
               ELSE [a \in DOMAIN agents \cup {c} |->
                      IF a = c THEN [server |-> plan[PathOf[c]], named |-> FALSE,
                                     announced |-> FALSE]
                      ELSE agents[a]]
  /\ moved' = IF plan[PathOf[c]] # reaches[c].server THEN moved \cup {c} ELSE moved
  /\ UNCHANGED <<gateway, plan, run, pending, asked, recorded, early, late, due, gone, evicted>>

\* relayed, Relayed::Client.
FileClient == LET c == Head(inbox).of IN
  /\ Read("client")
  /\ agents' = IF c \in DOMAIN agents THEN [agents EXCEPT ![c].named = TRUE] ELSE agents
  /\ UNCHANGED <<gateway, plan, run, pending, asked, recorded, history>>

\* relay_row, of the agent a frame is of.
Announced(c) ==
  IF c \in DOMAIN agents THEN [agents EXCEPT ![c].announced = TRUE] ELSE agents

Without(calls) == Restrict(pending, DOMAIN pending \ calls)

\* relay_call, of a request: the oldest makes room when the table is full.
Oldest == {k \in DOMAIN pending : \A j \in DOMAIN pending : pending[k] <= pending[j]}
Dropped == IF Cardinality(DOMAIN pending) >= MaxPending THEN Oldest ELSE {}
FileRequest == LET k == Head(inbox).call IN
  /\ Read("request") /\ asked' = asked + 1
  /\ pending' = [j \in (DOMAIN pending \ Dropped) \cup {k} |->
                  IF j = k THEN asked + 1 ELSE pending[j]]
  /\ evicted' = evicted \cup Dropped /\ agents' = Announced(ConnOf[k])
  /\ UNCHANGED <<gateway, plan, run, recorded, moved, early, late, due, gone>>

FileCancel == LET k == Head(inbox).call IN
  /\ Read("cancel") /\ pending' = Without({k}) /\ agents' = Announced(ConnOf[k])
  /\ UNCHANGED <<gateway, plan, run, asked, recorded, history>>

Deleted(c) == c \in DOMAIN agents /\ ~Exists(agents[c].server)

\* Mutant of Recordable: a call is recorded whether or not it was given up on.
RecordableAny(k) == ConnOf[k] \in DOMAIN agents /\ ~Deleted(ConnOf[k])

\* relay_call, of an answer, and record_agent_call: of an agent that is shown,
\* and a server that is still there.
Recordable(k) ==
  k \in DOMAIN pending /\ ConnOf[k] \in DOMAIN agents /\ ~Deleted(ConnOf[k])

FileAnswer == LET k == Head(inbox).call IN
  /\ Read("answer") /\ pending' = Without({k})
  /\ recorded' = IF Recordable(k)
                   THEN [recorded EXCEPT ![k] = @ \cup
                           {[server |-> agents[ConnOf[k]].server,
                             named |-> agents[ConnOf[k]].named]}]
                   ELSE recorded
  /\ gone' = IF k \in DOMAIN pending /\ Deleted(ConnOf[k]) THEN gone \cup {k} ELSE gone
  /\ agents' = Announced(ConnOf[k])
  /\ UNCHANGED <<gateway, plan, run, asked, moved, early, late, due, evicted>>

\* Mutant of CallsOf: what a connection asked is remembered when it is gone.
CallsOfNone(c) == {k \in Calls : ConnOf[k] = c /\ c \notin Conns}

\* relayed, Relayed::Closed: what it asked and was never answered is not a call.
CallsOf(c) == {k \in Calls : ConnOf[k] = c}
FileClosed == LET c == Head(inbox).of IN
  /\ Read("closed")
  /\ agents' = Restrict(agents, DOMAIN agents \ {c}) /\ pending' = Without(CallsOf(c))
  /\ UNCHANGED <<gateway, plan, run, asked, recorded, history>>

Gateway ==
  \/ \E c \in Conns :
       Connects(c) \/ TellOpened(c) \/ TellClient(c) \/ Ends(c) \/ TellClosed(c)
  \/ \E k \in Calls : Posts(k) \/ TellRequest(k) \/ TellCancel(k) \/ TellAnswer(k)
  \/ SetServers

Window ==
  \/ Detach \/ \E p \in Plans : PlanChanges(p)
  \/ FileOpened \/ FileClient \/ FileRequest \/ FileCancel \/ FileAnswer \/ FileClosed

Next == Gateway \/ Window
Spec == Init /\ [][Next]_vars

-----------------------------------------------------------------------------
(* Properties.                                                             *)

Ours(c) == reaches[c].run = run
Filed == inbox = <<>>

\* With every report filed, the agents shown are the connections that are open,
\* each under the server it reaches.  The exceptions are one whose path came to
\* be another server's between the opening and its filing, which is shown under
\* that server or not at all, and one that ended before it was told opened:
\* nothing ever takes it off the list (Relayed::Opened, Relayed::Closed).
AgentsAreThoseConnected == Filed =>
  /\ \A c \in DOMAIN agents :
       /\ Ours(c) /\ (conn[c].ended # "told" \/ c \in early)
       /\ agents[c].server = reaches[c].server \/ c \in moved
  /\ \A c \in Conns :
       Ours(c) /\ conn[c].opened \in {"told", "client"} /\ conn[c].ended # "told" =>
         c \in DOMAIN agents \/ c \in moved

\* A call is recorded once, and only if it was answered before it was given up
\* on and before its connection closed, under the agent's name and the server
\* that answered; and with every report filed each such call is, but for one
\* that made room for others in a full table, one whose server was deleted
\* meanwhile, and one of a connection that moved (relay_call,
\* record_agent_call).
CallsRecorded ==
  /\ \A k \in Calls :
       /\ Cardinality(recorded[k]) <= 1 /\ (recorded[k] # {} => k \in due)
       /\ \A r \in recorded[k] :
            r.named /\ (r.server = reaches[ConnOf[k]].server \/ ConnOf[k] \in moved)
  /\ Filed => \A k \in due :
       Ours(ConnOf[k]) => recorded[k] # {} \/ k \in evicted \cup gone \/ ConnOf[k] \in moved

\* What is remembered for a call to come is of a call still out, on a
\* connection that is open or that closed while the call was being posted; and
\* it is never more than the limit (MAX_PENDING).
PendingIsOut ==
  /\ Cardinality(DOMAIN pending) <= MaxPending
  /\ Filed => \A k \in DOMAIN pending :
       call[k] = "out" /\ Ours(ConnOf[k]) /\ (conn[ConnOf[k]].ended # "told" \/ k \in late)

AgentsSound == TypeOK /\ AgentsAreThoseConnected /\ CallsRecorded /\ PendingIsOut
=============================================================================
