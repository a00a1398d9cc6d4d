----------------------------- MODULE Connection ------------------------------
(***************************************************************************)
(* A server of the desktop app: connecting, disconnecting, and what its    *)
(* sessions report.  Each connect is a task with a session of its own; a   *)
(* generation number tells the results and events of the current one from  *)
(* those of one that was replaced.  Events go from the session's broadcast *)
(* channel, which loses the oldest to a slow reader, into the window's     *)
(* inbox, and are filed in batches.                                        *)
(*                                                                         *)
(* Source: apps/desktop/src/state.rs, bridge.rs and calls.rs.  A step is   *)
(* one update on the UI thread, or what a task does between two awaits.    *)
(* External: the server, and mcp-core's session (Session), of which it     *)
(* matters here whether it is up, ended by itself, or was closed.  Of a    *)
(* server's lists one stands for all, by the version of it that was asked  *)
(* for, and whether it could be read: one that could not is left empty and *)
(* named in the snapshot's list_failures.                                  *)
(***************************************************************************)
EXTENDS Naturals, Sequences

CONSTANTS
  MaxConnects,   \* bound: connects of this server
  MaxChanges,    \* bound: changes of the sessions' lists, in all
  Capacity       \* events a session's channel keeps for a slow reader

ASSUME ConnectionAssumption ==
  MaxConnects \in Nat \ {0} /\ MaxChanges \in Nat /\ Capacity \in Nat \ {0}

Sessions == 1..MaxConnects   \* a connect and the session it makes
Changes == 1..MaxChanges     \* a relist is for a change: no more of them
None == 0
Events == {"list", "ended"}

VARIABLES
  status,      \* ServerEntry::status
  gen,         \* ServerEntry::generation
  session,     \* ServerEntry::session
  shown,       \* ServerEntry::snapshot: whose list, which version, and if it failed
  deleted,     \* the entry is gone
  connect,     \* each connect's task, its generation and the list it read
  relist,      \* the tasks reading a session's list again
  refused,     \* a call refused its credentials: its answer is out, or filed (bound: one)
  life,        \* each session
  listAt,      \* the version of its list that the server has
  changes,     \* bound: the changes so far
  sink,        \* the session's broadcast channel, as its forwarder reads it
  inbox,       \* what the forwarder handed to the window
  missed,      \* history: sessions and their events lost to a full channel
  early,       \* history: sessions whose list changed before they were shown
  crossed      \* history: sessions two relists of which came back crosswise

entry == <<status, gen, session, deleted>>
tasks == <<connect, relist, refused>>
lists == <<listAt, changes>>
server == <<life, lists>>
events == <<sink, inbox, missed>>
vars == <<entry, shown, tasks, server, events, early, crossed>>

Gens == 0..(2 * MaxConnects)
TypeOK ==
  /\ status \in {"off", "connecting", "connected", "error"}
  /\ gen \in Gens /\ session \in Sessions \cup {None} /\ deleted \in BOOLEAN
  /\ shown \in [of : Sessions \cup {None}, version : 0..MaxChanges, failed : BOOLEAN]
  /\ connect \in [Sessions -> [at : {"no", "opening", "listing", "done", "failed", "over"},
                               gen : Gens, read : 0..MaxChanges, failed : BOOLEAN]]
  /\ relist \in [Sessions -> [Changes -> [at : {"no", "reading", "read", "over"},
                                          version : 0..MaxChanges, failed : BOOLEAN]]]
  /\ refused \in {"no", "out", "filed"}
  /\ life \in [Sessions -> {"none", "up", "ended", "closed"}]
  /\ listAt \in [Sessions -> 0..MaxChanges] /\ changes \in 0..MaxChanges
  /\ sink \in [Sessions -> Seq(Events)] /\ inbox \in [Sessions -> Seq(Events)]
  /\ \A c \in Sessions : Len(sink[c]) <= Capacity
  /\ missed \subseteq Sessions \X Events
  /\ early \subseteq Sessions /\ crossed \subseteq Sessions

Init ==
  /\ status = "off" /\ gen = 0 /\ session = None /\ deleted = FALSE
  /\ shown = [of |-> None, version |-> 0, failed |-> FALSE]
  /\ connect = [c \in Sessions |-> [at |-> "no", gen |-> 0, read |-> 0, failed |-> FALSE]]
  /\ relist = [c \in Sessions |->
                 [i \in Changes |-> [at |-> "no", version |-> 0, failed |-> FALSE]]]
  /\ refused = "no"
  /\ life = [c \in Sessions |-> "none"] /\ listAt = [c \in Sessions |-> 0]
  /\ changes = 0
  /\ sink = [c \in Sessions |-> <<>>] /\ inbox = [c \in Sessions |-> <<>>]
  /\ missed = {} /\ early = {} /\ crossed = {}

Elements(s) == {s[i] : i \in DOMAIN s}

\* The clones of a session: the entry's, the connect's and those of relists.
Held(c) ==
  \/ session = c
  \/ connect[c].at \in {"listing", "done"}
  \/ \E i \in Changes : relist[c][i].at = "reading"

\* The last clone let go closes the session (Drop for Inner).
LetGo == life' = [c \in Sessions |-> IF life[c] = "up" /\ ~Held(c)' THEN "closed" ELSE life[c]]

\* Session::close, whoever else holds it.
Close(s) == life' = [c \in Sessions |-> IF c = s /\ life[c] = "up" THEN "closed" ELSE life[c]]

\* Mutant of Current: results and events are taken whoever they are from.
CurrentAny(c) == ~deleted
\* Still the connection it was: the check every result and event goes through.
Current(c) == ~deleted /\ connect[c].gen = gen

-----------------------------------------------------------------------------
(* What the user does.                                                     *)

Started == {c \in Sessions : connect[c].at # "no"}

\* connect: by the button, an edited server, a new login; also over one that
\* is still on its way.  The lists shown stay.
Connect(c) ==
  /\ ~deleted /\ c \notin Started /\ Started = 1..(c - 1)
  /\ gen' = gen + 1 /\ session' = None /\ status' = "connecting"
  /\ Close(session)
  /\ connect' = [connect EXCEPT ![c] = [at |-> "opening", gen |-> gen', read |-> 0,
                                        failed |-> FALSE]]
  /\ UNCHANGED <<deleted, shown, relist, refused, lists, events, early, crossed>>

Disconnect ==
  /\ ~deleted /\ status = "connected"
  /\ gen' = gen + 1 /\ session' = None /\ status' = "off"
  /\ Close(session)
  /\ UNCHANGED <<deleted, shown, tasks, lists, events, early, crossed>>

\* finish_delete: results that come later find no entry.
Delete ==
  /\ ~deleted /\ deleted' = TRUE
  /\ session' = None /\ status' = "off"
  /\ Close(session)
  /\ UNCHANGED <<gen, shown, tasks, lists, events, early, crossed>>

-----------------------------------------------------------------------------
(* The connect's task, and its result on the UI thread.                    *)

Stage(c, from, to) == connect[c].at = from /\ connect' = [connect EXCEPT ![c].at = to]

\* Session::connect.  The handshake has no time limit: a server may never
\* answer it, and the connect then does neither.
Opens(c) ==
  /\ Stage(c, "opening", "listing")
  /\ life' = [life EXCEPT ![c] = "up"]
  /\ UNCHANGED <<entry, shown, relist, refused, lists, events, early, crossed>>

OpenFails(c) ==
  /\ Stage(c, "opening", "failed")
  /\ UNCHANGED <<entry, shown, relist, refused, server, events, early, crossed>>

\* session.snapshot: the list as the server has it then, or left empty and
\* named when the server refuses it or does not answer in time, which is no
\* error of the snapshot.  It is compared and stored on the blocking pool while
\* the session is held and may end,
ListRead(c) ==
  /\ connect[c].at = "listing" /\ life[c] = "up"
  /\ \E failed \in BOOLEAN :
       connect' = [connect EXCEPT ![c].at = "done", ![c].read = listAt[c], ![c].failed = failed]
  /\ UNCHANGED <<entry, shown, relist, refused, server, events, early, crossed>>

\* or, of a session that ended, an error with which the session goes.
ListFails(c) ==
  /\ Stage(c, "listing", "failed") /\ life[c] # "up"
  /\ UNCHANGED <<entry, shown, relist, refused, lists, events, early, crossed>>
  /\ LetGo

\* Mutant of Took: a session that ended meanwhile is shown as connected.
TookEnded(c) == connect[c].at = "done"
\* The connect gave a session, and it is still up.
Took(c) == connect[c].at = "done" /\ life[c] = "up"

\* The result: a session that ended while its lists were read and stored is
\* an error, its lists shown all the same; a replaced connect changes nothing,
\* and its session goes.
ConnectDone(c) ==
  /\ connect[c].at \in {"done", "failed"}
  /\ connect' = [connect EXCEPT ![c].at = "over", ![c].read = 0, ![c].failed = FALSE]
  /\ IF Current(c)
       THEN /\ status' = IF Took(c) THEN "connected" ELSE "error"
            /\ session' = IF Took(c) THEN c ELSE session
            /\ shown' = IF connect[c].at = "done"
                        THEN [of |-> c, version |-> connect[c].read,
                              failed |-> connect[c].failed]
                        ELSE shown
       ELSE UNCHANGED <<status, session, shown>>
  /\ UNCHANGED <<gen, deleted, relist, refused, lists, events, early, crossed>>
  /\ LetGo

-----------------------------------------------------------------------------
(* The server, and the way of its events to the window.                    *)

\* EventSink::emit: the channel forgets its oldest event for a new one.
Emit(c, e) ==
  IF Len(sink[c]) < Capacity
    THEN sink' = [sink EXCEPT ![c] = Append(@, e)] /\ UNCHANGED missed
    ELSE /\ sink' = [sink EXCEPT ![c] = Append(Tail(@), e)]
         /\ missed' = missed \cup {<<c, Head(sink[c])>>}

\* */list_changed, of a list that did.
ServerChanges(c) ==
  /\ life[c] = "up" /\ changes < MaxChanges
  /\ listAt' = [listAt EXCEPT ![c] = @ + 1] /\ changes' = changes + 1
  /\ Emit(c, "list")
  /\ UNCHANGED <<entry, shown, tasks, life, inbox, early, crossed>>

\* The session ends by itself: Session tells it with a last StateChange.  (So
\* it does of one that was closed, always of a generation that is past.)
ServerEnds(c) ==
  /\ life[c] = "up"
  /\ life' = [life EXCEPT ![c] = "ended"]
  /\ Emit(c, "ended")
  /\ UNCHANGED <<entry, shown, tasks, lists, inbox, early, crossed>>

\* forward_events.
Forward(c) ==
  /\ sink[c] # <<>>
  /\ sink' = [sink EXCEPT ![c] = Tail(@)]
  /\ inbox' = [inbox EXCEPT ![c] = Append(@, Head(sink[c]))]
  /\ UNCHANGED <<entry, shown, tasks, server, missed, early, crossed>>

\* The end of a session that was up.
Ends(c) == "ended" \in Elements(inbox[c]) /\ status = "connected"

\* A relist takes the entry's session, and is not begun without one.
BeginRelist(c) ==
  LET i == CHOOSE j \in Changes : relist[c][j].at = "no"
  IN relist' = [relist EXCEPT ![c][i].at = "reading"]

\* push_events: all that is in the inbox is filed in one update.
File(c) ==
  /\ inbox[c] # <<>> /\ inbox' = [inbox EXCEPT ![c] = <<>>]
  /\ IF Current(c)
       THEN /\ status' = IF Ends(c) THEN "error" ELSE status
            /\ session' = IF Ends(c) THEN None ELSE session
            /\ IF "list" \in Elements(inbox[c]) /\ session' # None
                 THEN BeginRelist(session') ELSE UNCHANGED relist
            /\ early' = IF "list" \in Elements(inbox[c]) /\ status = "connecting"
                        THEN early \cup {c} ELSE early
       ELSE UNCHANGED <<status, session, relist, early>>
  /\ UNCHANGED <<gen, deleted, shown, connect, refused, lists, sink, missed, crossed>>
  /\ LetGo

-----------------------------------------------------------------------------
(* Lists read again, and calls refused.                                    *)

\* session.relist: as in a snapshot a list that fails is left empty and named,
\* and only a session that ended is an error, of which the log alone is told.
RelistReads(c, i) ==
  /\ relist[c][i].at = "reading"
  /\ IF life[c] = "up"
       THEN \E failed \in BOOLEAN :
              relist' = [relist EXCEPT ![c][i] = [at |-> "read", version |-> listAt[c],
                                                  failed |-> failed]]
       ELSE relist' = [relist EXCEPT ![c][i].at = "over"]
  /\ UNCHANGED <<entry, shown, connect, refused, lists, events, early, crossed>>
  /\ LetGo

\* Mutant of Relisted: the list it began from is put back.
RelistedOld(c, i) == shown.version
Relisted(c, i) == relist[c][i].version

\* apply_relisted: whichever comes last is shown, though it read first, and a
\* list that failed in place of one that could be read.
RelistDone(c, i) ==
  /\ relist[c][i].at = "read"
  /\ relist' = [relist EXCEPT ![c][i] = [at |-> "over", version |-> 0, failed |-> FALSE]]
  /\ IF Current(c)
       THEN /\ shown' = [shown EXCEPT !.version = Relisted(c, i),
                                       !.failed = relist[c][i].failed]
            /\ crossed' = IF Relisted(c, i) < shown.version
                          THEN crossed \cup {c} ELSE crossed
       ELSE UNCHANGED <<shown, crossed>>
  /\ UNCHANGED <<entry, connect, refused, server, events, early>>

\* A call of the session shown is refused its credentials; the answer is then
\* recorded before it is filed.
CallRefused ==
  /\ session # None /\ life[session] = "up" /\ refused = "no"
  /\ refused' = "out"
  /\ UNCHANGED <<entry, shown, connect, relist, server, events, early, crossed>>

\* Mutant of OwnEnding: the session's own last events are taken for news.
OwnEndingSame == gen
\* The app's own ending of a session is a generation of its own.
OwnEnding == gen + 1

\* session_refused: it ends whatever session the entry has by then.
RefusalFiled ==
  /\ refused = "out" /\ refused' = "filed"
  /\ IF ~deleted /\ status = "connected"
       THEN /\ gen' = OwnEnding /\ session' = None /\ status' = "error"
            /\ Close(session)
       ELSE UNCHANGED <<gen, session, status, life>>
  /\ UNCHANGED <<deleted, shown, connect, relist, lists, events, early, crossed>>

-----------------------------------------------------------------------------
Connecting(c) == ListRead(c) \/ ListFails(c) \/ ConnectDone(c)
Reporting(c) ==
  \/ Forward(c) \/ File(c)
  \/ \E i \in Changes : RelistReads(c, i) \/ RelistDone(c, i)

\* What the app's own tasks do.
Program == RefusalFiled \/ \E c \in Sessions : Connecting(c) \/ Reporting(c)
\* What comes of a handshake, if anything does.
Handshakes == \E c \in Sessions : Opens(c) \/ OpenFails(c)

Next ==
  \/ \E c \in Sessions : Connect(c) \/ ServerChanges(c) \/ ServerEnds(c)
  \/ Disconnect \/ Delete \/ CallRefused
  \/ Handshakes
  \/ Program

\* The app's tasks run on, and the requests for the lists have a time limit.
\* Each of these steps brings a task or an event further and there are finitely
\* many: that one is taken is all that need be assumed.  Nothing is asked of
\* the user or of the server, which may also leave a handshake open for good.
Spec == Init /\ [][Next]_vars /\ WF_vars(Program)

-----------------------------------------------------------------------------
(* Properties.                                                             *)

\* What is shown is of one connection: connected exactly with a session, of
\* the current generation, and with that session's own list, whatever the
\* results of those it replaced come back with (connect, apply_events).
ConnectionSound ==
  /\ TypeOK
  /\ status = "connected" <=> session # None
  /\ session # None => connect[session].gen = gen /\ shown.of = session

\* A session that is up is let go only with its generation, which changes when
\* the user connects, disconnects or deletes or a call is refused: no event of
\* an older one takes it away.
SessionKept ==
  [][session # None /\ session' = None /\ gen' = gen /\ ~deleted'
       => life[session] # "up"]_vars

\* Things come to rest: no connect without a result once its handshake has one,
\* no connection shown whose session has ended, but for one whose end was lost
\* to a full channel, and no session left running behind the one that is shown.
Settles ==
  []<>(/\ status = "connecting" => \E c \in Sessions : Current(c) /\ connect[c].at = "opening"
       /\ status = "connected" => life[session] = "up" \/ <<session, "ended">> \in missed
       /\ \A c \in Sessions : life[c] = "up" => session = c)

Up == status = "connected" /\ life[session] = "up"

\* What is shown is the list the server has, or that this very list could not
\* be read, which is shown by name and stays: nothing reads it again.
ListShown == ~shown.failed /\ shown.version = listAt[session]
FailureShown == shown.failed /\ shown.version = listAt[session]

\* The list shown comes to be the one the server has, or its failure, but for
\* the ways known: a change told while the connect was on its way, one lost to
\* a full channel, and two relists that came back crosswise.
ListsSettle ==
  []<>(Up => \/ ListShown \/ FailureShown
             \/ <<session, "list">> \in missed \/ session \in early \cup crossed)
=============================================================================
