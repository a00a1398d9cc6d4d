-------------------------------- MODULE Calls ---------------------------------
(***************************************************************************)
(* What a person sends to one server of the desktop app, and what is shown *)
(* under it.  One request at a time per key; each is a task, answered on   *)
(* the runtime, written to the history on the blocking pool, and shown on  *)
(* the UI thread if its key still waits for it.  A subscribed resource is  *)
(* read again when the server says that it changed.                        *)
(*                                                                         *)
(* Source: apps/desktop/src/calls.rs (Responses, outcome, settled, start,  *)
(* reread_resource, replay) and state.rs (toggle_subscription,             *)
(* session_refused, apply_events, connect, delete_call, clear_history,     *)
(* finish_delete).  The rows written are History's, the ways a session     *)
(* ends Connection's and Session's.                                        *)
(***************************************************************************)
EXTENDS Naturals, FiniteSets

CONSTANTS
  Keys,         \* a list mode and an item of it
  Resource,     \* the key of a resource that may be subscribed to
  Replays,      \* keys of recorded calls sent again (Mode::History)
  MaxCalls,     \* bound: requests sent (an update that asks for more stays on its way)
  MaxSessions,  \* bound: connects
  MaxVersion,   \* bound: changes of what the server has
  MaxToggles    \* bound: presses of Subscribe

ASSUME CallsAssumption ==
  /\ Resource \in Keys /\ Replays \subseteq Keys
  /\ MaxCalls \in Nat /\ MaxSessions \in Nat /\ MaxVersion \in Nat \ {0} /\ MaxToggles \in Nat

Stamps == 1..MaxCalls
Toggles == 1..MaxToggles
None == 0
Statuses == {"ok", "failed", "cancelled", "refused"}  \* "ok": what the server answered,
                                                        \* of a tool that failed too

VARIABLES
  shown,       \* Responses::map: nothing, pending, or an answer
  waiting,     \* Responses::waiting: the stamp a key waits for
  stamp,       \* Responses::stamp
  call,        \* each request's task
  stopped,     \* requests whose control is cancelled
  session,     \* ServerEntry::session, one number for each connect
  current,     \* the connect whose generation is the entry's
  ended,       \* the session ended by itself, and the window is not told yet
  connects,    \* sessions there were
  deleted,
  version,     \* of what the server has under every key
  subscribed,  \* ServerEntry::subscribed has the resource
  watched,     \* the server tells the session of the resource's changes
  toggle,      \* the tasks of presses of Subscribe
  update,      \* the version an update on its way to the window tells of
  heard,       \* history: the newest version the window was told of
  skipped,     \* history: the ways an update came for which nothing was read
  forgotten    \* history: the last stamp when a key was forgotten

entry == <<session, current, ended, connects, deleted>>
responses == <<shown, waiting, stamp, call, stopped, forgotten>>
subscription == <<subscribed, watched, toggle>>
told == <<update, heard, skipped>>
vars == <<responses, entry, version, subscription, told>>

\* While the resource was being read, and with no session left to read from.
Ways == {"reading", "ended"}

Nothing == [status |-> "none", answer |-> 0, version |-> 0]

TypeOK ==
  /\ shown \in [Keys -> [status : {"none", "pending"} \cup Statuses,
                         answer : 0..MaxCalls, version : 0..MaxVersion]]
  /\ waiting \in [Keys -> 0..MaxCalls] /\ stamp \in 0..MaxCalls
  /\ call \in [Stamps -> [at : {"no", "sent", "settled", "recording", "over"},
                          key : Keys, of : 0..MaxSessions, record : BOOLEAN,
                          status : {"none"} \cup Statuses, version : 0..MaxVersion]]
  /\ stopped \subseteq Stamps /\ session \in 0..MaxSessions
  /\ current \in 0..MaxSessions /\ ended \in BOOLEAN
  /\ connects \in 0..MaxSessions /\ deleted \in BOOLEAN
  /\ version \in 0..MaxVersion /\ subscribed \in BOOLEAN
  /\ watched \in BOOLEAN
  /\ toggle \in [Toggles -> [at : {"no", "asked", "done", "over"},
                             on : BOOLEAN, of : 0..MaxSessions]]
  /\ update \in 0..MaxVersion /\ heard \in 0..MaxVersion /\ skipped \subseteq Ways
  /\ forgotten \in [Keys -> 0..MaxCalls]

Unsent == [at |-> "no", key |-> Resource, of |-> None, record |-> FALSE,
           status |-> "none", version |-> 0]

Init ==
  /\ shown = [k \in Keys |-> Nothing] /\ waiting = [k \in Keys |-> 0] /\ stamp = 0
  /\ call = [c \in Stamps |-> Unsent]
  /\ stopped = {} /\ forgotten = [k \in Keys |-> 0]
  /\ session = None /\ current = None /\ ended = FALSE /\ connects = 0 /\ deleted = FALSE
  /\ version = 1 /\ subscribed = FALSE /\ watched = FALSE
  /\ toggle = [t \in Toggles |-> [at |-> "no", on |-> FALSE, of |-> None]]
  /\ update = 0 /\ heard = 0 /\ skipped = {}

Pending(k) == waiting[k] # 0
Current(k, c) == waiting[k] = c

-----------------------------------------------------------------------------
(* The server's session: connects and the app's own ends are whole here.   *)

\* The events of a session that is not current are not taken.
Ended == watched' = FALSE /\ update' = 0 /\ ended' = FALSE

Connect ==
  /\ ~deleted /\ connects < MaxSessions
  /\ session' = connects + 1 /\ current' = connects + 1 /\ connects' = connects + 1
  /\ subscribed' = FALSE /\ Ended
  /\ UNCHANGED <<responses, deleted, version, toggle, heard, skipped>>

\* The app's own ending, by disconnect, session_refused or finish_delete: a
\* generation of its own, to which no result and no event of the session's are.
Closes == session' = None /\ current' = None /\ Ended

Disconnect ==
  /\ session # None /\ Closes
  /\ UNCHANGED <<responses, connects, deleted, version, subscribed, toggle, heard, skipped>>

\* The server ends it, or it breaks: the entry has it until that is filed, and
\* what was told before is on its way still.
SessionEnds ==
  /\ session # None /\ ~ended
  /\ ended' = TRUE /\ watched' = FALSE
  /\ UNCHANGED <<responses, session, current, connects, deleted, version, subscribed, toggle,
                 told>>

-----------------------------------------------------------------------------
(* Sending.                                                                *)

\* Responses::begin: refused while an earlier request waits.
Begin(k, record) ==
  /\ session # None /\ ~Pending(k) /\ stamp < MaxCalls
  /\ stamp' = stamp + 1
  /\ waiting' = [waiting EXCEPT ![k] = stamp']
  /\ shown' = [shown EXCEPT ![k] = [status |-> "pending", answer |-> stamp', version |-> 0]]
  /\ call' = [call EXCEPT ![stamp'] = [at |-> "sent", key |-> k, of |-> session,
                record |-> record, status |-> "none", version |-> 0]]
  /\ UNCHANGED <<stopped, forgotten>>

\* call_tool, read_resource, get_prompt; replay of a recorded call.
Sends(k) ==
  /\ Begin(k, TRUE)
  /\ skipped' = IF k = Resource THEN {} ELSE skipped
  /\ UNCHANGED <<entry, version, subscription, update, heard>>

\* cancel_response
Cancel(k) ==
  /\ Pending(k) /\ waiting[k] \notin stopped
  /\ stopped' = stopped \cup {waiting[k]}
  /\ UNCHANGED <<shown, waiting, stamp, call, forgotten, entry, version, subscription, told>>

Settle(c, status, v) ==
  call' = [call EXCEPT ![c] = [@ EXCEPT !.at = "settled", !.of = None, !.status = status,
                                         !.version = v]]

\* The server answers; its answer and a cancellation may cross.
ServerAnswers(c) ==
  /\ call[c].at = "sent" /\ call[c].of = session /\ ~ended
  /\ \E status \in {"ok", "failed", "refused"} :
       Settle(c, status, IF status = "ok" THEN version ELSE 0)
  /\ UNCHANGED <<shown, waiting, stamp, stopped, forgotten, entry, version, subscription, told>>

\* Mutant of GivesUp: a request is given up only when it is cancelled.
GivesUpCancelled(c) ==
  /\ call[c].at = "sent" /\ c \in stopped
  /\ Settle(c, "cancelled", 0)
  /\ UNCHANGED <<shown, waiting, stamp, stopped, forgotten, entry, version, subscription, told>>

\* Session::send gives up: it was cancelled, or its session closed, or its
\* time is up.
GivesUp(c) ==
  /\ call[c].at = "sent"
  /\ Settle(c, IF c \in stopped THEN "cancelled" ELSE "failed", 0)
  /\ UNCHANGED <<shown, waiting, stamp, stopped, forgotten, entry, version, subscription, told>>

-----------------------------------------------------------------------------
(* The answer, back on the UI thread (start).                              *)

\* Mutant of Wanted: any answer of a request that is out is filed.
WantedAny(c) == Pending(call[c].key)

\* Responses::is_current
Wanted(c) == Current(call[c].key, c)

Answer(c) == [status |-> call[c].status, answer |-> c, version |-> call[c].version]

\* Responses::finish, and session_refused: whichever session is there ends.
Finish(c) ==
  /\ call' = [call EXCEPT ![c] = [Unsent EXCEPT !.at = "over", !.key = call[c].key]]
  /\ IF Wanted(c)
       THEN /\ waiting' = [waiting EXCEPT ![call[c].key] = 0]
            /\ shown' = [shown EXCEPT ![call[c].key] = Answer(c)]
            /\ IF call[c].status = "refused" /\ session # None
                 THEN Closes
                 ELSE UNCHANGED <<session, current, ended, watched, update>>
       ELSE UNCHANGED <<waiting, shown, session, current, ended, watched, update>>
  /\ stopped' = stopped \ {c}
  /\ UNCHANGED <<stamp, forgotten, connects, deleted, version, subscribed, toggle,
                 heard, skipped>>

\* An answer to be recorded goes to the blocking pool before it is shown.
Record(c) ==
  /\ call[c].at = "settled" /\ Wanted(c) /\ call[c].record
  /\ call' = [call EXCEPT ![c].at = "recording"]
  /\ UNCHANGED <<shown, waiting, stamp, stopped, forgotten, entry, version, subscription, told>>

\* What was recorded, or failed to be, is shown beside the answer (History).
Answered(c) ==
  /\ \/ call[c].at = "recording"
     \/ call[c].at = "settled" /\ ~(Wanted(c) /\ call[c].record)
  /\ Finish(c)

-----------------------------------------------------------------------------
(* Forgetting: the answers of the keys and the requests that are out.      *)

\* forget_mode, forget_call, forget_server
Forget(S) ==
  /\ shown' = [k \in Keys |-> IF k \in S THEN Nothing ELSE shown[k]]
  /\ waiting' = [k \in Keys |-> IF k \in S THEN 0 ELSE waiting[k]]
  /\ forgotten' = [k \in Keys |-> IF k \in S THEN stamp ELSE forgotten[k]]
  /\ stopped' = stopped \cup {waiting[k] : k \in {j \in S : Pending(j)}}
  /\ UNCHANGED <<stamp, call>>

\* The job of delete_call or of clear_history has run.
CallsGone(S) ==
  /\ S # {} /\ S \subseteq Replays /\ ~deleted
  /\ \E k \in S : shown[k] # Nothing
  /\ Forget(S)
  /\ UNCHANGED <<entry, version, subscription, told>>

\* finish_delete
ServerGone ==
  /\ ~deleted /\ deleted' = TRUE
  /\ Closes
  /\ Forget(Keys)
  /\ UNCHANGED <<connects, version, subscribed, toggle, heard, skipped>>

-----------------------------------------------------------------------------
(* Subscribing, and what the server tells of.                              *)

\* toggle_subscription: what to ask is what is not so now.
Toggle(t) ==
  /\ session # None /\ toggle[t].at = "no"
  /\ \A u \in Toggles : u < t => toggle[u].at # "no"
  /\ toggle' = [toggle EXCEPT ![t] = [at |-> "asked", on |-> ~subscribed, of |-> session]]
  /\ UNCHANGED <<responses, entry, version, subscribed, watched, told>>

ServerToggles(t) ==
  /\ toggle[t].at = "asked" /\ toggle[t].of = session /\ ~ended
  /\ toggle' = [toggle EXCEPT ![t].at = "done"]
  /\ watched' = toggle[t].on
  /\ UNCHANGED <<responses, entry, version, subscribed, told>>

ToggleOver(t) == [toggle EXCEPT ![t] = [at |-> "over", on |-> FALSE, of |-> None]]

\* The server refuses, or the session has closed: a notice at most.
ToggleFails(t) ==
  /\ toggle[t].at = "asked"
  /\ toggle' = ToggleOver(t)
  /\ UNCHANGED <<responses, entry, version, subscribed, watched, told>>

\* A result of a session that was replaced or closed is not taken; one of a
\* session that ended by itself is.
Toggled(t) ==
  /\ toggle[t].at = "done"
  /\ toggle' = ToggleOver(t)
  /\ subscribed' = IF toggle[t].of = current THEN toggle[t].on ELSE subscribed
  /\ UNCHANGED <<responses, entry, version, watched, told>>

ServerChanges ==
  /\ version < MaxVersion /\ version' = version + 1
  /\ update' = IF watched THEN version' ELSE update
  /\ UNCHANGED <<responses, entry, subscription, heard, skipped>>

\* reread_resource: of one on record, that is not being read.
Asked == shown[Resource] # Nothing /\ ~Pending(Resource)
Rereads == Asked /\ session # None

\* Why nothing is read for an update, with session s.
Skips(s) ==
  IF Pending(Resource) THEN {"reading"}
  ELSE IF Asked /\ s = None THEN {"ended"} ELSE {}

Hears == update # 0 /\ update' = 0 /\ heard' = update

\* apply_events, push_events: an update, with the session there still;
Updated ==
  /\ Hears
  /\ IF Rereads
       THEN Begin(Resource, FALSE) /\ skipped' = {}
       ELSE skipped' = skipped \cup Skips(session) /\ UNCHANGED responses
  /\ UNCHANGED <<entry, version, subscription>>

\* or the session's end, with an update in the same batch or not.  It is no
\* generation of its own, and the resource is read again only when all of the
\* batch is filed: there is no session then to read it from.
EndFiled ==
  /\ ended /\ ended' = FALSE /\ session' = None
  /\ \/ Hears /\ skipped' = skipped \cup Skips(None)
     \/ UNCHANGED told
  /\ UNCHANGED <<responses, current, connects, deleted, version, subscription>>

-----------------------------------------------------------------------------
Program ==
  \/ \E c \in Stamps : GivesUp(c) \/ Record(c) \/ Answered(c)
  \/ \E t \in Toggles : ToggleFails(t) \/ Toggled(t)
  \/ Updated \/ EndFiled

Next ==
  \/ Connect \/ Disconnect \/ SessionEnds \/ ServerGone \/ ServerChanges
  \/ \E k \in Keys : Sends(k) \/ Cancel(k)
  \/ \E S \in SUBSET Replays : CallsGone(S)
  \/ \E c \in Stamps : ServerAnswers(c)
  \/ \E t \in Toggles : Toggle(t) \/ ServerToggles(t)
  \/ Program

\* The program's tasks run on, and a request ends by its time limit at last:
\* each of these steps brings one of finitely many further.
Spec == Init /\ [][Next]_vars /\ WF_vars(Program)

-----------------------------------------------------------------------------
(* Properties.                                                             *)

\* A key that waits shows so, under the stamp it waits for, and that request's
\* task is still to file its answer: no clock runs for nothing.
WaitsForOne ==
  \A k \in Keys :
    /\ Pending(k) <=> shown[k].status = "pending"
    /\ Pending(k) => /\ shown[k].answer = waiting[k] /\ call[waiting[k]].key = k
                     /\ call[waiting[k]].at \notin {"no", "over"}

\* What is shown answers the newest request of its key, and none that was sent
\* before the key was forgotten.
AnswersNewest ==
  \A k \in Keys : shown[k] # Nothing =>
    /\ shown[k].answer > forgotten[k]
    /\ \A c \in Stamps : call[c].at # "no" /\ call[c].key = k => c <= shown[k].answer

\* The responses shown (Responses), as the parts above say.
CallsSound == TypeOK /\ WaitsForOne /\ AnswersNewest

\* No key waits for ever, and what is shown of a resource is as new as the
\* last change the window was told of, unless that was told while the resource
\* was being read (reread_resource asks for nothing then), or with the end of
\* the session it would have been read from, or the read after it brought no
\* answer.
CallsRest ==
  []<>(/\ \A k \in Keys : ~Pending(k)
       /\ shown[Resource].status = "ok" => shown[Resource].version >= heard \/ skipped # {})
=============================================================================
