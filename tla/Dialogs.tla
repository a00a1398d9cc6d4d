------------------------------- MODULE Dialogs --------------------------------
(***************************************************************************)
(* What a server asks of a person: sampling, elicitation, roots.  The      *)
(* session's handler runs one task per request, which tells the window and *)
(* waits for an answer, the request's withdrawal, or its time; the window  *)
(* queues the requests of all sessions and shows the first in a dialog.    *)
(*                                                                         *)
(* Source: mcp-core/src/handler.rs (ask, answer, on_cancelled), event.rs   *)
(* (Responder), session.rs (fulfil), apps/desktop/src/state.rs             *)
(* (apply_events, answer_request, connect, finish_delete) and              *)
(* views/request_answers.rs.  External: rmcp, which runs every request and *)
(* every notification in a task of its own, and cancels the tokens of a    *)
(* session's requests when it closes.                                      *)
(*                                                                         *)
(* Left out: what is asked and answered, the kinds of requests, a channel  *)
(* that loses events (Connection), a program nobody listens in.            *)
(***************************************************************************)
EXTENDS Naturals, Sequences, FiniteSets, Sift

CONSTANTS
  Requests,    \* what the server asks for
  SessionOf,   \* the session a request is of, 1 or the one after a reconnect
  IdOf,        \* the id of a request of its own, which sessions use again
  KeyOf,       \* the key of a question of a call, which calls use again too
  None

VARIABLES
  modern,      \* the server asks within a call of ours (2026-07-28), or by itself
  handler,     \* each request's task
  slot,        \* its Responder
  reply,       \* what the server is told
  cancelled,   \* requests whose token is cancelled
  notice,      \* the task of the server's withdrawal
  gen,         \* which session is current
  deleted,     \* the server was deleted
  queue,       \* events on their way from a session to the window
  pending,     \* AppState::pending
  form,        \* Workspace::request_ui: the request its fields are made for
  given,       \* history: requests a person answered
  expired,     \* history: requests whose time ran out
  overtaken    \* history: requests told after their withdrawal

tasks == <<handler, slot, reply, cancelled, notice>>
server == <<modern, gen, deleted>>
past == <<expired, overtaken>>
window == <<pending, form, given>>
vars == <<tasks, server, queue, window, past>>

Elements(s) == {s[i] : i \in DOMAIN s}

TypeOK ==
  /\ modern \in BOOLEAN
  /\ handler \in [Requests -> {"no", "asked", "waiting", "over"}]
  /\ slot \in [Requests -> {"none", "open", "taken"}]
  /\ reply \in [Requests -> {"none", "policy", "answer", "fallback"}]
  /\ cancelled \subseteq Requests
  /\ notice \in [Requests -> {"no", "spawned", "told"}]
  /\ gen \in {1, 2} /\ deleted \in BOOLEAN
  /\ queue \in [{1, 2} -> Seq({"request", "withdrawn"} \X Requests)]
  /\ pending \in Seq(Requests) /\ form \in Requests \cup {None}
  /\ given \subseteq Requests
  /\ expired \subseteq Requests /\ overtaken \subseteq Requests

Init ==
  /\ modern \in BOOLEAN
  /\ handler = [r \in Requests |-> "no"] /\ slot = [r \in Requests |-> "none"]
  /\ reply = [r \in Requests |-> "none"] /\ cancelled = {}
  /\ notice = [r \in Requests |-> "no"]
  /\ gen = 1 /\ deleted = FALSE /\ queue = [s \in {1, 2} |-> <<>>]
  /\ pending = <<>> /\ form = None /\ given = {}
  /\ expired = {} /\ overtaken = {}

\* What names a request to the window.
Id(r) == IF modern THEN KeyOf[r] ELSE IdOf[r]

Live(r) == SessionOf[r] = gen /\ ~deleted
Send(e, r) == queue' = [queue EXCEPT ![SessionOf[r]] = Append(@, <<e, r>>)]

-----------------------------------------------------------------------------
(* The server, and the calls that carry its questions.                     *)

ServerAsks(r) ==
  /\ Live(r) /\ handler[r] = "no"
  /\ handler' = [handler EXCEPT ![r] = "asked"]
  /\ UNCHANGED <<slot, reply, cancelled, notice, server, queue, window, past>>

\* notifications/cancelled, perhaps of a request answered meanwhile.
ServerWithdraws(r) ==
  /\ Live(r) /\ ~modern /\ handler[r] # "no" /\ notice[r] = "no"
  /\ cancelled' = cancelled \cup {r}
  /\ notice' = [notice EXCEPT ![r] = "spawned"]
  /\ UNCHANGED <<handler, slot, reply, server, queue, window, past>>

\* Its call is cancelled, or another of its questions was refused (fulfil):
\* the server is told, the window is not.
CallGivenUp(r) ==
  /\ modern /\ handler[r] # "no" /\ r \notin cancelled
  /\ cancelled' = cancelled \cup {r}
  /\ UNCHANGED <<handler, slot, reply, notice, server, queue, window, past>>

-----------------------------------------------------------------------------
(* The handler.                                                            *)

Over(r, how) ==
  /\ handler' = [handler EXCEPT ![r] = "over"]
  /\ reply' = [reply EXCEPT ![r] = how]
  /\ UNCHANGED <<slot, cancelled, notice, server, queue, window, overtaken>>

\* A policy that asks nobody.
PolicyAnswers(r) == handler[r] = "asked" /\ Over(r, "policy") /\ UNCHANGED expired

\* ask: the window is told even of a request withdrawn by now.
AskTold(r) ==
  /\ handler[r] = "asked"
  /\ handler' = [handler EXCEPT ![r] = "waiting"]
  /\ slot' = [slot EXCEPT ![r] = "open"]
  /\ Send("request", r)
  /\ overtaken' = IF notice[r] = "told" THEN overtaken \cup {r} ELSE overtaken
  /\ UNCHANGED <<reply, cancelled, notice, server, window, expired>>

\* on_cancelled, in a task of its own.
WithdrawalTold(r) ==
  /\ notice[r] = "spawned"
  /\ notice' = [notice EXCEPT ![r] = "told"]
  /\ Send("withdrawn", r)
  /\ UNCHANGED <<handler, slot, reply, cancelled, server, window, past>>

\* What select finds ready, one of them where there are several.
Answered(r) ==
  handler[r] = "waiting" /\ slot[r] = "taken" /\ Over(r, "answer") /\ UNCHANGED expired
Withdrawn(r) ==
  handler[r] = "waiting" /\ r \in cancelled /\ Over(r, "fallback") /\ UNCHANGED expired
Expires(r) ==
  /\ handler[r] = "waiting" /\ slot[r] = "open"
  /\ Over(r, "fallback")
  /\ expired' = expired \cup {r}

\* The window let go of the request, and with it of its Responder.
Held(r) == r \in Elements(pending) \/ <<"request", r>> \in Elements(queue[SessionOf[r]])
Dropped(r) ==
  /\ handler[r] = "waiting" /\ slot[r] = "open" /\ ~Held(r)
  /\ Over(r, "fallback") /\ UNCHANGED expired

-----------------------------------------------------------------------------
(* The window.                                                             *)


\* sync_request_ui: made again for another head, which is told by its id.
Sync == form' = IF pending' = <<>> THEN None
                ELSE IF form # None /\ Id(form) = Id(Head(pending')) THEN form
                ELSE Head(pending')

\* Mutant of Asked: a withdrawal takes nothing away.
AskedStill(s, r) == s
\* Those of this server that have not the id withdrawn.
Asked(s, r) == Sift(s, {p \in Requests : Id(p) # Id(r)})

\* apply_events: those of a session that was replaced change nothing.
File(s) ==
  /\ queue[s] # <<>>
  /\ queue' = [queue EXCEPT ![s] = Tail(@)]
  /\ LET r == Head(queue[s])[2]
     IN pending' = IF ~Live(r) THEN pending
                   ELSE IF Head(queue[s])[1] = "request" THEN Append(pending, r)
                   ELSE Asked(pending, r)
  /\ Sync
  /\ UNCHANGED <<tasks, server, given, past>>

\* Mutant of Responds: the newest request is answered, not the one shown.
RespondsNewest == pending[Len(pending)]
Responds == Head(pending)

\* answer_request: the first `respond` wins, if anyone still waits.
UserAnswers ==
  /\ pending # <<>>
  /\ pending' = Tail(pending)
  /\ given' = given \cup {Head(pending)}
  /\ slot' = [slot EXCEPT ![Responds] =
                IF @ = "open" /\ handler[Responds] = "waiting" THEN "taken" ELSE @]
  /\ Sync
  /\ UNCHANGED <<handler, reply, cancelled, notice, server, queue, past>>

\* connect or disconnect: the session closes, what it asked stays queued.
Reconnect ==
  /\ gen = 1 /\ ~deleted /\ gen' = 2
  /\ cancelled' = cancelled \cup {r \in Requests : SessionOf[r] = 1 /\ handler[r] # "no"}
  /\ UNCHANGED <<modern, handler, slot, reply, notice, deleted, queue, window, past>>

\* finish_delete
Delete ==
  /\ ~deleted /\ deleted' = TRUE
  /\ cancelled' = cancelled \cup {r \in Requests : handler[r] # "no"}
  /\ pending' = <<>> /\ Sync
  /\ UNCHANGED <<modern, handler, slot, reply, notice, gen, queue, given, past>>

-----------------------------------------------------------------------------
Handling(r) ==
  \/ PolicyAnswers(r) \/ AskTold(r) \/ WithdrawalTold(r)
  \/ Answered(r) \/ Withdrawn(r) \/ Expires(r) \/ Dropped(r)

Program == (\E r \in Requests : Handling(r)) \/ \E s \in {1, 2} : File(s)

Next ==
  \/ \E r \in Requests : ServerAsks(r) \/ ServerWithdraws(r) \/ CallGivenUp(r)
  \/ UserAnswers \/ Reconnect \/ Delete
  \/ Program

\* Every request has its time limit, and the window's loop runs on.  A person
\* need not answer.
Spec == Init /\ [][Next]_vars /\ WF_vars(Program)

-----------------------------------------------------------------------------
(* Properties.                                                             *)

\* A request somebody waits for an answer to has its dialog, or is on its way
\* to it, once; and an answer given reaches the request it was shown for,
\* unless it was withdrawn (ask, apply_events, answer_request).  The fields are
\* those of the request shown, but for one that follows another with its very id,
\* of a session before it or of another call (sync_request_ui).
DialogsSound ==
  /\ TypeOK
  /\ \A i, j \in DOMAIN pending : pending[i] = pending[j] => i = j
  /\ \A r \in Requests :
       /\ handler[r] = "waiting" /\ slot[r] = "open" /\ r \notin cancelled => Held(r)
       /\ slot[r] = "taken" => r \in given
       /\ r \in given /\ handler[r] = "over" /\ reply[r] # "answer"
            => r \in cancelled \cup expired
  /\ pending # <<>> /\ form # Head(pending)
       => /\ Id(form) = Id(Head(pending))
          /\ modern \/ SessionOf[form] # SessionOf[Head(pending)]

\* Every request is replied to, and the dialogs left are of requests known to
\* stay though nobody waits: one that ran out of time, one of a session that
\* was replaced, one told after its withdrawal, one whose call was given up.
DialogsRest ==
  []<>(\A r \in Requests :
         /\ handler[r] \in {"no", "over"}
         /\ r \in Elements(pending)
              => \/ r \in expired \cup overtaken \/ SessionOf[r] # gen
                 \/ modern /\ r \in cancelled)
=============================================================================
