------------------------------ MODULE Listener ------------------------------
(***************************************************************************)
(* The subscriptions/listen stream of a 2026-07-28 session: one task keeps *)
(* a stream open for the lists the server announces and the resources      *)
(* subscribed to.  Subscribing and unsubscribing hand the task a change    *)
(* and wait; the task opens the stream again with the new set and answers. *)
(*                                                                         *)
(* Source: crates/mcp-core/src/listen.rs.  A step is a stretch of the task *)
(* between two waits.  External: the server, which may accept any part of  *)
(* what it is asked for, refuse, close or break the stream, or never       *)
(* answer; rmcp, which gives the task the messages of its own stream only. *)
(*                                                                         *)
(* Left out: how long a pause is (its doubling changes no order), the log  *)
(* notes, and a caller that stops waiting (its reply is then thrown away). *)
(***************************************************************************)
EXTENDS Naturals, Sequences, FiniteSets

CONSTANTS
  Callers,     \* calls of subscribe and unsubscribe, each made once
  Uris,        \* resources
  Lists,       \* a list-changed notification, which is no resource
  Buffered,    \* bound: notifications of a stream the task has not read, one at least
  None         \* no caller

VARIABLES
  what,        \* the change each call asks for
  answer,      \* what each call was told
  queue,       \* changes: calls the task has not taken
  lists,       \* the server announces list changes
  uris,        \* run's uris: the resources to listen for
  waiting,     \* run's waiting: changes applied and not answered
  latest,      \* history: the change of each resource applied last
  place,       \* where the task is
  asked,       \* the resources the stream was opened for
  accepted,    \* those of them the server acknowledged
  arriving,    \* notifications on the stream the task has not read
  cancelled    \* the session's token

vars == <<what, answer, queue, lists, uris, waiting, latest, place, asked,
          accepted, arriving, cancelled>>

calls   == <<what, answer, queue>>
wanted  == <<lists, uris, waiting, latest>>
stream  == <<asked, accepted, arriving>>

Ops == {"subscribe", "unsubscribe"}
Changes == [op : Ops, uri : Uris]
Elements(s) == {s[i] : i \in DOMAIN s}

TypeOK ==
  /\ what \in [Callers -> Changes \cup {None}]
  /\ answer \in [Callers -> {"none", "waiting", "ok", "refused", "closed"}]
  /\ queue \in Seq(Callers)
  /\ lists \in BOOLEAN /\ cancelled \in BOOLEAN
  /\ uris \subseteq Uris
  /\ waiting \in Seq(Callers) /\ Len(waiting) <= 1
  /\ latest \in [Uris -> Callers \cup {None}]
  /\ place \in {"top", "opening", "reading", "pausing", "idle", "over"}
  /\ asked \subseteq Uris /\ accepted \subseteq asked
  /\ arriving \in Seq(Uris \cup {Lists})

\* Listener::spawn.
Init ==
  /\ what = [c \in Callers |-> None]
  /\ answer = [c \in Callers |-> "none"]
  /\ queue = <<>>
  /\ lists \in BOOLEAN
  /\ uris = {} /\ waiting = <<>> /\ latest = [u \in Uris |-> None]
  /\ place = "top"
  /\ asked = {} /\ accepted = {} /\ arriving = <<>>
  /\ cancelled = FALSE

-----------------------------------------------------------------------------
(* The callers and the session.                                            *)

\* Listener::change: a task that is gone takes nothing.
Call(c, change) ==
  /\ answer[c] = "none"
  /\ what' = [what EXCEPT ![c] = change]
  /\ IF place = "over"
       THEN answer' = [answer EXCEPT ![c] = "closed"] /\ UNCHANGED queue
       ELSE answer' = [answer EXCEPT ![c] = "waiting"] /\ queue' = Append(queue, c)
  /\ UNCHANGED <<wanted, stream, place, cancelled>>

SessionEnds ==
  /\ ~cancelled
  /\ cancelled' = TRUE
  /\ UNCHANGED <<calls, wanted, stream, place>>

\* Drop for Listener, with the last handle of the session, so no call is out
\* and none will be.
DropAborts ==
  /\ place # "over" /\ \A c \in Callers : answer[c] \notin {"none", "waiting"}
  /\ place' = "over" /\ cancelled' = TRUE
  /\ UNCHANGED <<calls, wanted, stream>>

-----------------------------------------------------------------------------
(* The task.                                                               *)

Subscribes(c) == what[c].op = "subscribe"

\* Mutant of Forgotten: a refused subscription stays in the set.
ForgottenNone(refused) == {}

\* settle and settle_accepted: a refused subscription is forgotten.
Forgotten(refused) == {what[c].uri : c \in refused}

\* Every change waiting is answered, those in `refused` with an error.
Settled(refused) ==
  /\ answer' = [c \in Callers |-> IF c \in refused THEN "refused"
                                  ELSE IF c \in Elements(waiting) THEN "ok"
                                  ELSE answer[c]]
  /\ uris' = uris \ Forgotten(refused)
  /\ waiting' = <<>>

\* Nothing to listen for: no stream.
OpenNothing ==
  /\ place = "top" /\ uris = {} /\ ~lists
  /\ Settled({})
  /\ place' = "idle"
  /\ UNCHANGED <<what, queue, lists, latest, stream, cancelled>>

Open ==
  /\ place = "top" /\ (uris # {} \/ lists)
  /\ asked' = uris /\ accepted' = {}
  /\ place' = "opening"
  /\ UNCHANGED <<calls, wanted, arriving, cancelled>>

\* The server refuses the stream: a subscription waiting on it fails.
OpenFails ==
  /\ place = "opening"
  /\ Settled({c \in Elements(waiting) : Subscribes(c)})
  /\ place' = "pausing"
  /\ UNCHANGED <<what, queue, lists, latest, stream, cancelled>>

\* The server acknowledges a part of the filter: a subscription it left out
\* is refused.  One it had accepted before and leaves out now is only noted.
Opened(kept) ==
  /\ place = "opening"
  /\ accepted' = kept
  /\ Settled({c \in Elements(waiting) : Subscribes(c) /\ what[c].uri \notin kept})
  /\ place' = "reading"
  /\ UNCHANGED <<what, queue, lists, latest, asked, arriving, cancelled>>

ServerSays(m) ==
  /\ place = "reading" /\ Len(arriving) < Buffered
  /\ m \in accepted \/ (m = Lists /\ lists)
  /\ arriving' = Append(arriving, m)
  /\ UNCHANGED <<calls, wanted, asked, accepted, place, cancelled>>

\* A notification becomes an event.
StreamReads ==
  /\ place = "reading" /\ arriving # <<>>
  /\ arriving' = Tail(arriving)
  /\ UNCHANGED <<calls, wanted, asked, accepted, place, cancelled>>

\* Mutant of Left: the old stream is neither cancelled nor dropped.
LeftOpen == UNCHANGED arriving

\* drop(stream): what it still held is never read.
Left == arriving' = <<>>

\* The server closed the stream, all it sent having been read.
StreamCloses ==
  /\ place = "reading" /\ arriving = <<>>
  /\ place' = "idle"
  /\ UNCHANGED <<calls, wanted, stream, cancelled>>

\* It ended abruptly, or failed.
StreamBreaks ==
  /\ place = "reading"
  /\ place' = "pausing"
  /\ Left
  /\ UNCHANGED <<calls, wanted, asked, accepted, cancelled>>

PauseEnds ==
  /\ place = "pausing"
  /\ place' = "top"
  /\ UNCHANGED <<calls, wanted, stream, cancelled>>

\* apply.
Applied(c) ==
  LET u == what[c].uri IN
  /\ uris' = IF Subscribes(c) THEN uris \cup {u} ELSE uris \ {u}
  /\ waiting' = Append(waiting, c)
  /\ latest' = [latest EXCEPT ![u] = c]

\* A change: the stream there is is cancelled and left, and opened again.
TakeChange ==
  /\ place \in {"reading", "pausing", "idle"} /\ queue # <<>>
  /\ queue' = Tail(queue)
  /\ Applied(Head(queue))
  /\ Left
  /\ place' = "top"
  /\ UNCHANGED <<what, answer, lists, asked, accepted, cancelled>>

\* Mutant of Cancellable: opening a stream is not given up.
CancellableOpen == place \in {"reading", "pausing", "idle"}

\* The waits that watch the session's token.
Cancellable == place \in {"opening", "reading", "pausing", "idle"}

\* The task returns; the replies it held, and the queue, go with it.
Stops ==
  /\ Cancellable /\ cancelled
  /\ place' = "over"
  /\ answer' = [c \in Callers |-> IF answer[c] = "waiting" THEN "closed" ELSE answer[c]]
  /\ queue' = <<>> /\ waiting' = <<>>
  /\ Left
  /\ UNCHANGED <<what, lists, uris, latest, asked, accepted, cancelled>>

-----------------------------------------------------------------------------
Next ==
  \/ \E c \in Callers, change \in Changes : Call(c, change)
  \/ SessionEnds \/ DropAborts
  \/ OpenNothing \/ Open \/ OpenFails \/ \E kept \in SUBSET asked : Opened(kept)
  \/ \E m \in Uris \cup {Lists} : ServerSays(m)
  \/ StreamReads \/ StreamCloses \/ StreamBreaks \/ PauseEnds
  \/ TakeChange \/ Stops

\* The task goes on by itself at the head of its loop and at the end of a
\* pause.  select! polls its branches in random order, so a change or the
\* token is not passed over for ever by a stream with more to read or a pause
\* just over.  The server need not answer, say or close anything.
Progress == OpenNothing \/ Open \/ StreamReads \/ PauseEnds
Interrupted == TakeChange \/ Stops

Spec == Init /\ [][Next]_vars /\ WF_vars(Progress) /\ SF_vars(Interrupted)

-----------------------------------------------------------------------------
(* Properties.                                                             *)

\* The set listened for agrees with what the callers were last told: through
\* reopened, refused and broken streams, a resource stays in it when the last
\* change of it was a subscription answered Ok, and is out of it when that was
\* refused or was an unsubscription (uris, settle, settle_accepted).
AnswersHold ==
  place # "over" =>
    \A u \in Uris : latest[u] # None =>
      LET c == latest[u] IN
      CASE answer[c] = "ok"      -> u \in uris <=> Subscribes(c)
        [] answer[c] = "refused" -> u \notin uris
        [] OTHER                 -> c \in Elements(waiting)

\* While a stream is read every change has been answered and everything to
\* listen for was asked of the server on that very stream (run).
StreamAsksAll == place = "reading" => waiting = <<>> /\ uris \subseteq asked

\* Once an unsubscription is answered Ok no notification of the resource is
\* left to be reported, though the server went on sending until it saw the
\* old stream cancelled (stream.cancel, drop(stream)).
QuietAfterUnsubscribe ==
  \A u \in Uris : latest[u] # None =>
    (answer[latest[u]] = "ok" /\ ~Subscribes(latest[u]) => u \notin Elements(arriving))

\* The stream bears what is asked for and no more: as its parts say.
StreamSound == TypeOK /\ StreamAsksAll /\ QuietAfterUnsubscribe

\* What the callers were told is so.
ListenerSound == AnswersHold /\ StreamSound

\* No caller waits for ever: with a server that answers each stream asked of it
\* one way or the other every change is answered, and the end of the session
\* frees every caller of a silent server too, which nothing else does
\* (peer.listen has no time limit).
CallersFreed ==
  []<>(place # "opening" \/ cancelled) => []<>(\A c \in Callers : answer[c] # "waiting")
=============================================================================
