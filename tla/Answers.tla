-------------------------------- MODULE Answers -------------------------------
(***************************************************************************)
(* What a person asks of one server, the stream its changes come on and    *)
(* the list of calls, one beside the other: a run is of one part, chosen   *)
(* at first, and the variables of the others stay as they begin.           *)
(***************************************************************************)
EXTENDS Calls

CONSTANTS
  Callers, Uris, Lists, Buffered, NoChange,  \* Listener's
  Made, Agents, Before, Limit, AgentLimit, Waiters, MaxRemovals, NoCall  \* History's

\* A list's notification is no resource's; calls are few, and the list takes one.
ASSUME AnswersAssumption ==
  /\ Lists \notin Uris
  /\ IsFiniteSet(Made) /\ Before \subseteq Made /\ NoCall \notin Made
  /\ Limit \in Nat \ {0}

VARIABLES
  part,
  \* Listener
  what, answer, queue, lists, uris, applied, latest, place, asked, accepted, arriving, cancelled,
  \* History
  rows, at, history, load, read, found, waiter, record, replayed, refused, delete, clear,
  removal, noticed

L == INSTANCE Listener WITH None <- NoChange, waiting <- applied
H == INSTANCE History WITH Calls <- Made, None <- NoCall, told <- noticed

ofListener == <<what, answer, queue, lists, uris, applied, latest, place, asked, accepted,
                arriving, cancelled>>
ofHistory == <<rows, at, history, load, read, found, waiter, record, replayed, refused,
               delete, clear, removal, noticed>>
all == <<part, vars, ofListener, ofHistory>>

\* The choice listener has of its initial state is made in its runs alone.
AnswersInit ==
  /\ part \in {"calls", "listener", "history"}
  /\ Init /\ L!Init /\ H!Init
  /\ part # "listener" => lists

CallsStep(A) == part = "calls" /\ A /\ UNCHANGED <<part, ofListener, ofHistory>>
ListenerStep(A) == part = "listener" /\ A /\ UNCHANGED <<part, vars, ofHistory>>
HistoryStep(A) == part = "history" /\ A /\ UNCHANGED <<part, vars, ofListener>>

AnswersNext == CallsStep(Next) \/ ListenerStep(L!Next) \/ HistoryStep(H!Next)

\* Each part is as fair as its module says; as a run is of one part, that one
\* of these steps is taken says it of that part.
AnswersProgram ==
  CallsStep(Program) \/ ListenerStep(L!Progress) \/ HistoryStep(H!ReadProgress)

AnswersSpec ==
  /\ AnswersInit /\ [][AnswersNext]_all
  /\ WF_all(AnswersProgram) /\ SF_all(ListenerStep(L!Interrupted))

\* What each part keeps, in its own runs (it holds of what the others leave as
\* it begins).
ListenerSound == part = "listener" => L!ListenerSound
CallersFreed == L!CallersFreed
ListSound == part = "history" => H!ListSound
NoneLost == part = "history" => H!NoneLost
WaitersFreed == H!WaitersFreed
=============================================================================
