--------------------------------- MODULE Jobs ---------------------------------
(***************************************************************************)
(* Parts of the window that jobs, servers and the person it is of change   *)
(* together, one beside the other: a run is of one part, chosen at first,  *)
(* and the variables of the others stay as they begin.                     *)
(***************************************************************************)
EXTENDS Flag, Sift

CONSTANTS
  Requests, SessionOf, IdOf, KeyOf, Nobody,  \* Dialogs'
  Tools, Calls, Matching                     \* Rows'

\* Requests are of the first session or the one after it, and those a server
\* sends have ids of their own in it.  Names of tools and calls are numbers from
\* 1, and few.
ASSUME JobsAssumption ==
  /\ SessionOf \in [Requests -> {1, 2}]
  /\ \A q, r \in Requests : SessionOf[q] = SessionOf[r] /\ IdOf[q] = IdOf[r] => q = r
  /\ Nobody \notin Requests
  /\ Tools \subseteq Nat \ {0} /\ IsFiniteSet(Tools)
  /\ Calls \subseteq Nat \ {0} /\ IsFiniteSet(Calls)
  /\ Matching \subseteq Tools \cup Calls

VARIABLES
  part,
  \* Dialogs
  modern, handler, slot, reply, cancelled, notice, gen, deleted, queue, pending, form, given,
  expired, overtaken,
  \* Rows
  mode, tools, history, load, filter, selected, deleting, clearing, recorded, meant, shifted

D == INSTANCE Dialogs WITH None <- Nobody
R == INSTANCE Rows

ofDialogs == <<modern, handler, slot, reply, cancelled, notice, gen, deleted, queue, pending,
               form, given, expired, overtaken>>
ofRows == <<mode, tools, history, load, filter, selected, deleting, clearing, recorded,
            meant, shifted>>
all == <<part, vars, ofDialogs, ofRows>>

\* The choices a part has of its initial state are made in its runs alone.
JobsInit ==
  /\ part \in {"flag", "dialogs", "rows"}
  /\ Init /\ D!Init /\ R!Init
  /\ part # "dialogs" => modern
  /\ part # "rows" => tools = <<>>

FlagStep(P) == part = "flag" /\ P /\ UNCHANGED <<part, ofDialogs, ofRows>>
DialogsStep(P) == part = "dialogs" /\ P /\ UNCHANGED <<part, vars, ofRows>>
RowsStep(P) == part = "rows" /\ P /\ UNCHANGED <<part, vars, ofDialogs>>

JobsNext == FlagStep(Next) \/ DialogsStep(D!Next) \/ RowsStep(R!Next)

\* Each part is as fair as its module says, the last not at all; as a run is
\* of one part, that one of these steps is taken says it of that part.
JobsProgram == FlagStep(\E c \in Choices : Jobs(c)) \/ DialogsStep(D!Program)

JobsSpec == JobsInit /\ [][JobsNext]_all /\ WF_all(JobsProgram)

\* What each part keeps, in its own runs (it holds of what the others leave as
\* it begins).
DialogsSound == part = "dialogs" => D!DialogsSound
DialogsRest == D!DialogsRest
RowStays == part = "rows" => R!RowStays
=============================================================================
