-------------------------------- MODULE Flag --------------------------------
(***************************************************************************)
(* A remembered choice of the window (the theme, or whether lists show     *)
(* display names): changed on the UI thread, written by jobs on a pool     *)
(* that run in any order and report back in any order.                     *)
(*                                                                         *)
(* Source: apps/desktop/src/state.rs save_flag, with in_background of      *)
(* persistence.rs.  Writes alike are told apart by nothing, so they are    *)
(* counted by the value they write and how far they have come.             *)
(***************************************************************************)
EXTENDS Naturals, FiniteSets

CONSTANTS
  Choices,      \* the values of the flag
  First,        \* the one stored when the program starts
  MaxJobs       \* bound: writes not reported back when the user chooses again

ASSUME FlagAssumption == First \in Choices /\ MaxJobs \in Nat \ {0}

VARIABLES
  flag,         \* the choice shown
  stored,       \* the row of the settings table
  queued,       \* writes the pool has not run
  written,      \* writes run and not reported
  failed,       \* writes that failed and are not reported
  told          \* persistence: the user is told that a write failed

vars == <<flag, stored, queued, written, failed, told>>

Counts == [Choices -> Nat]
TypeOK ==
  /\ flag \in Choices /\ stored \in Choices
  /\ queued \in Counts /\ written \in Counts /\ failed \in Counts
  /\ told \in BOOLEAN

None == [c \in Choices |-> 0]

Init ==
  /\ flag = First /\ stored = First
  /\ queued = None /\ written = None /\ failed = None
  /\ told = FALSE

More(jobs, c) == [jobs EXCEPT ![c] = @ + 1]
Fewer(jobs, c) == [jobs EXCEPT ![c] = @ - 1]
Some(jobs) == \E c \in Choices : jobs[c] > 0

\* Few are out when the user chooses.
WithinBound ==
  \A c \in Choices : queued[c] + written[c] + failed[c] < MaxJobs

\* set_dark, set_display_names: the choice shows at once and is saved.
Choose(c) ==
  /\ WithinBound
  /\ flag' = c
  /\ queued' = More(queued, c)
  /\ UNCHANGED <<stored, written, failed, told>>

\* The pool runs one write, any of those queued.
Write(c) ==
  /\ queued[c] > 0
  /\ queued' = Fewer(queued, c)
  /\ stored' = c
  /\ written' = More(written, c)
  /\ UNCHANGED <<flag, failed, told>>

WriteFails(c) ==
  /\ queued[c] > 0
  /\ queued' = Fewer(queued, c)
  /\ failed' = More(failed, c)
  /\ UNCHANGED <<flag, stored, written, told>>

\* Mutants of SavedAgain: every write is followed by another; none is.
SavedAgainAlways(c) == queued' = More(queued, flag)
SavedOnce(c) == UNCHANGED queued

\* A choice made since is written again, so that the last one wins.
SavedAgain(c) == queued' = IF flag # c THEN More(queued, flag) ELSE queued

\* The write reports back on the UI thread.
Done(c) ==
  /\ written[c] > 0
  /\ written' = Fewer(written, c)
  /\ SavedAgain(c)
  /\ UNCHANGED <<flag, stored, failed, told>>

\* A failed one is told, and not tried again.
DoneFailed(c) ==
  /\ failed[c] > 0
  /\ failed' = Fewer(failed, c)
  /\ told' = TRUE
  /\ UNCHANGED <<flag, stored, queued, written>>

Jobs(c) == Write(c) \/ WriteFails(c) \/ Done(c) \/ DoneFailed(c)

Next == \E c \in Choices : Choose(c) \/ Jobs(c)

\* Jobs run and report; the user need not choose.
Spec ==
  /\ Init /\ [][Next]_vars
  /\ \A c \in Choices : /\ WF_vars(Write(c) \/ WriteFails(c))
                        /\ WF_vars(Done(c)) /\ WF_vars(DoneFailed(c))

-----------------------------------------------------------------------------
(* Properties.                                                             *)

\* The last choice wins however the writes overtake each other: with nothing
\* out, what is stored is what is shown, unless the user was told of a failed
\* write (save_flag).
LastChoiceWins ==
  ~Some(queued) /\ ~Some(written) /\ ~Some(failed) => stored = flag \/ told

\* Writing again comes to an end: once the user stops choosing, nothing is
\* left to write.
SavingEnds == <>[][~\E c \in Choices : Choose(c)]_vars => <>[](~Some(queued) /\ ~Some(written))

\* Why the last choice wins: what is stored and not shown is either about to
\* be found out by the write that stored it, or about to be written over by
\* one of the choice shown, or a write has failed.
Converging ==
  \/ stored = flag \/ told \/ Some(failed)
  \/ written[stored] > 0
  \/ queued[flag] > 0
=============================================================================
