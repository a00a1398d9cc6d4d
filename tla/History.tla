------------------------------- MODULE History -------------------------------
(***************************************************************************)
(* The desktop app's History of one server: the list on screen, the rows   *)
(* of the calls table, and the jobs between them.  The UI thread starts a  *)
(* job, a pool runs it, its result comes back to the UI thread: jobs run   *)
(* in any order and report in any order.                                   *)
(*                                                                         *)
(* Source: apps/desktop/src/state.rs (read_history, finish_history_load,   *)
(* history_ready, push_history, delete_call, clear_history, finish_delete),*)
(* calls.rs and gateway.rs (recording a call), persistence.rs              *)
(* (in_background, merge_history), crates/mcp-store/src/store.rs (calls).  *)
(*                                                                         *)
(* Left out: what a call holds, the selection and the response pane.       *)
(***************************************************************************)
EXTENDS Naturals, Sequences, FiniteSets, Sift

CONSTANTS
  Calls,       \* calls, each made once
  Agents,      \* those agents make through the gateway
  Before,      \* those recorded before the program started
  Limit,       \* MAX_HISTORY: rows listed, one at least
  AgentLimit,  \* MAX_AGENT_CALLS: rows kept of agents' calls, one at least
  Waiters,     \* exports waiting for the list
  MaxRemovals, \* bound: calls, the history and the server deleted, in all
  None         \* no call

VARIABLES
  rows,        \* the calls table
  at,          \* when each call was recorded: its number, 0 until it is
  history,     \* ServerEntry::history, newest first
  load,        \* ServerEntry::history_load
  read,        \* where the job reading the stored calls is
  found,       \* what it read
  waiter,      \* ServerEntry::history_waiters
  record,      \* where the job recording each call is
  replayed,    \* the listed call a request was sent again from, if one
  refused,     \* requests whose answer the response pane no longer wants
  delete,      \* where the job deleting each call is
  clear,       \* where the job clearing the history is
  removal,     \* where the job deleting the server is
  told         \* a failure was shown

vars == <<rows, at, history, load, read, found, waiter, record, replayed,
          refused, delete, clear, removal, told>>

listing == <<history, load, waiter>>
reading == <<read, found>>
calling == <<record, replayed, refused>>

Job == {"no", "queued", "ran", "failed", "done"}
Elements(s) == {s[i] : i \in DOMAIN s}

TypeOK ==
  /\ rows \subseteq Calls
  /\ at \in [Calls -> 0..Cardinality(Calls)]
  /\ history \in Seq(Calls) /\ Len(history) <= Limit
  /\ load \in {"unread", "loading", "read"}
  /\ read \in Job /\ clear \in Job /\ removal \in Job
  /\ found \in Seq(Calls)
  /\ waiter \in [Waiters -> {"no", "waiting", "resolved", "dropped"}]
  /\ record \in [Calls -> Job] /\ delete \in [Calls -> Job]
  /\ replayed \in [Calls -> Calls \cup {None}]
  /\ refused \subseteq Calls /\ told \in BOOLEAN

\* The calls of S, newest first.
NewestFirst(S, when) ==
  LET times == {when[c] : c \in S}
  IN  [n \in 1..Cardinality(S) |-> CHOOSE c \in S : when[c] = Falling(times)[n]]

Truncated(s) == SubSeq(s, 1, IF Len(s) <= Limit THEN Len(s) ELSE Limit)
Without(s, c) == Sift(s, Calls \ {c})

\* AppState::load: the servers are read, their calls are not yet.
Init ==
  /\ rows = Before
  /\ at \in {f \in [Calls -> 0..Cardinality(Before)] :
               /\ \A c \in Calls : f[c] = 0 <=> c \notin Before
               /\ \A c, d \in Before : f[c] = f[d] => c = d}
  /\ history = <<>> /\ load = "unread"
  /\ read = "no" /\ found = <<>>
  /\ waiter = [w \in Waiters |-> "no"]
  /\ record = [c \in Calls |-> IF c \in Before THEN "done" ELSE "no"]
  /\ replayed = [c \in Calls |-> None] /\ refused = {}
  /\ delete = [c \in Calls |-> "no"] /\ clear = "no" /\ removal = "no"
  /\ told = FALSE

\* The server is in the sidebar, and its row in the database.
Shown == removal # "done"
Saved == removal \in {"no", "queued", "failed"}

-----------------------------------------------------------------------------
(* Reading the stored calls, once.                                         *)

\* read_history
Reading == IF load = "unread" THEN load' = "loading" /\ read' = "queued"
                              ELSE UNCHANGED <<load, read>>

\* show_history
ShowHistory ==
  /\ Shown /\ load = "unread"
  /\ Reading
  /\ UNCHANGED <<rows, at, history, found, waiter, calling, delete, clear, removal, told>>

\* history_ready, for an export.
HistoryReady(w) ==
  /\ Shown /\ waiter[w] = "no"
  /\ waiter' = [waiter EXCEPT ![w] = IF load = "read" THEN "resolved" ELSE "waiting"]
  /\ Reading
  /\ UNCHANGED <<rows, at, history, found, calling, delete, clear, removal, told>>

ReadRuns ==
  /\ read = "queued"
  /\ read' = "ran"
  /\ found' = Truncated(NewestFirst(rows, at))
  /\ UNCHANGED <<rows, at, listing, calling, delete, clear, removal, told>>

ReadFails ==
  /\ read = "queued"
  /\ read' = "failed"
  /\ UNCHANGED <<rows, at, listing, found, calling, delete, clear, removal, told>>

Resolved == [w \in Waiters |-> IF waiter[w] = "waiting" THEN "resolved" ELSE waiter[w]]

\* Mutant of Merged: what was recorded meanwhile is lost.
MergedOver(session, stored) == stored

\* merge_history
Merged(session, stored) ==
  Truncated(NewestFirst(Elements(session) \cup Elements(stored), at))

\* Mutant of ReadDone: a read that failed leaves the waiters.
ReadDoneLeaving ==
  /\ read \in {"ran", "failed"} /\ read' = "done"
  /\ IF ~Shown THEN UNCHANGED <<listing, told>>
     ELSE /\ load' = "read"
          /\ IF read = "ran"
               THEN /\ history' = Merged(history, found)
                    /\ waiter' = Resolved /\ UNCHANGED told
               ELSE told' = TRUE /\ UNCHANGED <<history, waiter>>
  /\ UNCHANGED <<rows, at, found, calling, delete, clear, removal>>

\* finish_history_load: a failed read is told, and not tried again.
ReadDone ==
  /\ read \in {"ran", "failed"} /\ read' = "done"
  /\ IF ~Shown THEN UNCHANGED <<listing, told>>
     ELSE /\ load' = "read"
          /\ waiter' = Resolved
          /\ IF read = "ran" THEN history' = Merged(history, found) /\ UNCHANGED told
                             ELSE told' = TRUE /\ UNCHANGED history
  /\ UNCHANGED <<rows, at, found, calling, delete, clear, removal>>

-----------------------------------------------------------------------------
(* Recording a call that was answered.                                     *)

\* Requests being recorded that were sent again from one of S.
ReplaysOf(S) == {c \in Calls : record[c] \in {"queued", "ran", "failed"} /\ replayed[c] \in S}

\* A call of Coco's own may be a listed one sent again, one at a time.
Answered(c, from) ==
  /\ Shown /\ record[c] = "no"
  /\ from = None \/ /\ from \in Elements(history) /\ c \notin Agents
                     /\ ReplaysOf({from}) = {}
  /\ record' = [record EXCEPT ![c] = "queued"]
  /\ replayed' = [replayed EXCEPT ![c] = from]
  /\ UNCHANGED <<rows, at, listing, reading, refused, delete, clear, removal, told>>

\* prune_agent_calls, in the same job: of agents' rows the newest stay.
Pruned(table, when) ==
  {c \in table : c \in Agents =>
     Cardinality({d \in table \cap Agents : when[d] > when[c]}) < AgentLimit}

\* record_call; a server's row gone, its calls cannot be inserted.
RecordRuns(c) ==
  /\ record[c] = "queued" /\ Saved
  /\ at' = [at EXCEPT ![c] = 1 + Cardinality({d \in Calls : at[d] > 0})]
  /\ rows' = IF c \in Agents THEN Pruned(rows \cup {c}, at') ELSE rows \cup {c}
  /\ record' = [record EXCEPT ![c] = "ran"]
  /\ UNCHANGED <<listing, reading, replayed, refused, delete, clear, removal, told>>

RecordFails(c) ==
  /\ record[c] = "queued"
  /\ record' = [record EXCEPT ![c] = "failed"]
  /\ UNCHANGED <<rows, at, listing, reading, replayed, refused, delete, clear, removal, told>>

\* push_call: at the top, unless it is listed.
Pushed(c) == IF c \in Elements(history) THEN history ELSE Truncated(<<c>> \o history)

\* The result reaches the UI thread: an answer the response pane no longer
\* wants lists nothing.
RecordDone(c) ==
  /\ record[c] \in {"ran", "failed"}
  /\ record' = [record EXCEPT ![c] = "done"]
  /\ history' = IF record[c] = "ran" /\ Shown /\ c \notin refused THEN Pushed(c) ELSE history
  /\ told' = (told \/ (record[c] = "failed" /\ c \notin refused /\ (Shown \/ c \in Agents)))
  /\ UNCHANGED <<rows, at, load, reading, waiter, replayed, refused, delete, clear, removal>>

-----------------------------------------------------------------------------
(* Deleting a call, the history, the server: the rows first, then the list.*)

\* Few are asked for (a failed delete of the server may be asked for again).
WithinBound ==
  Cardinality({c \in Calls : delete[c] # "no"}) + (IF clear # "no" THEN 1 ELSE 0)
    + (IF removal # "no" THEN 1 ELSE 0) < MaxRemovals

DeleteCall(c) ==
  /\ WithinBound
  /\ Shown /\ c \in Elements(history) /\ delete[c] = "no"
  /\ delete' = [delete EXCEPT ![c] = "queued"]
  /\ UNCHANGED <<rows, at, listing, reading, calling, clear, removal, told>>

DeleteRuns(c) ==
  /\ delete[c] = "queued"
  /\ \/ delete' = [delete EXCEPT ![c] = "ran"] /\ rows' = rows \ {c}
     \/ delete' = [delete EXCEPT ![c] = "failed"] /\ UNCHANGED rows
  /\ UNCHANGED <<at, listing, reading, calling, clear, removal, told>>

DeleteDone(c) ==
  /\ delete[c] \in {"ran", "failed"}
  /\ delete' = [delete EXCEPT ![c] = "done"]
  /\ IF Shown /\ delete[c] = "ran"
       THEN /\ history' = Without(history, c)
            /\ refused' = refused \cup ReplaysOf({c})
       ELSE UNCHANGED <<history, refused>>
  /\ told' = (told \/ (Shown /\ delete[c] = "failed"))
  /\ UNCHANGED <<rows, at, load, reading, waiter, record, replayed, clear, removal>>

ClearHistory ==
  /\ WithinBound
  /\ Shown /\ clear = "no" /\ clear' = "queued"
  /\ UNCHANGED <<rows, at, listing, reading, calling, delete, removal, told>>

ClearRuns ==
  /\ clear = "queued"
  /\ \/ clear' = "ran" /\ rows' = {}
     \/ clear' = "failed" /\ UNCHANGED rows
  /\ UNCHANGED <<at, listing, reading, calling, delete, removal, told>>

\* Mutant of ClearDone: those waiting for the list are left to the read.
ClearDoneLeaving ==
  /\ clear \in {"ran", "failed"} /\ clear' = "done"
  /\ IF Shown /\ clear = "ran"
       THEN /\ history' = <<>> /\ load' = "read" /\ UNCHANGED waiter
            /\ refused' = refused \cup ReplaysOf(Calls)
       ELSE UNCHANGED <<listing, refused>>
  /\ told' = (told \/ (Shown /\ clear = "failed"))
  /\ UNCHANGED <<rows, at, reading, record, replayed, delete, removal>>

\* The list counts as read: there is nothing left to read.
ClearDone ==
  /\ clear \in {"ran", "failed"} /\ clear' = "done"
  /\ IF Shown /\ clear = "ran"
       THEN /\ history' = <<>> /\ load' = "read" /\ waiter' = Resolved
            /\ refused' = refused \cup ReplaysOf(Calls)
       ELSE UNCHANGED <<listing, refused>>
  /\ told' = (told \/ (Shown /\ clear = "failed"))
  /\ UNCHANGED <<rows, at, reading, record, replayed, delete, removal>>

DeleteServer ==
  /\ WithinBound
  /\ removal = "no" /\ removal' = "queued"
  /\ UNCHANGED <<rows, at, listing, reading, calling, delete, clear, told>>

\* The row takes its calls' rows with it.
ServerRuns ==
  /\ removal = "queued"
  /\ \/ removal' = "ran" /\ rows' = {}
     \/ removal' = "failed" /\ UNCHANGED rows
  /\ UNCHANGED <<at, listing, reading, calling, delete, clear, told>>

\* Dropping the entry drops what waits on it.
Orphaned == [w \in Waiters |-> IF waiter[w] = "waiting" THEN "dropped" ELSE waiter[w]]

\* finish_delete; a failed one is told and may be asked for again (deleting a
\* call or clearing is asked for once here, which bounds the model).
ServerDone ==
  /\ removal \in {"ran", "failed"}
  /\ removal' = IF removal = "ran" THEN "done" ELSE "no"
  /\ IF removal = "ran"
       THEN /\ history' = <<>> /\ waiter' = Orphaned
            /\ refused' = refused \cup {c \in Calls \ Agents : record[c] \in {"queued", "ran", "failed"}}
            /\ UNCHANGED told
       ELSE told' = TRUE /\ UNCHANGED <<history, waiter, refused>>
  /\ UNCHANGED <<rows, at, load, reading, record, replayed, delete, clear>>

-----------------------------------------------------------------------------
Jobs(c) == RecordRuns(c) \/ RecordFails(c) \/ RecordDone(c) \/ DeleteRuns(c) \/ DeleteDone(c)
TheJobs == \/ ReadRuns \/ ReadFails \/ ReadDone \/ ClearRuns \/ ClearDone
           \/ ServerRuns \/ ServerDone

Next ==
  \/ ShowHistory \/ \E w \in Waiters : HistoryReady(w)
  \/ \E c \in Calls : DeleteCall(c) \/ Jobs(c) \/ \E d \in Calls \cup {None} : Answered(c, d)
  \/ ClearHistory \/ DeleteServer \/ TheJobs

\* Jobs run and report; nobody has to look, call or delete.
ReadProgress == ReadRuns \/ ReadFails \/ ReadDone

Spec == Init /\ [][Next]_vars /\ WF_vars(ReadProgress)

-----------------------------------------------------------------------------
(* Properties.                                                             *)

\* A call recorded while the stored calls are read is in both, and listed
\* once (push_call, merge_history).
ListedOnce == Len(history) = Cardinality(Elements(history))

Out(job) == job \in {"queued", "ran", "failed"}

\* Nothing is on its way between the list and the table.
Quiet ==
  /\ ~Out(read) /\ ~Out(clear) /\ ~Out(removal)
  /\ \A c \in Calls : ~Out(record[c]) /\ ~Out(delete[c])

\* While anyone waits for the list the read that will bring it is out.
WaitersHaveRead ==
  \A w \in Waiters : waiter[w] = "waiting" => load = "loading" /\ Out(read)

\* The list and those who wait for it, as the parts above say.
ListSound == TypeOK /\ ListedOnce /\ WaitersHaveRead

\* No call is lost to reading, recording and deleting in any order: with the
\* jobs done every row is listed, unless a read failed, the history was
\* cleared, there were more than the list takes, or the call was one sent
\* again from a row deleted before its record came back.
NoneLost ==
  Quiet /\ Shown /\ load = "read" /\ ~told /\ clear = "no"
    /\ Cardinality({c \in Calls : at[c] > 0}) <= Limit
  => \A c \in rows : c \in Elements(history) \/ (c \in refused /\ replayed[c] # None)

\* An export waiting for the list gets it or learns that the server is gone,
\* if the read fails or the history is cleared meanwhile too.  (Each waits
\* once, so it is enough to say it of infinitely many states.)
WaitersFreed == []<>(\A w \in Waiters : waiter[w] # "waiting")
=============================================================================
