--------------------------------- MODULE Rows ---------------------------------
(***************************************************************************)
(* The rows of the window's middle list and which of them is selected.     *)
(* The selection is an index into the filtered rows, while what a person   *)
(* chose is a name: whatever moves the rows should move the index with     *)
(* them.  Two lists of one server: its tools, in the order the server      *)
(* gives them, and its recorded calls, the newest first.                   *)
(*                                                                         *)
(* Source: apps/desktop/src/state.rs (items, select_item, move_item,       *)
(* set_mode, set_filter, select_server, delete_call, clear_history,        *)
(* push_history, finish_history_load, relist, and connect's snapshot),     *)
(* persistence.rs (merge_history).  That no call is lost or listed twice   *)
(* is History's, and so is the limit of the list, which may push the row   *)
(* selected out of it.                                                     *)
(***************************************************************************)
EXTENDS Naturals, Sequences, FiniteSets, Sift

CONSTANTS
  Tools,    \* the names of tools, numbers other than the calls', from 1
  Calls,    \* recorded calls, numbered as they were made
  Matching  \* tools and calls the other filter text matches

VARIABLES
  mode,      \* Mode::Tools or Mode::History
  tools,     \* Snapshot::tools
  history,   \* ServerEntry::history
  load,      \* ServerEntry::history_load; overtaken: read, with the read still out
  filter,    \* the names the filter text matches
  selected,  \* AppState::selected_item, from 1; 0 is none
  deleting,  \* calls whose row in the database is being deleted
  clearing,  \* the calls' rows are being deleted
  recorded,  \* calls there were
  meant,     \* history: the name of the row chosen
  shifted    \* history: the rows moved in a way that keeps the index

vars == <<mode, tools, history, load, filter, selected, deleting, clearing, recorded,
          meant, shifted>>

None == 0
All == Tools \cup Calls
Filters == {All, Matching}
Elements(s) == {s[i] : i \in DOMAIN s}
Distinct(s) == \A i, j \in DOMAIN s : s[i] = s[j] => i = j
Orders == {s \in UNION {[1..n -> Tools] : n \in 0..Cardinality(Tools)} : Distinct(s)}

\* all_items, items
RowsOf(m, t, h, f) == LET all == IF m = "tools" THEN t ELSE h
                      IN Sift(all, f)
Items == RowsOf(mode, tools, history, filter)

\* selected_name: nothing, when the index is past the rows.
NameIn(rows, i) == IF i \in DOMAIN rows THEN rows[i] ELSE None
Selected == NameIn(Items, selected)

\* position: of the row that has the name, if one has.
Position(rows, name) == IF \E i \in DOMAIN rows : rows[i] = name
                        THEN CHOOSE i \in DOMAIN rows : rows[i] = name ELSE 0

TypeOK ==
  /\ mode \in {"tools", "history"} /\ tools \in Orders
  /\ history \in Seq(recorded) /\ Distinct(history)
  /\ load \in {"unread", "reading", "overtaken", "read"} /\ filter \in Filters
  /\ selected \in 0..Cardinality(All) /\ deleting \subseteq recorded
  /\ clearing \in BOOLEAN /\ recorded \subseteq Calls
  /\ meant \in All \cup {None} /\ shifted \in BOOLEAN

Init ==
  /\ mode = "tools" /\ tools \in Orders /\ history = <<>> /\ load = "unread"
  /\ filter = All /\ selected = 0 /\ deleting = {} /\ clearing = FALSE
  /\ recorded = {} /\ meant = None /\ shifted = FALSE

-----------------------------------------------------------------------------
(* What the person does.                                                   *)

Unselected == selected' = 0 /\ meant' = None /\ shifted' = FALSE

\* The first time the calls are on screen they are read (show_history).
Shown(m) == load' = IF m = "history" /\ load = "unread" THEN "reading" ELSE load

\* set_mode
SetMode(m) ==
  /\ m # mode /\ mode' = m /\ Unselected /\ filter' = All /\ Shown(m)
  /\ UNCHANGED <<tools, history, deleting, clearing, recorded>>

\* select_server: to another server and back.
Leave ==
  /\ Unselected /\ filter' = All /\ Shown(mode)
  /\ UNCHANGED <<mode, tools, history, deleting, clearing, recorded>>

SetFilter(f) ==
  /\ f # filter /\ filter' = f /\ Unselected
  /\ UNCHANGED <<mode, tools, history, load, deleting, clearing, recorded>>

\* select_item
Choose(i) ==
  /\ i \in DOMAIN Items
  /\ selected' = i /\ meant' = Items[i] /\ shifted' = FALSE
  /\ UNCHANGED <<mode, tools, history, load, filter, deleting, clearing, recorded>>

HistoryReading == mode = "history" /\ load \in {"unread", "reading"}

\* move_item: by one, up or down.
Move(down) ==
  /\ ~HistoryReading /\ Items # <<>>
  /\ Choose(IF selected = 0 THEN IF down THEN 1 ELSE Len(Items)
            ELSE LET next == IF down THEN selected + 1 ELSE selected - 1
                 IN IF next < 1 THEN 1 ELSE IF next > Len(Items) THEN Len(Items) ELSE next)

\* delete_selected_call
DeleteCall ==
  /\ mode = "history" /\ Selected \in Elements(history)
  /\ deleting' = deleting \cup {Selected}
  /\ UNCHANGED <<mode, tools, history, load, filter, selected, clearing, recorded, meant, shifted>>

\* clear_history, when it was confirmed.
Clear ==
  /\ clearing' = TRUE
  /\ UNCHANGED <<mode, tools, history, load, filter, selected, deleting, recorded, meant, shifted>>

-----------------------------------------------------------------------------
(* What comes back.                                                        *)

\* The index is left alone and the rows are others.
Moved(m) == shifted' = (shifted \/ (selected # 0 /\ mode = m)) /\ UNCHANGED <<selected, meant>>

\* relist's result, or a new connection's snapshot, which the server orders.
Relisted(order) ==
  /\ order # tools /\ tools' = order
  /\ Moved("tools")
  /\ UNCHANGED <<mode, history, load, filter, deleting, clearing, recorded>>

\* Mutant of Reselect: the index stays where it is.
ReselectIndex(rows) == selected' = selected

\* The row selected in the calls is found again by its name.
Reselect(rows) ==
  selected' = IF mode = "history" /\ Selected # None THEN Position(rows, Selected) ELSE selected

HistoryBecomes(calls) ==
  /\ history' = calls
  /\ Reselect(RowsOf(mode, tools, calls, filter))
  /\ UNCHANGED <<mode, tools, filter, clearing, meant, shifted>>

\* push_history: at the top, whenever it was made.
Recorded(c) ==
  /\ c \notin recorded /\ recorded' = recorded \cup {c}
  /\ HistoryBecomes(<<c>> \o history)
  /\ UNCHANGED <<load, deleting>>

\* finish_history_load: the calls stored and those listed meanwhile, by time,
\* also when a clear was done first.
HistoryRead(stored) ==
  /\ load \in {"reading", "overtaken"} /\ load' = "read"
  /\ recorded' = recorded \cup stored
  /\ HistoryBecomes(Falling(stored \cup Elements(history)))
  /\ UNCHANGED deleting

\* The job of delete_call is done.  The index is left alone but for the
\* deleted call's own.
Deleted(c) ==
  /\ c \in deleting /\ deleting' = deleting \ {c}
  /\ history' = Sift(history, All \ {c})
  /\ IF mode = "history" /\ Selected = c
       THEN Unselected
       ELSE IF mode = "history" /\ Position(Items, c) \in 1..selected
              THEN Moved("history") ELSE UNCHANGED <<selected, meant, shifted>>
  /\ UNCHANGED <<mode, tools, load, filter, clearing, recorded>>

DeleteFails(c) ==
  /\ c \in deleting /\ deleting' = deleting \ {c}
  /\ UNCHANGED <<mode, tools, history, load, filter, selected, clearing, recorded, meant, shifted>>

\* The job of clear_history is done.
Cleared ==
  /\ clearing /\ clearing' = FALSE
  /\ history' = <<>>
  /\ load' = IF load \in {"reading", "overtaken"} THEN "overtaken" ELSE "read"
  /\ IF mode = "history" THEN Unselected ELSE UNCHANGED <<selected, meant, shifted>>
  /\ UNCHANGED <<mode, tools, filter, deleting, recorded>>

Next ==
  \/ \E m \in {"tools", "history"} : SetMode(m)
  \/ Leave \/ DeleteCall \/ Clear \/ Cleared
  \/ \E f \in Filters : SetFilter(f)
  \/ \E i \in 1..Cardinality(All) : Choose(i)
  \/ \E down \in BOOLEAN : Move(down)
  \/ \E order \in Orders : Relisted(order)
  \/ \E c \in Calls : Recorded(c) \/ Deleted(c) \/ DeleteFails(c)
  \/ \E stored \in SUBSET Calls : HistoryRead(stored)

Spec == Init /\ [][Next]_vars

-----------------------------------------------------------------------------
(* Properties.                                                             *)

\* Calls recorded and calls read push the rows below them, and the row chosen
\* stays the selected one ("The selected history row stays selected even though
\* the rows shift", push_history), whatever else is read, filtered, deleted
\* below it or cleared.  A list read again, and the delete of a call above, keep
\* the index instead of the name, though "the identifier stays the key a
\* selection is kept by" (all_items): what is called is then another row.
RowStays == TypeOK /\ (meant # None /\ ~shifted => Selected = meant)
=============================================================================
