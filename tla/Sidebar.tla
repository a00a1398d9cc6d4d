------------------------------- MODULE Sidebar --------------------------------
(***************************************************************************)
(* The servers of the desktop app and the indices the window keeps of      *)
(* them: the server selected, the one a form edits, the one a form waits   *)
(* for, the one a confirmation asks about.  Saves and deletes run on the   *)
(* blocking pool and connects on the runtime; each comes back with the id  *)
(* of its server, when the list may have moved under the indices.          *)
(*                                                                         *)
(* Source: apps/desktop/src/state.rs (select_server, show_add_server,      *)
(* show_edit_selected, cancel_add_server, await_connect, update_server,    *)
(* apply_edit, add_server, push_saved, import_servers, request_confirm,    *)
(* confirm, delete_server, finish_delete, connect, disconnect),            *)
(* views/workspace.rs (wanted_form) and views/add_server/submit.rs.  What  *)
(* a connection does is Connection's.                                      *)
(***************************************************************************)
EXTENDS Naturals, FiniteSets, Sequences, SequencesExt

CONSTANTS
  Ids,        \* rows of the table of servers there may be, numbered from 1
  Stored,     \* those there are at the start, as the list has them
  MaxActions  \* bound: saves, imports, connects and deletes asked for

VARIABLES
  servers,    \* AppState::servers, the ids in order
  selected,   \* AppState::selected_server, from 1; 0 is none
  screen,     \* Screen::Detail or Screen::AddServer
  editing,    \* AppState::editing
  awaits,     \* AppState::form_awaits
  confirm,    \* AppState::confirm
  status,     \* ServerEntry::status: off, connecting, connected, failed
  rows,       \* the ids in the database
  used,       \* the ids there were
  saves,      \* edits out: [id, at], "asked", then "saved" or "refused"
  adds,       \* rows added, not shown yet
  deletes,    \* deletes out: [id, at], "asked", then "done"
  actions,    \* how many were asked for
  means       \* history: the servers the indices were set for

index == <<selected, screen, editing, awaits, confirm, means>>
jobs == <<rows, used, saves, adds, deletes>>
vars == <<servers, index, status, jobs, actions>>

None == 0
At(ix) == IF ix \in DOMAIN servers THEN servers[ix] ELSE None
PositionIn(list, id) == IF id \in ToSet(list) THEN CHOOSE i \in DOMAIN list : list[i] = id
                                              ELSE 0
Position(id) == PositionIn(servers, id)
Meaning == [selected : Ids \cup {None}, editing : Ids \cup {None},
            awaits : Ids \cup {None}, confirm : Ids \cup {None}]

TypeOK ==
  /\ servers \in Seq(used) /\ used \subseteq Ids /\ rows \subseteq used
  /\ {selected, editing, awaits, confirm} \subseteq 0..Cardinality(Ids)
  /\ screen \in {"detail", "form"} /\ means \in Meaning
  /\ status \in [Ids -> {"off", "connecting", "connected", "failed"}]
  /\ saves \subseteq [id : Ids, at : {"asked", "saved", "refused"}]
  /\ adds \subseteq Ids /\ deletes \subseteq [id : Ids, at : {"asked", "done"}]
  /\ actions \in 0..MaxActions

Init ==
  /\ servers = Stored /\ rows = ToSet(Stored) /\ used = ToSet(Stored)
  /\ selected = IF Stored = <<>> THEN 0 ELSE 1
  /\ screen = "detail" /\ editing = 0 /\ awaits = 0 /\ confirm = 0
  /\ status = [i \in Ids |-> "off"]
  /\ saves = {} /\ adds = {} /\ deletes = {} /\ actions = 0
  /\ means = [selected |-> At(selected), editing |-> None, awaits |-> None, confirm |-> None]

Acts == actions < MaxActions /\ actions' = actions + 1

-----------------------------------------------------------------------------
(* What the person does.                                                   *)

\* select_server
Select(ix) ==
  /\ ix \in DOMAIN servers /\ ix # selected
  /\ selected' = ix /\ screen' = "detail" /\ means' = [means EXCEPT !.selected = At(ix)]
  /\ UNCHANGED <<servers, editing, awaits, confirm, status, jobs, actions>>

\* show_add_server
ShowAdd ==
  /\ editing' = 0 /\ screen' = "form" /\ means' = [means EXCEPT !.editing = None]
  /\ UNCHANGED <<servers, selected, awaits, confirm, status, jobs, actions>>

\* show_edit_selected
ShowEdit ==
  /\ selected # 0
  /\ editing' = selected /\ screen' = "form" /\ means' = [means EXCEPT !.editing = At(selected)]
  /\ UNCHANGED <<servers, selected, awaits, confirm, status, jobs, actions>>

\* cancel_add_server
CancelForm ==
  /\ screen = "form" /\ screen' = "detail" /\ editing' = 0 /\ awaits' = 0
  /\ means' = [means EXCEPT !.editing = None, !.awaits = None]
  /\ UNCHANGED <<servers, selected, confirm, status, jobs, actions>>

\* settings_pane: the settings of a server that is off or failed are its detail.
Pane == screen = "detail" /\ selected # 0 /\ status[At(selected)] \in {"off", "failed"}

\* The id the form on screen was built for (wanted_form, edited).
FormOf == IF screen = "form" THEN At(editing) ELSE At(selected)

\* submit of changed settings: update_server.  One save of a form at a time, but
\* another form of the server may save too.
SubmitEdit ==
  /\ Pane \/ (screen = "form" /\ editing # 0)
  /\ Acts /\ saves' = saves \cup {[id |-> FormOf, at |-> "asked"]}
  /\ UNCHANGED <<servers, index, status, rows, used, adds, deletes>>

\* submit of a new server, or import_servers: its row is written.
SubmitNew(id) ==
  /\ id \notin used /\ Acts
  /\ used' = used \cup {id} /\ rows' = rows \cup {id} /\ adds' = adds \cup {id}
  /\ UNCHANGED <<servers, index, status, saves, deletes>>

\* connect, by the pane, the sidebar or the form whose settings are saved.
Connect(ix) ==
  /\ ix \in DOMAIN servers /\ Acts
  /\ status' = [status EXCEPT ![At(ix)] = "connecting"]
  /\ UNCHANGED <<servers, index, jobs>>

\* disconnect, or the session's end.
Disconnect(ix) ==
  /\ ix \in DOMAIN servers /\ status[At(ix)] # "off"
  /\ status' = [status EXCEPT ![At(ix)] = "off"]
  /\ UNCHANGED <<servers, index, jobs, actions>>

\* request_confirm, cancel_confirm
Request ==
  /\ selected # 0 /\ confirm = 0
  /\ confirm' = selected /\ means' = [means EXCEPT !.confirm = At(selected)]
  /\ UNCHANGED <<servers, selected, screen, editing, awaits, status, jobs, actions>>

Unasked == confirm' = 0 /\ means' = [means EXCEPT !.confirm = None]

CancelConfirm ==
  /\ confirm # 0 /\ Unasked
  /\ UNCHANGED <<servers, selected, screen, editing, awaits, status, jobs, actions>>

\* confirm, of Confirm::Delete: delete_server.
ConfirmDelete ==
  /\ confirm # 0 /\ Acts /\ Unasked
  /\ deletes' = deletes \cup {[id |-> At(confirm), at |-> "asked"]}
  /\ UNCHANGED <<servers, selected, screen, editing, awaits, status, rows, used, saves, adds>>

-----------------------------------------------------------------------------
(* The blocking pool.                                                      *)

\* replace_server: of a row that is gone it is refused.
EditRuns(j) ==
  /\ j \in saves /\ j.at = "asked"
  /\ saves' = (saves \ {j}) \cup
       {[j EXCEPT !.at = IF j.id \in rows THEN "saved" ELSE "refused"]}
  /\ UNCHANGED <<servers, index, status, rows, used, adds, deletes, actions>>

DeleteRuns(j) ==
  /\ j \in deletes /\ j.at = "asked"
  /\ \/ /\ rows' = rows \ {j.id}
        /\ deletes' = (deletes \ {j}) \cup {[j EXCEPT !.at = "done"]}
     \/ /\ rows' = rows /\ deletes' = deletes \ {j}  \* it failed: a notice
  /\ UNCHANGED <<servers, index, status, used, saves, adds, actions>>

-----------------------------------------------------------------------------
(* What comes back on the UI thread.                                       *)

\* await_connect: the form is put over the detail, of its server.
AwaitConnect(list, ix) ==
  /\ selected' = ix /\ screen' = "form" /\ editing' = ix /\ awaits' = ix
  /\ status' = [status EXCEPT ![list[ix]] = "connecting"]
  /\ means' = [means EXCEPT !.selected = list[ix], !.editing = list[ix], !.awaits = list[ix]]
  /\ UNCHANGED confirm

\* submit of a form that holds the settings saved.
SubmitUnchanged ==
  /\ screen = "form" /\ editing # 0 /\ Acts
  /\ AwaitConnect(servers, editing)
  /\ UNCHANGED <<servers, jobs>>

\* apply_edit: of a server that is listed still.
EditDone(j) ==
  /\ j \in saves /\ j.at # "asked" /\ saves' = saves \ {j}
  /\ IF j.at = "saved" /\ Position(j.id) # 0
       THEN AwaitConnect(servers, Position(j.id))
       ELSE UNCHANGED <<index, status>>
  /\ UNCHANGED <<servers, rows, used, adds, deletes, actions>>

\* push_saved, after add_server.
AddDone(id) ==
  /\ id \in adds /\ adds' = adds \ {id}
  /\ servers' = Append(servers, id) /\ AwaitConnect(servers', Len(servers'))
  /\ UNCHANGED <<rows, used, saves, deletes, actions>>

\* apply_import: the first added is selected, and none is connected.
ImportDone(id) ==
  /\ id \in adds /\ adds' = adds \ {id}
  /\ servers' = Append(servers, id)
  /\ selected' = Len(servers') /\ screen' = "detail"
  /\ means' = [means EXCEPT !.selected = id]
  /\ UNCHANGED <<editing, awaits, confirm, status, rows, used, saves, deletes, actions>>

\* The result of the server's newest connect.
ConnectDone(id) ==
  /\ id \in ToSet(servers) /\ status[id] = "connecting"
  /\ \E s \in {"connected", "failed"} : status' = [status EXCEPT ![id] = s]
  /\ IF status'[id] = "connected" /\ awaits = Position(id)
       THEN /\ awaits' = 0
            /\ IF screen = "form" /\ editing = Position(id)
                 THEN /\ editing' = 0 /\ screen' = "detail"
                      /\ means' = [means EXCEPT !.awaits = None, !.editing = None]
                 ELSE UNCHANGED <<editing, screen>> /\ means' = [means EXCEPT !.awaits = None]
       ELSE UNCHANGED <<awaits, editing, screen, means>>
  /\ UNCHANGED <<servers, selected, confirm, jobs, actions>>

\* Mutant of Down: what asks about the deleted server asks about the next one.
DownOnly(x, ix) == IF x > ix THEN x - 1 ELSE x

\* An index of the list once the one at ix is gone.
Down(x, ix) == IF x = ix THEN 0 ELSE IF x > ix THEN x - 1 ELSE x

\* finish_delete.  The form of a server further down is closed; what it awaits
\* stays as it is, and may be of another server from here on.
DeleteDone(j) ==
  /\ j \in deletes /\ j.at = "done" /\ deletes' = deletes \ {j}
  /\ IF Position(j.id) = 0 THEN UNCHANGED <<servers, index>>
     ELSE LET ix == Position(j.id)
              left == RemoveAt(servers, ix)
              next == IF ix <= Len(left) THEN ix ELSE Len(left)
          IN /\ servers' = left
             /\ selected' = IF selected = ix THEN next ELSE Down(selected, ix)
             /\ confirm' = Down(confirm, ix)
             /\ IF editing >= ix
                  THEN editing' = 0 /\ screen' = "detail"
                  ELSE UNCHANGED <<editing, screen>>
             /\ means' = [means EXCEPT
                  !.selected = IF selected = ix /\ next # 0 THEN left[next]
                               ELSE IF selected = ix THEN None ELSE @,
                  !.confirm = IF confirm = ix THEN None ELSE @,
                  !.editing = IF editing >= ix THEN None ELSE @,
                  !.awaits = IF awaits >= ix THEN None ELSE @]
  /\ UNCHANGED <<awaits, status, rows, used, saves, adds, actions>>

Next ==
  \/ \E ix \in 1..Cardinality(Ids) : Select(ix) \/ Connect(ix) \/ Disconnect(ix)
  \/ ShowAdd \/ ShowEdit \/ CancelForm \/ SubmitEdit \/ SubmitUnchanged
  \/ Request \/ CancelConfirm \/ ConfirmDelete
  \/ \E id \in Ids : SubmitNew(id) \/ AddDone(id) \/ ImportDone(id) \/ ConnectDone(id)
  \/ \E j \in saves : EditRuns(j) \/ EditDone(j)
  \/ \E j \in deletes : DeleteRuns(j) \/ DeleteDone(j)

Spec == Init /\ [][Next]_vars

-----------------------------------------------------------------------------
(* Properties.                                                             *)

\* Whatever was saved, imported or deleted meanwhile, what the window has
\* selected, what its form edits and what its confirmation asks about are the
\* servers they were set for: no delete is confirmed of another server, no form
\* saves over one ("indices taken before it may now point one row too far",
\* finish_delete); and with servers there is always one selected.  What a form
\* awaits is the server it saved until a server at or above it is deleted:
\* finish_delete does not move form_awaits, and the form of the server that took
\* the place closes when that one connects.
SameServer ==
  /\ TypeOK
  /\ At(selected) = means.selected /\ At(confirm) = means.confirm
  /\ At(editing) = means.editing
  /\ awaits # 0 => means.awaits \in {None, At(awaits)}
  /\ \A x \in {selected, editing, confirm} : x # 0 => x \in DOMAIN servers
  /\ servers # <<>> => selected # 0
=============================================================================
