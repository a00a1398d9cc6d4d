------------------------------- MODULE Keyring --------------------------------
(***************************************************************************)
(* The secret of a server: an entry of the system's keyring, named by the  *)
(* spec in the server's row.  The keyring and the database have no         *)
(* transaction in common, so each job writes one and then the other: the   *)
(* app's saves, deletes, forgets and sign-ins, and the command line's      *)
(* import, which may also be stopped between two of its steps.             *)
(*                                                                         *)
(* Source: apps/desktop/src/persistence.rs (insert_server, replace_server, *)
(* store_token), state.rs (add_server, update_server, apply_edit,          *)
(* delete_server, finish_delete, forget_credentials, authorize),           *)
(* views/add_server/submit.rs (spec), crates/mcp-auth (resolve,            *)
(* authorized_client, forget, credentials.rs), apps/cli/src/import.rs.     *)
(***************************************************************************)
EXTENDS Naturals, FiniteSets

CONSTANTS
  Keys,     \* names of entries: new_keyring_id mints one once
  MaxJobs   \* bound: jobs

Jobs == 1..MaxJobs
None == "none"
Auths == [auth : {"none"}, key : {None}] \cup [auth : {"bearer", "oauth"}, key : Keys]
NoAuth == [auth |-> "none", key |-> None]
Gone == [auth |-> "gone", key |-> None]
Idle == [kind |-> "no", at |-> "no", spec |-> NoAuth, previous |-> None]

VARIABLES
  row,      \* the server's row: gone, or its auth and the entry it names
  record,   \* ServerEntry::record, what the window knows of the row
  entries,  \* the keyring
  minted,   \* names minted
  job,      \* jobs out: what they save, and the entry they were told to remove
  started,  \* how many jobs there were
  told,     \* history: entries of which a write or a removal failed, with a notice
  emptied,  \* history: entries a person had removed
  crossed   \* history: the kinds of two jobs that were out together

vars == <<row, record, entries, minted, job, started, told, emptied, crossed>>

Kinds == {"add", "import", "edit", "delete", "forget", "signin"}

TypeOK ==
  /\ {row, record} \subseteq Auths \cup {Gone}
  /\ entries \subseteq minted /\ minted \subseteq Keys
  /\ job \in [Jobs -> [kind : Kinds \cup {"no"}, spec : Auths, previous : Keys \cup {None},
                       at : {"no", "row", "token", "old", "secret", "back", "undo"}]]
  /\ started \in 0..MaxJobs /\ told \subseteq Keys /\ emptied \subseteq Keys
  /\ crossed \subseteq SUBSET (Kinds \cup {"crash"})

Init ==
  /\ row = Gone /\ record = Gone /\ entries = {} /\ minted = {}
  /\ job = [j \in Jobs |-> Idle] /\ started = 0
  /\ told = {} /\ emptied = {} /\ crossed = {}

Out == {j \in Jobs : job[j].kind # "no"}

Start(kind, at, spec, previous) ==
  /\ started < MaxJobs /\ started' = started + 1
  /\ job' = [job EXCEPT ![started'] =
               [kind |-> kind, at |-> at, spec |-> spec, previous |-> previous]]
  /\ crossed' = crossed \cup {{kind, job[j].kind} : j \in Out}
  /\ UNCHANGED <<row, record, entries, told, emptied>>

Goes(j, at) == job' = [job EXCEPT ![j].at = at]
Ends(j) == job' = [job EXCEPT ![j] = Idle]

-----------------------------------------------------------------------------
(* Asking.                                                                 *)

\* spec: the entry the record names is kept, or a new one minted.
Fields(spec) ==
  IF spec.auth = "none" THEN minted' = minted
  ELSE IF record.key # None THEN spec.key = record.key /\ minted' = minted
  ELSE spec.key \notin minted /\ minted' = minted \cup {spec.key}

\* add_server; the command line's import writes the secret first.
Add(spec) ==
  /\ row = Gone /\ record = Gone /\ started = 0 /\ Fields(spec)
  /\ \/ Start("add", "row", spec, None)
     \/ Start("import", "token", spec, None) /\ spec.auth = "bearer"

\* update_server: what the record names now is the previous entry.
Edit(spec) == record # Gone /\ Fields(spec) /\ Start("edit", "row", spec, record.key)

\* delete_server, when it was confirmed.
Delete == record # Gone /\ Start("delete", "row", NoAuth, record.key) /\ UNCHANGED minted

\* forget_credentials; authorize begins with one.
Forget == /\ record.key # None
          /\ Start("forget", "secret", NoAuth, record.key) /\ UNCHANGED minted

\* connect with OAuth.
SignIn == record.auth = "oauth" /\ Start("signin", "token", record, None) /\ UNCHANGED minted

-----------------------------------------------------------------------------
(* The jobs' steps.                                                        *)

\* A write the keyring may refuse.
Put(k) == \/ entries' = entries \cup {k} /\ told' = told \ {k} /\ emptied' = emptied \ {k}
          \/ told' = told \cup {k} /\ UNCHANGED <<entries, emptied>>

Take(S) == \/ entries' = entries \ S /\ told' = told
           \/ S # {} /\ told' = told \cup S /\ entries' = entries

\* add_server_with, update_server, delete_server of the store.  An edit of a row
\* that is gone is refused, with both keyring writes behind it.
Row(j) ==
  /\ job[j].at = "row"
  /\ CASE job[j].kind = "delete" -> row' = Gone /\ Goes(j, "secret")
       [] job[j].kind = "edit" /\ row = Gone -> Ends(j) /\ row' = row
       [] OTHER -> row' = job[j].spec /\ Goes(j, IF job[j].kind = "import" THEN "back" ELSE "token")
  /\ UNCHANGED <<record, entries, minted, started, told, emptied, crossed>>

\* store_token: OAuth has none.  import: a secret refused ends it.
Token(j) ==
  /\ job[j].at = "token" /\ job[j].kind # "signin"
  /\ IF job[j].spec.auth = "bearer" THEN Put(job[j].spec.key)
                                    ELSE UNCHANGED <<entries, told, emptied>>
  /\ IF job[j].kind = "import"
       THEN IF job[j].spec.key \in told' THEN Ends(j) ELSE Goes(j, "row")
       ELSE Goes(j, "old")
  /\ UNCHANGED <<row, record, minted, started, crossed>>

\* Mutant of Unused: the previous entry goes although the new spec names it.
UnusedAny(j) == {job[j].previous} \ {None}

\* replace_server: the previous entry, when the new spec no longer names it.
Unused(j) == {job[j].previous} \ {None, job[j].spec.key}

OldToken(j) ==
  /\ job[j].at = "old" /\ Take(Unused(j)) /\ Goes(j, "back")
  /\ UNCHANGED <<row, record, minted, started, emptied, crossed>>

\* delete_server's second step, and a forget's one.
Secret(j) ==
  /\ job[j].at = "secret" /\ Goes(j, "back")
  /\ Take({job[j].previous} \ {None}) /\ emptied' = emptied \cup ({job[j].previous} \ {None})
  /\ UNCHANGED <<row, record, minted, started, crossed>>

\* import: its rows are refused, so its secrets go.
RowsRefused(j) ==
  /\ job[j].at = "row" /\ job[j].kind = "import" /\ Goes(j, "undo")
  /\ UNCHANGED <<row, record, entries, minted, started, told, emptied, crossed>>

Undo(j) ==
  /\ job[j].at = "undo" /\ Take({job[j].spec.key}) /\ Ends(j)
  /\ UNCHANGED <<row, record, minted, started, emptied, crossed>>

\* The command line's process ends before its last step.
Killed(j) ==
  /\ job[j].kind = "import" /\ job[j].at # "back" /\ Ends(j)
  /\ crossed' = crossed \cup {{"crash"}}
  /\ UNCHANGED <<row, record, entries, minted, started, told, emptied>>

\* push_saved, apply_edit, finish_delete.
Back(j) ==
  /\ job[j].at = "back" /\ Ends(j)
  /\ record' = CASE job[j].kind = "delete" -> Gone
                 [] job[j].kind = "forget" \/ (job[j].kind = "edit" /\ record = Gone) -> record
                 [] OTHER -> job[j].spec
  /\ UNCHANGED <<row, entries, minted, started, told, emptied, crossed>>

\* KeyringCredentialStore::save: what the browser brings, and what is refreshed
\* as long as the session lives.
Saves(j) ==
  /\ job[j].kind = "signin" /\ Put(job[j].spec.key)
  /\ UNCHANGED <<row, record, minted, job, started, crossed>>

Closes(j) ==
  /\ job[j].kind = "signin" /\ Ends(j)
  /\ UNCHANGED <<row, record, entries, minted, started, told, emptied, crossed>>

Next ==
  \/ \E spec \in Auths : Add(spec) \/ Edit(spec)
  \/ Delete \/ Forget \/ SignIn
  \/ \E j \in Jobs : \/ Row(j) \/ Token(j) \/ OldToken(j) \/ Secret(j) \/ RowsRefused(j)
                     \/ Undo(j) \/ Killed(j) \/ Back(j) \/ Saves(j) \/ Closes(j)

Spec == Init /\ [][Next]_vars

-----------------------------------------------------------------------------
(* Properties.                                                             *)

\* What may leave the keyring and the row apart: two saves of one server that
\* cross, a save or a sign-in that a delete crosses, a sign-in that a save or a
\* forget crosses, an import stopped half way.
Apart == {{"edit"}, {"edit", "delete"}, {"signin", "delete"}, {"signin", "edit"},
          {"signin", "forget"}, {"crash"}}

\* With no job out, "nothing is left in the keyring that no row refers to"
\* (import.rs), and a server whose token was typed has it, unless a notice told
\* of a keyring that refused or the person had it removed: saves that fail half
\* way, refused edits, deletes and forgets that cross each other keep this.
KeyringSound ==
  /\ TypeOK
  /\ Out = {} /\ crossed \cap Apart = {} =>
       /\ entries \subseteq {row.key} \cup told
       /\ row.auth = "bearer" => row.key \in entries \cup told \cup emptied
       /\ record = row \/ record = Gone
=============================================================================
