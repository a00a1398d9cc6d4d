-------------------------------- MODULE Store ---------------------------------
(***************************************************************************)
(* The snapshots the database keeps, of the app and of `coco --db`: two    *)
(* programs on one file, each statement a transaction of its own.  A       *)
(* session's lists are read, compared with the last snapshot stored and,   *)
(* in the app, stored when they differ; the command line stores what it    *)
(* took.  The last one is the last by the text of its time, which RFC 3339 *)
(* writes without the fraction's trailing zeros.                           *)
(*                                                                         *)
(* Source: crates/mcp-store/src/store.rs (servers and snapshots),          *)
(* apps/desktop/src/persistence.rs (compare_and_store),                    *)
(* apps/cli/src/lib.rs (load_snapshot, server_id) and saved.rs.  What a    *)
(* diff says is Diff's; the calls' table is History's.                     *)
(***************************************************************************)
EXTENDS Naturals, FiniteSets, Sequences, SequencesExt

CONSTANTS
  Contents,  \* digests of what a server may have
  Unread,    \* those of snapshots a list of which failed
  Takers,    \* the app's connects and the runs of `coco --db`, numbered
  Base,      \* digits: a second is Base tenths, of Base hundredths each
  MaxTime    \* bound: the last instant a snapshot is taken at

VARIABLES
  server,     \* the server's row: absent or saved, and how often it was deleted
  snapshots,  \* rows of the table of snapshots
  clock,      \* of the machine, in hundredths
  job         \* each job's session, snapshot and progress

vars == <<server, snapshots, clock, job>>

None == "none"
Times == 0..MaxTime

\* The text of an instant: its second, the fraction without its trailing
\* zeros, and Z, as the bytes sort: the dot, the digits, Z.
Z == Base
Dot == 0 - 1
Text(t) ==
  LET second == t \div (Base * Base)
      tenth == (t \div Base) % Base
      hundredth == t % Base
  IN IF hundredth # 0 THEN <<second, Dot, tenth, hundredth, Z>>
     ELSE IF tenth # 0 THEN <<second, Dot, tenth, Z>> ELSE <<second, Z>>

\* SQLite's order of two texts.
Before(a, b) ==
  \E n \in 0..Len(a) :
    /\ n < Len(b) /\ \A i \in 1..n : a[i] = b[i]
    /\ n = Len(a) \/ a[n + 1] < b[n + 1]

\* ORDER BY taken_at DESC, id DESC
Later(r, s) == Before(Text(s.at), Text(r.at)) \/ (r.at = s.at /\ r.id > s.id)

\* latest_snapshot
Latest == CHOOSE r \in snapshots : \A s \in snapshots \ {r} : Later(r, s)

\* list_snapshots: those before r in the list, or behind it.
Follows(r, s) == Later(r, s) /\ ~\E q \in snapshots : Later(r, q) /\ Later(q, s)

TypeOK ==
  /\ server \in [saved : BOOLEAN, deletes : 0..1]
  /\ snapshots \subseteq [id : 1..Cardinality(Takers), content : Contents, at : Times,
                          by : {"app", "cli"}, crossed : BOOLEAN]
  /\ clock \in Times
  /\ job \in [Takers -> [at : {"no", "taken", "found", "saved", "compared", "stored",
                             "same", "refused", "failed"},
                       by : {"app", "cli"}, content : Contents \cup {None}, time : Times,
                       crossed : BOOLEAN, deletes : 0..1]]

Init ==
  /\ server \in [saved : BOOLEAN, deletes : {0}] /\ snapshots = {} /\ clock = 0
  /\ job = [j \in Takers |-> [at |-> "no", by |-> "app", content |-> None, time |-> 0,
                            crossed |-> FALSE, deletes |-> 0]]

Tick ==
  /\ clock < MaxTime /\ clock' = clock + 1
  /\ \E j \in Takers : job[j].at = "no"
  /\ UNCHANGED <<server, snapshots, job>>

\* Session::snapshot.  The app connects to saved servers alone.
Take(j) ==
  /\ job[j].at = "no" /\ \A k \in Takers : k < j => job[k].at # "no"
  /\ \E by \in {"app", "cli"}, c \in Contents :
       /\ by = "app" => server.saved
       /\ job' = [job EXCEPT ![j] = [@ EXCEPT !.at = "taken", !.by = by, !.content = c,
                                              !.time = clock, !.deletes = server.deletes]]
  /\ UNCHANGED <<server, snapshots, clock>>

\* server_id: the command line looks its server up, and adds it when there was
\* none; another program may have by then, and the name is UNIQUE.
CliFinds(j) ==
  /\ job[j].by = "cli" /\ job[j].at = "taken"
  /\ job' = [job EXCEPT ![j].at = IF server.saved THEN "saved" ELSE "found",
                        ![j].deletes = server.deletes]
  /\ UNCHANGED <<server, snapshots, clock>>

CliAdds(j) ==
  /\ job[j].by = "cli" /\ job[j].at = "found"
  /\ job' = [job EXCEPT ![j].at = IF server.saved THEN "failed" ELSE "saved",
                        ![j].deletes = server.deletes]
  /\ server' = [server EXCEPT !.saved = TRUE]
  /\ UNCHANGED <<snapshots, clock>>

\* compare_and_store: what the diff is measured against.
AppCompares(j) ==
  /\ job[j].by = "app" /\ job[j].at = "taken"
  /\ LET previous == IF snapshots = {} THEN None ELSE Latest.content
     IN job' = [job EXCEPT ![j].at = IF previous = job[j].content THEN "same" ELSE "compared"]
  /\ UNCHANGED <<server, snapshots, clock>>

\* Mutant of Kept: a snapshot is stored whatever could not be read.
KeptAll(c) == TRUE

\* add_snapshot: one with a list that failed is refused.
Kept(c) == c \notin Unread

\* Its server's row must be there (the foreign key), under the id it had.
Store(j) ==
  /\ job[j].at = IF job[j].by = "app" THEN "compared" ELSE "saved"
  /\ IF ~Kept(job[j].content)
       THEN job' = [job EXCEPT ![j].at = "refused"] /\ UNCHANGED snapshots
     ELSE IF ~server.saved \/ server.deletes # job[j].deletes
       THEN job' = [job EXCEPT ![j].at = "failed"] /\ UNCHANGED snapshots
     ELSE /\ snapshots' = snapshots \cup
               {[id |-> Cardinality({k \in Takers : job[k].at = "stored"}) + 1,
                 content |-> job[j].content, at |-> job[j].time, by |-> job[j].by,
                 crossed |-> job[j].crossed]}
          /\ job' = [k \in Takers |->
               IF k = j THEN [job[k] EXCEPT !.at = "stored", !.time = 0, !.by = "app",
                                             !.crossed = FALSE]
               ELSE [job[k] EXCEPT !.crossed = @ \/ job[k].at \in {"taken", "compared"}]]
  /\ UNCHANGED <<server, clock>>

\* delete_server: its snapshots go by cascade.
DeleteServer ==
  /\ server.saved /\ server.deletes = 0
  /\ server' = [saved |-> FALSE, deletes |-> 1] /\ snapshots' = {}
  /\ UNCHANGED <<clock, job>>

Next ==
  \/ Tick \/ DeleteServer
  \/ \E j \in Takers : Take(j) \/ CliFinds(j) \/ CliAdds(j) \/ AppCompares(j) \/ Store(j)

Spec == Init /\ [][Next]_vars

-----------------------------------------------------------------------------
(* Properties.                                                             *)

\* Both programs keep one kind of baseline: no list of a stored snapshot is
\* unread, and there is none of a server that is gone.  What a connect compared
\* is stored, or what the server had was stored before.  Reconnects do not pile
\* up equal rows (compare_and_store): of two equal neighbours in the list one is
\* the command line's, two sessions crossed, or their times do not sort as text
\* (of a snapshot at .1 s and one at .12 s the older is then "the most recent").
StoreSound ==
  /\ TypeOK
  /\ \A r \in snapshots : r.content \notin Unread
  /\ snapshots # {} => server.saved
  /\ \A j \in Takers : job[j].at \in {"same", "stored"} /\ job[j].deletes = server.deletes =>
       \E r \in snapshots : r.content = job[j].content
  /\ \A r, s \in snapshots : Follows(r, s) /\ r.content = s.content =>
       \/ "cli" \in {r.by, s.by} \/ r.crossed \/ s.crossed
       \/ \E p, q \in snapshots : p.at > q.at /\ Later(q, p)
=============================================================================
