-------------------------------- MODULE Window --------------------------------
(***************************************************************************)
(* Parts of the desktop app that show or keep what others do, one beside   *)
(* the other: a run is of one part, chosen at first, and the variables of  *)
(* the others stay as they begin.                                          *)
(***************************************************************************)
EXTENDS Serving, Sequences

CONSTANTS
  Ids, Stored, MaxDoings,                    \* Sidebar's
  Contents, Unread, Takers, Base, MaxTime,   \* Store's
  Keys, MaxKeyringJobs,                      \* Keyring's
  Servers, Paths, Plans, Conns, PathOf, Calls, ConnOf, MaxPending, MaxRuns  \* Agents'

\* Servers are numbered from 1, and each is listed once; no entry and no content
\* is named "none"; a second has tenths.
ASSUME WindowAssumption ==
  /\ MaxActions \in Nat /\ MaxDoings \in Nat /\ MaxKeyringJobs \in Nat
  /\ Ids \subseteq Nat \ {0} /\ IsFiniteSet(Ids)
  /\ Stored \in Seq(Ids) /\ \A i, j \in DOMAIN Stored : Stored[i] = Stored[j] => i = j
  /\ "none" \notin Keys \cup Contents
  /\ IsFiniteSet(Takers) /\ Base \in Nat \ {0} /\ MaxTime \in Nat

VARIABLES
  part,
  \* Sidebar
  servers, chosen, screen, editing, awaits, confirm, state, table, used, adding, adds, deletes,
  doings, means,
  \* Store
  server, snapshots, clock, taker,
  \* Keyring
  row, record, entries, names, job, started, unkept, emptied, mixed,
  \* Agents
  served, conn, reaches, call, plan, era, inbox, agents, pending, count, recorded, moved,
  early, late, due, gone, evicted

Side == INSTANCE Sidebar WITH
  MaxActions <- MaxDoings, selected <- chosen, status <- state, rows <- table, saves <- adding,
  actions <- doings

St == INSTANCE Store WITH job <- taker

K == INSTANCE Keyring WITH
  MaxJobs <- MaxKeyringJobs, minted <- names, told <- unkept, crossed <- mixed

Ag == INSTANCE Agents WITH run <- era, asked <- count

ofSidebar == <<servers, chosen, screen, editing, awaits, confirm, state, table, used, adding,
               adds, deletes, doings, means>>
ofStore == <<server, snapshots, clock, taker>>
ofKeyring == <<row, record, entries, names, job, started, unkept, emptied, mixed>>
ofAgents == <<served, conn, reaches, call, plan, era, inbox, agents, pending, count,
              recorded, moved, early, late, due, gone, evicted>>
all == <<part, vars, ofSidebar, ofStore, ofKeyring, ofAgents>>

\* How every part begins; what choice some have is made in their runs alone.
Beginning ==
  /\ Init /\ Side!Init /\ St!Init /\ K!Init /\ Ag!Init
  /\ part # "store" => server.saved
  /\ part # "serving" => minted = 0

WindowInit == part \in {"sidebar", "store", "keyring", "serving", "agents"} /\ Beginning

SidebarStep(P) ==
  part = "sidebar" /\ P /\ UNCHANGED <<part, vars, ofStore, ofKeyring, ofAgents>>
StoreStep(P) ==
  part = "store" /\ P /\ UNCHANGED <<part, vars, ofSidebar, ofKeyring, ofAgents>>
KeyringStep(P) ==
  part = "keyring" /\ P /\ UNCHANGED <<part, vars, ofSidebar, ofStore, ofAgents>>
ServingStep(P) ==
  part = "serving" /\ P /\ UNCHANGED <<part, ofSidebar, ofStore, ofKeyring, ofAgents>>
AgentsStep(P) ==
  part = "agents" /\ P /\ UNCHANGED <<part, vars, ofSidebar, ofStore, ofKeyring>>

WindowNext ==
  \/ ServingStep(Next) \/ SidebarStep(Side!Next) \/ StoreStep(St!Next)
  \/ KeyringStep(K!Next) \/ AgentsStep(Ag!Next)

WindowSpec == WindowInit /\ [][WindowNext]_all

\* What each part keeps, in its own runs (it holds of what the others leave as
\* it begins); ServingSound is Serving's.  Of Store and Keyring together: the
\* database and the keyring hold what the window and the command line put there.
SameServer == part = "sidebar" => Side!SameServer
KeptSound == (part = "store" => St!StoreSound) /\ (part = "keyring" => K!KeyringSound)
AgentsSound == part = "agents" => Ag!AgentsSound
=============================================================================
