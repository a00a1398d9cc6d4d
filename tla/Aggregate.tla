----------------------------- MODULE Aggregate ------------------------------
(***************************************************************************)
(* The root of the gateway: every included server merged into one, for one *)
(* agent.  Requests of the agent are tasks of their own; each server has a *)
(* pump that reads what it says; all share the maps of what waits.         *)
(*                                                                         *)
(* Source: mcp-gateway/src/aggregate.rs, with streams.rs (the agent's      *)
(* streams) and merge.rs (Owners).  A step is what runs under one lock or  *)
(* between two awaits.  External: the servers and their transports (a send *)
(* may fail at any time, or never come back; a server that stopped talking *)
(* may still take what it is sent), and the agent.  The room of a stream   *)
(* is left to Relay.                                                       *)
(***************************************************************************)
EXTENDS Owners

CONSTANTS
  N,            \* servers that could be opened
  Requests,     \* requests of the agent, each sent once
  Scenes,       \* bound: what the agent asks and may happen in one run
  Target,       \* the URI each would read
  Serving,      \* the URIs each server lists
  Offering,     \* the templates each server lists
  MaxInflight,  \* requests being worked on at once
  MaxPages      \* pages of a list read at most

Members == 1..N
Lists == {"tools", "resources", "templates", "level"}
Kinds == {"local", "call", "read"} \union Lists

ASSUME AggregateAssumption ==
  /\ N \in Nat \ {0} /\ MaxInflight \in Nat \ {0} /\ MaxPages \in Nat \ {0}
  /\ Scenes \subseteq [kind : [Requests -> Kinds], ends : SUBSET Members,
                       asks : SUBSET Members, leaves : BOOLEAN]
  /\ Target \in [Requests -> URIs]
  /\ Serving \in [Members -> SUBSET URIs]
  /\ Offering \in [Members -> SUBSET Patterns]

None == 0       \* no server
Free == "free"  \* nobody holds the lock on reading the lists

\* The ids in use: the agent's, and those of the gateway's own questions.
Questions == Requests \X Lists \X (1..MaxPages)
Keys == Requests \union Questions

\* An id of the agent's is none of the gateway's (reserved), and no place.
ASSUME NamesAssumption ==
  Requests \intersect (Questions \union {Free, "unsaid", "kept", "given", "listener"}) = {}

VARIABLES
  scene,        \* what happens at all: what each request asks, the servers
                \* that may end and that make a request of their own, and
                \* whether the front may close the root; never changed
  task,         \* handle, for each request (see Tasks)
  order,        \* Streams: requests waiting, the oldest first
  stream,       \* what each request's stream was given
  listener,     \* the agent has its stream open
  own,          \* each server's own request: where it is, or the stream that
                \* was chosen for it
  waiting,      \* Member.waiting: ids each server was sent
  inflight,     \* the server that has each request of the agent's
  inHand,       \* what each server has got and not answered
  owners, listed, listing, listFailed,
  alive,        \* servers that have not ended
  pump,         \* where each server's pump is
  orphans,      \* what member_down has taken to answer
  down, ended,  \* Member.down, the root's token
  told,         \* times the observer was told that a server closed
  closer,       \* close: where each that calls it is
  returned,     \* history: whose request an answer of the agent's was for, and
                \* the server it was sent to
  late          \* history: on record after its server's requests were answered

streams == <<order, stream, listener, own>>
sent == <<waiting, inflight, inHand>>
lists == <<owners, listed, listing, listFailed>>
ends == <<alive, pump, orphans, down, ended, told, closer>>
vars == <<task, streams, sent, lists, ends, returned, late>>

Places == {"idle", "checked", "busy", "spawned", "chosen", "noted", "registered",
  "unwait", "unnote", "forwarded", "asking", "merging", "look", "locking",
  "reply", "done"}
Tasks == [place : Places, kind : Kinds, dest : 0..N, round : 1..2, field : Lists,
  asked : [Members -> {"no", "todo", "sending", "waiting", "ok", "failed"}],
  page : [Members -> 1..MaxPages], turn : 1..(N + 1), forgot : BOOLEAN,
  left : SUBSET (URIs \union Patterns), notfound : BOOLEAN]
TheFront == 0
Closers == Members \union {TheFront}

TypeOK ==
  /\ scene \in Scenes /\ task \in [Requests -> Tasks]
  /\ order \in Seq(Requests) /\ IsInjective(order)
  /\ stream \in [Requests -> Seq({"answer", "own"} \X (0..N))] /\ listener \in BOOLEAN
  /\ own \in [Members -> {"unsaid", "kept", "given", "listener"} \union Requests]
  /\ waiting \in [Members -> SUBSET Keys] /\ inHand \in [Members -> SUBSET Keys]
  /\ inflight \in [Requests -> 0..N]
  /\ owners \in [uris : [URIs -> SUBSET Members], linked : Seq(Members \X URIs),
                 templates : SUBSET (Members \X Patterns)]
  /\ listed \in BOOLEAN /\ listing \in Requests \union {Free} /\ listFailed \in BOOLEAN
  /\ alive \subseteq Members /\ down \subseteq Members /\ ended \in BOOLEAN
  /\ pump \in [Members -> {"reading", "placing", "swapped", "retained",
                           "answering", "last", "done"}]
  /\ orphans \in [Members -> SUBSET Requests]
  /\ told \in [Members -> Nat]
  /\ closer \in [Closers -> [at : {"no", "passed", "closing", "done"}, next : 1..(N + 1)]]
  /\ returned \subseteq Members \X Members /\ late \subseteq Requests

Idle(k) == [place |-> "idle", kind |-> k, dest |-> None, round |-> 1,
  field |-> "resources", asked |-> [m \in Members |-> "no"],
  page |-> [m \in Members |-> 1], turn |-> 1, forgot |-> FALSE, left |-> {},
  notfound |-> FALSE]

\* Opened, with whichever servers could be.
Init ==
  /\ scene \in Scenes
  /\ task = [r \in Requests |-> Idle(scene.kind[r])]
  /\ order = <<>> /\ stream = [r \in Requests |-> <<>>]
  /\ listener = FALSE /\ own = [m \in Members |-> "unsaid"]
  /\ waiting = [m \in Members |-> {}] /\ inflight = [r \in Requests |-> None]
  /\ inHand = [m \in Members |-> {}]
  /\ owners = NoOwners /\ listed = FALSE /\ listing = Free /\ listFailed = FALSE
  /\ alive = Members /\ pump = [m \in Members |-> "reading"]
  /\ orphans = [m \in Members |-> {}] /\ down = {} /\ ended = FALSE
  /\ told = [m \in Members |-> 0] /\ closer = [c \in Closers |-> [at |-> "no", next |-> 1]]
  /\ returned = {} /\ late = {}

Up == Members \ down

At(r, place) == task[r].place = place
Go(r, from, to) == At(r, from) /\ task' = [task EXCEPT ![r].place = to]

-----------------------------------------------------------------------------
(* The streams of the agent.                                               *)

\* Mutant of Answered: the request goes on waiting.
AnsweredStill(r, from) ==
  /\ stream' = IF r \in ToSet(order)
               THEN [stream EXCEPT ![r] = Append(@, <<"answer", from>>)] ELSE stream
  /\ UNCHANGED order

\* Streams::answer: the first response to a request that waits ends its wait.
Answered(r, from) ==
  IF r \in ToSet(order)
  THEN /\ \E i \in DOMAIN order : order[i] = r /\ order' = RemoveAt(order, i)
       /\ stream' = [stream EXCEPT ![r] = Append(@, <<"answer", from>>)]
  ELSE UNCHANGED <<order, stream>>

\* The agent opens its stream, which takes what was kept.
Listen ==
  /\ ~ended /\ ~listener
  /\ listener' = TRUE
  /\ own' = [m \in Members |-> IF own[m] = "kept" THEN "given" ELSE own[m]]
  /\ UNCHANGED <<task, order, stream, sent, lists, ends, returned, late>>

-----------------------------------------------------------------------------
(* A request of the agent's.                                               *)

\* post, while the connection is open.
Post(r) ==
  /\ ~ended /\ Go(r, "idle", "checked")
  /\ UNCHANGED <<streams, sent, lists, ends, returned, late>>

Working == {r \in Requests :
  task[r].place \notin {"idle", "checked", "busy", "forwarded", "done"}}

\* It waits for its answer, and is worked on or told that there is no place.
PostRegisters(r) ==
  /\ Go(r, "checked", IF Cardinality(Working) < MaxInflight THEN "spawned" ELSE "busy")
  /\ order' = Append(order, r)
  /\ UNCHANGED <<stream, listener, own, sent, lists, ends, returned, late>>

\* What the gateway answers by itself: too many requests, ping, an unknown
\* method, an id that is not the agent's to use; or what the task came to.
Reply(r) ==
  /\ At(r, "busy") \/ At(r, "reply") \/ (At(r, "spawned") /\ task[r].kind = "local")
  /\ task' = [task EXCEPT ![r].place = "done"]
  /\ Answered(r, None)
  /\ UNCHANGED <<listener, own, sent, lists, ends, returned, late>>

\* tools/call, prompts/get, a prompt's completion: the name says which server.
ForwardNamed(r) ==
  /\ task[r].kind = "call" /\ At(r, "spawned")
  /\ \E m \in Members :
       task' = IF m \in Up THEN [task EXCEPT ![r].place = "chosen", ![r].dest = m]
               ELSE [task EXCEPT ![r].place = "reply"]
  /\ UNCHANGED <<streams, sent, lists, ends, returned, late>>

\* forward: the server that has it is noted,
Note(r) ==
  /\ Go(r, "chosen", "noted")
  /\ inflight' = [inflight EXCEPT ![r] = task[r].dest]
  /\ UNCHANGED <<streams, waiting, inHand, lists, ends, returned, late>>

Drained(m) == pump[m] \in {"answering", "last"} \/ (pump[m] = "done" /\ m \notin alive)

\* ask_with: and that it waits for that server.
Register(r) ==
  /\ Go(r, "noted", "registered")
  /\ waiting' = [waiting EXCEPT ![task[r].dest] = @ \union {r}]
  /\ late' = IF Drained(task[r].dest) THEN late \union {r} ELSE late
  /\ UNCHANGED <<streams, inflight, inHand, lists, ends, returned>>

\* close has shut the way to this server.
Shut(m) == \E c \in Closers : closer[c].next > m

\* Upstream::send: taken, by a server that may have stopped answering.
Sent(m, k) ==
  /\ ~Shut(m)
  /\ inHand' = IF m \in alive THEN [inHand EXCEPT ![m] = @ \union {k}] ELSE inHand

SendForwarded(r) ==
  /\ Go(r, "registered", "forwarded") /\ Sent(task[r].dest, r)
  /\ UNCHANGED <<streams, waiting, inflight, lists, ends, returned, late>>

SendFails(r) ==
  /\ Go(r, "registered", "unwait")
  /\ UNCHANGED <<streams, sent, lists, ends, returned, late>>

Unwait(r) ==
  /\ Go(r, "unwait", "unnote")
  /\ waiting' = [waiting EXCEPT ![task[r].dest] = @ \ {r}]
  /\ UNCHANGED <<streams, inflight, inHand, lists, ends, returned, late>>

Unnote(r) ==
  /\ Go(r, "unnote", "reply")
  /\ inflight' = [inflight EXCEPT ![r] = None]
  /\ UNCHANGED <<streams, waiting, inHand, lists, ends, returned, late>>

-----------------------------------------------------------------------------
(* Lists: merged, list_all and ask.                                        *)

\* Every server that is up is asked for its part.
StartAsking(r, f) ==
  task' = [task EXCEPT ![r].place = "asking", ![r].field = f, ![r].turn = 1,
             ![r].asked = [m \in Members |-> IF m \in Up THEN "todo" ELSE "no"],
             ![r].page = [m \in Members |-> 1]]

List(r) ==
  /\ task[r].kind \in Lists /\ At(r, "spawned")
  /\ StartAsking(r, task[r].kind)
  /\ UNCHANGED <<streams, sent, lists, ends, returned, late>>

Question(r, m) == <<r, task[r].field, task[r].page[m]>>

\* The question is on record before it is sent;
Ask(r, m) ==
  /\ At(r, "asking") /\ task[r].asked[m] = "todo"
  /\ task' = [task EXCEPT ![r].asked[m] = "sending"]
  /\ waiting' = [waiting EXCEPT ![m] = @ \union {Question(r, m)}]
  /\ UNCHANGED <<streams, inflight, inHand, lists, ends, returned, late>>

\* a send that comes back failed takes it off.
AskReturns(r, m) ==
  /\ task[r].asked[m] = "sending"
  /\ \/ /\ Sent(m, Question(r, m)) /\ UNCHANGED waiting
        /\ task' = [task EXCEPT ![r].asked[m] = "waiting"]
     \/ /\ task' = [task EXCEPT ![r].asked[m] = "failed"] /\ UNCHANGED inHand
        /\ waiting' = [waiting EXCEPT ![m] = @ \ {Question(r, m)}]
  /\ UNCHANGED <<streams, inflight, lists, ends, returned, late>>

\* Mutant of GivesUp: only the end of the root ends a question.
GivesUpEnded == ended
\* What ends the wait for an answer: it ran out of time, or the agent left.
GivesUp == TRUE

AskEnds(r, m) ==
  /\ task[r].asked[m] = "waiting" /\ GivesUp
  /\ task' = [task EXCEPT ![r].asked[m] = "failed"]
  /\ waiting' = [waiting EXCEPT ![m] = @ \ {Question(r, m)}]
  /\ UNCHANGED <<streams, inflight, inHand, lists, ends, returned, late>>

\* All have answered or failed: their parts are put together in order.
AllIn(r) ==
  /\ \A m \in Members : task[r].asked[m] \notin {"todo", "sending", "waiting"}
  /\ Go(r, "asking", "merging")
  /\ UNCHANGED <<streams, sent, lists, ends, returned, late>>

Merging(r) == At(r, "merging") /\ task[r].turn <= N
Merged(r) == At(r, "merging") /\ task[r].turn > N
PartOf(r) == task[r].asked[task[r].turn]
OwnersToTell(r) == PartOf(r) = "ok" /\ task[r].field \in {"resources", "templates"}

\* A part that is missing, or holds no resources, leaves the owners alone.
PassOver(r) ==
  /\ Merging(r) /\ ~OwnersToTell(r)
  /\ task' = [task EXCEPT ![r].turn = @ + 1]
  /\ listFailed' = (listFailed \/ (PartOf(r) = "failed" /\ task[r].field # "level"))
  /\ UNCHANGED <<streams, sent, owners, listed, listing, ends, returned, late>>

\* What a server listed before is forgotten,
Forget(r) ==
  LET m == task[r].turn  f == task[r].field
  IN /\ Merging(r) /\ OwnersToTell(r) /\ ~task[r].forgot
     /\ owners' = IF f = "resources" THEN ForgetUris(owners, m) ELSE ForgetTemplates(owners, m)
     /\ task' = [task EXCEPT ![r].forgot = TRUE,
                   ![r].left = IF f = "resources" THEN Serving[m] ELSE Offering[m]]
     /\ UNCHANGED <<streams, sent, listed, listing, listFailed, ends, returned, late>>

\* and what it lists now is known one by one, the lock let go in between.
Know(r) ==
  LET m == task[r].turn  f == task[r].field
  IN /\ Merging(r) /\ task[r].forgot
     /\ \/ \E i \in task[r].left :
             /\ owners' = IF f = "resources" THEN Listing(owners, m, i) ELSE Templating(owners, m, i)
             /\ task' = [task EXCEPT ![r].left = @ \ {i}]
        \/ /\ task[r].left = {} /\ UNCHANGED owners
           /\ task' = [task EXCEPT ![r].forgot = FALSE, ![r].turn = @ + 1]
     /\ UNCHANGED <<streams, sent, listed, listing, listFailed, ends, returned, late>>

\* A list of the agent's is answered with what there is.
ListDone(r) ==
  /\ task[r].kind # "read" /\ Merged(r) /\ Go(r, "merging", "reply")
  /\ UNCHANGED <<streams, sent, lists, ends, returned, late>>

-----------------------------------------------------------------------------
(* A request about a resource: forward_uri, owner_of and ensure_listed.    *)

OwnerNow(r) == Owner(owners, Target[r], Up, None)

Look(r) ==
  /\ task[r].kind = "read" /\ (At(r, "spawned") \/ At(r, "look"))
  /\ task' = IF OwnerNow(r) # None
             THEN [task EXCEPT ![r].place = "chosen", ![r].dest = OwnerNow(r)]
             ELSE IF task[r].round = 1 THEN [task EXCEPT ![r].place = "locking"]
             ELSE [task EXCEPT ![r].place = "reply", ![r].notfound = TRUE]
  /\ UNCHANGED <<streams, sent, lists, ends, returned, late>>

\* One task at a time reads the lists; those that waited for it look again.
EnsureListed(r) ==
  /\ At(r, "locking") /\ listing = Free
  /\ IF listed
     THEN /\ task' = [task EXCEPT ![r].place = "look", ![r].round = 2]
          /\ UNCHANGED <<listing, listFailed>>
     ELSE /\ listing' = r /\ listFailed' = FALSE
          /\ StartAsking(r, "resources")
  /\ UNCHANGED <<streams, sent, owners, listed, ends, returned, late>>

ThenTemplates(r) ==
  /\ task[r].kind = "read" /\ Merged(r) /\ task[r].field = "resources"
  /\ StartAsking(r, "templates")
  /\ UNCHANGED <<streams, sent, lists, ends, returned, late>>

\* Mutant of Succeeded: a list that failed is not read again.
SucceededAnyway == TRUE
\* The lists count as read if none failed.
Succeeded == ~listFailed

ListedDone(r) ==
  /\ task[r].kind = "read" /\ Merged(r) /\ task[r].field = "templates"
  /\ task' = [task EXCEPT ![r].place = "look", ![r].round = 2]
  /\ listed' = Succeeded /\ listing' = Free
  /\ UNCHANGED <<streams, sent, owners, listFailed, ends, returned, late>>

-----------------------------------------------------------------------------
(* What the servers say: the pumps and server_said.                        *)

Hears(m) == pump[m] = "reading" /\ m \in alive

\* Mutant of Awaits: an answer of any server is taken for any other's.
AwaitsAny(m, k) == \E o \in Members : k \in waiting[o]
Awaits(m, k) == k \in waiting[m]

\* A response under an id of the agent's, which the server may not have been
\* asked.  The result of a tool may point at a resource.
ServerAnswers(m, r) ==
  /\ Hears(m)
  /\ inHand' = [inHand EXCEPT ![m] = @ \ {r}]
  /\ IF Awaits(m, r)
     THEN /\ waiting' = [waiting EXCEPT ![m] = @ \ {r}]
          /\ inflight' = [inflight EXCEPT ![r] = None]
          /\ Answered(r, m)
          /\ \/ UNCHANGED owners
             \/ task[r].kind = "call" /\ \E u \in URIs : owners' = Linking(owners, m, u)
     ELSE UNCHANGED <<waiting, inflight, order, stream, owners>>
  /\ UNCHANGED <<task, listener, own, listed, listing, listFailed, ends, returned, late>>

MorePages(r, m) == task[r].page[m] < MaxPages

\* A page of a list, the last or not, or an error.
ServerLists(m, r) ==
  /\ Hears(m) /\ task[r].asked[m] = "waiting"
  /\ Question(r, m) \in inHand[m] \intersect waiting[m]
  /\ inHand' = [inHand EXCEPT ![m] = @ \ {Question(r, m)}]
  /\ waiting' = [waiting EXCEPT ![m] = @ \ {Question(r, m)}]
  /\ \/ \E to \in {"ok", "failed"} : task' = [task EXCEPT ![r].asked[m] = to]
     \/ /\ MorePages(r, m) /\ task[r].field # "level"
        /\ task' = [task EXCEPT ![r].asked[m] = "todo", ![r].page[m] = @ + 1]
  /\ UNCHANGED <<streams, inflight, lists, ends, returned, late>>

\* Where Streams::unsolicited puts a message now.
Chosen == IF listener THEN "listener" ELSE IF order # <<>> THEN Last(order) ELSE "kept"

\* A request of a server's own: a stream is chosen for it under the lock, or
\* it is kept,
ServerAsks(m) ==
  /\ m \in scene.asks /\ Hears(m) /\ own[m] = "unsaid"
  /\ own' = [own EXCEPT ![m] = Chosen]
  /\ pump' = IF Chosen = "kept" THEN pump ELSE [pump EXCEPT ![m] = "placing"]
  /\ UNCHANGED <<task, order, stream, listener, sent, lists, alive, orphans, down,
                 ended, told, closer, returned, late>>

\* and is put on that stream when the lock is let go.
Place(m) ==
  /\ pump[m] = "placing"
  /\ pump' = [pump EXCEPT ![m] = "reading"]
  /\ own' = [own EXCEPT ![m] = "given"]
  /\ stream' = IF own[m] \in Requests
               THEN [stream EXCEPT ![own[m]] = Append(@, <<"own", m>>)] ELSE stream
  /\ UNCHANGED <<task, order, listener, sent, lists, alive, orphans, down, ended,
                 told, closer, returned, late>>

ServerEnds(m) ==
  /\ m \in alive \intersect scene.ends
  /\ alive' = alive \ {m} /\ inHand' = [inHand EXCEPT ![m] = {}]
  /\ UNCHANGED <<task, streams, waiting, inflight, lists, pump, orphans, down,
                 ended, told, closer, returned, late>>

PumpStops(m) ==
  /\ pump[m] = "reading" /\ ended
  /\ pump' = [pump EXCEPT ![m] = "done"]
  /\ UNCHANGED <<task, streams, sent, lists, alive, orphans, down, ended, told,
                 closer, returned, late>>

-----------------------------------------------------------------------------
(* The end of a server: member_down.                                       *)

\* The observer is told by whoever finds the server not down yet.
Downed(m) ==
  /\ down' = down \union {m}
  /\ told' = IF m \in down THEN told ELSE [told EXCEPT ![m] = @ + 1]

MemberDown(m) ==
  /\ pump[m] = "reading" /\ m \notin alive
  /\ pump' = [pump EXCEPT ![m] = IF m \in down THEN "done" ELSE "swapped"]
  /\ Downed(m)
  /\ UNCHANGED <<task, streams, sent, lists, alive, orphans, ended, closer,
                 returned, late>>

\* Mutant of Retained: nothing is in flight any more.
RetainedNone(m) == [r \in Requests |-> None]
Retained(m) == [r \in Requests |-> IF inflight[r] = m THEN None ELSE inflight[r]]

Retain(m) ==
  /\ pump[m] = "swapped"
  /\ pump' = [pump EXCEPT ![m] = "retained"]
  /\ inflight' = Retained(m)
  /\ UNCHANGED <<task, streams, waiting, inHand, lists, alive, orphans, down,
                 ended, told, closer, returned, late>>

\* Mutant of Orphaned: what waits is dropped and nobody is told.
OrphanedNone(m) == {}
Orphaned(m) == waiting[m] \intersect Requests

\* What waits is taken; the gateway's own questions among it have failed.
Drain(m) ==
  /\ pump[m] = "retained"
  /\ pump' = [pump EXCEPT ![m] = "answering"]
  /\ orphans' = [orphans EXCEPT ![m] = Orphaned(m)]
  /\ waiting' = [waiting EXCEPT ![m] = {}]
  /\ task' = [r \in Requests |-> [task[r] EXCEPT
                !.asked[m] = IF @ = "waiting" THEN "failed" ELSE @]]
  /\ UNCHANGED <<streams, inflight, inHand, lists, alive, down, ended, told,
                 closer, returned, late>>

AnswerOrphan(m, r) ==
  /\ pump[m] = "answering" /\ r \in orphans[m]
  /\ orphans' = [orphans EXCEPT ![m] = @ \ {r}]
  /\ Answered(r, None)
  /\ UNCHANGED <<task, listener, own, sent, lists, alive, pump, down, ended, told,
                 closer, returned, late>>

\* Mutant of LastGone: the root outlives its servers.
LastGoneNever == FALSE
LastGone == Up = {}

\* With no server left the root is over.
MemberGone(m) ==
  /\ pump[m] = "answering" /\ orphans[m] = {}
  /\ pump' = [pump EXCEPT ![m] = IF LastGone THEN "last" ELSE "done"]
  /\ UNCHANGED <<task, streams, sent, lists, alive, orphans, down, ended, told,
                 closer, returned, late>>

-----------------------------------------------------------------------------
(* close, called by the front and by the last server's pump.               *)

CloseChecks(c) ==
  /\ closer[c].at = "no"
  /\ IF c = TheFront THEN scene.leaves ELSE pump[c] = "last"
  /\ closer' = [closer EXCEPT ![c].at = IF ended THEN "done" ELSE "passed"]
  /\ UNCHANGED <<task, streams, sent, lists, alive, pump, orphans, down, ended,
                 told, returned, late>>

CloseCancels(c) ==
  /\ closer[c].at = "passed"
  /\ closer' = [closer EXCEPT ![c].at = "closing"] /\ ended' = TRUE
  /\ UNCHANGED <<task, streams, sent, lists, alive, pump, orphans, down, told,
                 returned, late>>

\* One server after another is closed, and told of unless it was before.
CloseMember(c) ==
  LET m == closer[c].next
  IN /\ closer[c].at = "closing" /\ m <= N
     /\ closer' = [closer EXCEPT ![c].next = m + 1]
     /\ Downed(m)
     /\ alive' = alive \ {m} /\ inHand' = [inHand EXCEPT ![m] = {}]
     /\ UNCHANGED <<task, streams, waiting, inflight, lists, pump, orphans, ended,
                    returned, late>>

CloseClears(c) ==
  /\ closer[c].at = "closing" /\ closer[c].next > N
  /\ closer' = [closer EXCEPT ![c].at = "done"]
  /\ order' = <<>> /\ listener' = FALSE
  /\ UNCHANGED <<task, stream, own, sent, lists, alive, pump, orphans, down, ended,
                 told, returned, late>>

-----------------------------------------------------------------------------
(* What the agent answers: agent_said and answer_server.                   *)

\* The id that server m's request has at the agent.  The servers number their
\* requests alike, so the id a server used does not tell which it was.
WireId(m) == <<"coco", m, 1>>
ServerOf(id) == id[2]

AgentAnswers(m) ==
  /\ ~ended /\ own[m] = "given" /\ ServerOf(WireId(m)) \in Up
  /\ returned' = returned \union {<<m, ServerOf(WireId(m))>>}
  /\ UNCHANGED <<task, streams, sent, lists, ends, late>>

-----------------------------------------------------------------------------
Forwarding(r) == ForwardNamed(r) \/ Note(r) \/ Register(r) \/ Unwait(r) \/ Unnote(r)
ReadSteps(r) == Look(r) \/ EnsureListed(r) \/ ThenTemplates(r) \/ ListedDone(r)
ListSteps(r) ==
  \/ List(r) \/ AllIn(r) \/ PassOver(r) \/ Forget(r) \/ Know(r) \/ ListDone(r)
  \/ \E m \in Members : Ask(r, m) \/ AskEnds(r, m)
OwnSteps(r) ==
  PostRegisters(r) \/ Reply(r) \/ Forwarding(r) \/ ReadSteps(r) \/ ListSteps(r)
SendReturns(r) == SendForwarded(r) \/ SendFails(r) \/ \E m \in Members : AskReturns(r, m)
TaskSteps(r) == OwnSteps(r) \/ SendReturns(r)
PumpSteps(m) ==
  \/ Place(m) \/ PumpStops(m) \/ MemberDown(m) \/ Retain(m) \/ Drain(m)
  \/ MemberGone(m) \/ \E r \in Requests : AnswerOrphan(m, r)
ServerSteps(m) ==
  \/ ServerAsks(m) \/ ServerEnds(m)
  \/ \E r \in Requests : ServerAnswers(m, r) \/ ServerLists(m, r)
CloseSteps(c) == CloseCancels(c) \/ CloseMember(c) \/ CloseClears(c)

Steps ==
  \/ Listen
  \/ \E r \in Requests : Post(r) \/ TaskSteps(r)
  \/ \E m \in Members : PumpSteps(m) \/ ServerSteps(m) \/ AgentAnswers(m)
  \/ \E c \in Closers : CloseChecks(c) \/ CloseSteps(c)

Next == Steps /\ UNCHANGED scene

\* The gateway's own steps: its tasks run on, and the time of a question runs
\* out.  Nothing is asked of the agent, of the servers, or of the front; nor
\* that a server lets a send to it come back, or itself be closed (SendReturns,
\* CloseMember), which have no time limit.
Program ==
  \/ \E r \in Requests : OwnSteps(r)
  \/ \E m \in Members : PumpSteps(m) \/ CloseChecks(m)
  \/ \E c \in Closers : CloseCancels(c) \/ CloseClears(c)

\* Each such step brings its task further and there are finitely many, so that
\* one of them is taken is all that need be assumed.
Spec == Init /\ [][Next]_<<vars, scene>> /\ WF_vars(Program)

-----------------------------------------------------------------------------
(* Properties.                                                             *)

Answers(r) == {i \in DOMAIN stream[r] : stream[r][i][1] = "answer"}

\* The stream of r may still be written to: its request waits, or a pump is
\* about to place a message it chose the stream for.
Held(r) == r \in ToSet(order) \/ \E m \in Members : pump[m] = "placing" /\ own[m] = r

PhaseOf(r) ==
  CASE task[r].place \in {"idle", "checked"} -> "idle"
    [] task[r].place \notin {"idle", "checked"} /\ ~Held(r) -> "over"
    [] OTHER -> IF Answers(r) # {} THEN "answered" ELSE "open"

Promise == INSTANCE AgentStreams WITH
  MayFollow <- TRUE,
  phase <- [r \in Requests |-> PhaseOf(r)],
  stream <- [r \in Requests |->
    [i \in DOMAIN stream[r] |-> IF stream[r][i][1] = "answer" THEN "response" ELSE "message"]]

\* The root keeps the promise made to agents of their streams: one response
\* at most, though a send that fails, the end of its server and the server
\* itself may each give it, and nothing on a stream that is over (answer,
\* server_said, member_down, forward).
KeepsPromise == Promise!Spec

\* A cancellation finds the server that has the request: while one that was
\* forwarded waits for a server that is up, it is noted as that server's, with
\* the two maps under locks of their own (forward, member_down, agent_said).
CancelFinds ==
  \A r \in Requests : \A m \in Up :
    At(r, "forwarded") /\ r \in waiting[m] => inflight[r] = m

\* Each server's end is told once, whether it ended by itself, with the root,
\* or both at once (member_down, close).
EndToldOnce ==
  \A m \in Members :
    /\ told[m] <= 1
    /\ ended /\ (\A c \in Closers : closer[c].at \in {"no", "done"}) => told[m] = 1

\* Some task has forgotten m's resources and not yet named u again.
Relisting(m, u) ==
  \E r \in Requests : /\ Merging(r) /\ task[r].forgot /\ task[r].turn = m
                      /\ task[r].field = "resources" /\ u \in task[r].left

\* The servers up that list what r asks for.
ServersOf(r) == {m \in Up : Target[r] \in Serving[m]}

\* Once the lists were read, a resource is looked for at the first server up
\* that lists it, whatever fails or is linked or ends meanwhile; but for the
\* time a list is read again, when it is forgotten (owner_of, ensure_listed).
ReadsFindServer ==
  [][\A r \in Requests :
       /\ Look(r) /\ listed
       /\ ServersOf(r) # {} /\ \A m \in ServersOf(r) : ~Relisting(m, Target[r])
       => task'[r].dest = CHOOSE m \in ServersOf(r) : \A o \in ServersOf(r) : m <= o]_vars

\* What is answered goes between the two that asked and were asked: a server
\* answers only what it was sent (server_said), and the agent's answer to a
\* server goes to the one whose request it is (answer_server).
AnswersMatch ==
  /\ \A r \in Requests : \A i \in Answers(r) : stream[r][i][2] \in {None, task[r].dest}
  /\ \A p \in returned : p[1] = p[2]

\* Together with the types, in which no list is read past its last page.
RootSound == TypeOK /\ AnswersMatch /\ EndToldOnce

\* A send of r's has not come back.
HeldUp(r) ==
  At(r, "registered") \/ (At(r, "asking") /\ \E m \in Members : task[r].asked[m] = "sending")

\* The work on a request comes to an end whatever the servers answer: it is
\* sent on or answered, unless a send of its own, or of the one that reads the
\* lists before it, does not come back, which then keeps its place for good.
\* (Requests are finitely many, so again and again none other is being worked
\* on.  ask's time limit, ensure_listed.)
WorkEnds ==
  []<>(\A r \in Requests :
         \/ task[r].place \in {"idle", "forwarded", "done"} \/ HeldUp(r)
         \/ At(r, "locking") /\ \E q \in Requests : listing = q /\ HeldUp(q))

\* A request that waits for a server which is gone is answered, or its stream
\* ended: but one that was put on record after those waiting were answered,
\* which a server that stopped talking may still take (ask_with, member_down),
\* and while the end of the root waits for a server to close.
GoneAnswered ==
  []<>(\A r \in Requests :
         At(r, "forwarded") /\ task[r].dest \in down /\ r \notin late
           => \/ r \notin ToSet(order)
              \/ \E c \in Closers : closer[c].at = "closing" /\ closer[c].next <= N)

\* With no server left, the root ends (member_down).
RootEnds == []<>(Up = {} => ended)
=============================================================================
