# Coco MCP: specifications and proofs

Coco MCP is a client for Model Context Protocol servers: a window, a command
line over the same crates, and a gateway that stands between agents and the
servers. This directory holds TLA+ modules of the parts where several tasks,
processes or users meet, the TLC configurations that check them on small
instances, and the TLAPS proofs of what matters most in them for instances of
any size. `PROJECT.json` maps every definition to the lines it models, and
lists the hazards of the code with the properties that watch them.

Run a check with `tlc -config MCRelay.cfg MCRelay.tla`, a proof with
`tlapm RelayProofs.tla`.

## 1. The system

Each component with its state, its operations, and what it meets.

| component | state | operations | meets |
|---|---|---|---|
| session (`mcp-core/session.rs`, `transport.rs`) | state watch, token, rmcp's queue, the record of requests out (`Heard`), keepalive and wait tasks | send, timed, ping, close, drop | rmcp's service loop, the server, whoever holds a handle |
| listen stream (`mcp-core/listen.rs`) | resources wanted, changes waiting, the open stream | subscribe, unsubscribe, open, read, pause, idle | the session's token, its callers, the server |
| connecting (`lifecycle.rs`) | the era tried | handshake, one fallback | the server |
| server's requests (`handler.rs`, `event.rs`) | policies, requests out to listeners, their responders | ask, answer, withdraw, expire | the window's queue of dialogs |
| gateway front (`mcp-gateway/server.rs`) | connections by id, places reserved, the list of servers, `stopping` | connect, connect to the root, set_servers, sweep, end, stop | relays, upstream servers, the desktop's settings |
| relay (`relay.rs`) | requests waiting and their streams, the agent's stream, a backlog, a token | post, listen, pump, close | the front, the upstream, the agent |
| root (`aggregate.rs`, `merge.rs`, `streams.rs`) | members, requests forwarded, owners of names and URIs | post, merge lists, member down, close | every server at once |
| upstreams (`http.rs`, `stdio.rs`) | a child or an HTTP session | send, receive, close | servers |
| desktop: connections (`state.rs`, `bridge.rs`) | servers, sessions by generation, what each list shows | connect, disconnect, delete, file events, list again | tasks of each connect, the session's channel |
| desktop: requests (`calls.rs`) | one response per key, subscriptions | send, give up, forget, replay, re-read | tasks of each request, the store, sessions |
| desktop: history (`state.rs`, `persistence.rs`) | the list on screen, the table of calls | read, record, delete, clear | a pool of background jobs |
| desktop: selection (`state.rs`) | indices into the servers and the rows | select, edit, confirm, filter, delete | jobs that move what the indices point into |
| desktop: gateway (`desktop/gateway.rs`) | switch, port, token, run; agents by connection, their calls | start, stop, refresh, renew the token, file reports | the gateway, the keyring, the database |
| flags (`state.rs`, `persistence.rs`) | a choice shown and one stored | choose, write again | the pool |
| store (`mcp-store`) | SQLite: servers, snapshots, calls, settings | single statements, a few read-then-write | app and command line |
| secrets (`mcp-auth`, `persistence.rs`) | an entry of the keyring per server | save, delete, forget, sign in, import | the database, with which there is no transaction |
| diff (`mcp-diff`) | none | a verdict on two snapshots | `coco diff`, the window's banner |

What is hard here:

* **Several tasks, no common lock.** A session has a service loop, a
  keepalive, a wait task, a listen task and callers; they share a token, a
  watch cell and a record of requests. The gateway takes `relays`, `opening`
  and `servers` one after another, never together but in `reserve`. The relay
  chooses a stream under its lock and sends to it without.
* **Things given up.** A call may time out or be cancelled at any point
  between being queued, sent, recorded, answered and delivered.
* **Ends.** A session ends by its user, its server, its transport or its
  keepalive, and each must be told as what it was. A relay is closed by four
  callers, the root by its servers one after another.
* **Routing while things open and close.** A server's message must find the
  stream it belongs to while streams open, fill, are left and end.
* **Jobs out of order.** The desktop runs database work on a pool and
  connects on a runtime, and hears of both on the UI thread, in any order:
  generations, stamps, counts of runs and identifiers tell a late result from
  one that is wanted.
* **Two stores, no transaction.** The keyring and the database, and the app
  and the command line, write side by side.

## 2. The modules

| module | models | proofs |
|---|---|---|
| `Session` | one connected session: calls, record, keepalive, wait task, close | `SessionProofs` |
| `Listener` | the `subscriptions/listen` task and its callers | `AnswersProofs` |
| `Dialogs` | what servers ask of a person: handler tasks, withdrawals, the queue of dialogs | `JobsProofs` |
| `GatewayServer` | agents' connections under changes, sweep and stop | `GatewayServerProofs` |
| `AgentStreams` | abstract: what an agent is promised of its requests' streams | |
| `Relay` | one agent's connection to one server; implements `AgentStreams` | `RelayProofs` |
| `Owners` | which server behind the root a resource belongs to (a data type) | `AggregateProofs` |
| `Aggregate` | the root of all servers, over `Owners`; implements `AgentStreams` | `AggregateProofs` |
| `Connection` | connect, disconnect, generations, events lost, lists read again | `ConnectionProofs` |
| `Calls` | one request per key, given up, forgotten, shown; subscriptions | `AnswersProofs` |
| `History` | the list of recorded calls, its table and the jobs between | `AnswersProofs` |
| `Rows` | the selected row while rows are read, recorded, filtered, deleted | `JobsProofs` |
| `Sidebar` | the indices the window keeps into its list of servers | `WindowProofs` |
| `Serving` | the app's own gateway: switch, port, token, list, starts and stops | `WindowProofs` |
| `Agents` | who is shown as connected, and which of their calls are recorded | |
| `Flag` | a remembered choice saved in the background | `JobsProofs` |
| `Store` | snapshots written by the app and the command line | `WindowProofs` |
| `Keyring` | a server's secret beside its row | `WindowProofs` |
| `Sift` | sequences filtered and sorted, a library of Dialogs, History and Rows | `JobsProofs`, `AnswersProofs` |
| `Diff` | the classification of differences, against what schemas admit | |
| `Window` | Sidebar, Store, Keyring, Serving and Agents, one beside the other | `WindowProofs` |
| `Jobs` | Flag, Dialogs and Rows, one beside the other | `JobsProofs` |
| `Answers` | Calls, Listener and History, one beside the other | `AnswersProofs` |

Each module's header names its source and what is external to it. A step of a
module is what runs under one lock, between two awaits, or in one update of
the UI thread; where the code reads something and acts on it later, those are
two steps.

How the parts fit. `GatewayServer` sees of a relay only that it is open, ended
and that its server runs, which `Relay` and `Aggregate` detail; both of these
keep the promise of `AgentStreams`, `Relay` with its response last
(`MayFollow` FALSE), the root with messages that may follow it. `Aggregate`
leaves the room of a stream to `Relay`. `Listener` runs under the token of
`Session`, which it sees as `cancelled`; `Connection` sees a `Session` as up,
ended by itself or closed; `Calls` leaves the rows it writes to `History`, and
`History` the selected one to `Rows`. `Serving` starts and stops the gateway
whose reports `Agents` files. Flag, History, Store, Keyring and Serving's
settings are users of the same background jobs (`in_background`).

Runs of several parts. `Window`, `Jobs` and `Answers` put small modules that
share nothing one beside the other: a variable `part` chooses one at first, and
the variables of the others stay as they begin. Such a run checks each part
alone, at the cost of one. A property of a part reads `part = "rows" => ...`
there; the proofs are of the part's own module (`R!Spec`, `K!Spec`), and a last
theorem carries each over to the runs (`JobsSpec`, `AnswersSpec`,
`WindowSpec`). `MCWindow` adds the part `diff`, whose operators are recursive,
which no module with a theorem may be.

Mutants: an operator named after the one it would replace, introduced by a
comment "Mutant of", is a plausible wrong version of that code. No
specification uses it; it is there to show that a property would notice.

### Session

`queue` is rmcp's channel, `inflight` the transport's record (`Heard`),
`inHand` and `answers` the server's two ends. `caller[r]` follows `send`
(`waiting`, `givingUp`, `forgot`, ...) or `timed`; `keepalive` and `waiter` are
the places of the two tasks between their awaits. Time is abstract: `quiet`
says the interval has passed, and an armed timeout may fire.

* `QuietEndIsAsked`: a session reads Disconnected only if its user closed or
  dropped it, although the keepalive ends one by the same token.
* `SlowCallIsNotSilence`: the keepalive never goes on to ping while the server
  has a call that somebody waits on, though the server picks its own ids.
* `SilentServerFound`, `EndIsWhole` (liveness): a server that goes silent is
  found, the end is shown, told, and the failed session is closed.
* `SilentServerFailed` is what the documentation says and does not hold: a
  request that times out in `timed` stays on record (`session_timed`).
  `SilentServerFound` names that leak and another: a call given up before
  rmcp's loop has put it on record (`missed`).

### Listener

The server may accept any part of what it is asked for, refuse, close, break,
or never answer. `latest` is history: the last change applied to a resource.
`ListenerSound`: what callers were told is what is listened for; while a
stream is read no change waits and everything wanted was asked on that stream;
nothing of a resource is left to report once its unsubscription is answered.
`CallersFreed` (liveness): `peer.listen` has no time limit, so a silent
server's callers are freed by the end of the session only.

### Dialogs

A handler's task per request, the server's withdrawal in a task of its own,
the window's queue over two sessions that use an id twice. `DialogsSound`: one
dialog for each request somebody waits for, answers go to the request shown,
fields are those of the request shown but for one that follows another with
its very id. A server that sends requests numbers them within its session; the
questions of calls (`fulfil`, in modern sessions) go by their key, which
another call of the session may use too. `DialogsRest` names the dialogs that
stay though nobody waits: one whose request ran out of time, of which nothing
tells the window, and one told after its withdrawal.

### GatewayServer

`at[c]` follows one attempt to connect through `handle`, `reserve`,
`connect`/`connect_root`: reserve a place, open the server, check that the
list and `stopping` are as they were, insert. `CapHeld`: the limit per path
holds however many arrive together. `AllAccounted`: places are given back
once, what is kept is current, no server runs that stop could not find,
nothing is open after stop. `UnchangedKept`, `ChangedEnds`: after a change of
the list connections to what changed end, and no others. `slipped` names what
the code lets through: `connect` checks and inserts under different locks.
`StopEndsAll` is the documented promise without it (`gateway_stop`).

### AgentStreams, Relay, Aggregate

`AgentStreams` is what either side of the gateway promises an agent: a stream
opens with its request, bears one response at most, and nothing once it is
over. `KeepsPromise` in `Relay` and in `Aggregate` is its specification under a
refinement mapping: the phase of a request's stream from who can still send on
it, and the stream from what its reader was given or will be.

`Relay` bounds its channels as the code does (`Capacity`, `Backlog`); the pump
is `receiving`, `routing` (under the lock), then sending without it; `lost` is
history: with a stream the agent left, out of a full backlog, with a relay that
is dropped. `Conserved`: a message of the server's own is at every moment in
one place. `AnswerArrives`, `StreamsEnd` (liveness). A relay whose end was told
is forgotten by the sweep, which the stop of the gateway ends (`SweepStops`):
`HeldOpen` says which streams stay open after an end, among them one registered
after a stop has cleared the others. `KeptUntilStream` is the header's promise
and does not hold (`relay_kept`).

`Aggregate` follows each request through the root: looking up the owner,
reading lists again, forwarding, asking every server for a list, page by page. A send to a server may take any
time or never return (`SendReturns` is outside the fairness); once it is back
the wait for the answer has a time limit (`AskEnds`).
`RootSound`: an answer comes from the server that was asked, an answer to a
server goes to the one that asked, each server's end is told once.
`CancelFinds`: a cancellation finds the server that has the request.
`ReadsFindServer` (an action property): a resource is looked for at the first
server up that lists it. `WorkEnds`, `GoneAnswered`, `RootEnds` (liveness): work on a
request ends unless a send of its own, or of the one reading the lists before
it, is out (`HeldUp`), in which case it keeps its permit; a request registered
after its server's requests were answered is counted (`late`) and excepted.

### Connection, Calls

`Connection`: each connect is a task with a session; `gen` tells its results
and events from those of the current one; channels lose the oldest event to a
slow reader (`missed`). `ConnectionSound`: connected exactly with a session, of
this generation, with its own list. `SessionKept`: no event of an older one
takes a session away. `Settles`: what is shown comes to rest, except that a
handshake has no time limit and a server that never answers `initialize` leaves
the window connecting. A list may fail to be read while the session is up: the
connect or the relist succeeds, the list is empty and named in `list_failures`.
`ListsSettle`: what is shown comes to be the server's list, or the failure to
read that very list, which nothing reads again; it names the other ways a list
stays old: a change told while the connect was on its way (`early`), one lost
to a full channel, two relists that came back crosswise (`crossed`).

`Calls`: `waiting[k]` is the stamp a key waits for, `forgotten[k]` the newest
stamp when it was forgotten. `CallsSound`: a key that waits shows so under a
request that is out, and what is shown answers its newest request. A session
ends by its user, which forgets its updates, or by itself, which does not
(`SessionEnds`, `EndFiled`): an update told with that end finds no session to
read from. `CallsRest`: no key waits for ever, and a resource shown is as new as
the last change told, unless it was told during a read or with the session's
own end (`skipped`, of the ways in `Ways`).

### History, Rows, Sidebar

`ListSound`, `NoneLost`, `WaitersFreed`: no call is listed twice or lost to
jobs in any order but for the ways the comment names. `RowStays`: the row a
person chose stays selected while calls are recorded, read and filtered, but
over a list read again and a delete above it, which keep the index; a read that
a clear overtook is merged as the others are. `SameServer`: every index stays
on its server but `form_awaits`.

### Serving, Agents

`Serving`: a start is a task that stops the old gateway, reads the token,
binds and reports; `run` tells a report that was replaced. `ServingSound`: the
gateway shown runs, with the token shown; any other that is up has yet to
report; and with nothing on its way what is asked for is served, shown, kept
and stored, but where two jobs of a kind were out together (`crossed`).
`NeverInItsOwnWay` is the code's comment and does not hold (`window_restart`).

`Agents`: reports come in an order their tasks give them and are filed under
the server the path is of by then. `AgentsSound`: who is shown is who is
connected, a call that was answered is recorded once, what is remembered of
calls to come is bounded; `moved`, `early`, `evicted` and `gone` name the rest.

### Flag, Store, Keyring, Diff

`LastChoiceWins`, `SavingEnds` of Flag. `StoreSound`: no stored snapshot is
unread or of a deleted server, and equal neighbours have a named cause.
`KeyringSound`: with no job out no entry is left that no row names, unless two
jobs crossed in a way of `Apart`. An add or a delete that the database refuses
is left out: the keyring is written only after the row, so that such a job
changes nothing.
`DiffSound`: a diff without a breaking
change breaks no client, against a definition of the values a schema admits,
but for the ways `Unseen` names; nothing is said of lists unread. A client is
taken to send what is declared to it or required of it, and any name where a
schema is given for those not declared (`Known`). `Unseen` lists the ways the
families of schemas meet (each is needed: without it the run fails), not every
way there is: keywords treated alike stand for one another in the families,
and formats, the depth limit and circular references are not in them.

## 3. The runs

| run | instance | shows |
|---|---|---|
| `session` | a call and a subscribe; the server uses the call's id | Session, safety and liveness |
| `session_timed` | one subscribe | violation: a leaked record blinds the keepalive |
| `gateway` | two agents, limit one, one change of the list, a stop | GatewayServer, safety and liveness |
| `gateway_stop` | one agent | violation: a connection outlives stop |
| `relay` | two requests, one stream, two messages, capacity and backlog one, two closers | Relay, safety, refinement, liveness |
| `relay_kept` | one request, one stream, one message | violation: a message kept while a stream is open |
| `aggregate` | two servers, two requests, eight scenes | Aggregate, safety, refinement, liveness |
| `connection` | two connects, two changes of lists, channels of two | Connection, safety and liveness |
| `window` | parts diff, sidebar, store, keyring, serving, agents | their safety |
| `window_restart` | the same | violation: a gateway finds its own port in use |
| `jobs` | parts flag, dialogs, rows | their safety and liveness |
| `answers` | parts calls, listener, history | their safety and liveness |

The bounds. Two actors of a kind are what the races need (two agents for one
place, two requests and a stream for a misplaced message, a second connect
over a first), and a third where order among three matters (callers of
Listener: one accepted, one changing, one queued; requests of Dialogs: two of
one session, two with one id). Capacities of one make every full channel and
every overflow happen; Connection's channels keep two, so that one event may
be lost and another not. The lists of `gateway` hold every way a list can
change for a path: gone, opened differently, another before or after it,
swapped, named twice (`MCLists`: one server; another placed before it; the
first opened differently and the two swapped; one namespace twice; nothing). The scenes of `aggregate` choose what the agent asks and
what may happen in one run: a list read again under a read, servers that end
under a call, a list or a read, the agent leaving, a server that asks. The
remaining constants (`MaxChanges`, `MaxTraffic`, `MaxJobs`, `MaxActions`,
`MaxCalls`, `MaxConnects`, ...) bound what users and servers do, never how the
program answers; each is named as a bound where it is declared. Deadlock is not
checked: every one of these systems may come to rest, its users done.

Fairness. All tasks run on a multi-threaded tokio runtime
(`apps/desktop/src/bridge.rs`, `apps/cli/src/lib.rs`), so a task that can go
on does: weak fairness of the program's own steps and armed timers taken
together, which is as much as the properties need since each run has finitely
much to do. None is assumed of users, agents or servers, but that an agent
reads a stream it keeps (`Relay`): not that a server answers, and not that it
lets a send, a close or a handshake return where the code sets no time limit
(`Sending` and `ClosingServer` in `Relay`, `SendReturns` in `Aggregate`,
`Handshakes` in `Connection`, the calls and openings of `Listener`). The sweep
of the gateway is fair only until stop ends it. Strong fairness appears once, in `Listener`: tokio's
`select!` polls its branches in random order, so a change or a cancelled token
that is ready again and again is not passed over for ever.

## 4. The proofs

All are for any values of the constants that satisfy the named assumptions.
Where a run checks a property that is also proved, the run shows it on a small
instance and the theorem in general.

* **Session** (`SessionProofs`; `RequestsAssumption`: the ping is no request).
  `SessionTypeCorrect`; `SessionQuietEnd`, from `EndInv`, which says what each
  place of the wait task and the keepalive implies of the token, the state and
  the reason the service quit (`QuietEndIsAsked` alone is not inductive: a wait
  task about to set Disconnected must already know that the user asked);
  `SessionSlowCall`, an action property, from `CallsPlaced`: a request the
  server holds is on record until its caller gives up.
* **GatewayServer** (`GatewayServerProofs`; `GatewayAssumption`).
  `GatewayPlacesCounted` and `GatewayCapHeld` from `CapInv`: the limit is kept
  because the reservations counted are exactly the connects in progress. The
  lemmas count finite sets, hence `IsFiniteSet(Conns)`. `GatewayAllAccounted`
  from `AccountInv`, which follows a connection through the places of its
  attempt, of the sweep and of stop, and says at each whether it can still be
  missed; `GatewayUnchangedKept`, an action property, from both.
* **Relay** (`RelayProofs`; `RelayAssumption`: names of different kinds differ
  and the backlog fits into a channel, as its constants do). `RelayInvariant`,
  the types, what the pump carries at each of its places and which requests
  still wait for an answer. From it `RelayKeepsPromise`: `Init` maps to the
  `Init` of `AgentStreams`, and each action to one of its actions or to a
  stutter, a lemma per action. `RelayConserved` from `KeptInv`, which counts
  the copies of a message; its lemmas say how the places of a message in a
  sequence change when one is appended, taken or dropped.
* **Aggregate** with **Owners** (`AggregateProofs`; `AggregateAssumption`,
  `OwnersAssumption`, and `NamesAssumption`: an agent's id is none of the
  gateway's own questions). `RootInvariant`: at each place of a request's task,
  of a pump and of a server's end, which server it is of and who waits for it
  (`Routed`, `Noted`), what is still to be told to whom (`ToldOnce`), and what
  is noted of each list so far (`Parts`). `RootStaysSound` and
  `CancellationFinds` follow from it: neither is inductive, since both maps a
  cancellation reads are cleared by others, one before the other.
  `ReadsFind` is an action property and needs `ListsInv` besides: one task reads
  the lists at a time, what is forgotten of a server is being named again, and a
  server heard in a reading that has not failed is known; that the first of
  several servers exists is well-foundedness (`SmallestInNat`).
  `RootKeepsPromise` shows the refinement as for Relay: a lemma per kind of step.
* **Connection** (`ConnectionProofs`; `ConnectionAssumption`).
  `ConnectionShownSound` and `ConnectionSessionKept` from `ConnInv`: two
  connects differ in generation, a result that is awaited is of the current
  one, and a session follows its life (not up before its connect is done).
* **Flag** (`JobsProofs`; `FlagAssumption`). `FlagConverging` and
  `FlagLastChoiceWins` for any choices and any number of writes.
* **Dialogs** (`JobsProofs`; `JobsAssumption`: two sessions, and a server that
  sends requests numbers them within its session). `DialogsStaySound` from
  `DialogsInv`: a request is coming, shown or answered, but once; it is
  withdrawn only if its handler was cancelled; what is not of the current
  session is cancelled; one that waits is held somewhere; and the form is that
  of the head of the queue or of one with its id.
* **Rows** (`JobsProofs`; finite sets of calls and tools, numbered from 1).
  `RowStaysSelected`: `RowStays` is inductive as it is. What carries it is what
  becomes of an element when others are taken out of a sequence, put before it
  or sorted in (`SiftedAhead`, `SiftedElements`, `FallingOf`).
* **Calls** (`AnswersProofs`; `CallsAssumption`). `CallsAreSound` from
  `CallsInv`: stamps are given in order, so the answer shown under one is the
  newest, and an answer on its way is of a request that was made.
* **Listener** (`AnswersProofs`; a list notification is no resource).
  `ListenerStaysSound` from `ListenerInv`: `AnswersHold` rests on one change at
  a time being applied and not answered, being the last of its resource, and on
  no call being in the queue twice; quietness after an unsubscription on the
  stream being left before a change is applied.
* **History** (`AnswersProofs`; finitely many calls, a limit of one or more).
  `ListStaysSound` and `NoneIsLost` from `HistoryInv`: calls have times of their
  own, a row is listed or its way to the list is named (`Coming`: its record
  came back, the read that will bring it is out or found it, it was refused),
  and a replay that was refused had its row deleted. `NoneLost` looks at states
  with no job out and says nothing of the others, hence `RowsCome`, which
  speaks of them all.
* **Serving** (`WindowProofs`; `MaxActions` is a number). `ServingStaysSound`
  from `ServingInv`: the start counted last is of the settings as they are while
  it is under way; the gateway shown is that of the start counted last, and each
  gateway that was made and not reported is up; and for each kind of job, with
  no two of it out together, what is on its way is what is wanted. That runs
  and tokens stay within the numbers there are for them (`Counted`) is itself
  an argument: every run is paid for by an action, and a list that changed
  under a start, a renewal, or a start that has found no token yet each hold
  one back.
* **Keyring** (`WindowProofs`; any keys but None, any number of jobs).
  `KeyringIsSound` from `KeyringInv`: what each job at each of its places knows
  of the row and of the record it read, which entries it still owes the keyring
  or must still take from it, and that every entry no row names is owed by some
  job; all of it unless two jobs crossed in a way of `Apart`, which is never
  undone.
* **Store** (`WindowProofs`; finitely many sessions, a base of one or more).
  `StoreIsSound` from `StoreInv`, and with `KeyringIsSound` `KeptStaysSound`. The
  order the database sorts by is strict and total (`BeforeOrders`: of two texts
  the first place they differ at decides; `TextsDiffer`: two instants have two
  texts), so a latest row exists (`LatestOf`) and is the one that was compared
  with. A session nobody crossed was measured against the row that is latest
  still, and is no older than any: its row can have an equal neighbour only
  where the times do not sort as texts (`Disorder`).
* **Sidebar** (`WindowProofs`; finitely many servers, numbered from 1, each
  listed once). `SameServerStays` from `SidebarInv`: no server is listed twice,
  and one that was added and not yet shown is not listed. Without it an index
  found by `Position` could be that of another row. Each handler is a lemma; the
  delete rests on `RemovedAt`, which says where the elements of a list go when
  one is taken out.

`Sift` writes `Vec::retain`, `filter` and `sort_by` by counting, an element's
place being the number of those kept ahead of it: the folds and `SelectSeq`
take operators as arguments or recurse, which no prover here instantiates,
whereas `NthOf` and `Sifted` follow from the theorems on cardinalities.

Every inductive invariant above was first checked by TLC on the instance of
its run (Serving: two ports, three lists of which one cannot be built, three
actions; Keyring: two entries, four jobs).

Only model-checked, and why:

* all liveness (fairness is outside what the prover treats);
* `Diff`, whose walk over schemas is a recursive operator: what it computes for
  every schema needs induction over data;
* `Agents`: not out of reach (see 6).

## 5. What the code does otherwise than it says

Four runs expect a violation of what a comment or document says, and
`PROJECT.json` quotes it: `session_timed`, `gateway_stop`, `relay_kept`,
`window_restart`. The properties that hold name other ways in which the code
falls short of what a reader would expect, each in the comment of the property:

* Session: a call given up before it is on record is never struck from it.
* Connection: a list that changed while the connect was under way, or whose
  relists crossed, stays old; one that could not be read stays empty, with a
  note; a server that never answers `initialize` is connecting for ever.
* Relay: a stream registered after a stop cleared the others has nothing left
  that ends it.
* Aggregate: a send that a server never takes keeps its permit; a request
  registered after its server's end waits for an answer that may not come.
* Calls: a change told while the resource is read is not read again, nor is one told
  with the session's own end.
* Dialogs: one whose time ran out stays, and its answer goes nowhere; a request told after its withdrawal keeps its dialog; a form is kept
  over another request of the same id from the session after, or of the same
  key from another call.
* Rows, Sidebar: a list read again and a delete above keep an index instead of
  a name; `form_awaits` is not moved by a delete.
* History: a call sent again from a row deleted meanwhile is recorded and not
  listed; a read that ran before a delete brings the row back.
* Store: the latest snapshot is the latest by text, which is not that by time.
* Keyring: jobs that cross, and an import stopped half way, leave secrets.
* Serving: which of two crossing `set_servers`, savings or new tokens is last
  is open.
* Agents: a connection that ended before it was told opened stays shown.
* Diff, among ways that no claim is made to exhaust: an enum declared or
  dropped, alternatives more or fewer, a name required that `properties` does
  not declare (though the header of `mcp-diff/src/lib.rs` says that a new
  required field breaks callers), a schema of the additional properties, a
  reference that leads elsewhere, keywords beside a reference, and equal parts
  that refer to different definitions are not seen to get stricter.

## 6. Not modelled, and what is left

Left out: connecting and the choice of a version (sequential, no state kept),
the paging of lists, the update notice (one file, whose comment accepts a lost
change), schema forms, import and export formats, the mock server, transports
to servers (external to Relay and Aggregate, which let a send or a close fail or never
return, and an answer come late, in any order or not at all), views, menus and wording, the command line but for what it stores.
Two hazards listed have no property: the saved roots, which are written like a
flag but never again after a crossed save, and the read of stored calls after a
delete, named above.

What a further step would prove: `AgentsSound` (what each report on its way
still stands for).
