--------------------------- MODULE GatewayServer ---------------------------
(***************************************************************************)
(* The gateway's front: which agents are let in, to which servers, and     *)
(* when their connections end.  An agent connects to one server's path or  *)
(* to the root, which is every server at once; meanwhile the list of       *)
(* servers changes, connections are swept, and the gateway is stopped.     *)
(*                                                                         *)
(* Source: crates/mcp-gateway/src/server.rs; a connection's own close is   *)
(* Relay::close in crates/mcp-gateway/src/relay.rs.  HTTP requests are     *)
(* served by tasks of a multi-threaded runtime, so a step is what one task *)
(* does under one hold of `relays`, `opening` or `servers`, or between two *)
(* awaits.  External: the server process or session behind a connection    *)
(* (`up`), which starts, may refuse to, and may end by itself.             *)
(***************************************************************************)
EXTENDS Naturals, Sequences, FiniteSets

CONSTANTS
  Conns,       \* attempts to connect: each gets a session id of its own
  Root,        \* the path of the root; the other paths are namespaces
  Namespaces,  \* the namespaces servers may be given
  Lists,       \* the lists of servers the gateway may be given, in order:
               \* sequences of [ns, via], via being how the server is opened
  Limit,       \* Limits::connections
  MaxChanges   \* bound on calls of set_servers

Paths == Namespaces \cup {Root}

ASSUME GatewayAssumption ==
  /\ Limit \in Nat \ {0} /\ MaxChanges \in Nat
  /\ IsFiniteSet(Conns)
  /\ Root \notin Namespaces
  /\ \A list \in Lists : \A i \in DOMAIN list : list[i].ns \in Namespaces

VARIABLES
  servers,     \* Shared::servers
  stopping,    \* Shared::stopping
  opening,     \* Shared::opening: places reserved, by path
  relays,      \* Shared::relays: the connections kept, by their ids
  at,          \* how far each attempt to connect has come
  path,        \* the path it asked for
  via,         \* the part of the list it was opened from
  ended,       \* connections whose token is cancelled: is_closed
  up,          \* connections whose server side runs
  stale,       \* what a set_servers in progress has yet to close
  stop,        \* how far Gateway::stop has come
  sweeping,    \* what stop's current pass has yet to call close on
  awaited,     \* the closes of that pass that have not returned
  changes,     \* calls of set_servers so far
  slipped      \* history: past the check when the list or `stopping` changed

vars == <<servers, stopping, opening, relays, at, path, via, ended, up,
          stale, stop, sweeping, awaited, changes, slipped>>

config == <<servers, stopping, stale, stop, sweeping, awaited, changes>>

-----------------------------------------------------------------------------
(* Which servers a path means.                                             *)

\* What of a list a path reaches: the root all of it, in order.
View(list, p) ==
  IF p = Root THEN list ELSE SelectSeq(list, LAMBDA e : e.ns = p)

\* The servers a connection was opened from are what its path means now.
Current(c) == View(servers, path[c]) = via[c]

\* `ordered`: each namespace once, the first one given.
Ordered(list) ==
  LET first == {i \in DOMAIN list : \A j \in 1..(i - 1) : list[j].ns # list[i].ns}
      Keep[i \in 0..Len(list)] ==
        IF i = 0 THEN <<>>
        ELSE IF i \in first THEN Append(Keep[i - 1], list[i]) ELSE Keep[i - 1]
  IN Keep[Len(list)]

\* Connections in the map that are not over.
Live == relays \ ended
LiveAt(p) == {c \in Live : path[c] = p}

-----------------------------------------------------------------------------
Reserving == {"opening", "opened", "closing", "checked", "inserted"}

TypeOK ==
  /\ servers \in {Ordered(list) : list \in Lists}
  /\ stopping \in BOOLEAN
  /\ opening \in [Paths -> Nat]
  /\ relays \subseteq Conns
  /\ at \in [Conns -> {"out", "arrived", "kept", "refused"} \cup Reserving]
  /\ path \in [Conns -> Paths]
  /\ ended \subseteq Conns /\ up \subseteq Conns
  /\ stale \subseteq Conns /\ sweeping \subseteq Conns /\ awaited \subseteq Conns
  /\ slipped \subseteq Conns
  /\ stop \in {"no", "first", "second", "stopped"}
  /\ changes \in 0..MaxChanges

Init ==
  /\ servers \in {Ordered(list) : list \in Lists}
  /\ stopping = FALSE /\ stop = "no" /\ changes = 0
  /\ opening = [p \in Paths |-> 0]
  /\ relays = {} /\ ended = {} /\ up = {}
  /\ stale = {} /\ sweeping = {} /\ awaited = {} /\ slipped = {}
  /\ at = [c \in Conns |-> "out"]
  /\ path \in [Conns -> Paths]
  /\ via = [c \in Conns |-> <<>>]

-----------------------------------------------------------------------------
(* An agent connects: post, connect and connect_root.                      *)

Goes(c, place) == at' = [at EXCEPT ![c] = place]

\* `handle`: the gateway is not stopping and something answers on the path.
Arrive(c) ==
  /\ at[c] = "out" /\ stop # "stopped"
  /\ Goes(c, IF stopping \/ View(servers, path[c]) = <<>> THEN "refused" ELSE "arrived")
  /\ UNCHANGED <<config, opening, relays, path, via, ended, up, slipped>>

\* Mutant of Taken: places being opened are not counted.
TakenOpen(p) == Cardinality(LiveAt(p))

\* `reserve`, under both locks: what is open and what is being opened.
Taken(p) == Cardinality(LiveAt(p)) + opening[p]

\* The message body has been read; the servers are looked up (again) and a
\* place is reserved while the server is opened.
Reserve(c) ==
  /\ at[c] = "arrived"
  /\ via' = [via EXCEPT ![c] = View(servers, path[c])]
  /\ IF Taken(path[c]) >= Limit \/ (path[c] # Root /\ via'[c] = <<>>)
       THEN Goes(c, "refused") /\ UNCHANGED opening
       ELSE /\ Goes(c, "opening")
            /\ opening' = [opening EXCEPT ![path[c]] = @ + 1]
  /\ UNCHANGED <<config, relays, path, ended, up, slipped>>

\* The reservation is dropped when connect returns.
GiveBack(c) == opening' = [opening EXCEPT ![path[c]] = @ - 1]

\* The server side is up and read from.
Opens(c) ==
  /\ at[c] = "opening" /\ via[c] # <<>>
  /\ Goes(c, "opened")
  /\ up' = up \cup {c}
  /\ UNCHANGED <<config, opening, relays, path, via, ended, slipped>>

OpenFails(c) ==
  /\ at[c] = "opening"
  /\ Goes(c, "refused")
  /\ GiveBack(c)
  /\ UNCHANGED <<config, relays, path, via, ended, up, slipped>>

StillWanted(c) == Current(c) /\ ~stopping

\* A connection to what is no longer answered for is closed.
Check(c) ==
  /\ at[c] = "opened"
  /\ \/ /\ StillWanted(c)
        /\ Goes(c, "checked")
        /\ UNCHANGED <<ended, opening>>
     \/ /\ ~StillWanted(c) /\ c \notin ended
        /\ ended' = ended \cup {c}
        /\ Goes(c, "closing")
        /\ UNCHANGED opening
     \/ /\ ~StillWanted(c) /\ c \in ended
        /\ Goes(c, "refused")
        /\ GiveBack(c)
        /\ UNCHANGED ended
  /\ UNCHANGED <<config, relays, path, via, up, slipped>>

Refuse(c) ==
  /\ at[c] = "closing" /\ c \notin up
  /\ Goes(c, "refused")
  /\ GiveBack(c)
  /\ UNCHANGED <<config, relays, path, via, ended, up, slipped>>

Insert(c) ==
  /\ at[c] = "checked"
  /\ Goes(c, "inserted")
  /\ relays' = relays \cup {c}
  /\ UNCHANGED <<config, opening, path, via, ended, up, slipped>>

\* connect returns the connection and gives the place back.
Return(c) ==
  /\ at[c] = "inserted"
  /\ Goes(c, "kept")
  /\ GiveBack(c)
  /\ UNCHANGED <<config, relays, path, via, ended, up, slipped>>

-----------------------------------------------------------------------------
(* A connection ends.                                                      *)

\* Relay::close up to its await: the token is cancelled, once.
Cancelled(c) == ended' = ended \cup {c}

\* The server ends the session, the agent deletes it, the first message
\* cannot be sent, or the sweep finds it idle.
Ends(c) ==
  /\ c \in up \ ended
  /\ at[c] \in {"opened", "checked", "inserted"} \/ c \in relays
  /\ Cancelled(c)
  /\ UNCHANGED <<config, opening, relays, at, path, via, up, slipped>>

\* Relay::close after it: the server side is down.
Closed(c) ==
  /\ c \in ended \cap up
  /\ up' = up \ {c}
  /\ UNCHANGED <<config, opening, relays, at, path, via, ended, slipped>>

\* Mutant of Forgettable: what is idle goes too, without being closed.
ForgettableToo(c) == c \in relays /\ at[c] = "kept"

Forgettable(c) == c \in relays \cap ended

\* `sweep` forgets what ended.
Forget(c) ==
  /\ stop # "stopped" /\ Forgettable(c)
  /\ relays' = relays \ {c}
  /\ UNCHANGED <<config, opening, at, path, via, ended, up, slipped>>

-----------------------------------------------------------------------------
(* set_servers and stop.                                                   *)

\* Past the check and not yet in the map.
Slipping == {c \in Conns : at[c] = "checked"}

\* Mutant of ChangedOf: any change of the list ends every connection.
ChangedOfAny(p, next) == servers # next

\* Mutant of ChangedOf: `zip` stops at the shorter list, so a server added at
\* the end is not seen by the root.
ChangedOfZip(p, next) ==
  IF p = Root
    THEN \E i \in DOMAIN servers \cap DOMAIN next : servers[i] # next[i]
    ELSE View(servers, p) = <<>> \/ View(servers, p) # View(next, p)

\* `same` and `all_same`: whether a connection on this path ends.  One to a
\* namespace that neither list has ends as well.
ChangedOf(p, next) ==
  IF p = Root THEN servers # next
              ELSE View(servers, p) = <<>> \/ View(servers, p) # View(next, p)

\* Under the write lock: what has changed is collected, the list replaced.
SetServers(given) ==
  /\ changes < MaxChanges
  /\ LET next == Ordered(given) IN
       /\ stale' = stale \cup {c \in relays : ChangedOf(path[c], next)}
       /\ servers' = next
       /\ slipped' = slipped \cup {c \in Slipping : View(next, path[c]) # via[c]}
  /\ changes' = changes + 1
  /\ UNCHANGED <<stopping, stop, sweeping, awaited, opening, relays, at, path, via, ended, up>>

\* ... and then closed.  A call closes one after another, but calls overlap.
CloseStale(c) ==
  /\ c \in stale
  /\ stale' = stale \ {c}
  /\ Cancelled(c)
  /\ UNCHANGED <<servers, stopping, stop, sweeping, awaited, changes, opening,
                 relays, at, path, via, up, slipped>>

\* Nothing new from here on, then every connection there is.
StopBegins ==
  /\ stop = "no"
  /\ stopping' = TRUE
  /\ stop' = "first"
  /\ sweeping' = Live
  /\ slipped' = slipped \cup Slipping
  /\ UNCHANGED <<servers, stale, awaited, changes, opening, relays, at, path, via,
                 ended, up>>

\* A close already begun by another returns at once.
CloseForStop(c) ==
  /\ c \in sweeping
  /\ sweeping' = sweeping \ {c}
  /\ awaited' = IF c \in ended THEN awaited ELSE awaited \cup {c}
  /\ Cancelled(c)
  /\ UNCHANGED <<servers, stopping, stale, stop, changes, opening, relays, at,
                 path, via, up, slipped>>

\* A pass is over when each of its closes has returned; the second is the last.
StopPasses ==
  /\ stop \in {"first", "second"}
  /\ sweeping = {} /\ awaited \cap up = {}
  /\ awaited' = {}
  /\ IF stop = "first" THEN stop' = "second" /\ sweeping' = Live
                       ELSE stop' = "stopped" /\ sweeping' = {}
  /\ UNCHANGED <<servers, stopping, stale, changes, opening, relays, at, path,
                 via, ended, up, slipped>>

-----------------------------------------------------------------------------
Connects(c) == \/ Arrive(c) \/ Reserve(c) \/ Opens(c) \/ OpenFails(c) \/ Check(c)
               \/ Refuse(c) \/ Insert(c) \/ Return(c)

Next ==
  \/ \E c \in Conns : \/ Connects(c) \/ Ends(c) \/ Closed(c) \/ Forget(c)
                      \/ CloseStale(c) \/ CloseForStop(c)
  \/ \E given \in Lists : SetServers(given)
  \/ StopBegins \/ StopPasses

Safety == Init /\ [][Next]_vars

\* A request being served, a close and a set_servers or stop in progress go
\* on; an upstream's open and close return.  Nobody has to connect, change
\* the list or stop the gateway.
Fairness ==
  /\ \A c \in Conns : /\ WF_vars(at[c] # "out" /\ Connects(c))
                      /\ WF_vars(Closed(c)) /\ WF_vars(CloseStale(c))
                      /\ WF_vars(CloseForStop(c))
  /\ WF_vars(StopPasses)

Spec == Safety /\ Fairness

-----------------------------------------------------------------------------
(* Properties.                                                             *)

\* The attempts that hold a place on a path, and all it has or is about to
\* have.
Held(p) == {c \in Conns : path[c] = p /\ at[c] \in Reserving}
Holding(p) == Held(p) \cup LiveAt(p)

\* No path ever holds more connections than the limit, however many agents
\* arrive together, counting those whose server is still being opened.
CapHeld == \A p \in Paths : Cardinality(Holding(p)) <= Limit

\* Every reservation is given back exactly once, on every way out of connect:
\* a leak would take a place from the server for good.
PlacesCounted == \A p \in Paths : opening[p] = Cardinality(Held(p))

\* A connection that is kept reaches the servers its path means now, or is
\* about to be closed; but for one that slipped between connect's check and
\* its place in the map.
KeptIsCurrent == \A c \in Live \ slipped : Current(c) \/ c \in stale

\* Changing the list ends no connection to a server it leaves as it was, and
\* the root only when the list is not the same list.
UnchangedKept ==
  [][\A c \in stale' \ stale : ~(Current(c) /\ Current(c)')]_vars

\* A running server side is one that stop and the sweep can find: it is in the
\* map or its connect is still under way.
NoneOrphaned == \A c \in up \ ended : c \in relays \/ at[c] \in Reserving

\* Once stop has returned no connection is left open, but for one that slipped.
StoppedHoldsNothing == stop = "stopped" => Live \subseteq slipped

\* The map of connections and the reservations together account for all that
\* runs, whoever connects, leaves, changes the list or stops meanwhile.
AllAccounted ==
  TypeOK /\ PlacesCounted /\ KeptIsCurrent /\ NoneOrphaned /\ StoppedHoldsNothing

\* A connection whose server was changed or removed ends, and its server side
\* goes down, although nobody uses it.
ChangedEnds ==
  []<>(\A c \in up \ slipped : at[c] \in Reserving \/ Current(c))

\* Does not hold of the code, which says of it: "Stop: end every agent
\* connection and the servers behind them".
StopEndsAll == stop = "stopped" => Live = {}
=============================================================================
