------------------------------- MODULE Serving -------------------------------
(***************************************************************************)
(* The desktop app's own gateway: switched on and off, moved to another    *)
(* port, given a new access token, and told when the servers it answers    *)
(* for change.  Each start is a task on the runtime that stops the gateway *)
(* before it, reads the token from the keyring, binds the port and reports *)
(* back; the count of runs tells the report of one that was replaced.      *)
(*                                                                         *)
(* Source: apps/desktop/src/gateway.rs and views/workspace.rs (after every *)
(* change of the model, gateway_sync); crates/mcp-gateway/src/server.rs    *)
(* for what binds and frees a port.  A step is one update on the UI        *)
(* thread, or what a task does between two awaits.  External: other        *)
(* programs that hold a port, and the keyring's failures.  Of the          *)
(* settings that are saved, the switch and the port stand for all; what    *)
(* the servers and the choices made for them come to is one of Lists.      *)
(***************************************************************************)
EXTENDS Naturals, FiniteSets

CONSTANTS
  Lists,        \* what the gateway may be asked to answer for: paths and specs
  Unbuildable,  \* those with a server that no connector can be made for
  Ports,
  MaxActions    \* bound: what the user does, in all

None == 0
Runs == 1..MaxActions         \* every count of a run is for an action
Tokens == 1..(MaxActions + 1)
Places == {"no", "halting", "reading", "making", "binding", "made", "inUse", "failed", "over"}

VARIABLES
  on, port,   \* Settings
  list,       \* what the servers and Settings::servers come to now
  stored,     \* the switch and the port in the database
  saves,      \* the settings on their way there
  status,     \* GatewayState::status, with its reason when it failed
  run,        \* GatewayState::run
  handle,     \* GatewayState::handle, by the run it was started in
  applied,    \* GatewayState::applied
  token,      \* GatewayState::token
  start,      \* the task of each run that is a start
  gateway,    \* the gateway it made: its life and the servers it answers for
  telling,    \* calls of set_servers on their way
  keyring,    \* the token kept there
  renewal,    \* each new token the user asked for
  minted,     \* tokens made
  actions,    \* what the user has done
  crossed     \* history: jobs of a kind that were out together

settings == <<on, port, stored, saves>>
model == <<status, run, handle, applied, token>>
tasks == <<start, gateway, telling>>
secrets == <<keyring, renewal, minted>>
vars == <<settings, list, model, tasks, secrets, actions, crossed>>

Settings == [on : BOOLEAN, port : Ports]

TypeOK ==
  /\ on \in BOOLEAN /\ port \in Ports /\ list \in Lists
  /\ stored \in Settings /\ saves \subseteq Settings
  /\ status \in {"off", "starting", "running", "unbuildable", "inUse", "failed"}
  /\ run \in 0..MaxActions /\ handle \in Runs \cup {None}
  /\ applied \in Lists \cup {None} /\ token \in Tokens \cup {None}
  /\ start \in [Runs -> [at : Places, port : Ports, old : Runs \cup {None},
                         token : Tokens \cup {None}]]
  /\ gateway \in [Runs -> [life : {"none", "up", "stopping", "stopped"}, servers : Lists]]
  /\ telling \subseteq [to : Runs, servers : Lists]
  /\ keyring \in Tokens \cup {None} /\ minted \in 0..(MaxActions + 1)
  /\ renewal \in [Tokens -> {"no", "out", "kept", "lost"}]
  /\ actions \in 0..MaxActions /\ crossed \subseteq {"saves", "tokens", "lists"}

Init ==
  /\ on = FALSE /\ port \in Ports /\ list \in Lists \ Unbuildable
  /\ stored = [on |-> on, port |-> port] /\ saves = {}
  /\ status = "off" /\ run = 0 /\ handle = None /\ applied = None /\ token = None
  /\ start = [r \in Runs |-> [at |-> "no", port |-> port, old |-> None, token |-> None]]
  /\ gateway = [r \in Runs |-> [life |-> "none", servers |-> list]]
  /\ telling = {} /\ minted \in {0, 1} /\ keyring = minted
  /\ renewal = [t \in Tokens |-> "no"]
  /\ actions = 0 /\ crossed = {}

-----------------------------------------------------------------------------
(* What the handlers are made of.                                          *)

Act == actions < MaxActions /\ actions' = actions + 1

Crosses(kind, others) == IF others = {} THEN {} ELSE {kind}

\* save_gateway, of the settings as they are from here on; and whether one
\* was out already, which of the two is stored last being open.
Save ==
  /\ saves' = saves \cup {[on |-> on', port |-> port']}
  /\ stored' = stored

\* A gateway from here on to be stopped: by gateway_halt, or by the start that
\* follows it.
Halted(g) == [gateway EXCEPT ![g].life = "stopping"]
Halting == IF handle = None THEN gateway ELSE Halted(handle)

\* gateway_detach, and gateway_stop, which halts what it let go.
Detach == run' = run + 1 /\ handle' = None
Stop(as) ==
  /\ Detach /\ status' = as /\ gateway' = Halting
  /\ UNCHANGED <<applied, token, start, telling>>

\* gateway_start: the new task is given the old gateway to stop first.
Start(p) ==
  /\ Detach /\ gateway' = [Halting EXCEPT ![run'].servers = list]
  /\ IF list \in Unbuildable
       THEN status' = "unbuildable" /\ UNCHANGED <<applied, start>>
       ELSE /\ status' = "starting" /\ applied' = list
            /\ start' = [start EXCEPT ![run'] = [at |-> "halting", port |-> p,
                                                 old |-> handle, token |-> None]]
  /\ UNCHANGED telling

\* The list it is told goes to set_servers in a task of the runtime; of two,
\* which runs first is open.
Telling(g) == {t \in telling : t.to = g}
Tell(g, servers) ==
  /\ applied' = servers
  /\ telling' = telling \cup {[to |-> g, servers |-> servers]}

-----------------------------------------------------------------------------
(* The user, and the servers that change.                                  *)

\* gateway_set_on.
SetOn ==
  /\ Act /\ on' = ~on /\ port' = port /\ Save
  /\ IF on' THEN Start(port) ELSE Stop("off")
  /\ crossed' = crossed \cup Crosses("saves", saves)
  /\ UNCHANGED <<list, token, secrets>>

\* gateway_set_port.
SetPort(p) ==
  /\ Act /\ p # port /\ port' = p /\ on' = on /\ Save
  /\ IF on THEN Start(p) ELSE UNCHANGED <<status, run, handle, applied, start, gateway, telling>>
  /\ crossed' = crossed \cup Crosses("saves", saves)
  /\ UNCHANGED <<list, token, secrets>>

\* gateway_refresh of the gateway that runs, for servers it was not told of.
\* `also` are the jobs that cross for another reason.
Refresh(servers, also) ==
  IF servers \in Unbuildable
    THEN Stop("unbuildable") /\ crossed' = crossed \cup also
    ELSE /\ Tell(handle, servers)
         /\ crossed' = crossed \cup also \cup Crosses("lists", Telling(handle))
         /\ UNCHANGED <<status, run, handle, token, start, gateway>>

\* A server is added, edited or removed; the workspace sees the change and
\* calls gateway_sync.
ListChanges(l) ==
  /\ Act /\ l # list /\ list' = l
  /\ IF status = "running" THEN Refresh(l, {}) ELSE UNCHANGED <<model, tasks, crossed>>
  /\ UNCHANGED <<settings, secrets>>

\* gateway_set_server: a server is included or not, or its path is named.
SetServer(l) ==
  /\ Act /\ l # list /\ list' = l
  /\ on' = on /\ port' = port /\ Save
  /\ IF status = "running"
       THEN Refresh(l, Crosses("saves", saves))
       ELSE UNCHANGED <<model, tasks>> /\ crossed' = crossed \cup Crosses("saves", saves)
  /\ UNCHANGED secrets

\* gateway_regenerate_token.
Regenerate ==
  /\ Act /\ minted' = minted + 1
  /\ renewal' = [renewal EXCEPT ![minted'] = "out"]
  /\ crossed' = crossed \cup Crosses("tokens", {t \in Tokens : renewal[t] # "no"}
                                      \cup {r \in Runs : start[r].at = "making"})
  /\ UNCHANGED <<settings, list, model, tasks, keyring>>

-----------------------------------------------------------------------------
(* Jobs.                                                                   *)

\* Settings::save, or its failure, which is told.
SaveRuns(s) ==
  /\ s \in saves /\ saves' = saves \ {s} /\ stored' = s
  /\ UNCHANGED <<on, port, list, model, tasks, secrets, actions, crossed>>

Renewal(t, from, to) == renewal[t] = from /\ renewal' = [renewal EXCEPT ![t] = to]

RenewalRuns(t) ==
  /\ Renewal(t, "out", "kept") /\ keyring' = t
  /\ UNCHANGED <<settings, list, model, tasks, minted, actions, crossed>>

RenewalFails(t) ==
  /\ Renewal(t, "out", "lost")
  /\ UNCHANGED <<settings, list, model, tasks, keyring, minted, actions, crossed>>

\* The new token is kept: it is shown, and a gateway that is on starts again.
RenewalDone(t) ==
  /\ Renewal(t, "kept", "no") /\ token' = t
  /\ IF on THEN Start(port) ELSE UNCHANGED <<status, run, handle, applied, start, gateway, telling>>
  /\ UNCHANGED <<settings, list, keyring, minted, actions, crossed>>

RenewalNotDone(t) ==
  /\ Renewal(t, "lost", "no")
  /\ UNCHANGED <<settings, list, model, tasks, keyring, minted, actions, crossed>>

-----------------------------------------------------------------------------
(* A start's task.                                                         *)

Goes(r, from, to) == start[r].at = from /\ start' = [start EXCEPT ![r].at = to]

\* The old gateway has stopped, or there was none.
OldStopped(r) ==
  /\ Goes(r, "halting", "reading")
  /\ start[r].old # None => gateway[start[r].old].life = "stopped"
  /\ UNCHANGED <<settings, list, model, gateway, telling, secrets, actions, crossed>>

\* token_from: the one in the keyring, or a new one kept there.
ReadToken(r) ==
  /\ start[r].at = "reading"
  /\ IF keyring # None
       THEN start' = [start EXCEPT ![r].at = "binding", ![r].token = keyring] /\ minted' = minted
       ELSE /\ minted' = minted + 1
            /\ start' = [start EXCEPT ![r].at = "making", ![r].token = minted']
  /\ crossed' = crossed \cup
       IF keyring # None THEN {}
       ELSE Crosses("tokens", {t \in Tokens : renewal[t] = "out"}
                     \cup {s \in Runs : start[s].at = "making"})
  /\ UNCHANGED <<settings, list, model, gateway, telling, keyring, renewal, actions>>

KeepToken(r) ==
  /\ Goes(r, "making", "binding") /\ keyring' = start[r].token
  /\ UNCHANGED <<settings, list, model, gateway, telling, renewal, minted, actions, crossed>>

\* The gateways of this app that hold a port.
Holding(p) == {g \in Runs : gateway[g].life \in {"up", "stopping"} /\ start[g].port = p}

\* Gateway::start.
Bind(r) ==
  /\ Holding(start[r].port) = {} /\ Goes(r, "binding", "made")
  /\ gateway' = [gateway EXCEPT ![r].life = "up"]
  /\ UNCHANGED <<settings, list, model, telling, secrets, actions, crossed>>

BindInUse(r) ==
  /\ Holding(start[r].port) # {} /\ Goes(r, "binding", "inUse")
  /\ UNCHANGED <<settings, list, model, gateway, telling, secrets, actions, crossed>>

\* The keyring fails, or another program holds the port.
StartFails(r) ==
  /\ \E from \in {"reading", "making", "binding"} : Goes(r, from, "failed")
  /\ UNCHANGED <<settings, list, model, gateway, telling, secrets, actions, crossed>>

\* Mutant of Current: the count of runs is not looked at.
CurrentAlways(r) == r \in Runs

\* Whether a start is the latest thing done to the gateway.
Current(r) == run = r

\* The report of a start: dropped, and its gateway stopped, if it was replaced.
Superseded(r) ==
  /\ ~Current(r) /\ Goes(r, "made", "over") /\ gateway' = Halted(r)
  /\ UNCHANGED <<settings, list, model, telling, secrets, actions, crossed>>

\* Mutant of Behind: the gateway is told of changes only while it runs.
BehindNever == FALSE

\* gateway_sync: what is asked for is not what the gateway was told.
Behind == list # applied

\* Otherwise it runs, and the workspace calls gateway_sync, as after any change:
\* what changed while it started is told, or ends it.
Live(r) ==
  /\ Current(r) /\ Goes(r, "made", "over") /\ token' = start[r].token
  /\ IF ~Behind
       THEN /\ status' = "running" /\ handle' = r
            /\ UNCHANGED <<run, applied, gateway, telling, crossed>>
       ELSE IF list \in Unbuildable
         THEN /\ run' = run + 1 /\ handle' = None /\ status' = "unbuildable"
              /\ gateway' = Halted(r) /\ UNCHANGED <<applied, telling, crossed>>
         ELSE /\ status' = "running" /\ handle' = r /\ Tell(r, list)
              /\ UNCHANGED <<run, gateway, crossed>>
  /\ UNCHANGED <<settings, list, secrets, actions>>

StartFailed(r) ==
  /\ start[r].at \in {"inUse", "failed"} /\ Goes(r, start[r].at, "over")
  /\ status' = IF Current(r) THEN start[r].at ELSE status
  /\ UNCHANGED <<settings, list, run, handle, applied, token, gateway, telling, secrets,
                 actions, crossed>>

-----------------------------------------------------------------------------
(* A gateway.                                                              *)

\* Gateway::set_servers.
SetServers(t) ==
  /\ t \in telling /\ telling' = telling \ {t}
  /\ gateway' = [gateway EXCEPT ![t.to].servers = t.servers]
  /\ UNCHANGED <<settings, list, model, start, secrets, actions, crossed>>

\* Gateway::stop has come to its end: the port is free.
Stopped(g) ==
  /\ gateway[g].life = "stopping" /\ gateway' = [gateway EXCEPT ![g].life = "stopped"]
  /\ UNCHANGED <<settings, list, model, start, telling, secrets, actions, crossed>>

User ==
  \/ SetOn \/ Regenerate
  \/ \E p \in Ports : SetPort(p)
  \/ \E l \in Lists : ListChanges(l) \/ SetServer(l)

Jobs ==
  \/ \E s \in saves : SaveRuns(s)
  \/ \E t \in Tokens : RenewalRuns(t) \/ RenewalFails(t) \/ RenewalDone(t) \/ RenewalNotDone(t)

Starts == \E r \in Runs :
  \/ OldStopped(r) \/ ReadToken(r) \/ KeepToken(r) \/ Bind(r) \/ BindInUse(r) \/ StartFails(r)
  \/ Superseded(r) \/ Live(r) \/ StartFailed(r)

Gateways == (\E t \in telling : SetServers(t)) \/ (\E g \in Runs : Stopped(g))

Next == User \/ Jobs \/ Starts \/ Gateways
Spec == Init /\ [][Next]_vars

-----------------------------------------------------------------------------
(* Properties.                                                             *)

AtRest ==
  /\ saves = {} /\ telling = {} /\ \A t \in Tokens : renewal[t] = "no"
  /\ \A r \in Runs : start[r].at \in {"no", "over"} /\ gateway[r].life # "stopping"

\* The gateway shown as running is the one that runs, with the token shown;
\* any other that is up is of a start which has yet to report, and is stopped
\* when it does; what is switched off shows as off (gateway_detach and the
\* count of runs in gateway_start).
OneGateway ==
  /\ (status = "running") = (handle # None)
  /\ \A r \in Runs : gateway[r].life = "up" => r = handle \/ start[r].at = "made"
  /\ status = "running" =>
       run = handle /\ gateway[handle].life = "up" /\ token = start[handle].token
  /\ ~on => status = "off"

\* With nothing on its way, what is switched on runs, or says why not; it runs
\* on the port chosen and answers for the servers asked for; the token shown
\* is the one kept; the settings are those stored.  Where two jobs of a kind
\* were out together, which was last is open.
ServesWhatIsAsked == AtRest =>
  /\ on => status \in {"running", "unbuildable", "inUse", "failed"}
  /\ status = "running" =>
       /\ start[handle].port = port
       /\ gateway[handle].servers = list \/ "lists" \in crossed
  /\ token # None => token = keyring \/ "tokens" \in crossed
  /\ stored = [on |-> on, port |-> port] \/ "saves" \in crossed

ServingSound == TypeOK /\ OneGateway /\ ServesWhatIsAsked

\* "The one that is running is stopped before the next binds its port: it holds
\* the port until its agents are let go" (gateway_start).  It does not hold: a
\* gateway that was switched off is still being stopped when the next start
\* binds, and so is one that was starting when it was replaced.
NeverInItsOwnWay == status # "inUse"
=============================================================================
