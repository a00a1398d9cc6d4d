---------------------------- MODULE WindowProofs ----------------------------
(***************************************************************************)
(* What is proved of the parts of Window, for any constants that its       *)
(* assumption allows:                                                      *)
(*  - serving: the gateway shown as running is the one that runs, and with *)
(*    nothing on its way it is as it was asked for;                        *)
(*  - keyring: with no job out the keyring has what the rows name;         *)
(*  - sidebar: the indices the window keeps stay on their servers;         *)
(*  - store: the snapshots kept are whole, of servers that are there, and  *)
(*    no two neighbours equal but in the ways known.                       *)
(***************************************************************************)
EXTENDS Window, SequenceTheorems, FiniteSetTheorems, FunctionTheorems, WellFoundedInduction,
        NaturalsInduction, TLAPS

-----------------------------------------------------------------------------
(* Serving.                                                                *)

\* A start under way, of which the window has not heard.
Going(r) == start[r].at \in Places \ {"no", "over"}

\* The latest thing done to the gateway was a start.
Started == run \in Runs /\ start[run].at # "no"

Renewing == {t \in Tokens : renewal[t] # "no"}
Unstarted == {r \in Runs : start[r].at \in {"halting", "reading"}}

\* A change of the servers the latest start knows nothing of.
Late == run \in Runs /\ Going(run) /\ list # applied

\* Every count of a run is for an action, and so is every token but the first:
\* a renewal has its action and no run of its own yet, a start under way a
\* change it may end for, one that found no token yet one it may make.
Counted ==
  /\ run + Cardinality(Renewing) <= actions
  /\ Late => run + Cardinality(Renewing) + 1 <= actions
  /\ minted <= actions + 1
  /\ keyring = None => minted + Cardinality(Unstarted) <= actions
  /\ \A r \in Runs : r > run => start[r].at = "no"
  /\ \A t \in Renewing : t <= minted

\* The start counted last is of the settings as they are, while it is under way
\* the window says so, and it answers for what it was given.
LatestStart ==
  /\ Started => on /\ start[run].port = port
  /\ run \in Runs /\ Going(run) => status = "starting" /\ gateway[run].servers = applied
  /\ status = "starting" => run \in Runs /\ Going(run)
  /\ on => status # "off"

\* The gateway shown is that of the start counted last, which is over.
Shown ==
  /\ OneGateway
  /\ status = "running" => start[run].at = "over" /\ applied = list
  /\ \A t \in telling : start[t.to].at = "over"
  /\ \A r \in Runs : start[r].at = "made" => gateway[r].life = "up"

\* With no two lists on their way together, a gateway answers for its list or
\* is about to.
ListsTold == "lists" \notin crossed /\ status = "running" =>
  /\ \A t \in Telling(handle) : t.servers = list
  /\ Telling(handle) = {} => gateway[handle].servers = list

\* A token at hand is kept, or its run is not the latest.
TokensKept ==
  /\ \A t \in Tokens : renewal[t] = "kept" => keyring # None
  /\ \A r \in Runs : start[r].at \in {"binding", "made"} => keyring # None
  /\ token # None => keyring # None
  /\ \A r \in Runs : start[r].at \in {"making", "binding", "made"} => start[r].token # None

\* With no two new tokens on their way together, the one kept is the newest, and
\* what shows or will show another is about to show it.
TokensInOrder == "tokens" \notin crossed =>
  /\ \A t, u \in Renewing : t = u
  /\ \A t \in Tokens : renewal[t] = "kept" => keyring = t
  /\ (\A t \in Tokens : renewal[t] # "kept") =>
       /\ token # None => token = keyring
       /\ run \in Runs /\ start[run].at \in {"binding", "made"} => start[run].token = keyring
  /\ \A r \in Runs : start[r].at = "making" =>
       /\ keyring = None /\ \A t \in Tokens : renewal[t] \in {"no", "lost"}
       /\ \A s \in Runs : start[s].at = "making" => s = r

\* With no two savings out together, the settings are stored or about to be.
SavesInOrder == "saves" \notin crossed =>
  \/ saves = {} /\ stored = [on |-> on, port |-> port]
  \/ saves = {[on |-> on, port |-> port]}

ServingInv ==
  /\ TypeOK /\ Counted /\ LatestStart /\ Shown /\ ListsTold
  /\ TokensKept /\ TokensInOrder /\ SavesInOrder

-----------------------------------------------------------------------------
(* What the parts of an action do.                                         *)

StartRecs == [at : Places, port : Ports, old : Runs \cup {None}, token : Tokens \cup {None}]
GatewayRecs == [life : {"none", "up", "stopping", "stopped"}, servers : Lists]

\* One task has moved on, with the token it has then.
Moved(r, to, k) ==
  /\ start' \in [Runs -> StartRecs]
  /\ start'[r].at = to /\ start'[r].port = start[r].port /\ start'[r].token = k
  /\ \A s \in Runs \ {r} : start'[s] = start[s]

\* One gateway has come to another life.
Lives(g, life) ==
  /\ gateway' \in [Runs -> GatewayRecs]
  /\ gateway'[g].life = life /\ gateway'[g].servers = gateway[g].servers
  /\ \A h \in Runs \ {g} : gateway'[h] = gateway[h]

\* What is typed, in the words of this module.
LEMMA Typed == ASSUME TypeOK
  PROVE  start \in [Runs -> StartRecs] /\ gateway \in [Runs -> GatewayRecs]
BY DEF TypeOK, StartRecs, GatewayRecs

LEMMA Numbers == ASSUME MaxActions \in Nat, TypeOK
  PROVE  /\ run \in Nat /\ actions \in Nat /\ minted \in Nat /\ actions <= MaxActions
         /\ Runs \subseteq Nat \ {0} /\ Tokens \subseteq Nat \ {0}
         /\ run # 0 => run \in Runs
         /\ IsFiniteSet(Renewing) /\ Cardinality(Renewing) \in Nat
         /\ IsFiniteSet(Unstarted) /\ Cardinality(Unstarted) \in Nat
<1>1. IsFiniteSet(Runs) /\ IsFiniteSet(Tokens)
  BY FS_Interval DEF Runs, Tokens
<1>2. IsFiniteSet(Renewing) /\ IsFiniteSet(Unstarted)
  BY <1>1, FS_Subset DEF Renewing, Unstarted
<1>3. Cardinality(Renewing) \in Nat /\ Cardinality(Unstarted) \in Nat
  BY <1>2, FS_CardinalityType
<1> QED BY <1>2, <1>3 DEF TypeOK, Runs, Tokens

\* A task's place alone changes.
LEMMA GoesMoves ==
  ASSUME TypeOK, NEW r \in Runs, NEW from, NEW to \in Places, Goes(r, from, to)
  PROVE  start[r].at = from /\ Moved(r, to, start[r].token)
BY Typed DEF Goes, Moved, StartRecs

\* So with the life of a gateway.
LEMMA LifeChanges ==
  ASSUME TypeOK, NEW g \in Runs, NEW life \in {"none", "up", "stopping", "stopped"},
         gateway' = [gateway EXCEPT ![g].life = life]
  PROVE  Lives(g, life)
BY Typed DEF Lives, GatewayRecs

\* gateway_stop: the gateway at hand, if there is one, is being stopped.
LEMMA HaltingHalts == ASSUME TypeOK
  PROVE  /\ Halting \in [Runs -> GatewayRecs]
         /\ \A g \in Runs : /\ Halting[g].servers = gateway[g].servers
                            /\ g # handle => Halting[g].life = gateway[g].life
                            /\ Halting[g].life = "up" => g # handle
<1>1. CASE handle = None
  BY <1>1, Typed DEF Halting, None, Runs
<1>2. CASE handle # None
  BY <1>2, Typed DEF Halting, Halted, TypeOK, GatewayRecs
<1> QED BY <1>1, <1>2

\* gateway_start: the run counted now is the one that starts.
LEMMA StartDoes ==
  ASSUME MaxActions \in Nat, TypeOK, Counted, run < MaxActions, NEW p \in Ports, Start(p)
  PROVE  /\ run' = run + 1 /\ run' \in Runs /\ handle' = None /\ telling' = telling
         /\ gateway' \in [Runs -> GatewayRecs]
         /\ \A g \in Runs : /\ gateway'[g].life = "up" => g # handle
                            /\ g # handle => gateway'[g].life = gateway[g].life
         /\ gateway'[run'].servers = list
         /\ start' \in [Runs -> StartRecs] /\ \A s \in Runs \ {run'} : start'[s] = start[s]
         /\ start[run'].at = "no"
         /\ \/ /\ status' = "unbuildable" /\ applied' = applied /\ start'[run'].at = "no"
            \/ /\ status' = "starting" /\ applied' = list
               /\ start'[run'].at = "halting" /\ start'[run'].port = p
<1>1. run' = run + 1 /\ run' \in Runs /\ run' > run
  BY Numbers DEF Start, Detach, Runs
<1>2. start[run'].at = "no"
  BY <1>1 DEF Counted
<1>3. gateway' = [Halting EXCEPT ![run'].servers = list] /\ list \in Lists
  BY DEF Start, TypeOK
<1>4. /\ gateway' \in [Runs -> GatewayRecs] /\ gateway'[run'].servers = list
      /\ \A g \in Runs : gateway'[g].life = Halting[g].life
  BY <1>1, <1>3, HaltingHalts DEF GatewayRecs
<1>5. /\ handle' = None /\ telling' = telling
      /\ \A g \in Runs : /\ gateway'[g].life = "up" => g # handle
                         /\ g # handle => gateway'[g].life = gateway[g].life
  BY <1>4, HaltingHalts DEF Start, Detach
<1>6. CASE list \in Unbuildable
  BY <1>1, <1>2, <1>4, <1>5, <1>6, Typed DEF Start
<1>7. CASE list \notin Unbuildable
  <2> DEFINE rec == [at |-> "halting", port |-> p, old |-> handle, token |-> None]
  <2>1. rec \in StartRecs /\ rec.at = "halting" /\ rec.port = p
    BY DEF StartRecs, TypeOK, Places, None
  <2>2. status' = "starting" /\ applied' = list /\ start' = [start EXCEPT ![run'] = rec]
    BY <1>7 DEF Start
  <2> HIDE DEF rec
  <2>3. /\ start' \in [Runs -> StartRecs] /\ start'[run'] = rec
        /\ \A s \in Runs \ {run'} : start'[s] = start[s]
    BY <1>1, <2>1, <2>2, Typed
  <2> QED BY <1>1, <1>2, <1>4, <1>5, <2>1, <2>2, <2>3
<1> QED BY <1>6, <1>7

\* gateway_stop: nothing runs, and nothing that was under way is the latest.
LEMMA StopDoes ==
  ASSUME MaxActions \in Nat, TypeOK, Counted, run < MaxActions, NEW as, Stop(as)
  PROVE  /\ run' = run + 1 /\ run' \in Runs /\ handle' = None /\ status' = as
         /\ gateway' \in [Runs -> GatewayRecs]
         /\ \A g \in Runs : /\ gateway'[g].life = "up" => g # handle
                            /\ g # handle => gateway'[g].life = gateway[g].life
         /\ start[run'].at = "no"
         /\ UNCHANGED <<applied, token, start, telling>>
<1>1. run' = run + 1 /\ run' \in Runs /\ run' > run
  BY Numbers DEF Stop, Detach, Runs
<1>2. start[run'].at = "no"
  BY <1>1 DEF Counted
<1> QED BY <1>1, <1>2, HaltingHalts DEF Stop, Detach

-----------------------------------------------------------------------------
(* The steps of a start's task before it reports.                          *)

\* Of the latest start the window knows what it did; no other says anything.
LEMMA TaskShows ==
  ASSUME MaxActions \in Nat, ServingInv, NEW r \in Runs, Going(r),
         NEW to \in Places \ {"no", "over"}, NEW k, Moved(r, to, k),
         UNCHANGED <<settings, list, model, telling>>,
         crossed' \cap {"saves", "lists"} = crossed \cap {"saves", "lists"},
         \A g \in Runs \ {r} : gateway'[g] = gateway[g],
         gateway'[r].servers = gateway[r].servers, gateway'[r].life = "up" <=> to = "made"
  PROVE  LatestStart' /\ Shown' /\ ListsTold' /\ SavesInOrder'
<1>0. TypeOK /\ LatestStart /\ Shown /\ ListsTold /\ SavesInOrder
  BY DEF ServingInv
<1>1. /\ start[r].at \notin {"no", "over"} /\ start'[r].at = to /\ start'[r].port = start[r].port
      /\ \A s \in Runs \ {r} : start'[s] = start[s]
  BY DEF Going, Moved
<1>2. /\ on' = on /\ port' = port /\ stored' = stored /\ saves' = saves /\ list' = list
      /\ status' = status /\ run' = run /\ handle' = handle /\ applied' = applied
      /\ token' = token /\ telling' = telling
  BY DEF settings, model
<1>3. LatestStart'
  <2>1. Started' <=> Started
    BY <1>1, <1>2 DEF Started
  <2>2. Started => start'[run].port = start[run].port
    BY <1>1 DEF Started
  <2>3. run \in Runs => /\ start'[run].at \in Places \ {"no", "over"} <=> Going(run)
                        /\ gateway'[run].servers = gateway[run].servers
    BY <1>1 DEF Going
  <2> QED BY <1>0, <1>2, <2>1, <2>2, <2>3 DEF LatestStart, Going
<1>4. status = "running" => handle \in Runs /\ handle # r /\ run = handle
  BY <1>0, <1>1 DEF Shown, OneGateway, TypeOK, None
<1>5. Shown'
  <2>1. ASSUME NEW g \in Runs, gateway'[g].life = "up" PROVE g = handle \/ start'[g].at = "made"
    BY <1>0, <1>1, <2>1 DEF Shown, OneGateway
  <2>2. \A t \in telling : start'[t.to].at = "over"
    BY <1>0, <1>1 DEF Shown, TypeOK
  <2>3. status = "running" =>
          /\ run = handle /\ gateway'[handle].life = "up" /\ token = start'[handle].token
          /\ start'[run].at = "over" /\ applied = list
    BY <1>0, <1>1, <1>4 DEF Shown, OneGateway
  <2>4. ((status = "running") = (handle # None)) /\ (~on => status = "off")
    BY <1>0 DEF Shown, OneGateway
  <2>5. \A s \in Runs : start'[s].at = "made" => gateway'[s].life = "up"
    BY <1>0, <1>1 DEF Shown
  <2> QED BY <1>2, <2>1, <2>2, <2>3, <2>4, <2>5 DEF Shown, OneGateway
<1>6. ListsTold'
  BY <1>0, <1>2, <1>4 DEF ListsTold, Telling
<1>7. SavesInOrder'
  BY <1>0, <1>2 DEF SavesInOrder
<1> QED BY <1>3, <1>5, <1>6, <1>7

\* What a task counts, but for the tokens.
LEMMA TaskCounts ==
  ASSUME MaxActions \in Nat, TypeOK, Counted, NEW r \in Runs, Going(r),
         NEW to \in Places \ {"no"}, NEW k, Moved(r, to, k),
         to \in {"halting", "reading"} => start[r].at \in {"halting", "reading"}
  PROVE  /\ \A s \in Runs : s > run => start'[s].at = "no"
         /\ Unstarted' \subseteq Unstarted /\ IsFiniteSet(Unstarted')
         /\ Cardinality(Unstarted') \in Nat /\ Cardinality(Unstarted') <= Cardinality(Unstarted)
         /\ start[r].at \in {"halting", "reading"} /\ to \notin {"halting", "reading"} =>
              Cardinality(Unstarted') + 1 <= Cardinality(Unstarted)
<1>1. /\ start[r].at \notin {"no", "over"} /\ start'[r].at = to
      /\ \A s \in Runs \ {r} : start'[s] = start[s]
  BY DEF Going, Moved
<1>2. \A s \in Runs : s > run => start'[s].at = "no"
  BY <1>1 DEF Counted
<1>3. Unstarted' \subseteq Unstarted
  BY <1>1 DEF Unstarted
<1>4. /\ IsFiniteSet(Unstarted') /\ Cardinality(Unstarted') \in Nat
      /\ Cardinality(Unstarted') <= Cardinality(Unstarted)
  BY <1>3, Numbers, FS_Subset, FS_CardinalityType
<1>5. ASSUME start[r].at \in {"halting", "reading"}, to \notin {"halting", "reading"}
      PROVE  Cardinality(Unstarted') + 1 <= Cardinality(Unstarted)
  <2>1. Unstarted' = Unstarted \ {r} /\ r \in Unstarted
    BY <1>1, <1>5 DEF Unstarted
  <2>2. Cardinality(Unstarted') = Cardinality(Unstarted) - 1
    BY <2>1, Numbers, FS_RemoveElement
  <2> QED BY <1>4, <2>2, Numbers
<1> QED BY <1>2, <1>3, <1>4, <1>5

\* No more of what the counts bound.
LEMMA CountsKept ==
  ASSUME Counted, UNCHANGED <<run, list, applied, renewal, actions, minted, keyring>>,
         NEW r \in Runs, Going(r), NEW to \in Places \ {"no"}, NEW k, Moved(r, to, k),
         MaxActions \in Nat, TypeOK,
         to \in {"halting", "reading"} => start[r].at \in {"halting", "reading"}
  PROVE  Counted'
<1>1. Late' => Late
  BY DEF Late, Going, Moved
<1>2. Renewing' = Renewing
  BY DEF Renewing
<1>3. keyring = None => minted + Cardinality(Unstarted') <= actions
  BY TaskCounts, Numbers DEF Counted
<1> QED BY <1>1, <1>2, <1>3, TaskCounts DEF Counted

\* The token of a task that has read it stays as it is.
LEMMA TokensStay ==
  ASSUME TypeOK, TokensKept, TokensInOrder, NEW r \in Runs, NEW to, Moved(r, to, start[r].token),
         UNCHANGED <<renewal, keyring, token, run, crossed>>,
         to \notin {"making", "binding"}, to = "made" => start[r].at = "binding"
  PROVE  TokensKept' /\ TokensInOrder'
<1>1. /\ \A s \in Runs : start'[s].token = start[s].token
      /\ \A s \in Runs : start'[s].at = "making" => start[s].at = "making"
      /\ \A s \in Runs : start'[s].at \in {"binding", "made"} => start[s].at \in {"binding", "made"}
  BY DEF Moved
<1>2. TokensKept'
  BY <1>1 DEF TokensKept
<1>3. TokensInOrder'
  <2> SUFFICES ASSUME "tokens" \notin crossed PROVE TokensInOrder'
    BY DEF TokensInOrder
  <2> QED BY <1>1 DEF TokensInOrder, Renewing
<1> QED BY <1>2, <1>3

\* The old gateway has stopped; the port is bound, or it cannot be; the keyring
\* fails.
LEMMA TaskKeeps ==
  ASSUME MaxActions \in Nat, ServingInv, NEW r \in Runs,
         OldStopped(r) \/ Bind(r) \/ BindInUse(r) \/ StartFails(r)
  PROVE  ServingInv'
<1>0. TypeOK /\ Counted /\ Shown /\ TokensKept /\ TokensInOrder
  BY DEF ServingInv
<1>1. PICK to \in {"reading", "made", "inUse", "failed"} :
        /\ Moved(r, to, start[r].token) /\ Going(r) /\ start[r].at # "made"
        /\ to = "reading" => start[r].at = "halting"
        /\ to = "made" => start[r].at = "binding" /\ gateway' = [gateway EXCEPT ![r].life = "up"]
        /\ to # "made" => gateway' = gateway
        /\ UNCHANGED <<settings, list, model, telling, secrets, actions, crossed>>
  <2>1. CASE OldStopped(r)
    BY <1>0, <2>1, GoesMoves DEF OldStopped, Going, Places
  <2>2. CASE Bind(r)
    BY <1>0, <2>2, GoesMoves DEF Bind, Going, Places
  <2>3. CASE BindInUse(r)
    BY <1>0, <2>3, GoesMoves DEF BindInUse, Going, Places
  <2>4. CASE StartFails(r)
    BY <1>0, <2>4, GoesMoves DEF StartFails, Going, Places
  <2> QED BY <2>1, <2>2, <2>3, <2>4
<1>2. /\ gateway' \in [Runs -> GatewayRecs]
      /\ \A g \in Runs \ {r} : gateway'[g] = gateway[g]
      /\ gateway'[r].servers = gateway[r].servers
      /\ (gateway'[r].life = "up" <=> to = "made")
  <2>1. gateway[r].life # "up"
    BY <1>0, <1>1 DEF Shown, OneGateway, Going, TypeOK, None, Runs
  <2>2. CASE to = "made"
    BY <1>0, <1>1, <2>1, <2>2, LifeChanges DEF Lives
  <2>3. CASE to # "made"
    BY <1>0, <1>1, <2>1, <2>3, Typed
  <2> QED BY <2>1, <2>2, <2>3
<1>3. LatestStart' /\ Shown' /\ ListsTold' /\ SavesInOrder'
  BY <1>1, <1>2, TaskShows DEF Places
<1>4. Counted'
  BY <1>0, <1>1, CountsKept DEF Places, model, secrets
<1>5. TokensKept' /\ TokensInOrder'
  BY <1>0, <1>1, TokensStay DEF model, secrets
<1>6. TypeOK'
  BY <1>0, <1>1, <1>2 DEF TypeOK, Moved, StartRecs, GatewayRecs, settings, model, secrets
<1> QED BY <1>3, <1>4, <1>5, <1>6 DEF ServingInv

\* token_from: the one in the keyring is the one kept, or none is.
LEMMA ReadTokenKeeps ==
  ASSUME MaxActions \in Nat, ServingInv, NEW r \in Runs, ReadToken(r)
  PROVE  ServingInv'
<1>0. TypeOK /\ Counted /\ Shown /\ TokensKept /\ TokensInOrder
  BY DEF ServingInv
<1> DEFINE to == IF keyring # None THEN "binding" ELSE "making"
           k == IF keyring # None THEN keyring ELSE minted + 1
<1>1. /\ start[r].at = "reading" /\ Going(r)
      /\ keyring # None => minted' = minted /\ crossed' = crossed
      /\ keyring = None => minted' = minted + 1
      /\ crossed \subseteq crossed' /\ crossed' \subseteq crossed \cup {"tokens"}
      /\ UNCHANGED <<settings, list, model, gateway, telling, keyring, renewal, actions>>
  BY DEF ReadToken, Going, Places, Crosses
<1>2. r \in Unstarted /\ Cardinality(Unstarted) >= 1
  <2>1. r \in Unstarted
    BY <1>1 DEF Unstarted
  <2> QED BY <1>0, <2>1, Numbers, FS_EmptySet
<1>3. k \in Tokens /\ k # None /\ (keyring = None => minted + 1 \in Tokens)
  <2>1. keyring = None => minted + 1 <= MaxActions
    BY <1>0, <1>2, Numbers DEF Counted
  <2> QED BY <1>0, <2>1, Numbers DEF TypeOK, Tokens, None
<1>4. Moved(r, to, k)
  <2>1. keyring # None => start' = [start EXCEPT ![r].at = "binding", ![r].token = keyring]
    BY DEF ReadToken
  <2>2. keyring = None => start' = [start EXCEPT ![r].at = "making", ![r].token = minted + 1]
    BY DEF ReadToken
  <2> QED BY <1>0, <1>3, <2>1, <2>2, Typed DEF Moved, StartRecs, Places
<1>5. to \in {"binding", "making"} /\ (keyring # None => to = "binding" /\ k = keyring)
      /\ (keyring = None => to = "making")
  OBVIOUS
<1> HIDE DEF to, k
<1>6. LatestStart' /\ Shown' /\ ListsTold' /\ SavesInOrder'
  <2>1. gateway[r].life # "up"
    BY <1>0, <1>1 DEF Shown, OneGateway, Going, TypeOK, None, Runs
  <2> QED BY <1>1, <1>4, <1>5, <2>1, TaskShows DEF Places
<1>7. Counted'
  <2>1. Late' => Late
    BY <1>1, <1>4 DEF Late, Going, Moved, model
  <2>2. Renewing' = Renewing
    BY <1>1 DEF Renewing
  <2>3. /\ \A s \in Runs : s > run => start'[s].at = "no"
        /\ Cardinality(Unstarted') \in Nat /\ Cardinality(Unstarted') + 1 <= Cardinality(Unstarted)
    BY <1>0, <1>1, <1>4, <1>5, TaskCounts DEF Places
  <2>4. keyring = None => minted' + Cardinality(Unstarted') <= actions /\ minted' <= actions + 1
    BY <1>0, <1>1, <2>3, Numbers DEF Counted
  <2>5. minted' \in Nat /\ minted' >= minted
    BY <1>0, <1>1, Numbers
  <2>6. \A t \in Renewing : t <= minted'
    BY <1>0, <2>5, Numbers DEF Counted, Renewing
  <2> QED BY <1>0, <1>1, <2>1, <2>2, <2>3, <2>4, <2>6 DEF Counted, model
<1>8. /\ \A s \in Runs \ {r} : start'[s] = start[s]
      /\ start'[r].at = to /\ start'[r].token = k
  BY <1>4 DEF Moved
<1>9. TokensKept'
  BY <1>0, <1>1, <1>3, <1>5, <1>8 DEF TokensKept, model
<1>10. TokensInOrder'
  <2>1. SUFFICES ASSUME "tokens" \notin crossed' PROVE TokensInOrder'
    BY DEF TokensInOrder
  <2>2. "tokens" \notin crossed
    BY <1>1, <2>1
  <2>3. keyring = None => /\ \A t \in Tokens : renewal[t] # "out"
                          /\ \A s \in Runs : start[s].at # "making"
    BY <2>1 DEF ReadToken, Crosses
  <2>4. keyring = None => \A t \in Tokens : renewal[t] \in {"no", "lost"}
    BY <1>0, <2>3 DEF TokensKept, TypeOK
  <2>5. ASSUME NEW s \in Runs, start'[s].at = "making"
        PROVE  /\ keyring = None /\ \A t \in Tokens : renewal[t] \in {"no", "lost"}
               /\ \A q \in Runs : start'[q].at = "making" => q = s
    BY <1>0, <1>5, <1>8, <2>2, <2>3, <2>4, <2>5 DEF TokensInOrder
  <2>6. ASSUME \A t \in Tokens : renewal[t] # "kept", run \in Runs,
               start'[run].at \in {"binding", "made"}
        PROVE  start'[run].token = keyring
    BY <1>0, <1>5, <1>8, <2>2, <2>6 DEF TokensInOrder
  <2> QED BY <1>0, <1>1, <2>2, <2>5, <2>6 DEF TokensInOrder, Renewing, model
<1>11. TypeOK'
  <2>1. minted' \in 0..(MaxActions + 1)
    BY <1>0, <1>1, <1>3, Numbers DEF TypeOK, Tokens
  <2>2. crossed' \subseteq {"saves", "tokens", "lists"}
    BY <1>0, <1>1 DEF TypeOK
  <2> QED BY <1>0, <1>1, <1>4, <2>1, <2>2 DEF TypeOK, Moved, StartRecs, settings, model
<1> QED BY <1>6, <1>7, <1>9, <1>10, <1>11 DEF ServingInv

\* The new token is kept.
LEMMA KeepTokenKeeps ==
  ASSUME MaxActions \in Nat, ServingInv, NEW r \in Runs, KeepToken(r)
  PROVE  ServingInv'
<1>0. TypeOK /\ Counted /\ Shown /\ TokensKept /\ TokensInOrder
  BY DEF ServingInv
<1>1. /\ start[r].at = "making" /\ Going(r) /\ Moved(r, "binding", start[r].token)
      /\ keyring' = start[r].token
      /\ UNCHANGED <<settings, list, model, gateway, telling, renewal, minted, actions, crossed>>
  BY <1>0, GoesMoves DEF KeepToken, Going, Places
<1>2. /\ \A s \in Runs \ {r} : start'[s] = start[s]
      /\ start'[r].at = "binding" /\ start'[r].token = start[r].token
      /\ start[r].token \in Tokens /\ start[r].token # None
  BY <1>0, <1>1, Typed DEF Moved, TokensKept, StartRecs
<1>3. LatestStart' /\ Shown' /\ ListsTold' /\ SavesInOrder'
  <2>1. gateway[r].life # "up"
    BY <1>0, <1>1 DEF Shown, OneGateway, Going, TypeOK, None, Runs
  <2> QED BY <1>1, <2>1, TaskShows DEF Places
<1>4. Counted'
  <2>1. Late' => Late
    BY <1>1 DEF Late, Going, Moved, model
  <2>2. Renewing' = Renewing
    BY <1>1 DEF Renewing
  <2>3. \A s \in Runs : s > run => start'[s].at = "no"
    BY <1>0, <1>1, TaskCounts DEF Places
  <2> QED BY <1>0, <1>1, <1>2, <2>1, <2>2, <2>3 DEF Counted, model
<1>5. TokensKept'
  BY <1>0, <1>1, <1>2 DEF TokensKept, model
<1>6. TokensInOrder'
  <2>1. SUFFICES ASSUME "tokens" \notin crossed PROVE TokensInOrder'
    BY <1>1 DEF TokensInOrder
  <2>2. /\ keyring = None /\ \A t \in Tokens : renewal[t] \in {"no", "lost"}
        /\ \A s \in Runs : start[s].at = "making" => s = r
    BY <1>0, <1>1, <2>1 DEF TokensInOrder
  <2>3. \A s \in Runs : start'[s].at # "making"
    BY <1>2, <2>2
  <2>4. token = None /\ \A s \in Runs : start[s].at \notin {"binding", "made"}
    BY <1>0, <2>2 DEF TokensKept
  <2>5. run \in Runs /\ start'[run].at \in {"binding", "made"} => start'[run].token = keyring'
    BY <1>1, <1>2, <2>4
  <2>6. \A t \in Tokens : renewal[t] # "kept"
    BY <2>2
  <2> QED BY <1>0, <1>1, <2>1, <2>3, <2>4, <2>5, <2>6 DEF TokensInOrder, Renewing, model
<1>7. TypeOK'
  BY <1>0, <1>1, <1>2 DEF TypeOK, Moved, StartRecs, settings, model
<1> QED BY <1>3, <1>4, <1>5, <1>6, <1>7 DEF ServingInv

-----------------------------------------------------------------------------
(* What a start reports.                                                   *)

\* It was replaced.
LEMMA SupersededKeeps ==
  ASSUME MaxActions \in Nat, ServingInv, NEW r \in Runs, Superseded(r)
  PROVE  ServingInv'
<1>0. /\ TypeOK /\ Counted /\ LatestStart /\ Shown /\ ListsTold
      /\ TokensKept /\ TokensInOrder /\ SavesInOrder
  BY DEF ServingInv
<1>1. /\ run # r /\ start[r].at = "made" /\ Going(r) /\ Moved(r, "over", start[r].token)
      /\ Lives(r, "stopping")
      /\ UNCHANGED <<settings, list, model, telling, secrets, actions, crossed>>
  <2>1. /\ Goes(r, "made", "over") /\ gateway' = [gateway EXCEPT ![r].life = "stopping"]
        /\ run # r
        /\ UNCHANGED <<settings, list, model, telling, secrets, actions, crossed>>
    BY DEF Superseded, Current, Halted
  <2>2. start[r].at = "made" /\ Moved(r, "over", start[r].token)
    BY <1>0, <2>1, GoesMoves DEF Places
  <2>3. Lives(r, "stopping")
    BY <1>0, <2>1, LifeChanges
  <2> QED BY <2>1, <2>2, <2>3 DEF Going, Places
<1>2. /\ start'[r].at = "over" /\ \A s \in Runs \ {r} : start'[s] = start[s]
      /\ gateway'[r].life = "stopping" /\ \A g \in Runs \ {r} : gateway'[g] = gateway[g]
      /\ gateway'[r].servers = gateway[r].servers
  BY <1>1 DEF Moved, Lives
<1>3. status = "running" => handle \in Runs /\ handle # r
  BY <1>0, <1>1 DEF Shown, OneGateway, TypeOK, None
<1>4. LatestStart'
  BY <1>0, <1>1, <1>2 DEF LatestStart, Started, Going, settings, model
<1>5. Shown'
  <2>1. /\ \A g \in Runs : gateway'[g].life = "up" => g = handle \/ start'[g].at = "made"
        /\ \A s \in Runs : start'[s].at = "made" => gateway'[s].life = "up"
    BY <1>0, <1>2 DEF Shown, OneGateway
  <2>2. \A t \in telling : start'[t.to].at = "over"
    BY <1>0, <1>2 DEF Shown, TypeOK
  <2>3. status = "running" =>
          /\ run = handle /\ gateway'[handle].life = "up" /\ token = start'[handle].token
          /\ start'[run].at = "over" /\ applied = list
    BY <1>0, <1>2, <1>3 DEF Shown, OneGateway
  <2>4. ((status = "running") = (handle # None)) /\ (~on => status = "off")
    BY <1>0 DEF Shown, OneGateway
  <2> QED BY <1>1, <2>1, <2>2, <2>3, <2>4 DEF Shown, OneGateway, settings, model
<1>6. ListsTold' /\ SavesInOrder'
  BY <1>0, <1>1, <1>2, <1>3 DEF ListsTold, SavesInOrder, Telling, settings, model
<1>7. Counted'
  BY <1>0, <1>1, CountsKept DEF Places, model, secrets
<1>8. TokensKept' /\ TokensInOrder'
  BY <1>0, <1>1, TokensStay DEF model, secrets
<1>9. TypeOK'
  BY <1>0, <1>1 DEF TypeOK, Moved, Lives, StartRecs, GatewayRecs, settings, model, secrets
<1> QED BY <1>4, <1>5, <1>6, <1>7, <1>8, <1>9 DEF ServingInv

\* It failed: that is shown if it was the latest.
LEMMA StartFailedKeeps ==
  ASSUME MaxActions \in Nat, ServingInv, NEW r \in Runs, StartFailed(r)
  PROVE  ServingInv'
<1>0. /\ TypeOK /\ Counted /\ LatestStart /\ Shown /\ ListsTold
      /\ TokensKept /\ TokensInOrder /\ SavesInOrder
  BY DEF ServingInv
<1>1. /\ start[r].at \in {"inUse", "failed"} /\ Going(r) /\ Moved(r, "over", start[r].token)
      /\ run # r => status' = status
      /\ run = r => status' \in {"inUse", "failed"}
      /\ UNCHANGED <<settings, list, run, handle, applied, token, gateway, telling, secrets,
                     actions, crossed>>
  BY <1>0, GoesMoves DEF StartFailed, Current, Going, Places
<1>2. /\ start'[r].at = "over" /\ \A s \in Runs \ {r} : start'[s] = start[s]
      /\ start'[r].port = start[r].port /\ start'[r].token = start[r].token
  BY <1>1 DEF Moved
<1>3. run = r => on /\ status = "starting" /\ handle = None /\ start[r].port = port
  BY <1>0, <1>1 DEF LatestStart, Started, Shown, OneGateway, Going
<1>4. status = "running" => handle \in Runs /\ handle # r /\ run = handle
  BY <1>0, <1>1 DEF Shown, OneGateway, TypeOK, None
<1>5. LatestStart'
  BY <1>0, <1>1, <1>2, <1>3 DEF LatestStart, Started, Going, settings
<1>6. Shown'
  <2>1. /\ \A g \in Runs : gateway[g].life = "up" => g = handle \/ start'[g].at = "made"
        /\ \A s \in Runs : start'[s].at = "made" => gateway[s].life = "up"
    BY <1>0, <1>1, <1>2 DEF Shown, OneGateway
  <2>2. \A t \in telling : start'[t.to].at = "over"
    BY <1>0, <1>2 DEF Shown, TypeOK
  <2>3. status' = "running" =>
          /\ run = handle /\ gateway[handle].life = "up" /\ token = start'[handle].token
          /\ start'[run].at = "over" /\ applied = list
    BY <1>0, <1>1, <1>2, <1>4 DEF Shown, OneGateway
  <2>4. ((status' = "running") = (handle # None)) /\ (~on => status' = "off")
    BY <1>0, <1>1, <1>3 DEF Shown, OneGateway
  <2> QED BY <1>1, <2>1, <2>2, <2>3, <2>4 DEF Shown, OneGateway, settings
<1>7. ListsTold' /\ SavesInOrder'
  BY <1>0, <1>1 DEF ListsTold, SavesInOrder, Telling, settings
<1>8. Counted'
  BY <1>0, <1>1, CountsKept DEF Places, secrets
<1>9. TokensKept' /\ TokensInOrder'
  BY <1>0, <1>1, TokensStay DEF secrets
<1>10. TypeOK'
  BY <1>0, <1>1 DEF TypeOK, Moved, StartRecs, settings, secrets
<1> QED BY <1>5, <1>6, <1>7, <1>8, <1>9, <1>10 DEF ServingInv

\* The latest start made its gateway: it is the one shown, or the last list
\* cannot be built.
LEMMA LiveKeeps ==
  ASSUME MaxActions \in Nat, ServingInv, NEW r \in Runs, Live(r)
  PROVE  ServingInv'
<1>0. /\ TypeOK /\ Counted /\ LatestStart /\ Shown /\ ListsTold
      /\ TokensKept /\ TokensInOrder /\ SavesInOrder
  BY DEF ServingInv
<1>1. /\ run = r /\ start[r].at = "made" /\ Going(r) /\ Moved(r, "over", start[r].token)
      /\ token' = start[r].token
      /\ UNCHANGED <<settings, list, secrets, actions>>
  BY <1>0, GoesMoves DEF Live, Current, Going, Places
<1>2. /\ start'[r].at = "over" /\ \A s \in Runs \ {r} : start'[s] = start[s]
      /\ start'[r].port = start[r].port /\ start'[r].token = start[r].token
  BY <1>1 DEF Moved
<1>3. /\ on /\ status = "starting" /\ handle = None /\ start[r].port = port
      /\ gateway[r].life = "up" /\ gateway[r].servers = applied
  BY <1>0, <1>1 DEF LatestStart, Started, Shown, OneGateway, Going
<1>4. Telling(r) = {} /\ \A t \in telling : start'[t.to].at = "over" /\ t.to # r
  <2>1. \A t \in telling : t.to \in Runs /\ start[t.to].at = "over"
    BY <1>0 DEF Shown, TypeOK
  <2>2. \A t \in telling : t.to # r
    BY <1>1, <2>1
  <2>3. \A t \in telling : start'[t.to].at = "over"
    BY <1>2, <2>1, <2>2
  <2> QED BY <2>2, <2>3 DEF Telling
<1>5. \A g \in Runs : gateway[g].life = "up" <=> start[g].at = "made"
  BY <1>0, <1>3, Numbers DEF Shown, OneGateway, None
<1>6. /\ \A s \in Runs : s > run => start'[s].at = "no"
      /\ Cardinality(Unstarted') \in Nat /\ Cardinality(Unstarted') <= Cardinality(Unstarted)
  BY <1>0, <1>1, TaskCounts DEF Places
<1>7. TokensKept'
  BY <1>0, <1>1, <1>2 DEF TokensKept, secrets
<1>8. SavesInOrder'
  BY <1>0, <1>1 DEF SavesInOrder, Live, settings
<1>9. CASE Behind /\ list \in Unbuildable
  <2>1. /\ run' = run + 1 /\ handle' = None /\ status' = "unbuildable"
        /\ gateway' = Halted(r) /\ UNCHANGED <<applied, telling, crossed>>
    BY <1>9 DEF Live
  <2>2. Late
    BY <1>1, <1>9 DEF Late, Behind
  <2>3. run' \in Runs /\ run' # r /\ run' <= actions /\ run' > run
    BY <1>0, <1>1, <2>1, <2>2, Numbers DEF Counted, Runs
  <2>4. start'[run'].at = "no"
    BY <1>0, <1>2, <2>3, Numbers DEF Counted
  <2>5. Lives(r, "stopping")
    BY <1>0, <2>1, LifeChanges DEF Halted
  <2>6. gateway'[r].life = "stopping" /\ \A g \in Runs \ {r} : gateway'[g] = gateway[g]
    BY <2>5 DEF Lives
  <2>7. LatestStart'
    BY <1>1, <1>3, <2>1, <2>4 DEF LatestStart, Started, Going, settings
  <2>8. Shown' /\ ListsTold'
    BY <1>1, <1>2, <1>3, <1>4, <1>5, <2>1, <2>6 DEF Shown, OneGateway, ListsTold, settings
  <2>9. Counted'
    <3>1. ~Late' /\ Renewing' = Renewing
      BY <1>1, <2>4 DEF Late, Going, Renewing, secrets
    <3>2. run' + Cardinality(Renewing) <= actions
      BY <1>0, <2>1, <2>2, Numbers DEF Counted
    <3>3. keyring = None => minted + Cardinality(Unstarted') <= actions
      BY <1>0, <1>6, Numbers DEF Counted
    <3>4. \A s \in Runs : s > run' => start'[s].at = "no"
      BY <1>0, <1>6, <2>1, Numbers
    <3> QED BY <1>0, <1>1, <3>1, <3>2, <3>3, <3>4 DEF Counted, secrets
  <2>10. TokensInOrder'
    BY <1>0, <1>1, <1>2, <2>1, <2>4 DEF TokensInOrder, Renewing, secrets
  <2>11. TypeOK'
    BY <1>0, <1>1, <2>1, <2>3, <2>5
       DEF TypeOK, Moved, Lives, StartRecs, GatewayRecs, settings, secrets, Runs
  <2> QED BY <1>7, <1>8, <2>7, <2>8, <2>9, <2>10, <2>11 DEF ServingInv
<1>10. CASE ~(Behind /\ list \in Unbuildable)
  <2>1. /\ status' = "running" /\ handle' = r /\ applied' = list
        /\ UNCHANGED <<run, gateway, crossed>>
    BY <1>10 DEF Live, Tell, Behind
  <2>2. \/ telling' = telling /\ applied = list
        \/ telling' = telling \cup {[to |-> r, servers |-> list]}
    BY <1>10 DEF Live, Tell, Behind
  <2>3. LatestStart'
    BY <1>1, <1>2, <1>3, <2>1 DEF LatestStart, Started, Going, settings
  <2>4. Shown'
    <3>1. \A t \in telling' : start'[t.to].at = "over"
      BY <1>2, <1>4, <2>2
    <3>2. handle' # None
      BY <2>1 DEF None, Runs
    <3> QED BY <1>1, <1>2, <1>3, <1>5, <2>1, <3>1, <3>2 DEF Shown, OneGateway, settings
  <2>5. ListsTold'
    <3>1. CASE telling' = telling /\ applied = list
      BY <1>1, <1>3, <1>4, <2>1, <3>1 DEF ListsTold, Telling
    <3>2. CASE telling' = telling \cup {[to |-> r, servers |-> list]}
      <4> DEFINE new == [to |-> r, servers |-> list]
      <4>1. new.to = r /\ new.servers = list
        OBVIOUS
      <4>2. telling' = telling \cup {new}
        BY <3>2
      <4> HIDE DEF new
      <4>3. {t \in telling' : t.to = r} = {new}
        BY <1>4, <4>1, <4>2 DEF Telling
      <4> QED BY <1>1, <2>1, <4>1, <4>3 DEF ListsTold, Telling
    <3> QED BY <2>2, <3>1, <3>2
  <2>6. Counted'
    <3>1. ~Late' /\ Renewing' = Renewing
      BY <1>1, <2>1 DEF Late, Renewing, secrets
    <3>2. keyring = None => minted + Cardinality(Unstarted') <= actions
      BY <1>0, <1>6, Numbers DEF Counted
    <3> QED BY <1>0, <1>1, <1>6, <2>1, <3>1, <3>2 DEF Counted, secrets
  <2>7. TokensInOrder'
    BY <1>0, <1>1, <1>2, <2>1 DEF TokensInOrder, Renewing, secrets
  <2>8. telling' \subseteq [to : Runs, servers : Lists]
    BY <1>0, <2>2 DEF TypeOK
  <2>9. token' \in Tokens \cup {None}
    BY <1>0, <1>1, Typed DEF StartRecs
  <2>10. TypeOK'
    BY <1>0, <1>1, <2>1, <2>8, <2>9 DEF TypeOK, Moved, StartRecs, settings, secrets
  <2> QED BY <1>7, <1>8, <2>3, <2>4, <2>5, <2>6, <2>7, <2>10 DEF ServingInv
<1> QED BY <1>9, <1>10

-----------------------------------------------------------------------------
(* The user, and the servers that change.                                  *)

\* A run counted anew, which is a start or none: what the window says of it.
LEMMA StartShows ==
  ASSUME MaxActions \in Nat, ServingInv, run < MaxActions, NEW p \in Ports, Start(p),
         on', port' = p, list' = list
  PROVE  LatestStart' /\ Shown' /\ ListsTold'
<1>0. TypeOK /\ Counted /\ Shown
  BY DEF ServingInv
<1> DEFINE n == run'
<1>1. /\ n \in Runs /\ handle' = None /\ telling' = telling
      /\ \A g \in Runs : /\ gateway'[g].life = "up" => g # handle
                         /\ g # handle => gateway'[g].life = gateway[g].life
      /\ gateway'[n].servers = list /\ start[n].at = "no"
      /\ \A s \in Runs \ {n} : start'[s] = start[s]
      /\ \/ /\ status' = "unbuildable" /\ applied' = applied /\ start'[n].at = "no"
         \/ /\ status' = "starting" /\ applied' = list
            /\ start'[n].at = "halting" /\ start'[n].port = p
  BY <1>0, StartDoes
<1> HIDE DEF n
<1>2. LatestStart'
  BY <1>1 DEF LatestStart, Started, Going, Places, n
<1>3. \A g \in Runs : start[g].at = "made" => g # handle
  BY <1>0, Numbers DEF Shown, OneGateway, None
<1>4. \A g \in Runs : /\ gateway'[g].life = "up" => start'[g].at = "made"
                      /\ start'[g].at = "made" => gateway'[g].life = "up"
  <2>1. \A g \in Runs : start'[g].at = "made" <=> start[g].at = "made"
    BY <1>1
  <2> QED BY <1>0, <1>1, <1>3, <2>1 DEF Shown, OneGateway
<1>5. \A t \in telling : start'[t.to].at = "over"
  BY <1>0, <1>1 DEF Shown, TypeOK
<1> QED BY <1>1, <1>2, <1>4, <1>5 DEF Shown, OneGateway, ListsTold

\* Stopped, and what it says then.
LEMMA StopShows ==
  ASSUME MaxActions \in Nat, ServingInv, run < MaxActions, NEW as, Stop(as),
         on' \in BOOLEAN, as = IF on' THEN "unbuildable" ELSE "off"
  PROVE  LatestStart' /\ Shown' /\ ListsTold'
<1>0. TypeOK /\ Counted /\ Shown
  BY DEF ServingInv
<1> DEFINE n == run'
<1>1. /\ n \in Runs /\ handle' = None /\ status' = as
      /\ \A g \in Runs : /\ gateway'[g].life = "up" => g # handle
                         /\ g # handle => gateway'[g].life = gateway[g].life
      /\ start[n].at = "no" /\ UNCHANGED <<start, telling>>
  BY <1>0, StopDoes
<1> HIDE DEF n
<1>2. LatestStart'
  BY <1>1 DEF LatestStart, Started, Going, Places, n
<1>3. \A g \in Runs : start[g].at = "made" => g # handle
  BY <1>0, Numbers DEF Shown, OneGateway, None
<1>4. \A g \in Runs : /\ gateway'[g].life = "up" => start[g].at = "made"
                      /\ start[g].at = "made" => gateway'[g].life = "up"
  BY <1>0, <1>1, <1>3 DEF Shown, OneGateway
<1> QED BY <1>0, <1>1, <1>2, <1>4 DEF Shown, OneGateway, ListsTold

\* What a run counted anew leaves to count.
LEMMA RunCounted ==
  ASSUME MaxActions \in Nat, TypeOK, Counted, run < MaxActions,
         (\E p \in Ports : Start(p) /\ list' = list) \/ \E as : Stop(as)
  PROVE  /\ ~Late' /\ run' = run + 1 /\ \A s \in Runs : s > run' => start'[s].at = "no"
         /\ Cardinality(Unstarted') \in Nat /\ Cardinality(Unstarted') <= Cardinality(Unstarted) + 1
         /\ \A s \in Runs : start'[s].at \in {"making", "binding", "made"} => start'[s] = start[s]
         /\ start'[run'].at \in {"no", "halting"}
<1> DEFINE n == run'
<1>1. /\ n = run + 1 /\ n \in Runs /\ start[n].at = "no"
      /\ \A s \in Runs \ {n} : start'[s] = start[s]
      /\ start'[n].at \in {"no", "halting"}
      /\ start'[n].at = "halting" => applied' = list'
  <2>1. CASE \E p \in Ports : Start(p) /\ list' = list
    <3>1. PICK p \in Ports : Start(p) /\ list' = list
      BY <2>1
    <3> QED BY <3>1, StartDoes
  <2>2. CASE \E as : Stop(as)
    BY <2>2, StopDoes
  <2> QED BY <2>1, <2>2
<1>2. ~Late'
  BY <1>1 DEF Late, Going
<1> HIDE DEF n
<1>3. n > run
  BY <1>1, Numbers
<1>4. \A s \in Runs : s > n => start'[s].at = "no"
  BY <1>1, Numbers DEF Counted
<1>5. Unstarted' \subseteq Unstarted \cup {n}
  BY <1>1 DEF Unstarted
<1>6. IsFiniteSet(Unstarted \cup {n}) /\ Cardinality(Unstarted \cup {n}) <= Cardinality(Unstarted) + 1
  <2>1. /\ IsFiniteSet(Unstarted \cup {n})
        /\ \/ Cardinality(Unstarted \cup {n}) = Cardinality(Unstarted)
           \/ Cardinality(Unstarted \cup {n}) = Cardinality(Unstarted) + 1
    BY Numbers, FS_AddElement
  <2> QED BY <2>1, Numbers
<1>7. /\ Cardinality(Unstarted') \in Nat
      /\ Cardinality(Unstarted') <= Cardinality(Unstarted \cup {n})
  BY <1>5, <1>6, FS_Subset, FS_CardinalityType
<1>8. Cardinality(Unstarted') <= Cardinality(Unstarted) + 1
  <2>1. Cardinality(Unstarted \cup {n}) \in Nat
    BY <1>6, FS_CardinalityType
  <2> QED BY <1>6, <1>7, <2>1, Numbers
<1> QED BY <1>1, <1>2, <1>4, <1>7, <1>8 DEF n

\* An action may be a run.
LEMMA ActCounted ==
  ASSUME MaxActions \in Nat, TypeOK, Counted, Act,
         (\E p \in Ports : Start(p) /\ list' = list) \/ \E as : Stop(as),
         UNCHANGED <<renewal, minted, keyring>>
  PROVE  run < MaxActions /\ Counted'
<1>1. actions' = actions + 1 /\ actions < MaxActions
  BY DEF Act
<1>2. run < MaxActions
  BY <1>1, Numbers DEF Counted
<1>3. /\ ~Late' /\ run' = run + 1 /\ \A s \in Runs : s > run' => start'[s].at = "no"
      /\ Cardinality(Unstarted') \in Nat /\ Cardinality(Unstarted') <= Cardinality(Unstarted) + 1
  BY <1>2, RunCounted
<1>4. Renewing' = Renewing
  BY DEF Renewing
<1>5. run' + Cardinality(Renewing) <= actions' /\ minted <= actions' + 1
  BY <1>1, <1>3, Numbers DEF Counted
<1>6. keyring = None => minted + Cardinality(Unstarted') <= actions'
  BY <1>1, <1>3, Numbers DEF Counted
<1> QED BY <1>2, <1>3, <1>4, <1>5, <1>6 DEF Counted

\* No token moves.
LEMMA TokensAlone ==
  ASSUME TokensKept, TokensInOrder, UNCHANGED <<renewal, keyring, token>>,
         "tokens" \notin crossed' => "tokens" \notin crossed,
         \A s \in Runs : start'[s].at \in {"making", "binding", "made"} => start'[s] = start[s],
         run' # run => start'[run'].at \in {"no", "halting"}
  PROVE  TokensKept' /\ TokensInOrder'
<1>1. TokensKept'
  BY DEF TokensKept
<1>2. TokensInOrder'
  <2> SUFFICES ASSUME "tokens" \notin crossed, "tokens" \notin crossed' PROVE TokensInOrder'
    BY DEF TokensInOrder
  <2> QED BY DEF TokensInOrder, Renewing
<1> QED BY <1>1, <1>2

\* Of one saving at a time, the last is of the settings as they are.
LEMMA Saved ==
  ASSUME Save, "saves" \notin crossed' => saves = {}
  PROVE  SavesInOrder'
BY DEF Save, SavesInOrder

\* gateway_set_on.
LEMMA SetOnKeeps ==
  ASSUME MaxActions \in Nat, ServingInv, SetOn
  PROVE  ServingInv'
<1>0. /\ TypeOK /\ Counted /\ TokensKept /\ TokensInOrder
  BY DEF ServingInv
<1>1. /\ Act /\ on' = ~on /\ port' = port /\ Save
      /\ crossed' = crossed \cup Crosses("saves", saves)
      /\ UNCHANGED <<list, token, secrets>>
      /\ (on' /\ Start(port)) \/ (~on' /\ Stop("off"))
      /\ on' \in BOOLEAN /\ port \in Ports
  BY <1>0 DEF SetOn, TypeOK
<1>2. (\E p \in Ports : Start(p) /\ list' = list) \/ \E as : Stop(as)
  BY <1>1
<1>3. run < MaxActions /\ Counted'
  BY <1>0, <1>1, <1>2, ActCounted DEF secrets
<1>4. LatestStart' /\ Shown' /\ ListsTold'
  BY <1>1, <1>3, StartShows, StopShows
<1>5. TokensKept' /\ TokensInOrder'
  <2>1. "tokens" \notin crossed' => "tokens" \notin crossed
    BY <1>1
  <2> QED BY <1>0, <1>1, <1>2, <1>3, <2>1, RunCounted, TokensAlone DEF secrets
<1>6. SavesInOrder'
  BY <1>1, Saved DEF Crosses
<1>7. TypeOK'
  <2>1. /\ run' \in Runs /\ handle' = None /\ telling' = telling
        /\ gateway' \in [Runs -> GatewayRecs] /\ start' \in [Runs -> StartRecs]
        /\ applied' \in {applied, list} /\ status' \in {"off", "starting", "unbuildable"}
    BY <1>0, <1>1, <1>3, StartDoes, StopDoes, Typed
  <2>2. actions' \in 0..MaxActions /\ run' \in 0..MaxActions
    BY <1>0, <1>1, <2>1, Numbers DEF Act, Runs
  <2>3. stored' \in Settings /\ saves' \subseteq Settings
    <3>1. [on |-> on', port |-> port'] \in Settings
      BY <1>1 DEF Settings
    <3> QED BY <1>0, <1>1, <3>1 DEF Save, TypeOK
  <2>4. crossed' \subseteq {"saves", "tokens", "lists"}
    BY <1>0, <1>1 DEF Crosses, TypeOK
  <2> QED BY <1>0, <1>1, <2>1, <2>2, <2>3, <2>4 DEF TypeOK, StartRecs, GatewayRecs, secrets
<1> QED BY <1>3, <1>4, <1>5, <1>6, <1>7 DEF ServingInv

\* An action that starts and stops nothing; the list it may change may cost a
\* run later.
LEMMA QuietCounted ==
  ASSUME MaxActions \in Nat, TypeOK, Counted, Act,
         UNCHANGED <<run, start, renewal, minted, keyring>>
  PROVE  Counted'
<1>1. actions' = actions + 1
  BY DEF Act
<1>2. Renewing' = Renewing /\ Unstarted' = Unstarted
  BY DEF Renewing, Unstarted
<1>3. /\ run + Cardinality(Renewing) + 1 <= actions' /\ run + Cardinality(Renewing) <= actions'
      /\ minted <= actions' + 1
      /\ keyring = None => minted + Cardinality(Unstarted) <= actions'
  BY <1>1, Numbers DEF Counted
<1> QED BY <1>2, <1>3 DEF Counted

\* The types of what a save leaves.
LEMMA SaveTyped ==
  ASSUME TypeOK, Save, on' \in BOOLEAN, port' \in Ports
  PROVE  stored' \in Settings /\ saves' \subseteq Settings
<1>1. [on |-> on', port |-> port'] \in Settings
  BY DEF Settings
<1> QED BY <1>1 DEF Save, TypeOK

\* gateway_set_port.
LEMMA SetPortKeeps ==
  ASSUME MaxActions \in Nat, ServingInv, NEW p \in Ports, SetPort(p)
  PROVE  ServingInv'
<1>0. /\ TypeOK /\ Counted /\ LatestStart /\ Shown /\ ListsTold /\ TokensKept /\ TokensInOrder
  BY DEF ServingInv
<1>1. /\ Act /\ on' = on /\ on \in BOOLEAN /\ port' = p /\ Save
      /\ crossed' = crossed \cup Crosses("saves", saves)
      /\ UNCHANGED <<list, token, secrets>>
  BY <1>0 DEF SetPort, TypeOK
<1>2. SavesInOrder'
  BY <1>1, Saved DEF Crosses
<1>3. stored' \in Settings /\ saves' \subseteq Settings
  BY <1>0, <1>1, SaveTyped
<1>4. crossed' \subseteq {"saves", "tokens", "lists"} /\ actions' \in 0..MaxActions
  BY <1>0, <1>1, Numbers DEF Crosses, Act, TypeOK
<1>5. ("tokens" \notin crossed' => "tokens" \notin crossed)
      /\ ("lists" \notin crossed' => "lists" \notin crossed)
  BY <1>1
<1>6. CASE on
  <2>1. Start(p)
    BY <1>6 DEF SetPort
  <2>2. (\E q \in Ports : Start(q) /\ list' = list) \/ \E as : Stop(as)
    BY <1>1, <2>1
  <2>3. run < MaxActions /\ Counted'
    BY <1>0, <1>1, <2>2, ActCounted DEF secrets
  <2>4. LatestStart' /\ Shown' /\ ListsTold'
    BY <1>1, <1>6, <2>1, <2>3, StartShows
  <2>5. TokensKept' /\ TokensInOrder'
    BY <1>0, <1>1, <1>5, <2>2, <2>3, RunCounted, TokensAlone DEF secrets
  <2>6. /\ run' \in Runs /\ handle' = None /\ telling' = telling
        /\ gateway' \in [Runs -> GatewayRecs] /\ start' \in [Runs -> StartRecs]
        /\ applied' \in {applied, list} /\ status' \in {"starting", "unbuildable"}
    BY <1>0, <2>1, <2>3, StartDoes
  <2>7. run' \in 0..MaxActions
    BY <2>6, <1>0, Numbers DEF Runs
  <2>8. TypeOK'
    BY <1>0, <1>1, <1>3, <1>4, <2>6, <2>7 DEF TypeOK, StartRecs, GatewayRecs, secrets
  <2> QED BY <1>2, <2>3, <2>4, <2>5, <2>8 DEF ServingInv
<1>7. CASE ~on
  <2>1. UNCHANGED <<status, run, handle, applied, start, gateway, telling>>
    BY <1>7 DEF SetPort
  <2>2. Counted'
    BY <1>0, <1>1, <2>1, QuietCounted DEF secrets
  <2>3. LatestStart' /\ Shown' /\ ListsTold'
    BY <1>0, <1>1, <1>5, <1>7, <2>1
       DEF LatestStart, Started, Going, Shown, OneGateway, ListsTold, Telling
  <2>4. TokensKept' /\ TokensInOrder'
    BY <1>0, <1>1, <1>5, <2>1, TokensAlone DEF secrets
  <2>5. TypeOK'
    BY <1>0, <1>1, <1>3, <1>4, <2>1 DEF TypeOK, secrets
  <2> QED BY <1>2, <2>2, <2>3, <2>4, <2>5 DEF ServingInv
<1> QED BY <1>6, <1>7

\* gateway_refresh, of a gateway that runs, and nothing of one that does not.
LEMMA RefreshKeeps ==
  ASSUME MaxActions \in Nat, ServingInv, Act, NEW l \in Lists, list' = l,
         NEW also \in SUBSET {"saves"},
         IF status = "running" THEN Refresh(l, also)
         ELSE UNCHANGED <<model, tasks>> /\ crossed' = crossed \cup also,
         UNCHANGED <<on, port, secrets>>, stored' \in Settings, saves' \subseteq Settings
  PROVE  /\ TypeOK' /\ Counted' /\ LatestStart' /\ Shown' /\ ListsTold'
         /\ TokensKept' /\ TokensInOrder'
         /\ "saves" \in crossed' <=> "saves" \in crossed \cup also
<1>0. /\ TypeOK /\ Counted /\ LatestStart /\ Shown /\ ListsTold /\ TokensKept /\ TokensInOrder
  BY DEF ServingInv
<1>1. actions' \in 0..MaxActions /\ on \in BOOLEAN
  BY <1>0, Numbers DEF Act, TypeOK
<1>2. CASE status # "running"
  <2>1. UNCHANGED <<model, tasks>> /\ crossed' = crossed \cup also
    BY <1>2
  <2>2. Counted'
    BY <1>0, <2>1, QuietCounted DEF model, tasks, secrets
  <2>3. LatestStart' /\ Shown' /\ ListsTold'
    BY <1>0, <1>2, <2>1
       DEF LatestStart, Started, Going, Shown, OneGateway, ListsTold, Telling, model, tasks
  <2>4. TokensKept' /\ TokensInOrder'
    BY <1>0, <2>1, TokensAlone DEF model, tasks, secrets
  <2>5. TypeOK'
    BY <1>0, <1>1, <2>1 DEF TypeOK, model, tasks, secrets
  <2> QED BY <2>1, <2>2, <2>3, <2>4, <2>5
<1>3. CASE status = "running" /\ l \in Unbuildable
  <2>1. Stop("unbuildable") /\ crossed' = crossed \cup also
    BY <1>3 DEF Refresh
  <2>2. on /\ token' = token
    BY <1>0, <1>3, <2>1 DEF Shown, OneGateway, Stop
  <2>3. run < MaxActions /\ Counted'
    BY <1>0, <2>1, ActCounted DEF secrets
  <2>4. LatestStart' /\ Shown' /\ ListsTold'
    BY <2>1, <2>2, <2>3, StopShows
  <2>5. TokensKept' /\ TokensInOrder'
    BY <1>0, <2>1, <2>2, <2>3, RunCounted, TokensAlone DEF secrets
  <2>6. /\ run' \in Runs /\ handle' = None /\ telling' = telling /\ start' = start
        /\ gateway' \in [Runs -> GatewayRecs] /\ applied' = applied /\ status' = "unbuildable"
    BY <1>0, <2>1, <2>3, StopDoes
  <2>7. run' \in 0..MaxActions
    BY <2>6, <1>0, Numbers DEF Runs
  <2>8. TypeOK'
    BY <1>0, <1>1, <2>1, <2>2, <2>6, <2>7 DEF TypeOK, GatewayRecs, secrets
  <2> QED BY <2>1, <2>3, <2>4, <2>5, <2>8
<1>4. CASE status = "running" /\ l \notin Unbuildable
  <2>1. /\ applied' = l /\ telling' = telling \cup {[to |-> handle, servers |-> l]}
        /\ crossed' = crossed \cup also \cup Crosses("lists", Telling(handle))
        /\ UNCHANGED <<status, run, handle, token, start, gateway>>
    BY <1>4 DEF Refresh, Tell
  <2>2. /\ handle \in Runs /\ run = handle /\ start[handle].at = "over" /\ on
        /\ gateway[handle].life = "up" /\ token = start[handle].token
    BY <1>0, <1>4 DEF Shown, OneGateway, TypeOK
  <2>3. Counted'
    BY <1>0, <2>1, QuietCounted DEF secrets
  <2>4. LatestStart'
    BY <1>4, <2>1, <2>2, <1>0 DEF LatestStart, Started, Going
  <2>5. Shown'
    <3>1. \A t \in telling' : start[t.to].at = "over"
      BY <1>0, <2>1, <2>2 DEF Shown
    <3> QED BY <1>0, <1>4, <2>1, <2>2, <3>1 DEF Shown, OneGateway
  <2>6. ListsTold'
    <3> SUFFICES ASSUME "lists" \notin crossed' PROVE ListsTold'
      BY DEF ListsTold
    <3>1. Telling(handle) = {}
      BY <2>1 DEF Crosses
    <3> DEFINE new == [to |-> handle, servers |-> l]
    <3>2. new.to = handle /\ new.servers = l /\ telling' = telling \cup {new}
      BY <2>1
    <3> HIDE DEF new
    <3>3. {t \in telling' : t.to = handle} = {new}
      BY <3>1, <3>2 DEF Telling
    <3> QED BY <2>1, <3>2, <3>3 DEF ListsTold, Telling
  <2>7. TokensKept' /\ TokensInOrder'
    <3>1. "tokens" \notin crossed' => "tokens" \notin crossed
      BY <2>1
    <3> QED BY <1>0, <2>1, <3>1, TokensAlone DEF secrets
  <2>8. telling' \subseteq [to : Runs, servers : Lists]
    BY <1>0, <2>1, <2>2 DEF TypeOK
  <2>9. crossed' \subseteq {"saves", "tokens", "lists"}
    BY <1>0, <2>1 DEF Crosses, TypeOK
  <2>10. TypeOK'
    BY <1>0, <1>1, <2>1, <2>8, <2>9 DEF TypeOK, secrets
  <2> QED BY <2>1, <2>3, <2>4, <2>5, <2>6, <2>7, <2>10 DEF Crosses
<1> QED BY <1>2, <1>3, <1>4

\* gateway_sync after a change of the servers.
LEMMA ListChangesKeeps ==
  ASSUME MaxActions \in Nat, ServingInv, NEW l \in Lists, ListChanges(l)
  PROVE  ServingInv'
<1>1. /\ Act /\ list' = l
      /\ UNCHANGED <<on, port, stored, saves, secrets>>
      /\ IF status = "running" THEN Refresh(l, {}) ELSE UNCHANGED <<model, tasks, crossed>>
  BY DEF ListChanges, settings
<1>2. IF status = "running" THEN Refresh(l, {})
      ELSE UNCHANGED <<model, tasks>> /\ crossed' = crossed \cup {}
  BY <1>1
<1>3. stored' \in Settings /\ saves' \subseteq Settings
  BY <1>1 DEF ServingInv, TypeOK
<1>4. /\ TypeOK' /\ Counted' /\ LatestStart' /\ Shown' /\ ListsTold'
      /\ TokensKept' /\ TokensInOrder'
      /\ "saves" \in crossed' <=> "saves" \in crossed \cup {}
  <2> DEFINE none == {}
  <2>1. none \in SUBSET {"saves"} /\ none = {}
    OBVIOUS
  <2> HIDE DEF none
  <2>2. IF status = "running" THEN Refresh(l, none)
        ELSE UNCHANGED <<model, tasks>> /\ crossed' = crossed \cup none
    BY <1>2, <2>1
  <2> QED BY <1>1, <1>3, <2>1, <2>2, RefreshKeeps
<1>5. SavesInOrder'
  BY <1>1, <1>4 DEF ServingInv, SavesInOrder
<1> QED BY <1>4, <1>5 DEF ServingInv

\* gateway_set_server.
LEMMA SetServerKeeps ==
  ASSUME MaxActions \in Nat, ServingInv, NEW l \in Lists, SetServer(l)
  PROVE  ServingInv'
<1> DEFINE also == Crosses("saves", saves)
<1>1. /\ Act /\ list' = l /\ Save
      /\ UNCHANGED <<on, port, secrets>>
      /\ IF status = "running" THEN Refresh(l, also)
         ELSE UNCHANGED <<model, tasks>> /\ crossed' = crossed \cup also
  BY DEF SetServer
<1>2. also \in SUBSET {"saves"} /\ (saves # {} => "saves" \in also)
  BY DEF Crosses
<1>3. stored' \in Settings /\ saves' \subseteq Settings
  BY <1>1, SaveTyped DEF ServingInv, TypeOK
<1> HIDE DEF also
<1>4. /\ TypeOK' /\ Counted' /\ LatestStart' /\ Shown' /\ ListsTold'
      /\ TokensKept' /\ TokensInOrder'
      /\ "saves" \in crossed' <=> "saves" \in crossed \cup also
  BY <1>1, <1>2, <1>3, RefreshKeeps
<1>5. SavesInOrder'
  BY <1>1, <1>2, <1>4, Saved
<1> QED BY <1>4, <1>5 DEF ServingInv

-----------------------------------------------------------------------------
(* New tokens, savings, and the gateways themselves.                       *)

\* gateway_regenerate_token.
LEMMA RegenerateKeeps ==
  ASSUME MaxActions \in Nat, ServingInv, Regenerate
  PROVE  ServingInv'
<1>0. /\ TypeOK /\ Counted /\ LatestStart /\ Shown /\ ListsTold
      /\ TokensKept /\ TokensInOrder /\ SavesInOrder
  BY DEF ServingInv
<1> DEFINE t == minted + 1
<1>1. /\ actions' = actions + 1 /\ actions < MaxActions /\ minted' = t
      /\ renewal' = [renewal EXCEPT ![t] = "out"]
      /\ crossed' = crossed \cup Crosses("tokens", Renewing \cup {r \in Runs : start[r].at = "making"})
      /\ UNCHANGED <<settings, list, model, tasks, keyring>>
  BY DEF Regenerate, Act, Renewing
<1>2. t \in Tokens /\ t > minted /\ t # None
  BY <1>0, <1>1, Numbers DEF Counted, Tokens, None
<1>3. t \notin Renewing
  BY <1>0, <1>2, Numbers DEF Counted, Renewing
<1> HIDE DEF t
<1>4. renewal'[t] = "out" /\ \A u \in Tokens \ {t} : renewal'[u] = renewal[u]
  BY <1>0, <1>1, <1>2 DEF TypeOK
<1>5. Renewing' = Renewing \cup {t}
  BY <1>2, <1>4 DEF Renewing
<1>6. LatestStart' /\ Shown' /\ ListsTold' /\ SavesInOrder'
  BY <1>0, <1>1 DEF LatestStart, Started, Going, Shown, OneGateway, ListsTold, Telling,
                    SavesInOrder, Crosses, settings, model, tasks
<1>7. Counted'
  <2>1. Cardinality(Renewing') = Cardinality(Renewing) + 1
    BY <1>0, <1>3, <1>5, Numbers, FS_AddElement
  <2>2. Unstarted' = Unstarted /\ (Late' <=> Late)
    BY <1>1 DEF Unstarted, Late, Going, model, tasks
  <2>3. minted' = minted + 1
    BY <1>1 DEF t
  <2>4. /\ run + Cardinality(Renewing') <= actions'
        /\ Late => run + Cardinality(Renewing') + 1 <= actions'
        /\ minted' <= actions' + 1
        /\ keyring = None => minted' + Cardinality(Unstarted) <= actions'
    BY <1>0, <1>1, <2>1, <2>3, Numbers DEF Counted
  <2>5. \A u \in Renewing' : u <= minted'
    <3>1. \A u \in Renewing : u \in Nat
      BY <1>0, Numbers DEF Renewing
    <3> QED BY <1>0, <1>5, <2>3, <3>1, Numbers DEF Counted, t
  <2> QED BY <1>0, <1>1, <2>2, <2>4, <2>5 DEF Counted, model, tasks
<1>8. TokensKept'
  BY <1>0, <1>1, <1>4 DEF TokensKept, model, tasks
<1>9. TokensInOrder'
  <2> SUFFICES ASSUME "tokens" \notin crossed' PROVE TokensInOrder'
    BY DEF TokensInOrder
  <2>1. /\ Renewing = {} /\ "tokens" \notin crossed
        /\ \A r \in Runs : start[r].at # "making"
    BY <1>1 DEF Crosses
  <2>2. \A u \in Tokens : renewal[u] = "no"
    BY <2>1 DEF Renewing
  <2>3. \A u \in Tokens : renewal'[u] # "kept"
    BY <1>4, <2>2
  <2>4. /\ token # None => token = keyring
        /\ run \in Runs /\ start[run].at \in {"binding", "made"} => start[run].token = keyring
    BY <1>0, <2>1, <2>2 DEF TokensInOrder
  <2> QED BY <1>1, <1>5, <2>1, <2>3, <2>4 DEF TokensInOrder, model, tasks
<1>10. TypeOK'
  <2>1. actions' \in 0..MaxActions /\ minted' \in 0..(MaxActions + 1)
    BY <1>0, <1>1, <1>2, Numbers DEF Tokens
  <2>2. renewal' \in [Tokens -> {"no", "out", "kept", "lost"}]
    BY <1>0, <1>1, <1>2 DEF TypeOK
  <2>3. crossed' \subseteq {"saves", "tokens", "lists"}
    BY <1>0, <1>1 DEF TypeOK, Crosses
  <2> QED BY <1>0, <1>1, <2>1, <2>2, <2>3 DEF TypeOK, settings, model, tasks
<1> QED BY <1>6, <1>7, <1>8, <1>9, <1>10 DEF ServingInv

\* A token on its way is kept in the keyring, or is lost and told so.
LEMMA RenewalKeeps ==
  ASSUME MaxActions \in Nat, ServingInv, NEW t \in Tokens,
         RenewalRuns(t) \/ RenewalFails(t) \/ RenewalNotDone(t)
  PROVE  ServingInv'
<1>0. /\ TypeOK /\ Counted /\ LatestStart /\ Shown /\ ListsTold
      /\ TokensKept /\ TokensInOrder /\ SavesInOrder
  BY DEF ServingInv
<1>1. PICK to \in {"kept", "lost", "no"} :
        /\ renewal' = [renewal EXCEPT ![t] = to]
        /\ to = "kept" => renewal[t] = "out" /\ keyring' = t
        /\ to = "lost" => renewal[t] = "out" /\ keyring' = keyring
        /\ to = "no" => renewal[t] = "lost" /\ keyring' = keyring
        /\ UNCHANGED <<settings, list, model, tasks, minted, actions, crossed>>
  <2>1. CASE RenewalRuns(t)
    BY <2>1 DEF RenewalRuns, Renewal
  <2>2. CASE RenewalFails(t)
    BY <2>2 DEF RenewalFails, Renewal
  <2>3. CASE RenewalNotDone(t)
    BY <2>3 DEF RenewalNotDone, Renewal
  <2> QED BY <2>1, <2>2, <2>3
<1>2. /\ renewal'[t] = to /\ \A u \in Tokens \ {t} : renewal'[u] = renewal[u]
      /\ t \in Renewing /\ Renewing' \subseteq Renewing /\ t # None
  <2>1. renewal'[t] = to /\ \A u \in Tokens \ {t} : renewal'[u] = renewal[u]
    BY <1>0, <1>1 DEF TypeOK
  <2>2. t # None
    BY <1>0, Numbers DEF None
  <2> QED BY <1>1, <2>1, <2>2 DEF Renewing
<1>3. LatestStart' /\ Shown' /\ ListsTold' /\ SavesInOrder'
  BY <1>0, <1>1 DEF LatestStart, Started, Going, Shown, OneGateway, ListsTold, Telling,
                    SavesInOrder, settings, model, tasks
<1>4. Counted'
  <2>1. Unstarted' = Unstarted /\ (Late' <=> Late)
    BY <1>1 DEF Unstarted, Late, Going, model, tasks
  <2>2. Cardinality(Renewing') \in Nat /\ Cardinality(Renewing') <= Cardinality(Renewing)
    BY <1>0, <1>2, Numbers, FS_Subset, FS_CardinalityType
  <2>3. /\ run + Cardinality(Renewing') <= actions
        /\ Late => run + Cardinality(Renewing') + 1 <= actions
    BY <1>0, <2>2, Numbers DEF Counted
  <2>4. keyring' = None => keyring = None
    BY <1>1, <1>2
  <2> QED BY <1>0, <1>1, <1>2, <2>1, <2>3, <2>4 DEF Counted, model, tasks
<1>5. TokensKept'
  BY <1>0, <1>1, <1>2 DEF TokensKept, model, tasks
<1>6. TokensInOrder'
  <2> SUFFICES ASSUME "tokens" \notin crossed PROVE TokensInOrder'
    BY <1>1 DEF TokensInOrder
  <2>1. \A u \in Renewing : u = t
    BY <1>0, <1>2 DEF TokensInOrder
  <2>2. \A u \in Tokens \ {t} : renewal'[u] = "no" /\ renewal[u] = "no"
    BY <1>2, <2>1 DEF Renewing
  <2>3. CASE to = "kept"
    <3>1. \A s \in Runs : start[s].at # "making"
      BY <1>0, <1>1, <2>3 DEF TokensInOrder
    <3>2. renewal'[t] = "kept" /\ keyring' = t
      BY <1>1, <1>2, <2>3
    <3> QED BY <1>1, <1>2, <2>1, <2>2, <3>1, <3>2 DEF TokensInOrder, model, tasks
  <2>4. CASE to # "kept"
    <3>1. \A u \in Tokens : renewal[u] # "kept" /\ renewal'[u] # "kept"
      BY <1>1, <1>2, <2>2, <2>4
    <3>2. keyring' = keyring /\ renewal'[t] \in {"no", "lost"}
      BY <1>1, <1>2, <2>4
    <3> QED BY <1>0, <1>1, <1>2, <2>1, <2>2, <3>1, <3>2 DEF TokensInOrder, model, tasks
  <2> QED BY <2>3, <2>4
<1>7. TypeOK'
  BY <1>0, <1>1 DEF TypeOK, settings, model, tasks
<1> QED BY <1>3, <1>4, <1>5, <1>6, <1>7 DEF ServingInv

\* The new token is shown, and a gateway that is on starts again with it.
LEMMA RenewalDoneKeeps ==
  ASSUME MaxActions \in Nat, ServingInv, NEW t \in Tokens, RenewalDone(t)
  PROVE  ServingInv'
<1>0. /\ TypeOK /\ Counted /\ LatestStart /\ Shown /\ ListsTold
      /\ TokensKept /\ TokensInOrder /\ SavesInOrder
  BY DEF ServingInv
<1>1. /\ renewal[t] = "kept" /\ renewal' = [renewal EXCEPT ![t] = "no"] /\ token' = t
      /\ (on /\ Start(port)) \/
         (~on /\ UNCHANGED <<status, run, handle, applied, start, gateway, telling>>)
      /\ UNCHANGED <<settings, list, keyring, minted, actions, crossed>>
  BY DEF RenewalDone, Renewal
<1>2. /\ renewal'[t] = "no" /\ \A u \in Tokens \ {t} : renewal'[u] = renewal[u]
      /\ keyring # None /\ port \in Ports /\ t # None
  <2>1. t # None
    BY <1>0, Numbers DEF None
  <2> QED BY <1>0, <1>1, <2>1 DEF TypeOK, TokensKept
<1>3. t \in Renewing /\ Renewing' = Renewing \ {t}
  BY <1>1, <1>2 DEF Renewing
<1>4. /\ Cardinality(Renewing') = Cardinality(Renewing) - 1 /\ Cardinality(Renewing') \in Nat
      /\ Cardinality(Renewing) \in Nat
  BY <1>0, <1>3, Numbers, FS_RemoveElement, FS_CardinalityType
<1>5. run < MaxActions
  BY <1>0, <1>4, Numbers DEF Counted
<1>6. CASE on
  <2>1. Start(port) /\ on' = on /\ port' = port /\ list' = list
    BY <1>1, <1>6 DEF settings
  <2>2. (\E q \in Ports : Start(q) /\ list' = list) \/ \E as : Stop(as)
    BY <1>2, <2>1
  <2>3. /\ ~Late' /\ run' = run + 1 /\ \A s \in Runs : s > run' => start'[s].at = "no"
        /\ \A s \in Runs : start'[s].at \in {"making", "binding", "made"} => start'[s] = start[s]
        /\ start'[run'].at \in {"no", "halting"}
    BY <1>0, <1>5, <2>2, RunCounted
  <2>4. LatestStart' /\ Shown' /\ ListsTold'
    BY <1>2, <1>5, <1>6, <2>1, StartShows
  <2>5. Counted'
    <3>1. run' + Cardinality(Renewing') <= actions
      BY <1>0, <1>4, <2>3, Numbers DEF Counted
    <3> QED BY <1>0, <1>1, <1>2, <1>3, <2>3, <3>1 DEF Counted
  <2>6. /\ run' \in Runs /\ handle' = None /\ telling' = telling
        /\ gateway' \in [Runs -> GatewayRecs] /\ start' \in [Runs -> StartRecs]
        /\ applied' \in {applied, list} /\ status' \in {"starting", "unbuildable"}
    BY <1>0, <1>2, <1>5, <2>1, StartDoes
  <2>7. run' \in 0..MaxActions
    BY <2>6, <1>0, Numbers DEF Runs
  <2>8. TypeOK'
    BY <1>0, <1>1, <2>6, <2>7 DEF TypeOK, StartRecs, GatewayRecs, settings
  <2>9. TokensKept'
    BY <1>0, <1>1, <1>2, <2>3 DEF TokensKept
  <2>10. TokensInOrder'
    <3> SUFFICES ASSUME "tokens" \notin crossed PROVE TokensInOrder'
      BY <1>1 DEF TokensInOrder
    <3>1. /\ keyring = t /\ \A u \in Renewing : u = t
          /\ \A s \in Runs : start[s].at # "making"
      BY <1>0, <1>1, <1>3 DEF TokensInOrder
    <3>2. Renewing' = {} /\ \A u \in Tokens : renewal'[u] = "no"
      BY <1>2, <1>3, <3>1 DEF Renewing
    <3>3. \A s \in Runs : start'[s].at # "making"
      BY <2>3, <3>1
    <3>4. start'[run'].at \notin {"binding", "made"}
      BY <2>3
    <3> QED BY <1>1, <3>1, <3>2, <3>3, <3>4 DEF TokensInOrder
  <2> QED BY <1>0, <1>1, <2>4, <2>5, <2>8, <2>9, <2>10 DEF ServingInv, SavesInOrder,
        settings
<1>7. CASE ~on
  <2>1. UNCHANGED <<status, run, handle, applied, start, gateway, telling>>
    BY <1>1, <1>7
  <2>2. status # "running" /\ ~Started
    BY <1>0, <1>7 DEF LatestStart, Shown, OneGateway
  <2>3. LatestStart' /\ Shown' /\ ListsTold'
    BY <1>0, <1>1, <2>1, <2>2
       DEF LatestStart, Started, Going, Shown, OneGateway, ListsTold, settings
  <2>4. Counted'
    <3>1. run + Cardinality(Renewing') <= actions
      BY <1>0, <1>4, Numbers DEF Counted
    <3>2. ~Late'
      BY <2>1, <2>2 DEF Late, Going, Started
    <3> QED BY <1>0, <1>1, <1>2, <1>3, <2>1, <3>1, <3>2 DEF Counted
  <2>5. TypeOK'
    BY <1>0, <1>1, <2>1 DEF TypeOK, settings
  <2>6. TokensKept'
    BY <1>0, <1>1, <1>2, <2>1 DEF TokensKept
  <2>7. TokensInOrder'
    <3> SUFFICES ASSUME "tokens" \notin crossed PROVE TokensInOrder'
      BY <1>1 DEF TokensInOrder
    <3>1. /\ keyring = t /\ \A u \in Renewing : u = t
          /\ \A s \in Runs : start[s].at # "making"
      BY <1>0, <1>1, <1>3 DEF TokensInOrder
    <3>2. run \in Runs => start[run].at = "no"
      BY <2>2 DEF Started
    <3>3. Renewing' = {} /\ \A u \in Tokens : renewal'[u] = "no"
      BY <1>2, <1>3, <3>1 DEF Renewing
    <3> QED BY <1>1, <2>1, <3>1, <3>2, <3>3 DEF TokensInOrder
  <2> QED BY <1>0, <1>1, <2>3, <2>4, <2>5, <2>6, <2>7 DEF ServingInv, SavesInOrder, settings
<1> QED BY <1>6, <1>7

\* Settings::save.
LEMMA SaveRunsKeeps ==
  ASSUME MaxActions \in Nat, ServingInv, NEW s \in saves, SaveRuns(s)
  PROVE  ServingInv'
<1>1. /\ saves' = saves \ {s} /\ stored' = s
      /\ UNCHANGED <<on, port, list, model, tasks, secrets, actions, crossed>>
  BY DEF SaveRuns
<1>2. SavesInOrder'
  BY <1>1 DEF ServingInv, SavesInOrder
<1>3. TypeOK'
  BY <1>1 DEF ServingInv, TypeOK, model, tasks, secrets
<1>4. LatestStart' /\ Shown' /\ ListsTold'
  BY <1>1 DEF ServingInv, LatestStart, Started, Going, Shown, OneGateway, ListsTold,
        Telling,
              model, tasks
<1>5. Counted'
  BY <1>1 DEF ServingInv, Counted, Late, Going, Renewing, Unstarted, model, tasks, secrets
<1>6. TokensKept' /\ TokensInOrder'
  BY <1>1 DEF ServingInv, TokensKept, TokensInOrder, Renewing, model, tasks, secrets
<1> QED BY <1>2, <1>3, <1>4, <1>5, <1>6 DEF ServingInv

\* What the gateways' own steps leave alone.
LEMMA GatewaysAlone ==
  ASSUME ServingInv, UNCHANGED <<settings, list, model, start, secrets, actions, crossed>>
  PROVE  Counted' /\ TokensKept' /\ TokensInOrder' /\ SavesInOrder'
<1>1. Counted'
  BY DEF ServingInv, Counted, Late, Going, Renewing, Unstarted, model, secrets
<1>2. TokensKept' /\ TokensInOrder'
  BY DEF ServingInv, TokensKept, TokensInOrder, Renewing, model, secrets
<1>3. SavesInOrder'
  BY DEF ServingInv, SavesInOrder, settings
<1> QED BY <1>1, <1>2, <1>3

\* Gateway::set_servers.
LEMMA SetServersKeeps ==
  ASSUME MaxActions \in Nat, ServingInv, NEW t \in telling, SetServers(t)
  PROVE  ServingInv'
<1>0. TypeOK /\ LatestStart /\ Shown /\ ListsTold
  BY DEF ServingInv
<1>1. /\ telling' = telling \ {t} /\ gateway' = [gateway EXCEPT ![t.to].servers = t.servers]
      /\ UNCHANGED <<settings, list, model, start, secrets, actions, crossed>>
  BY DEF SetServers
<1>2. /\ t.to \in Runs /\ t.servers \in Lists /\ start[t.to].at = "over"
  BY <1>0 DEF TypeOK, Shown
<1>3. /\ gateway' \in [Runs -> GatewayRecs]
      /\ gateway'[t.to].servers = t.servers
      /\ \A g \in Runs : gateway'[g].life = gateway[g].life
      /\ \A g \in Runs \ {t.to} : gateway'[g] = gateway[g]
  BY <1>0, <1>1, <1>2, Typed DEF GatewayRecs
<1>4. LatestStart'
  BY <1>0, <1>1, <1>2, <1>3 DEF LatestStart, Started, Going, settings, model
<1>5. Shown'
  BY <1>0, <1>1, <1>3 DEF Shown, OneGateway, TypeOK, None, settings, model
<1>6. ListsTold'
  <2> SUFFICES ASSUME "lists" \notin crossed, status = "running" PROVE ListsTold'
    BY <1>1 DEF ListsTold, model
  <2>1. handle \in Runs
    BY <1>0 DEF Shown, OneGateway, TypeOK
  <2>2. /\ \A u \in Telling(handle) : u.servers = list
        /\ Telling(handle) = {} => gateway[handle].servers = list
    BY <1>0 DEF ListsTold
  <2>3. {u \in telling' : u.to = handle} = Telling(handle) \ {t}
    BY <1>1 DEF Telling
  <2>4. Telling(handle) \ {t} = {} => gateway'[handle].servers = list
    <3>1. CASE t.to = handle
      BY <1>3, <2>2, <3>1 DEF Telling
    <3>2. CASE t.to # handle
      BY <1>3, <2>1, <2>2, <3>2 DEF Telling
    <3> QED BY <3>1, <3>2
  <2>5. handle' = handle /\ list' = list
    BY <1>1 DEF model
  <2> QED BY <2>2, <2>3, <2>4, <2>5 DEF ListsTold, Telling
<1>7. TypeOK'
  BY <1>0, <1>1, <1>3 DEF TypeOK, GatewayRecs, settings, model, secrets
<1> QED BY <1>1, <1>4, <1>5, <1>6, <1>7, GatewaysAlone DEF ServingInv

\* A gateway has stopped.
LEMMA StoppedKeeps ==
  ASSUME MaxActions \in Nat, ServingInv, NEW g \in Runs, Stopped(g)
  PROVE  ServingInv'
<1>0. TypeOK /\ LatestStart /\ Shown /\ ListsTold
  BY DEF ServingInv
<1>1. /\ gateway[g].life = "stopping" /\ Lives(g, "stopped")
      /\ UNCHANGED <<settings, list, model, start, telling, secrets, actions, crossed>>
  BY <1>0, LifeChanges DEF Stopped
<1>2. /\ gateway' \in [Runs -> GatewayRecs] /\ gateway'[g].life = "stopped"
      /\ \A h \in Runs : gateway'[h].servers = gateway[h].servers
      /\ \A h \in Runs : gateway'[h].life = "up" <=> gateway[h].life = "up"
  BY <1>1 DEF Lives
<1>3. LatestStart'
  BY <1>0, <1>1, <1>2 DEF LatestStart, Started, Going, settings, model
<1>4. Shown'
  BY <1>0, <1>1, <1>2 DEF Shown, OneGateway, TypeOK, None, settings, model
<1>5. ListsTold'
  BY <1>0, <1>1, <1>2 DEF ListsTold, Telling, Shown, OneGateway, TypeOK, None, model
<1>6. TypeOK'
  BY <1>0, <1>1, <1>2 DEF TypeOK, GatewayRecs, settings, model, secrets
<1> QED BY <1>1, <1>3, <1>4, <1>5, <1>6, GatewaysAlone DEF ServingInv

-----------------------------------------------------------------------------
LEMMA InitInv == ASSUME MaxActions \in Nat, Init PROVE ServingInv
<1>1. /\ on = FALSE /\ port \in Ports /\ list \in Lists
      /\ stored = [on |-> on, port |-> port] /\ saves = {}
      /\ status = "off" /\ run = 0 /\ handle = None /\ applied = None /\ token = None
      /\ start = [r \in Runs |-> [at |-> "no", port |-> port, old |-> None, token |-> None]]
      /\ gateway = [r \in Runs |-> [life |-> "none", servers |-> list]]
      /\ telling = {} /\ minted \in {0, 1} /\ keyring = minted
      /\ renewal = [t \in Tokens |-> "no"]
      /\ actions = 0 /\ crossed = {}
  BY DEF Init
<1>2. 1 \in Tokens /\ 0 \notin Runs
  BY DEF Tokens, Runs
<1>3. TypeOK
  <2>1. [at |-> "no", port |-> port, old |-> None, token |-> None] \in StartRecs
    BY <1>1 DEF StartRecs, Places
  <2>2. start \in [Runs -> StartRecs] /\ gateway \in [Runs -> GatewayRecs]
    BY <1>1, <2>1 DEF GatewayRecs
  <2>3. keyring \in Tokens \cup {None} /\ minted \in 0..(MaxActions + 1)
    BY <1>1, <1>2 DEF None
  <2>4. stored \in Settings
    BY <1>1 DEF Settings
  <2>5. run \in 0..MaxActions /\ actions \in 0..MaxActions
    BY <1>1
  <2>6. renewal \in [Tokens -> {"no", "out", "kept", "lost"}]
    BY <1>1
  <2>7. crossed \subseteq {"saves", "tokens", "lists"} /\ on \in BOOLEAN
    BY <1>1
  <2> QED BY <1>1, <2>2, <2>3, <2>4, <2>5, <2>6, <2>7 DEF TypeOK, StartRecs, GatewayRecs
<1>4. Renewing = {} /\ Unstarted = {}
  BY <1>1 DEF Renewing, Unstarted
<1>5. Counted
  <2>1. Cardinality(Renewing) = 0 /\ Cardinality(Unstarted) = 0
    BY <1>4, FS_EmptySet
  <2> QED BY <1>1, <1>2, <1>4, <2>1 DEF Counted, Late, None
<1>6. LatestStart /\ Shown /\ ListsTold
  BY <1>1, <1>2 DEF LatestStart, Started, Shown, OneGateway, ListsTold
<1>7. TokensKept /\ TokensInOrder /\ SavesInOrder
  BY <1>1, <1>2, <1>4 DEF TokensKept, TokensInOrder, SavesInOrder
<1> QED BY <1>3, <1>5, <1>6, <1>7 DEF ServingInv

LEMMA NextInv == ASSUME MaxActions \in Nat, ServingInv, [Next]_vars PROVE ServingInv'
<1>1. CASE User
  BY <1>1, SetOnKeeps, RegenerateKeeps, SetPortKeeps, ListChangesKeeps,
        SetServerKeeps DEF User
<1>2. CASE Jobs
  BY <1>2, SaveRunsKeeps, RenewalKeeps, RenewalDoneKeeps DEF Jobs
<1>3. CASE Starts
  BY <1>3, TaskKeeps, ReadTokenKeeps, KeepTokenKeeps, SupersededKeeps, LiveKeeps,
     StartFailedKeeps DEF Starts
<1>4. CASE Gateways
  BY <1>4, SetServersKeeps, StoppedKeeps DEF Gateways
<1>5. CASE UNCHANGED vars
  <2>1. UNCHANGED <<settings, list, model, start, telling, gateway, secrets, actions, crossed>>
    BY <1>5 DEF vars, tasks
  <2>2. TypeOK'
    BY <2>1 DEF ServingInv, TypeOK, settings, model, secrets
  <2>3. LatestStart' /\ Shown' /\ ListsTold'
    BY <2>1 DEF ServingInv, LatestStart, Started, Going, Shown, OneGateway, ListsTold,
          Telling,
                settings, model
  <2> QED BY <2>1, <2>2, <2>3, GatewaysAlone DEF ServingInv
<1> QED BY <1>1, <1>2, <1>3, <1>4, <1>5 DEF Next

\* At rest what is asked for is what is served: each part says so of one thing.
LEMMA RestServes == ASSUME MaxActions \in Nat, ServingInv PROVE ServesWhatIsAsked
<1> SUFFICES ASSUME AtRest PROVE ServesWhatIsAsked
  BY DEF ServesWhatIsAsked
<1>0. /\ TypeOK /\ LatestStart /\ Shown /\ ListsTold /\ TokensInOrder /\ SavesInOrder
  BY DEF ServingInv
<1>1. /\ saves = {} /\ telling = {} /\ \A t \in Tokens : renewal[t] = "no"
      /\ \A r \in Runs : start[r].at \in {"no", "over"}
  BY DEF AtRest
<1>2. on => status \in {"running", "unbuildable", "inUse", "failed"}
  BY <1>0, <1>1 DEF LatestStart, Going, TypeOK
<1>3. status = "running" => start[handle].port = port
  BY <1>0 DEF LatestStart, Started, Shown, OneGateway, TypeOK
<1>4. status = "running" => gateway[handle].servers = list \/ "lists" \in crossed
  BY <1>0, <1>1 DEF ListsTold, Telling
<1>5. token # None => token = keyring \/ "tokens" \in crossed
  BY <1>0, <1>1 DEF TokensInOrder
<1>6. stored = [on |-> on, port |-> port] \/ "saves" \in crossed
  BY <1>0, <1>1 DEF SavesInOrder
<1> QED BY <1>2, <1>3, <1>4, <1>5, <1>6 DEF ServesWhatIsAsked

\* For any ports, lists and number of actions, in whatever order starts, stops,
\* saves and tellings end: the gateway shown as running is the one that runs,
\* with the token shown, and with nothing on its way what is served is what was
\* asked for (gateway_start, gateway_stop, gateway_refresh, save_gateway).
THEOREM ServingIsSound == ASSUME MaxActions \in Nat PROVE Spec => []ServingSound
<1>1. Init => ServingInv
  BY InitInv
<1>2. ServingInv /\ [Next]_vars => ServingInv'
  BY NextInv
<1>3. ServingInv => ServingSound
  BY RestServes DEF ServingInv, Shown, ServingSound
<1> QED BY <1>1, <1>2, <1>3, PTL DEF Spec

-----------------------------------------------------------------------------
(* Keyring.                                                                *)

JobPlaces == {"no", "row", "token", "old", "secret", "back", "undo"}
Records ==
  [kind : K!Kinds \cup {"no"}, spec : K!Auths, previous : Keys \cup {K!None}, at : JobPlaces]

\* The steps a job of each kind goes through.
PlacesOf(kind) ==
  CASE kind = "no" -> {"no"}
    [] kind \in {"add", "edit"} -> {"row", "token", "old", "back"}
    [] kind = "import" -> {"token", "row", "undo", "back"}
    [] kind = "delete" -> {"row", "secret", "back"}
    [] kind = "forget" -> {"secret", "back"}
    [] kind = "signin" -> {"token"}

\* A job is one of its kind, not taken yet when its turn has not come; a first
\* save is the first job, and the window knows no server before it is done.
JobsFormed ==
  \A j \in K!Jobs :
    /\ job[j].at \in PlacesOf(job[j].kind)
    /\ job[j].spec.key \in names \cup {K!None}
    /\ job[j].kind = "import" => job[j].spec.auth = "bearer"
    /\ job[j].kind = "signin" => job[j].spec.auth = "oauth"
    /\ j > started => job[j] = K!Idle
    /\ job[j].kind \in {"add", "import"} => started = 1 /\ record = K!Gone

\* The entries row and record name were minted.
Named == {row.key, record.key} \subseteq names \cup {K!None}

\* Of two jobs out together it is on record.
Crossing == \A i, j \in K!Out : i # j => {job[i].kind, job[j].kind} \in mixed

\* No two jobs crossed in a way that may leave keyring and row apart.
Together == mixed \cap K!Apart = {}

\* What a job knows of the row: it was the record's until the job wrote it, and
\* is the job's since.
JobInv(j) ==
  CASE job[j].kind = "add" ->
         row = IF job[j].at = "row" THEN K!Gone ELSE job[j].spec
    [] job[j].kind = "import" ->
         /\ row = IF job[j].at = "back" THEN job[j].spec ELSE K!Gone
         /\ job[j].at = "row" => job[j].spec.key \in entries
    [] job[j].kind = "edit" ->
         /\ record # K!Gone /\ job[j].previous = record.key
         /\ row = IF job[j].at = "row" THEN record ELSE job[j].spec
    [] job[j].kind = "delete" ->
         \/ row = K!Gone
         \/ job[j].at = "row" /\ row = record /\ row.key = job[j].previous
    [] job[j].kind = "signin" -> row = record /\ job[j].spec = row
    [] OTHER -> TRUE

\* Without a job that writes the row, the window knows it as it is.
Writers == {j \in K!Out : job[j].kind \in {"add", "import", "edit", "delete"}}

\* An entry no row names (any more, or yet) that a job is to remove or to name.
Owed(j, k) ==
  \/ job[j].kind = "delete" /\ job[j].at = "secret" /\ k = job[j].previous
  \/ job[j].kind = "edit" /\ job[j].at \in {"token", "old"} /\ k = job[j].previous
  \/ job[j].kind = "import" /\ job[j].at \in {"row", "undo"} /\ k = job[j].spec.key

\* Each entry is the row's, or a notice told of it, or a job owes it.
EntriesNamed ==
  \A k \in entries : k = row.key \/ k \in unkept \/ \E j \in K!Out : Owed(j, k)

\* The token of the row is there, or said not to be, or about to be written.
TokenKept ==
  row.auth = "bearer" =>
    \/ row.key \in entries \cup unkept \cup emptied
    \/ \E j \in K!Out : job[j].kind \in {"add", "edit"} /\ job[j].at = "token"

\* What holds however jobs cross.
Formed ==
  /\ K!TypeOK /\ JobsFormed /\ Named /\ Crossing
  /\ started = 0 => row = K!Gone /\ record = K!Gone

\* What holds unless they crossed in a way of Apart.
Settled ==
  /\ \A j \in K!Out : JobInv(j)
  /\ Writers = {} => row = record
  /\ EntriesNamed /\ TokenKept

KeyringInv == Formed /\ (Together => Settled)

\* What a step of a job does to the jobs.
LEMMA JobGoes ==
  ASSUME K!TypeOK, NEW j \in K!Jobs, NEW at, K!Goes(j, at)
  PROVE /\ \A i \in K!Jobs : i # j => job'[i] = job[i]
        /\ job'[j].at = at /\ job'[j].kind = job[j].kind
        /\ job'[j].spec = job[j].spec /\ job'[j].previous = job[j].previous
        /\ \A i \in K!Jobs : job'[i].kind = job[i].kind
        /\ K!Out' = K!Out
BY DEF K!TypeOK, K!Goes, K!Out

LEMMA JobEnds ==
  ASSUME K!TypeOK, NEW j \in K!Jobs, K!Ends(j)
  PROVE /\ \A i \in K!Jobs : i # j => job'[i] = job[i]
        /\ job'[j] = K!Idle
        /\ K!Out' = K!Out \ {j}
BY DEF K!TypeOK, K!Ends, K!Out, K!Idle

\* A new job crosses those that are out.
LEMMA JobStarts ==
  ASSUME MaxKeyringJobs \in Nat, K!TypeOK, JobsFormed, Crossing,
         NEW kind \in K!Kinds, NEW at, NEW spec, NEW previous,
         K!Start(kind, at, spec, previous)
  PROVE /\ started' \in K!Jobs /\ started' = started + 1
        /\ job[started'] = K!Idle /\ started' \notin K!Out
        /\ job'[started'] = [kind |-> kind, at |-> at, spec |-> spec, previous |-> previous]
        /\ \A i \in K!Jobs : i # started' => job'[i] = job[i]
        /\ K!Out' = K!Out \cup {started'}
        /\ \A i \in K!Out : {kind, job[i].kind} \in mixed'
        /\ mixed \subseteq mixed' /\ Crossing'
<1>1. started' = started + 1 /\ started' \in K!Jobs
  BY DEF K!Start, K!TypeOK, K!Jobs
<1>2. job[started'] = K!Idle /\ started' \notin K!Out
  BY <1>1 DEF JobsFormed, K!TypeOK, K!Out, K!Idle
<1>3. /\ job'[started'] = [kind |-> kind, at |-> at, spec |-> spec, previous |-> previous]
      /\ \A i \in K!Jobs : i # started' => job'[i] = job[i]
  BY <1>1 DEF K!Start, K!TypeOK
<1>4. K!Out' = K!Out \cup {started'}
  BY <1>1, <1>3 DEF K!Out, K!Kinds, K!Jobs
<1>5. mixed' = mixed \cup {{kind, job[i].kind} : i \in K!Out}
  BY DEF K!Start
<1>6. \A i \in K!Out : {kind, job[i].kind} \in mixed'
  BY <1>5
<1>7. Crossing'
  <2> SUFFICES ASSUME NEW i \in K!Out', NEW k \in K!Out', i # k
               PROVE  {job'[i].kind, job'[k].kind} \in mixed'
    BY DEF Crossing
  <2>1. CASE i = started'
    BY <1>2, <1>3, <1>4, <1>6, <2>1 DEF K!Out
  <2>2. CASE k = started'
    <3>1. {job'[k].kind, job'[i].kind} \in mixed'
      BY <1>2, <1>3, <1>4, <1>6, <2>2 DEF K!Out
    <3>2. {job'[k].kind, job'[i].kind} = {job'[i].kind, job'[k].kind}
      OBVIOUS
    <3> QED BY <3>1, <3>2
  <2>3. CASE i # started' /\ k # started'
    BY <1>3, <1>4, <1>5, <2>3 DEF K!Out, Crossing
  <2> QED BY <2>1, <2>2, <2>3
<1> QED BY <1>1, <1>2, <1>3, <1>4, <1>5, <1>6, <1>7

\* Fewer jobs out cross no more than before.
LEMMA CrossingKept ==
  ASSUME Crossing, K!Out' \subseteq K!Out, \A i \in K!Out' : job'[i].kind = job[i].kind,
         mixed \subseteq mixed'
  PROVE  Crossing'
BY DEF Crossing

\* Jobs of which no two crossed in a way that leaves keyring and row apart.
LEMMA Mixed ==
  ASSUME K!TypeOK, Crossing, Together, NEW i \in K!Out, NEW j \in K!Out, i # j
  PROVE  /\ job[i].kind = "edit" => job[j].kind \notin {"edit", "delete", "signin"}
         /\ job[i].kind = "signin" => job[j].kind \notin {"edit", "delete", "forget"}
         /\ job[i].kind = "delete" => job[j].kind \notin {"edit", "signin"}
         /\ job[i].kind = "forget" => job[j].kind # "signin"
<1>1. {job[i].kind, job[j].kind} \in mixed /\ {job[i].kind, job[j].kind} \notin K!Apart
  BY DEF Crossing, Together
<1>2. ASSUME job[i].kind = "edit", job[j].kind = "edit" PROVE FALSE
  <2>1. {job[i].kind, job[j].kind} = {"edit"}
    BY <1>2
  <2> QED BY <1>1, <2>1 DEF K!Apart
<1>3. ASSUME {job[i].kind, job[j].kind} = {"edit", "delete"} PROVE FALSE
  BY <1>1, <1>3 DEF K!Apart
<1>4. ASSUME {job[i].kind, job[j].kind} = {"signin", "edit"} PROVE FALSE
  BY <1>1, <1>4 DEF K!Apart
<1>5. ASSUME {job[i].kind, job[j].kind} = {"signin", "delete"} PROVE FALSE
  BY <1>1, <1>5 DEF K!Apart
<1>6. ASSUME {job[i].kind, job[j].kind} = {"signin", "forget"} PROVE FALSE
  BY <1>1, <1>6 DEF K!Apart
<1>7. \A a, b : {a, b} = {b, a}
  OBVIOUS
<1> QED BY <1>2, <1>3, <1>4, <1>5, <1>6, <1>7

-----------------------------------------------------------------------------
(* What holds however jobs cross.                                          *)

\* A new job is formed like the others.
LEMMA FormedStart ==
  ASSUME MaxKeyringJobs \in Nat, Formed, NEW kind \in K!Kinds, NEW at \in PlacesOf(kind),
         NEW spec \in K!Auths, NEW previous \in Keys \cup {K!None},
         K!Start(kind, at, spec, previous),
         names' \subseteq Keys, names \subseteq names', spec.key \in names' \cup {K!None},
         kind = "import" => spec.auth = "bearer", kind = "signin" => spec.auth = "oauth",
         kind \in {"add", "import"} => started = 0 /\ record = K!Gone,
         kind \notin {"add", "import"} => record # K!Gone
  PROVE  Formed'
<1>1. /\ started' \in K!Jobs /\ started' = started + 1
      /\ job[started'] = K!Idle /\ started' \notin K!Out
      /\ job'[started'] = [kind |-> kind, at |-> at, spec |-> spec, previous |-> previous]
      /\ \A i \in K!Jobs : i # started' => job'[i] = job[i]
      /\ Crossing'
  BY JobStarts DEF Formed
<1>2. at \in JobPlaces
  BY DEF PlacesOf, K!Kinds, JobPlaces
<1>3. K!TypeOK'
  <2>1. mixed' \subseteq SUBSET (K!Kinds \cup {"crash"})
    BY DEF K!Start, Formed, K!TypeOK, K!Out
  <2>2. job' \in [K!Jobs -> Records]
    BY <1>2 DEF K!Start, Formed, K!TypeOK, Records, JobPlaces
  <2>3. started' \in 0..MaxKeyringJobs
    BY <1>1 DEF K!Jobs
  <2> QED BY <2>1, <2>2, <2>3 DEF K!Start, Formed, K!TypeOK, Records, JobPlaces
<1>4. JobsFormed'
  <2> SUFFICES ASSUME NEW j \in K!Jobs
               PROVE  /\ job'[j].at \in PlacesOf(job'[j].kind)
                      /\ job'[j].spec.key \in names' \cup {K!None}
                      /\ job'[j].kind = "import" => job'[j].spec.auth = "bearer"
                      /\ job'[j].kind = "signin" => job'[j].spec.auth = "oauth"
                      /\ j > started' => job'[j] = K!Idle
                      /\ job'[j].kind \in {"add", "import"} => started' = 1 /\ record' = K!Gone
    BY DEF JobsFormed
  <2>1. CASE j = started'
    BY <1>1, <2>1 DEF Formed, K!TypeOK, K!Start
  <2>2. CASE j # started'
    <3>1. job'[j] = job[j]
      BY <1>1, <2>2
    <3>2. job[j].kind \notin {"add", "import"}
      BY DEF Formed, JobsFormed, K!TypeOK, K!Jobs
    <3> QED BY <1>1, <2>2, <3>1, <3>2 DEF Formed, JobsFormed, K!TypeOK, K!Jobs, K!Idle
  <2> QED BY <2>1, <2>2
<1>5. Named' /\ (started' = 0 => row' = K!Gone /\ record' = K!Gone)
  BY <1>1 DEF K!Start, Formed, Named, K!TypeOK
<1> QED BY <1>1, <1>3, <1>4, <1>5 DEF Formed

\* A step of a job, to its next place or its end.
LEMMA FormedJob ==
  ASSUME Formed, NEW j \in K!Out,
         \/ mixed' = mixed /\ \E at \in PlacesOf(job[j].kind) : K!Goes(j, at)
         \/ mixed' \in {mixed, mixed \cup {{"crash"}}} /\ K!Ends(j)
         \/ mixed' = mixed /\ job' = job,
         UNCHANGED <<names, started>>, entries' \subseteq names,
         unkept' \subseteq Keys, emptied' \subseteq Keys,
         {row', record'} \subseteq K!Auths \cup {K!Gone},
         {row'.key, record'.key} \subseteq names \cup {K!None},
         record' = record \/ K!Ends(j)
  PROVE  Formed'
<1> USE DEF Formed
<1>1. j \in K!Jobs /\ started # 0
  BY DEF K!Out, JobsFormed, K!Idle, K!Jobs, K!TypeOK
<1>2. /\ \A i \in K!Jobs : i # j => job'[i] = job[i]
      /\ K!Out' \subseteq K!Out /\ \A i \in K!Out' : job'[i].kind = job[i].kind
      /\ mixed \subseteq mixed' /\ mixed' \subseteq SUBSET (K!Kinds \cup {"crash"})
      /\ \/ /\ job'[j].at \in PlacesOf(job[j].kind)
            /\ job'[j].kind = job[j].kind /\ job'[j].spec = job[j].spec
            /\ job'[j].previous = job[j].previous /\ record' = record
         \/ job'[j] = K!Idle
      /\ job' \in [K!Jobs -> Records]
  <2>1. ASSUME NEW at \in PlacesOf(job[j].kind), K!Goes(j, at), mixed' = mixed PROVE <1>2
    <3>1. at \in JobPlaces
      BY <1>1 DEF PlacesOf, K!Kinds, K!TypeOK, Records, JobPlaces
    <3>2. job' \in [K!Jobs -> Records]
      BY <1>1, <2>1, <3>1 DEF K!Goes, K!TypeOK, Records, JobPlaces
    <3>3. ~K!Ends(j)
      BY <1>1, <2>1 DEF K!Goes, K!Ends, K!Out, K!Idle, K!TypeOK
    <3>4. record' = record
      BY <3>3
    <3>5. /\ job'[j].kind = job[j].kind /\ K!Out' = K!Out
          /\ \A i \in K!Jobs : job'[i].kind = job[i].kind
      BY <1>1, <2>1, JobGoes
    <3>6. job'[j].at = at /\ job'[j].spec = job[j].spec /\ job'[j].previous = job[j].previous
      BY <1>1, <2>1, JobGoes
    <3>7. \A i \in K!Jobs : i # j => job'[i] = job[i]
      BY <1>1, <2>1, JobGoes
    <3>8. mixed' \subseteq SUBSET (K!Kinds \cup {"crash"})
      BY <2>1 DEF K!TypeOK
    <3> QED BY <2>1, <3>2, <3>4, <3>5, <3>6, <3>7, <3>8 DEF K!Out
  <2>2. CASE mixed' \in {mixed, mixed \cup {{"crash"}}} /\ K!Ends(j)
    <3>1. K!Idle \in Records
      BY DEF K!Idle, K!NoAuth, K!Auths, Records, JobPlaces
    <3>2. job' \in [K!Jobs -> Records]
      BY <1>1, <2>2, <3>1 DEF K!Ends, K!TypeOK, Records, JobPlaces
    <3>3. mixed' = mixed \/ mixed' = mixed \cup {{"crash"}}
      BY <2>2
    <3>4. \A i \in K!Out' : i # j
      BY <1>1, <2>2, JobEnds
    <3>5. \A i \in K!Out' : job'[i].kind = job[i].kind
      BY <1>1, <2>2, <3>4, JobEnds DEF K!Out
    <3> QED BY <1>1, <2>2, <3>2, <3>3, <3>5, JobEnds DEF K!TypeOK
  <2>3. CASE mixed' = mixed /\ job' = job
    <3>1. ~K!Ends(j)
      BY <1>1, <2>3 DEF K!Ends, K!Out, K!Idle, K!TypeOK
    <3> QED BY <1>1, <2>3, <3>1 DEF K!Out, K!TypeOK, JobsFormed, Records, JobPlaces
  <2> QED BY <2>1, <2>2, <2>3
<1>3. K!TypeOK'
  BY <1>2 DEF K!TypeOK, Records, JobPlaces
<1>4. JobsFormed'
  <2> SUFFICES ASSUME NEW i \in K!Jobs
               PROVE  /\ job'[i].at \in PlacesOf(job'[i].kind)
                      /\ job'[i].spec.key \in names' \cup {K!None}
                      /\ job'[i].kind = "import" => job'[i].spec.auth = "bearer"
                      /\ job'[i].kind = "signin" => job'[i].spec.auth = "oauth"
                      /\ i > started' => job'[i] = K!Idle
                      /\ job'[i].kind \in {"add", "import"} => started' = 1 /\ record' = K!Gone
    BY DEF JobsFormed
  <2>1. CASE job'[i] = K!Idle
    BY <2>1 DEF K!Idle, K!NoAuth, PlacesOf
  <2>2. CASE i = j /\ job'[i] # K!Idle
    <3>1. /\ job'[j].at \in PlacesOf(job[j].kind)
          /\ job'[j].kind = job[j].kind /\ job'[j].spec = job[j].spec /\ record' = record
      BY <1>2, <2>2
    <3>2. ~(j > started)
      BY <1>1 DEF JobsFormed, K!Out, K!Idle
    <3> QED BY <1>1, <2>2, <3>1, <3>2 DEF JobsFormed
  <2>3. CASE i # j
    <3>1. job'[i] = job[i]
      BY <1>2, <2>3
    <3>2. job[i].kind \in {"add", "import"} => started = 1 /\ i = j
      BY <1>1, <2>3 DEF JobsFormed, K!Out, K!Idle, K!Jobs
    <3> QED BY <2>3, <3>1, <3>2 DEF JobsFormed
  <2> QED BY <2>1, <2>2, <2>3
<1>5. Named' /\ (started' = 0 => row' = K!Gone /\ record' = K!Gone)
  BY <1>1 DEF Named
<1>6. Crossing'
  BY <1>2, CrossingKept
<1> QED BY <1>3, <1>4, <1>5, <1>6

\* No step forms a job otherwise, whatever it crosses.
LEMMA FormedStep ==
  ASSUME MaxKeyringJobs \in Nat, K!None \notin Keys, Formed, [K!Next]_K!vars PROVE Formed'
<1> USE DEF Formed
<1>1. ASSUME NEW spec \in K!Auths, K!Add(spec) \/ K!Edit(spec) PROVE Formed'
  <2>1. /\ names' \subseteq Keys /\ names \subseteq names'
        /\ spec.key \in names' \cup {K!None}
    <3>1. K!Fields(spec)
      BY <1>1 DEF K!Add, K!Edit
    <3> QED BY <3>1 DEF K!Fields, K!Auths, K!TypeOK, Named, K!Gone
  <2>2. /\ "row" \in PlacesOf("add") /\ "token" \in PlacesOf("import")
        /\ "row" \in PlacesOf("edit")
    BY DEF PlacesOf
  <2>3. record.key \in Keys \cup {K!None}
    BY DEF K!TypeOK, Named
  <2>4. CASE K!Add(spec) /\ K!Start("add", "row", spec, K!None)
    BY <2>1, <2>2, <2>4, FormedStart DEF K!Add, K!Kinds
  <2>5. CASE K!Add(spec) /\ K!Start("import", "token", spec, K!None) /\ spec.auth = "bearer"
    BY <2>1, <2>2, <2>5, FormedStart DEF K!Add, K!Kinds
  <2>6. CASE K!Edit(spec)
    BY <2>1, <2>2, <2>3, <2>6, FormedStart DEF K!Edit, K!Kinds
  <2> QED BY <1>1, <2>4, <2>5, <2>6 DEF K!Add
<1>2. ASSUME K!Delete \/ K!Forget \/ K!SignIn PROVE Formed'
  <2>1. /\ "row" \in PlacesOf("delete") /\ "secret" \in PlacesOf("forget")
        /\ "token" \in PlacesOf("signin")
    BY DEF PlacesOf
  <2>2. /\ record.key \in Keys \cup {K!None}
        /\ record.key \in names \cup {K!None} /\ names \subseteq Keys
    BY DEF K!TypeOK, Named
  <2>3. K!NoAuth \in K!Auths /\ K!NoAuth.key = K!None
    BY DEF K!NoAuth, K!Auths
  <2>4. CASE K!Delete
    BY <2>1, <2>2, <2>3, <2>4, FormedStart DEF K!Delete, K!Kinds
  <2>5. CASE K!Forget
    <3>1. record # K!Gone
      BY <2>5 DEF K!Forget, K!Gone
    <3> QED BY <2>1, <2>2, <2>3, <2>5, <3>1, FormedStart DEF K!Forget, K!Kinds
  <2>6. CASE K!SignIn
    <3>1. record # K!Gone /\ record \in K!Auths
      BY <2>6 DEF K!SignIn, K!Gone, K!TypeOK
    <3> QED BY <2>1, <2>2, <2>6, <3>1, FormedStart DEF K!SignIn, K!Kinds
  <2> QED BY <1>2, <2>4, <2>5, <2>6
<1>3. ASSUME NEW j \in K!Jobs, K!Row(j) PROVE Formed'
  <2>1. j \in K!Out /\ job[j].spec \in K!Auths /\ job[j].spec.key \in names \cup {K!None}
    BY <1>3 DEF K!Row, K!Out, K!TypeOK, JobsFormed, PlacesOf
  <2>2. K!Ends(j) \/ \E at \in PlacesOf(job[j].kind) : K!Goes(j, at)
    BY <1>3, <2>1 DEF K!Row, PlacesOf, JobsFormed, K!TypeOK, K!Kinds
  <2>3. /\ {row', record'} \subseteq K!Auths \cup {K!Gone}
        /\ {row'.key, record'.key} \subseteq names \cup {K!None}
    BY <1>3, <2>1 DEF K!Row, K!TypeOK, Named, K!Gone
  <2> QED BY <1>3, <2>1, <2>2, <2>3, FormedJob DEF K!Row, K!TypeOK
<1>4. ASSUME NEW j \in K!Jobs, K!Token(j) PROVE Formed'
  <2>1. j \in K!Out /\ job[j].spec \in K!Auths /\ job[j].spec.key \in names \cup {K!None}
    BY <1>4 DEF K!Token, K!Out, K!TypeOK, JobsFormed, PlacesOf
  <2>2. K!Ends(j) \/ \E at \in PlacesOf(job[j].kind) : K!Goes(j, at)
    BY <1>4, <2>1 DEF K!Token, PlacesOf, JobsFormed, K!TypeOK, K!Kinds
  <2>3. entries' \subseteq names /\ unkept' \subseteq Keys /\ emptied' \subseteq Keys
    <3>1. job[j].spec.auth = "bearer" => job[j].spec.key \in names
      BY <2>1 DEF K!Auths
    <3> QED BY <1>4, <3>1 DEF K!Token, K!Put, K!TypeOK
  <2> QED BY <1>4, <2>1, <2>2, <2>3, FormedJob DEF K!Token, K!TypeOK, Named
<1>5. ASSUME NEW j \in K!Jobs, K!OldToken(j) PROVE Formed'
  <2>1. j \in K!Out /\ "back" \in PlacesOf(job[j].kind)
    BY <1>5 DEF K!OldToken, K!Out, K!TypeOK, JobsFormed, PlacesOf, K!Kinds
  <2>2. K!Unused(j) \subseteq Keys
    BY DEF K!Unused, K!TypeOK
  <2> QED BY <1>5, <2>1, <2>2, FormedJob DEF K!OldToken, K!Take, K!TypeOK, Named
<1>6. ASSUME NEW j \in K!Jobs, K!Secret(j) PROVE Formed'
  <2>1. j \in K!Out /\ "back" \in PlacesOf(job[j].kind)
    BY <1>6 DEF K!Secret, K!Out, K!TypeOK, JobsFormed, PlacesOf, K!Kinds
  <2>2. {job[j].previous} \ {K!None} \subseteq Keys
    BY DEF K!TypeOK
  <2> QED BY <1>6, <2>1, <2>2, FormedJob DEF K!Secret, K!Take, K!TypeOK, Named
<1>7. ASSUME NEW j \in K!Jobs, K!RowsRefused(j) PROVE Formed'
  <2>1. j \in K!Out /\ "undo" \in PlacesOf(job[j].kind)
    BY <1>7 DEF K!RowsRefused, K!Out, K!TypeOK, PlacesOf, K!Kinds
  <2> QED BY <1>7, <2>1, FormedJob DEF K!RowsRefused, K!TypeOK, Named
<1>8. ASSUME NEW j \in K!Jobs, K!Undo(j) PROVE Formed'
  <2>1. j \in K!Out /\ job[j].kind = "import"
    BY <1>8 DEF K!Undo, K!Out, K!TypeOK, JobsFormed, PlacesOf, K!Kinds
  <2>2. job[j].spec.key \in Keys
    BY <2>1 DEF K!TypeOK, JobsFormed, K!Auths
  <2> QED BY <1>8, <2>1, <2>2, FormedJob DEF K!Undo, K!Take, K!TypeOK, Named
<1>9. ASSUME NEW j \in K!Jobs, K!Killed(j) PROVE Formed'
  <2>1. j \in K!Out
    BY <1>9 DEF K!Killed, K!Out
  <2> QED BY <1>9, <2>1, FormedJob DEF K!Killed, K!TypeOK, Named
<1>10. ASSUME NEW j \in K!Jobs, K!Back(j) PROVE Formed'
  <2>1. j \in K!Out
    BY <1>10 DEF K!Back, K!Out, JobsFormed, PlacesOf
  <2>2. record' \in {K!Gone, record, job[j].spec}
    BY <1>10 DEF K!Back
  <2>3. record' \in K!Auths \cup {K!Gone} /\ record'.key \in names \cup {K!None}
    BY <2>1, <2>2 DEF K!TypeOK, Named, JobsFormed, K!Gone
  <2> QED BY <1>10, <2>1, <2>3, FormedJob DEF K!Back, K!TypeOK, Named
<1>11. ASSUME NEW j \in K!Jobs, K!Saves(j) PROVE Formed'
  <2>1. j \in K!Out /\ job[j].spec.key \in names
    BY <1>11 DEF K!Saves, K!Out, JobsFormed, K!TypeOK, K!Auths
  <2> QED BY <1>11, <2>1, FormedJob DEF K!Saves, K!Put, K!TypeOK, Named
<1>12. ASSUME NEW j \in K!Jobs, K!Closes(j) PROVE Formed'
  <2>1. j \in K!Out
    BY <1>12 DEF K!Closes, K!Out
  <2> QED BY <1>12, <2>1, FormedJob DEF K!Closes, K!TypeOK, Named
<1>13. CASE UNCHANGED K!vars
  BY <1>13 DEF K!vars, K!TypeOK, JobsFormed, Named, Crossing, K!Out
<1> QED
  BY <1>1, <1>2, <1>3, <1>4, <1>5, <1>6, <1>7, <1>8, <1>9, <1>10, <1>11, <1>12, <1>13
     DEF K!Next

-----------------------------------------------------------------------------
(* What holds unless they crossed in a way of Apart.                       *)

\* A first save is alone.
LEMMA FirstAlone ==
  ASSUME Formed, NEW i \in K!Out, job[i].kind \in {"add", "import"}
  PROVE  K!Out = {i} /\ record = K!Gone
BY DEF Formed, JobsFormed, K!TypeOK, K!Out, K!Jobs, K!Idle

\* Nothing is out before the first save.
LEMMA NoneOut ==
  ASSUME Formed, started = 0 PROVE K!Out = {}
BY DEF Formed, JobsFormed, K!TypeOK, K!Out, K!Jobs, K!Idle

\* The first save: nothing is in the keyring that no notice told of.
LEMMA SettledAdd ==
  ASSUME MaxKeyringJobs \in Nat, Formed, Settled, NEW spec \in K!Auths, K!Add(spec)
  PROVE  Settled'
<1> USE DEF Formed
<1>1. /\ row = K!Gone /\ record = K!Gone /\ K!Out = {}
      /\ UNCHANGED <<row, record, entries, unkept, emptied>>
  BY NoneOut DEF K!Add, K!Start
<1>2. entries \subseteq unkept \cup {K!None}
  BY <1>1 DEF Settled, EntriesNamed, K!Gone
<1>3. ASSUME NEW kind \in {"add", "import"}, NEW at,
             at = IF kind = "add" THEN "row" ELSE "token",
             K!Start(kind, at, spec, K!None)
      PROVE  Settled'
  <2>1. /\ K!Out' = {started'} /\ started' \in K!Jobs
        /\ job'[started'] = [kind |-> kind, at |-> at, spec |-> spec, previous |-> K!None]
    BY <1>1, <1>3, JobStarts DEF K!Kinds
  <2> QED BY <1>1, <1>2, <1>3, <2>1
          DEF Settled, JobInv, Writers, EntriesNamed, TokenKept, K!Gone
<1> QED BY <1>3 DEF K!Add

\* An edit that crosses no edit, delete or sign-in finds row and record alike.
LEMMA SettledEdit ==
  ASSUME MaxKeyringJobs \in Nat, Formed, Settled, Together', NEW spec \in K!Auths, K!Edit(spec)
  PROVE  Settled'
<1> USE DEF Formed
<1>1. /\ record # K!Gone /\ K!Start("edit", "row", spec, record.key)
      /\ UNCHANGED <<row, record, entries, unkept, emptied>>
  BY DEF K!Edit, K!Start
<1>2. /\ started' \in K!Jobs /\ started' \notin K!Out /\ K!Out' = K!Out \cup {started'}
      /\ job'[started'] = [kind |-> "edit", at |-> "row", spec |-> spec,
                            previous |-> record.key]
      /\ \A i \in K!Jobs : i # started' => job'[i] = job[i]
      /\ \A i \in K!Out : {"edit", job[i].kind} \in mixed'
  BY <1>1, JobStarts DEF K!Kinds
<1>3. \A i \in K!Out : job[i].kind \notin {"edit", "delete", "signin", "add", "import"}
  <2> SUFFICES ASSUME NEW i \in K!Out
               PROVE  job[i].kind \notin {"edit", "delete", "signin", "add", "import"}
    OBVIOUS
  <2>1. job[i].kind \notin {"add", "import"}
    BY <1>1, FirstAlone
  <2>2. {"edit", job[i].kind} \notin K!Apart
    BY <1>2 DEF Together
  <2>3. {"edit", "edit"} = {"edit"} /\ {"edit", "signin"} = {"signin", "edit"}
    OBVIOUS
  <2> QED BY <2>1, <2>2, <2>3 DEF K!Apart
<1>4. row = record
  BY <1>3 DEF Settled, Writers
<1>5. \A i \in K!Out : job'[i] = job[i]
  BY <1>2 DEF K!Out
<1>6. \A i \in K!Out' : JobInv(i)'
  BY <1>1, <1>2, <1>3, <1>4, <1>5 DEF Settled, JobInv
<1>7. EntriesNamed'
  BY <1>1, <1>2, <1>5 DEF Settled, EntriesNamed, Owed
<1>8. TokenKept'
  BY <1>1, <1>2, <1>5 DEF Settled, TokenKept
<1> QED BY <1>1, <1>4, <1>6, <1>7, <1>8 DEF Settled

\* Deletes, forgets and sign-ins, each with what it was told.
LEMMA SettledAsked ==
  ASSUME MaxKeyringJobs \in Nat, Formed, Settled, Together', K!Delete \/ K!Forget \/ K!SignIn
  PROVE  Settled'
<1> USE DEF Formed
<1>1. PICK kind \in {"delete", "forget", "signin"}, at \in {"row", "secret", "token"},
           spec \in {K!NoAuth, record}, previous \in {record.key, K!None} :
        /\ record # K!Gone /\ K!Start(kind, at, spec, previous)
        /\ kind = "delete" => at = "row" /\ previous = record.key
        /\ kind = "signin" => spec = record
  BY DEF K!Delete, K!Forget, K!SignIn, K!Gone
<1>2. /\ started' \in K!Jobs /\ started' \notin K!Out /\ K!Out' = K!Out \cup {started'}
      /\ job'[started'] = [kind |-> kind, at |-> at, spec |-> spec, previous |-> previous]
      /\ \A i \in K!Jobs : i # started' => job'[i] = job[i]
      /\ \A i \in K!Out : {kind, job[i].kind} \in mixed'
  BY <1>1, JobStarts DEF K!Kinds
<1>3. UNCHANGED <<row, record, entries, unkept, emptied>>
  BY <1>1 DEF K!Start
<1>4. \A i \in K!Out : job'[i] = job[i] /\ job[i].kind \notin {"add", "import"}
  BY <1>1, <1>2, FirstAlone DEF K!Out
<1>5. \A i \in K!Out : /\ kind \in {"delete", "signin"} => job[i].kind # "edit"
                       /\ kind = "signin" => job[i].kind # "delete"
  <2> SUFFICES ASSUME NEW i \in K!Out
               PROVE  /\ kind \in {"delete", "signin"} => job[i].kind # "edit"
                      /\ kind = "signin" => job[i].kind # "delete"
    OBVIOUS
  <2>1. {kind, job[i].kind} \notin K!Apart
    BY <1>2 DEF Together
  <2>2. {"delete", "edit"} = {"edit", "delete"}
    OBVIOUS
  <2> QED BY <2>1, <2>2 DEF K!Apart
<1>6. CASE kind = "delete"
  <2>1. row = K!Gone \/ row = record
    <3>1. ASSUME NEW i \in Writers PROVE row = K!Gone \/ row = record
      <4>1. i \in K!Out /\ job[i].kind = "delete"
        BY <1>4, <1>5, <1>6 DEF Writers
      <4> QED BY <4>1 DEF Settled, JobInv
    <3> QED BY <3>1 DEF Settled
  <2>2. \A i \in K!Out' : JobInv(i)'
    BY <1>1, <1>2, <1>3, <1>4, <1>6, <2>1 DEF Settled, JobInv
  <2>3. Writers' # {}
    BY <1>2, <1>6 DEF Writers
  <2>4. EntriesNamed' /\ TokenKept'
    BY <1>2, <1>3, <1>4 DEF Settled, EntriesNamed, TokenKept, Owed
  <2> QED BY <2>2, <2>3, <2>4 DEF Settled
<1>7. CASE kind # "delete"
  <2>1. kind = "signin" => row = record
    <3>1. ASSUME kind = "signin", NEW i \in Writers PROVE FALSE
      BY <1>4, <1>5, <3>1 DEF Writers
    <3> QED BY <3>1 DEF Settled
  <2>2. \A i \in K!Out' : JobInv(i)'
    BY <1>1, <1>2, <1>3, <1>4, <1>7, <2>1 DEF Settled, JobInv
  <2>3. Writers' = Writers
    BY <1>1, <1>2, <1>4, <1>7 DEF Writers
  <2>4. EntriesNamed' /\ TokenKept'
    BY <1>2, <1>3, <1>4 DEF Settled, EntriesNamed, TokenKept, Owed
  <2> QED BY <1>3, <2>2, <2>3, <2>4 DEF Settled
<1> QED BY <1>6, <1>7

\* Beside an edit there are forgets alone, beside a delete forgets and deletes,
\* beside a sign-in sign-ins.
LEMMA Others ==
  ASSUME Formed, Together, NEW j \in K!Out, NEW i \in K!Out, i # j
  PROVE  /\ job[i].kind \notin {"add", "import"} /\ job[j].kind \notin {"add", "import"}
         /\ job[j].kind = "edit" => job[i].kind = "forget"
         /\ job[j].kind = "delete" => job[i].kind \in {"forget", "delete"}
         /\ job[j].kind = "signin" => job[i].kind = "signin"
<1> USE DEF Formed
<1>1. job[i].kind \notin {"add", "import"} /\ job[j].kind \notin {"add", "import"}
  BY FirstAlone
<1>2. job[i].kind \in K!Kinds
  BY DEF K!Out, K!TypeOK
<1>3. /\ job[j].kind = "edit" => job[i].kind \notin {"edit", "delete", "signin"}
      /\ job[j].kind = "delete" => job[i].kind \notin {"edit", "signin"}
      /\ job[j].kind = "signin" => job[i].kind \notin {"edit", "delete", "forget"}
  BY Mixed
<1> QED BY <1>1, <1>2, <1>3 DEF K!Kinds

\* A row written or deleted: what its old entry is owed is now the job's.
LEMMA SettledRow ==
  ASSUME K!None \notin Keys, Formed, Settled, Together, NEW j \in K!Jobs, K!Row(j)
  PROVE  Settled'
<1> USE DEF Formed
<1>1. j \in K!Out /\ JobInv(j) /\ job[j].at = "row"
  BY DEF K!Row, Settled, K!Out, JobsFormed, PlacesOf
<1>2. job[j].kind \in {"add", "import", "edit", "delete"}
  BY <1>1 DEF JobsFormed, PlacesOf, K!Out, K!TypeOK, K!Kinds
<1>3. UNCHANGED <<record, entries, unkept, emptied>>
  BY DEF K!Row
<1>4. CASE job[j].kind \in {"add", "import"}
  <2>1. PICK at : K!Goes(j, at) /\ at = IF job[j].kind = "import" THEN "back" ELSE "token"
    BY <1>1, <1>4 DEF K!Row
  <2>2. /\ job'[j].kind = job[j].kind /\ job'[j].at = at /\ job'[j].spec = job[j].spec
        /\ K!Out' = K!Out /\ K!Out = {j}
    BY <1>1, <1>4, <2>1, JobGoes, FirstAlone
  <2>3. row' = job[j].spec
    BY <1>1, <1>4 DEF K!Row
  <2>4. JobInv(j)'
    BY <1>4, <2>1, <2>2, <2>3 DEF JobInv
  <2>5. Writers' # {}
    BY <1>4, <2>2 DEF Writers
  <2>6. row.key = K!None
    BY <1>1, <1>4 DEF JobInv, K!Gone
  <2>7. EntriesNamed'
    <3> SUFFICES ASSUME NEW k \in entries, k \notin unkept PROVE k = row'.key
      BY <1>3 DEF EntriesNamed
    <3>1. k = K!None \/ Owed(j, k)
      BY <2>2, <2>6 DEF Settled, EntriesNamed
    <3>2. k # K!None
      BY DEF K!TypeOK
    <3> QED BY <1>4, <2>3, <3>1, <3>2 DEF Owed
  <2>8. TokenKept'
    BY <1>1, <1>3, <1>4, <2>1, <2>2, <2>3 DEF JobInv, TokenKept
  <2> QED BY <2>2, <2>4, <2>5, <2>7, <2>8 DEF Settled
<1>5. CASE job[j].kind = "edit"
  <2>1. row = record /\ record # K!Gone /\ job[j].previous = record.key
    BY <1>1, <1>5 DEF JobInv
  <2>2. K!Goes(j, "token") /\ row' = job[j].spec
    BY <1>5, <2>1 DEF K!Row
  <2>3. /\ job'[j].kind = "edit" /\ job'[j].at = "token" /\ job'[j].spec = job[j].spec
        /\ job'[j].previous = job[j].previous /\ K!Out' = K!Out
        /\ \A i \in K!Out : i # j => job'[i] = job[i] /\ job[i].kind = "forget"
    BY <1>1, <1>5, <2>2, JobGoes, Others DEF K!Out
  <2>4. \A i \in K!Out' : JobInv(i)'
    BY <1>3, <2>1, <2>2, <2>3 DEF JobInv
  <2>5. Writers' # {}
    BY <1>1, <2>3 DEF Writers
  <2>6. EntriesNamed'
    <3> SUFFICES ASSUME NEW k \in entries, k \notin unkept PROVE \E i \in K!Out' : Owed(i, k)'
      BY <1>3 DEF EntriesNamed
    <3>1. k = row.key \/ \E i \in K!Out : Owed(i, k)
      BY DEF Settled, EntriesNamed
    <3>2. \A i \in K!Out : ~Owed(i, k)
      BY <1>1, <1>5, <2>3 DEF Owed
    <3>3. Owed(j, k)'
      BY <2>1, <2>3, <3>1, <3>2 DEF Owed
    <3> QED BY <1>1, <2>3, <3>3
  <2>7. TokenKept'
    BY <1>1, <2>3 DEF TokenKept
  <2> QED BY <2>4, <2>5, <2>6, <2>7 DEF Settled
<1>6. CASE job[j].kind = "delete"
  <2>1. K!Goes(j, "secret") /\ row' = K!Gone
    BY <1>6 DEF K!Row
  <2>2. /\ job'[j].kind = "delete" /\ job'[j].at = "secret"
        /\ job'[j].previous = job[j].previous /\ K!Out' = K!Out
        /\ \A i \in K!Out : i # j => job'[i] = job[i] /\ job[i].kind \in {"forget", "delete"}
    BY <1>1, <1>6, <2>1, JobGoes, Others DEF K!Out
  <2>3. \A i \in K!Out' : JobInv(i)'
    BY <2>1, <2>2 DEF JobInv
  <2>4. Writers' # {}
    BY <1>1, <2>2 DEF Writers
  <2>5. EntriesNamed'
    <3> SUFFICES ASSUME NEW k \in entries, k \notin unkept PROVE \E i \in K!Out' : Owed(i, k)'
      BY <1>3 DEF EntriesNamed
    <3>1. k = row.key \/ \E i \in K!Out : Owed(i, k)
      BY DEF Settled, EntriesNamed
    <3>2. k # K!None
      BY DEF K!TypeOK
    <3>3. CASE k = row.key
      <4>1. k = job[j].previous
        BY <1>1, <1>6, <3>2, <3>3 DEF JobInv, K!Gone
      <4> QED BY <1>1, <2>2, <4>1 DEF Owed
    <3>4. ASSUME NEW i \in K!Out, Owed(i, k) PROVE i # j /\ Owed(i, k)'
      BY <1>1, <1>6, <2>2, <3>4 DEF Owed
    <3> QED BY <2>2, <3>1, <3>3, <3>4
  <2>6. TokenKept'
    BY <2>1 DEF TokenKept, K!Gone
  <2> QED BY <2>3, <2>4, <2>5, <2>6 DEF Settled
<1> QED BY <1>2, <1>4, <1>5, <1>6

\* A write of the keyring, done or refused.
LEMMA Written ==
  ASSUME NEW k, K!Put(k)
  PROVE  /\ entries \subseteq entries' /\ entries' \subseteq entries \cup {k}
         /\ unkept \ {k} \subseteq unkept' /\ emptied \ {k} \subseteq emptied'
         /\ k \in entries' \cup unkept'
         /\ k \in unkept' => entries' = entries /\ unkept \subseteq unkept'
         /\ k \notin unkept' => k \in entries'
BY DEF K!Put

\* A removal, done or refused.
LEMMA Removed ==
  ASSUME NEW S, K!Take(S)
  PROVE  /\ entries' \subseteq entries /\ unkept \subseteq unkept'
         /\ entries \ S \subseteq entries'
         /\ \A k \in S : k \in entries' => k \in unkept'
BY DEF K!Take

\* A token written: it is the row's, or an import's whose row comes next.
LEMMA SettledToken ==
  ASSUME K!None \notin Keys, Formed, Settled, Together, NEW j \in K!Jobs, K!Token(j)
  PROVE  Settled'
<1> USE DEF Formed
<1>1. j \in K!Out /\ JobInv(j) /\ job[j].at = "token" /\ UNCHANGED <<row, record>>
  BY DEF K!Token, Settled, K!Out, JobsFormed, PlacesOf
<1>2. job[j].kind \in {"add", "import", "edit"}
  BY <1>1 DEF JobsFormed, PlacesOf, K!Out, K!TypeOK, K!Kinds, K!Token
<1>3. CASE job[j].kind = "import"
  <2>1. K!Put(job[j].spec.key) /\ K!Out = {j} /\ record = K!Gone /\ row = K!Gone
    BY <1>1, <1>3, FirstAlone DEF K!Token, JobsFormed, JobInv
  <2>2. entries \subseteq unkept
    <3>1. \A k \in entries : k # row.key /\ ~Owed(j, k)
      BY <1>1, <1>3, <2>1 DEF Owed, K!TypeOK, K!Gone
    <3> QED BY <2>1, <3>1 DEF Settled, EntriesNamed
  <2>3. CASE job[j].spec.key \in unkept'
    <3>1. K!Ends(j) /\ K!Out' = {}
      BY <1>3, <2>1, <2>3, JobEnds DEF K!Token
    <3>2. entries' \subseteq unkept'
      BY <2>1, <2>2, <2>3, Written
    <3> QED BY <1>1, <2>1, <3>1, <3>2 DEF Settled, EntriesNamed, TokenKept, K!Gone
  <2>4. CASE job[j].spec.key \notin unkept'
    <3>1. K!Goes(j, "row") /\ K!Out' = {j} /\ job'[j].kind = "import" /\ job'[j].at = "row"
          /\ job'[j].spec = job[j].spec
      BY <1>3, <2>1, <2>4, JobGoes DEF K!Token
    <3>2. JobInv(j)'
      BY <1>1, <2>1, <2>4, <3>1, Written DEF JobInv
    <3>3. EntriesNamed'
      <4> SUFFICES ASSUME NEW k \in entries', k \notin unkept' PROVE Owed(j, k)'
        BY <3>1 DEF EntriesNamed
      <4>1. k = job[j].spec.key
        BY <2>1, <2>2, <2>4, Written
      <4> QED BY <3>1, <4>1 DEF Owed
    <3> QED BY <1>1, <2>1, <3>1, <3>2, <3>3 DEF Settled, TokenKept, Writers, K!Gone
  <2> QED BY <2>3, <2>4
<1>4. CASE job[j].kind \in {"add", "edit"}
  <2>1. K!Goes(j, "old") /\ row = job[j].spec
    BY <1>1, <1>4 DEF K!Token, JobInv
  <2>2. /\ job'[j].kind = job[j].kind /\ job'[j].at = "old" /\ job'[j].spec = job[j].spec
        /\ job'[j].previous = job[j].previous /\ K!Out' = K!Out
        /\ \A i \in K!Out : i # j => job'[i] = job[i]
    BY <2>1, JobGoes DEF K!Out
  <2>3. \A i \in K!Out : i # j => job[i].kind = "forget"
    BY <1>1, <1>4, FirstAlone, Others
  <2>4. \A i \in K!Out' : JobInv(i)'
    BY <1>1, <1>4, <2>2, <2>3 DEF JobInv
  <2>5. Writers' # {}
    BY <1>1, <1>4, <2>2 DEF Writers
  <2>6. /\ \A k \in entries' : k \in entries \/ k = row.key
        /\ unkept \subseteq unkept' \cup {row.key}
    BY <2>1, Written DEF K!Token
  <2>7. EntriesNamed'
    <3> SUFFICES ASSUME NEW k \in entries', k \notin unkept', k # row'.key
                 PROVE  \E i \in K!Out' : Owed(i, k)'
      BY DEF EntriesNamed
    <3>1. PICK i \in K!Out : Owed(i, k)
      BY <1>1, <2>6 DEF Settled, EntriesNamed
    <3>2. Owed(i, k)'
      BY <1>1, <2>2, <3>1 DEF Owed
    <3> QED BY <2>2, <3>1, <3>2
  <2>8. TokenKept'
    BY <1>1, <1>4, <2>1, Written DEF TokenKept, K!Token
  <2> QED BY <2>4, <2>5, <2>7, <2>8 DEF Settled
<1> QED BY <1>2, <1>3, <1>4

\* The previous entry of an edit goes, unless it is the one the row names.
LEMMA SettledOldToken ==
  ASSUME K!None \notin Keys, Formed, Settled, Together, NEW j \in K!Jobs, K!OldToken(j)
  PROVE  Settled'
<1> USE DEF Formed
<1>1. /\ j \in K!Out /\ JobInv(j) /\ job[j].at = "old"
      /\ K!Goes(j, "back") /\ K!Take(K!Unused(j))
      /\ UNCHANGED <<row, record, emptied>>
  BY DEF K!OldToken, Settled, K!Out, JobsFormed, PlacesOf
<1>2. job[j].kind \in {"add", "edit"}
  BY <1>1 DEF JobsFormed, PlacesOf, K!Out, K!TypeOK, K!Kinds
<1>3. /\ job'[j].kind = job[j].kind /\ job'[j].at = "back" /\ job'[j].spec = job[j].spec
      /\ job'[j].previous = job[j].previous /\ K!Out' = K!Out
      /\ \A i \in K!Out : i # j => job'[i] = job[i]
  BY <1>1, JobGoes DEF K!Out
<1>4. \A i \in K!Out : i # j => job[i].kind = "forget"
  BY <1>1, <1>2, FirstAlone, Others
<1>5. row = job[j].spec
  BY <1>1, <1>2 DEF JobInv
<1>6. \A i \in K!Out' : JobInv(i)'
  BY <1>1, <1>2, <1>3, <1>4 DEF JobInv
<1>7. Writers' # {}
  BY <1>1, <1>2, <1>3 DEF Writers
<1>8. /\ entries' \subseteq entries /\ unkept \subseteq unkept'
      /\ entries \ K!Unused(j) \subseteq entries'
      /\ \A k \in K!Unused(j) : k \in entries' => k \in unkept'
  BY <1>1, Removed
<1>9. EntriesNamed'
  <2> SUFFICES ASSUME NEW k \in entries', k \notin unkept', k # row'.key PROVE FALSE
    BY DEF EntriesNamed
  <2>1. PICK i \in K!Out : Owed(i, k)
    BY <1>1, <1>8 DEF Settled, EntriesNamed
  <2>2. k = job[j].previous
    BY <1>2, <1>4, <2>1 DEF Owed
  <2>3. k # K!None /\ k # job[j].spec.key
    BY <1>1, <1>5, <1>8 DEF K!TypeOK
  <2> QED BY <1>8, <2>2, <2>3 DEF K!Unused
<1>10. TokenKept'
  <2>1. row.key \notin K!Unused(j)
    BY <1>5 DEF K!Unused
  <2> QED BY <1>1, <1>2, <1>3, <1>4, <1>8, <2>1 DEF Settled, TokenKept
<1> QED BY <1>6, <1>7, <1>9, <1>10 DEF Settled

\* The entry of a delete or of a forget goes.
LEMMA SettledSecret ==
  ASSUME K!None \notin Keys, Formed, Settled, Together, NEW j \in K!Jobs, K!Secret(j)
  PROVE  Settled'
<1> USE DEF Formed
<1> DEFINE S == {job[j].previous} \ {K!None}
<1>1. /\ j \in K!Out /\ JobInv(j) /\ job[j].at = "secret" /\ K!Goes(j, "back") /\ K!Take(S)
      /\ UNCHANGED <<row, record>> /\ emptied' = emptied \cup S
  BY DEF K!Secret, Settled, K!Out, JobsFormed, PlacesOf
<1>2. job[j].kind \in {"delete", "forget"}
  BY <1>1 DEF JobsFormed, PlacesOf, K!Out, K!TypeOK, K!Kinds
<1>3. /\ job'[j].kind = job[j].kind /\ job'[j].at = "back" /\ K!Out' = K!Out
      /\ \A i \in K!Out : i # j => job'[i] = job[i]
  BY <1>1, JobGoes DEF K!Out
<1>4. \A i \in K!Out : job[i].kind # "import"
  BY <1>1, <1>2, FirstAlone
<1>5. \A i \in K!Out' : JobInv(i)'
  BY <1>1, <1>2, <1>3, <1>4 DEF Settled, JobInv
<1>6. Writers' = Writers
  BY <1>3 DEF Writers
<1>7. entries' \subseteq entries /\ unkept \subseteq unkept' /\ entries \ S \subseteq entries'
      /\ \A k \in S : k \in entries' => k \in unkept'
  BY <1>1, Removed
<1>8. EntriesNamed'
  <2> SUFFICES ASSUME NEW k \in entries', k \notin unkept', k # row'.key
               PROVE  \E i \in K!Out' : Owed(i, k)'
    BY DEF EntriesNamed
  <2>1. PICK i \in K!Out : Owed(i, k)
    BY <1>1, <1>7 DEF Settled, EntriesNamed
  <2>2. i # j
    BY <1>1, <1>2, <1>7, <2>1 DEF Owed, K!TypeOK
  <2> QED BY <1>3, <2>1, <2>2 DEF Owed
<1>9. TokenKept'
  BY <1>1, <1>2, <1>3, <1>7 DEF Settled, TokenKept
<1> QED BY <1>1, <1>5, <1>6, <1>8, <1>9 DEF Settled

\* An import whose rows are refused takes its secret back.
LEMMA SettledImport ==
  ASSUME Formed, Settled, Together, NEW j \in K!Jobs, K!RowsRefused(j) \/ K!Undo(j)
  PROVE  Settled'
<1> USE DEF Formed
<1>1. /\ j \in K!Out /\ JobInv(j) /\ job[j].kind = "import" /\ K!Out = {j}
      /\ UNCHANGED <<row, record>> /\ row = K!Gone /\ record = K!Gone
  <2>1. j \in K!Out /\ job[j].kind = "import" /\ job[j].at \in {"row", "undo"}
    BY DEF K!RowsRefused, K!Undo, K!Out, JobsFormed, PlacesOf, K!TypeOK, K!Kinds
  <2> QED BY <2>1, FirstAlone DEF Settled, JobInv, K!RowsRefused, K!Undo
<1>2. CASE K!RowsRefused(j)
  <2>1. K!Goes(j, "undo") /\ UNCHANGED <<entries, unkept, emptied>> /\ job[j].at = "row"
    BY <1>2 DEF K!RowsRefused
  <2>2. /\ K!Out' = {j} /\ job'[j].kind = "import" /\ job'[j].at = "undo"
        /\ job'[j].spec = job[j].spec
    BY <1>1, <2>1, JobGoes
  <2> QED BY <1>1, <2>1, <2>2
          DEF Settled, JobInv, Writers, EntriesNamed, Owed, TokenKept, K!Gone
<1>3. CASE K!Undo(j)
  <2>1. K!Ends(j) /\ K!Take({job[j].spec.key}) /\ K!Out' = {}
    BY <1>1, <1>3, JobEnds DEF K!Undo
  <2>2. \A k \in entries : k = row.key \/ k \in unkept \/ k = job[j].spec.key
    BY <1>1 DEF Settled, EntriesNamed, Owed
  <2> QED BY <1>1, <2>1, <2>2, Removed DEF Settled, EntriesNamed, TokenKept, K!Gone
<1> QED BY <1>2, <1>3

\* A job is done, and the window knows what the row is.
LEMMA SettledBack ==
  ASSUME Formed, Settled, Together, NEW j \in K!Jobs, K!Back(j) PROVE Settled'
<1> USE DEF Formed
<1>1. /\ j \in K!Out /\ JobInv(j) /\ job[j].at = "back" /\ K!Ends(j)
      /\ UNCHANGED <<row, entries, unkept, emptied>>
  BY DEF K!Back, Settled, K!Out, JobsFormed, PlacesOf
<1>2. job[j].kind \in {"add", "import", "edit", "delete", "forget"}
  BY <1>1 DEF JobsFormed, PlacesOf, K!Out, K!TypeOK, K!Kinds
<1>3. /\ K!Out' = K!Out \ {j} /\ \A i \in K!Out' : job'[i] = job[i]
  BY <1>1, JobEnds DEF K!Out
<1>4. EntriesNamed' /\ TokenKept'
  BY <1>1, <1>3 DEF Settled, EntriesNamed, TokenKept, Owed
<1>5. CASE job[j].kind \in {"add", "import", "edit"}
  <2>1. record' = row /\ row = job[j].spec
    BY <1>1, <1>5, FirstAlone DEF K!Back, JobInv
  <2>2. \A i \in K!Out' : job[i].kind = "forget"
    BY <1>1, <1>3, <1>5, FirstAlone, Others
  <2>3. \A i \in K!Out' : JobInv(i)'
    BY <1>3, <2>2 DEF JobInv
  <2> QED BY <1>1, <1>4, <2>1, <2>3 DEF Settled
<1>6. CASE job[j].kind = "delete"
  <2>1. record' = K!Gone /\ row = K!Gone
    BY <1>1, <1>6 DEF K!Back, JobInv
  <2>2. \A i \in K!Out' : job[i].kind \in {"forget", "delete"}
    BY <1>1, <1>3, <1>6, Others
  <2>3. \A i \in K!Out' : JobInv(i)'
    BY <1>1, <1>3, <2>1, <2>2 DEF JobInv
  <2> QED BY <1>1, <1>4, <2>1, <2>3 DEF Settled
<1>7. CASE job[j].kind = "forget"
  <2>1. record' = record
    BY <1>7 DEF K!Back
  <2>2. \A i \in K!Out' : job[i].kind \notin {"add", "import"}
    BY <1>1, <1>3, <1>7, Others
  <2>3. \A i \in K!Out' : JobInv(i)'
    BY <1>1, <1>3, <2>1, <2>2 DEF Settled, JobInv
  <2>4. Writers' = Writers
    BY <1>3, <1>7 DEF Writers
  <2> QED BY <1>1, <1>4, <2>1, <2>3, <2>4 DEF Settled
<1> QED BY <1>2, <1>5, <1>6, <1>7

\* Credentials saved in a session are those of the row.
LEMMA SettledSignIn ==
  ASSUME Formed, Settled, Together, NEW j \in K!Jobs, K!Saves(j) \/ K!Closes(j) PROVE Settled'
<1> USE DEF Formed
<1>1. j \in K!Out /\ job[j].kind = "signin" /\ UNCHANGED <<row, record>>
  BY DEF K!Saves, K!Closes, K!Out
<1>2. row = job[j].spec
  BY <1>1 DEF Settled, JobInv
<1>3. \A i \in K!Out : job[i].kind = "signin"
  BY <1>1, Others
<1>4. \A k \in entries : k = row.key \/ k \in unkept
  BY <1>3 DEF Settled, EntriesNamed, Owed
<1>5. row.auth = "bearer" => row.key \in entries \cup unkept \cup emptied
  BY <1>3 DEF Settled, TokenKept
<1>6. K!Out' \subseteq K!Out /\ \A i \in K!Out' : job'[i] = job[i]
  <2>1. CASE K!Saves(j)
    BY <2>1 DEF K!Saves, K!Out
  <2>2. CASE K!Closes(j)
    BY <2>2, JobEnds DEF K!Closes, K!Out
  <2> QED BY <2>1, <2>2
<1>7. \A i \in K!Out' : JobInv(i)'
  BY <1>1, <1>3, <1>6 DEF Settled, JobInv
<1>8. row' = record'
  BY <1>1, <1>3 DEF Settled, Writers
<1>9. EntriesNamed' /\ TokenKept'
  <2>1. CASE K!Saves(j)
    BY <1>1, <1>2, <1>4, <1>5, <2>1, Written DEF K!Saves, EntriesNamed, TokenKept
  <2>2. CASE K!Closes(j)
    BY <1>1, <1>4, <1>5, <2>2 DEF K!Closes, EntriesNamed, TokenKept
  <2> QED BY <2>1, <2>2
<1> QED BY <1>7, <1>8, <1>9 DEF Settled

\* Every step keeps what holds unless jobs crossed, if none crossed by then.
LEMMA SettledStep ==
  ASSUME MaxKeyringJobs \in Nat, K!None \notin Keys, KeyringInv, Together', [K!Next]_K!vars
  PROVE  Settled'
<1>1. Together
  BY DEF Together, K!Next, K!Add, K!Edit, K!Delete, K!Forget, K!SignIn, K!Start, K!Row,
        K!Token,
         K!OldToken, K!Secret, K!RowsRefused, K!Undo, K!Killed, K!Back, K!Saves,
         K!Closes, K!vars
<1>2. Formed /\ Settled
  BY <1>1 DEF KeyringInv
<1>3. ASSUME NEW spec \in K!Auths, K!Add(spec) \/ K!Edit(spec) PROVE Settled'
  BY <1>2, <1>3, SettledAdd, SettledEdit
<1>4. ASSUME K!Delete \/ K!Forget \/ K!SignIn PROVE Settled'
  BY <1>2, <1>4, SettledAsked
<1>5. ASSUME NEW j \in K!Jobs, K!Row(j) \/ K!Token(j) \/ K!OldToken(j) \/ K!Secret(j)
      PROVE  Settled'
  BY <1>1, <1>2, <1>5, SettledRow, SettledToken, SettledOldToken, SettledSecret
<1>6. ASSUME NEW j \in K!Jobs, K!RowsRefused(j) \/ K!Undo(j) \/ K!Back(j) PROVE Settled'
  BY <1>1, <1>2, <1>6, SettledImport, SettledBack
<1>7. ASSUME NEW j \in K!Jobs, K!Saves(j) \/ K!Closes(j) PROVE Settled'
  BY <1>1, <1>2, <1>7, SettledSignIn
<1>8. ASSUME NEW j \in K!Jobs, K!Killed(j) PROVE FALSE
  BY <1>8 DEF K!Killed, Together, K!Apart
<1>9. CASE UNCHANGED K!vars
  BY <1>2, <1>9 DEF K!vars, Settled, JobInv, Writers, K!Out, EntriesNamed, Owed, TokenKept
<1> QED BY <1>3, <1>4, <1>5, <1>6, <1>7, <1>8, <1>9 DEF K!Next

\* With no job out nothing is left in the keyring that no row refers to, and a
\* server whose token was typed has it, unless a notice told otherwise: for any
\* number of jobs, no two of which crossed in a way of Apart.
THEOREM KeyringIsSound ==
  ASSUME MaxKeyringJobs \in Nat, K!None \notin Keys PROVE K!Spec => []K!KeyringSound
<1>1. K!Init => KeyringInv
  <2> SUFFICES ASSUME K!Init PROVE KeyringInv
    OBVIOUS
  <2>1. \A j \in K!Jobs : job[j] = K!Idle
    BY DEF K!Init
  <2>2. K!Out = {}
    BY <2>1 DEF K!Out, K!Idle
  <2>3. K!TypeOK
    <3>1. K!Idle \in Records
      BY DEF K!Idle, K!NoAuth, K!Auths, Records, JobPlaces
    <3> QED BY <3>1 DEF K!Init, K!TypeOK, Records, JobPlaces
  <2>4. JobsFormed
    BY <2>1 DEF JobsFormed, K!Idle, K!NoAuth, PlacesOf
  <2>5. Named /\ Crossing
    BY <2>2 DEF K!Init, Named, Crossing, K!Gone
  <2>6. Settled
    BY <2>2 DEF K!Init, Settled, EntriesNamed, TokenKept, K!Gone
  <2> QED BY <2>3, <2>4, <2>5, <2>6 DEF K!Init, KeyringInv, Formed
<1>2. KeyringInv /\ [K!Next]_K!vars => KeyringInv'
  <2> SUFFICES ASSUME KeyringInv, [K!Next]_K!vars PROVE KeyringInv'
    OBVIOUS
  <2>1. Formed'
    BY FormedStep DEF KeyringInv
  <2>2. Together' => Settled'
    BY SettledStep
  <2> QED BY <2>1, <2>2 DEF KeyringInv
<1>3. KeyringInv => K!KeyringSound
  <2> SUFFICES ASSUME KeyringInv, K!Out = {}, mixed \cap K!Apart = {}
               PROVE  /\ entries \subseteq {row.key} \cup unkept
                      /\ row.auth = "bearer" => row.key \in entries \cup unkept \cup emptied
                      /\ record = row
    BY DEF K!KeyringSound, KeyringInv, Formed
  <2>1. Settled
    BY DEF KeyringInv, Together
  <2> QED BY <2>1 DEF Settled, Writers, EntriesNamed, TokenKept
<1> QED BY <1>1, <1>2, <1>3, PTL DEF K!Spec

-----------------------------------------------------------------------------
(* Sequences.                                                              *)

Unique(s) == \A i, j \in DOMAIN s : s[i] = s[j] => i = j

\* No more elements than there are to choose from.
LEMMA ShortUnique ==
  ASSUME NEW T, IsFiniteSet(T), NEW s \in Seq(T), Unique(s)
  PROVE  Len(s) <= Cardinality(T) /\ Cardinality(T) \in Nat
<1>1. s \in [1..Len(s) -> T] /\ Len(s) \in Nat /\ DOMAIN s = 1..Len(s)
  OBVIOUS
<1>2. s \in Injection(1..Len(s), T)
  BY <1>1, Fun_IsInj DEF Unique
<1>3. IsFiniteSet(1..Len(s)) /\ Cardinality(1..Len(s)) = Len(s)
  <2>1. \A n \in Nat : IsFiniteSet(1..n) /\ Cardinality(1..n) = n
    BY FS_Interval
  <2> QED BY <1>1, <2>1
<1> QED BY <1>2, <1>3, FS_Injection, FS_CardinalityType

\* A part of a sequence.
LEMMA PartOf ==
  ASSUME NEW T, NEW s \in Seq(T), NEW m \in Nat \ {0}, NEW n \in Nat,
         n <= Len(s), m <= n + 1
  PROVE  /\ SubSeq(s, m, n) \in Seq(T) /\ Len(SubSeq(s, m, n)) = n + 1 - m
         /\ \A i \in 1..(n + 1 - m) : SubSeq(s, m, n)[i] = s[m + i - 1]
<1>1. m \in Int /\ n \in Int /\ \A i \in m..n : s[i] \in T
  OBVIOUS
<1>2. /\ SubSeq(s, m, n) \in Seq(T)
      /\ Len(SubSeq(s, m, n)) = IF m <= n THEN n - m + 1 ELSE 0
      /\ \A i \in 1..(n - m + 1) : SubSeq(s, m, n)[i] = s[m + i - 1]
  BY <1>1, SubSeqProperties
<1>3. n - m + 1 = n + 1 - m /\ (~(m <= n) => n + 1 - m = 0)
  OBVIOUS
<1> QED BY <1>2, <1>3

\* A list without the element at a place: those behind it move up by one.
LEMMA RemovedAt ==
  ASSUME NEW T, NEW s \in Seq(T), Unique(s), NEW ix \in 1..Len(s)
  PROVE  /\ Side!RemoveAt(s, ix) \in Seq(T) /\ Len(Side!RemoveAt(s, ix)) = Len(s) - 1
         /\ DOMAIN Side!RemoveAt(s, ix) = 1..(Len(s) - 1)
         /\ \A i \in 1..(Len(s) - 1) :
              Side!RemoveAt(s, ix)[i] = IF i < ix THEN s[i] ELSE s[i + 1]
         /\ Unique(Side!RemoveAt(s, ix))
         /\ Side!ToSet(Side!RemoveAt(s, ix)) \subseteq Side!ToSet(s)
<1> DEFINE left == Side!RemoveAt(s, ix)
<1>1. Len(s) \in Nat /\ DOMAIN s = 1..Len(s)
  OBVIOUS
<1>2. left = SubSeq(s, 1, ix - 1) \o SubSeq(s, ix + 1, Len(s))
  BY DEF Side!RemoveAt
<1>3. /\ SubSeq(s, 1, ix - 1) \in Seq(T) /\ Len(SubSeq(s, 1, ix - 1)) = ix - 1
      /\ \A i \in 1..(ix - 1) : SubSeq(s, 1, ix - 1)[i] = s[i]
  <2>1. 1 \in Nat \ {0} /\ ix - 1 \in Nat /\ ix - 1 <= Len(s) /\ 1 <= ix - 1 + 1
    BY <1>1
  <2>2. /\ SubSeq(s, 1, ix - 1) \in Seq(T) /\ Len(SubSeq(s, 1, ix - 1)) = ix - 1 + 1 - 1
        /\ \A i \in 1..(ix - 1 + 1 - 1) : SubSeq(s, 1, ix - 1)[i] = s[1 + i - 1]
    BY <2>1, PartOf
  <2>3. ix - 1 + 1 - 1 = ix - 1 /\ \A i \in 1..(ix - 1) : 1 + i - 1 = i
    OBVIOUS
  <2> QED BY <2>2, <2>3
<1>4. /\ SubSeq(s, ix + 1, Len(s)) \in Seq(T) /\ Len(SubSeq(s, ix + 1, Len(s))) = Len(s) - ix
      /\ \A i \in 1..(Len(s) - ix) : SubSeq(s, ix + 1, Len(s))[i] = s[ix + i]
  <2>1. ix + 1 \in Nat \ {0} /\ Len(s) \in Nat /\ Len(s) <= Len(s) /\ ix + 1 <= Len(s) + 1
    BY <1>1
  <2>2. /\ SubSeq(s, ix + 1, Len(s)) \in Seq(T) /\ Len(SubSeq(s, ix + 1, Len(s))) = Len(s) + 1 - (ix + 1)
        /\ \A i \in 1..(Len(s) + 1 - (ix + 1)) : SubSeq(s, ix + 1, Len(s))[i] = s[ix + 1 + i - 1]
    BY <2>1, PartOf
  <2>3. Len(s) + 1 - (ix + 1) = Len(s) - ix /\ \A i \in 1..(Len(s) - ix) : ix + 1 + i - 1 = ix + i
    <3>1. Len(s) \in Int /\ ix \in Int
      BY <1>1
    <3>2. \A a, b, i \in Int : a + 1 - (b + 1) = a - b /\ b + 1 + i - 1 = b + i
      OBVIOUS
    <3> QED BY <3>1, <3>2
  <2> QED BY <2>2, <2>3
<1> HIDE DEF left
<1>4a. /\ left \in Seq(T)
       /\ Len(left) = Len(SubSeq(s, 1, ix - 1)) + Len(SubSeq(s, ix + 1, Len(s)))
       /\ \A i \in 1..(Len(SubSeq(s, 1, ix - 1)) + Len(SubSeq(s, ix + 1, Len(s)))) :
            left[i] = IF i <= Len(SubSeq(s, 1, ix - 1)) THEN SubSeq(s, 1, ix - 1)[i]
                      ELSE SubSeq(s, ix + 1, Len(s))[i - Len(SubSeq(s, 1, ix - 1))]
  BY ONLY <1>2, <1>3, <1>4, ConcatProperties, Zenon
<1>4b. ix - 1 + (Len(s) - ix) = Len(s) - 1
  BY <1>1
<1>5. /\ left \in Seq(T) /\ Len(left) = Len(s) - 1 /\ DOMAIN left = 1..(Len(s) - 1)
  <2>1. left \in Seq(T) /\ Len(left) = Len(s) - 1
    BY <1>3, <1>4, <1>4a, <1>4b
  <2> QED BY <2>1
<1>6. ASSUME NEW i \in 1..(Len(s) - 1) PROVE left[i] = IF i < ix THEN s[i] ELSE s[i + 1]
  <2>1. left[i] = IF i <= ix - 1 THEN SubSeq(s, 1, ix - 1)[i]
                  ELSE SubSeq(s, ix + 1, Len(s))[i - (ix - 1)]
    BY <1>3, <1>4, <1>4a, <1>4b
  <2>2. CASE i < ix
    <3>1. i \in 1..(ix - 1)
      BY <1>1, <2>2
    <3> QED BY <1>3, <2>1, <2>2, <3>1
  <2>3. CASE ~(i < ix)
    <3>1. i - (ix - 1) \in 1..(Len(s) - ix) /\ ix + (i - (ix - 1)) = i + 1 /\ ~(i <= ix - 1)
      BY <1>1, <2>3
    <3> QED BY <1>4, <2>1, <2>3, <3>1
  <2> QED BY <2>2, <2>3
<1>7. \A i \in DOMAIN left : \E k \in DOMAIN s : /\ left[i] = s[k]
                                                 /\ k = IF i < ix THEN i ELSE i + 1
  BY <1>1, <1>5, <1>6
<1>8. Unique(left)
  <2> SUFFICES ASSUME NEW i \in DOMAIN left, NEW j \in DOMAIN left, left[i] = left[j] PROVE i = j
    BY DEF Unique
  <2>1. (IF i < ix THEN i ELSE i + 1) = (IF j < ix THEN j ELSE j + 1)
    BY <1>7 DEF Unique
  <2> QED BY <1>5, <2>1
<1>9. Side!ToSet(left) \subseteq Side!ToSet(s)
  BY <1>7 DEF Side!ToSet
<1> QED BY <1>5, <1>6, <1>8, <1>9 DEF left

\* The sets of Sidebar are counted as those of this module.
LEMMA SidebarSame ==
  ASSUME NEW S PROVE Side!Cardinality(S) = Cardinality(S)
BY Zenon DEF Cardinality, Side!Cardinality

-----------------------------------------------------------------------------
(* Sidebar.                                                                *)

\* Servers are numbers from 1, and few.
Listed ==
  /\ Ids \in SUBSET (Nat \ {0}) /\ IsFiniteSet(Ids)
  /\ Stored \in Seq(Ids) /\ Unique(Stored)
  /\ MaxDoings \in Nat

\* A server is in the list once, and one that was added is not there yet.
SidebarInv == Side!SameServer /\ Unique(servers) /\ adds \subseteq used \ Side!ToSet(servers)

LEMMA IdsFinite ==
  ASSUME Listed PROVE Side!Cardinality(Ids) \in Nat /\ Side!None \notin Ids
BY FS_CardinalityType, SidebarSame DEF Listed, Side!None

\* The list and what its indices may be.
LEMMA ServersFormed ==
  ASSUME Listed, NEW order \in Seq(Ids), Unique(order)
  PROVE  /\ Len(order) \in 0..Side!Cardinality(Ids) /\ DOMAIN order = 1..Len(order)
         /\ \A i \in DOMAIN order : /\ order[i] \in Ids /\ order[i] # Side!None
                                    /\ i \in 1..Side!Cardinality(Ids)
         /\ order # <<>> <=> Len(order) # 0
         /\ 0 \notin DOMAIN order
         /\ \A id : /\ id \notin Side!ToSet(order) => Side!PositionIn(order, id) = 0
                    /\ id \in Side!ToSet(order) => /\ Side!PositionIn(order, id) \in DOMAIN order
                                             /\ order[Side!PositionIn(order, id)] = id
<1>1. Len(order) <= Side!Cardinality(Ids) /\ Side!Cardinality(Ids) \in Nat
  BY ShortUnique, SidebarSame DEF Listed
<1>2. Len(order) \in Nat /\ DOMAIN order = 1..Len(order) /\ \A i \in DOMAIN order : order[i] \in Ids
  OBVIOUS
<1>3. \A id : /\ id \notin Side!ToSet(order) => Side!PositionIn(order, id) = 0
              /\ id \in Side!ToSet(order) => /\ Side!PositionIn(order, id) \in DOMAIN order
                                       /\ order[Side!PositionIn(order, id)] = id
  BY DEF Side!PositionIn, Side!ToSet
<1>4. order # <<>> <=> Len(order) # 0
  BY <1>2
<1> QED BY <1>1, <1>2, <1>3, <1>4, IdsFinite

\* What the invariant says of the list.
LEMMA SidebarFormed ==
  ASSUME Listed, SidebarInv
  PROVE  /\ Side!TypeOK /\ servers \in Seq(used) /\ servers \in Seq(Ids) /\ Unique(servers)
         /\ Len(servers) \in 0..Side!Cardinality(Ids) /\ DOMAIN servers = 1..Len(servers)
         /\ Side!Cardinality(Ids) \in Nat /\ Side!None \notin Ids
         /\ \A i \in DOMAIN servers : /\ servers[i] \in Ids /\ servers[i] # Side!None
                                      /\ i \in 1..Side!Cardinality(Ids) /\ Side!At(i) = servers[i]
         /\ servers # <<>> <=> Len(servers) # 0
         /\ 0 \notin DOMAIN servers /\ Side!At(0) = Side!None
         /\ \A id : Side!Position(id) # 0 => Side!Position(id) \in DOMAIN servers /\ servers[Side!Position(id)] = id
         /\ \A id : id \in Side!ToSet(servers) => Side!Position(id) # 0
<1>1. Side!TypeOK /\ Unique(servers) /\ servers \in Seq(used) /\ used \subseteq Ids
  BY DEF SidebarInv, Side!SameServer, Side!TypeOK
<1>2. servers \in Seq(Ids)
  <2>1. \A i \in 1..Len(servers) : servers[i] \in Ids
    BY <1>1
  <2> QED BY <1>1, <2>1
<1>3. /\ Len(servers) \in 0..Side!Cardinality(Ids) /\ DOMAIN servers = 1..Len(servers)
      /\ \A i \in DOMAIN servers : /\ servers[i] \in Ids /\ servers[i] # Side!None
                                   /\ i \in 1..Side!Cardinality(Ids)
      /\ servers # <<>> <=> Len(servers) # 0
      /\ 0 \notin DOMAIN servers
      /\ \A id : /\ id \notin Side!ToSet(servers) => Side!PositionIn(servers, id) = 0
                 /\ id \in Side!ToSet(servers) => /\ Side!PositionIn(servers, id) \in DOMAIN servers
                                             /\ servers[Side!PositionIn(servers, id)] = id
  BY <1>1, <1>2, ServersFormed
<1> QED BY <1>1, <1>2, <1>3, IdsFinite DEF Side!At, Side!Position

\* What is kept of the indices, whatever became of the rest.
IndicesKept ==
  /\ {chosen, editing, awaits, confirm} \subseteq 0..Side!Cardinality(Ids)
  /\ means \in Side!Meaning /\ screen \in {"detail", "form"}
  /\ Side!At(chosen) = means.selected /\ Side!At(confirm) = means.confirm
  /\ Side!At(editing) = means.editing
  /\ awaits # 0 => means.awaits \in {Side!None, Side!At(awaits)}
  /\ \A x \in {chosen, editing, confirm} : x # 0 => x \in DOMAIN servers
  /\ servers # <<>> => chosen # 0

\* What changes neither list nor indices.
LEMMA JobsKeep ==
  ASSUME Listed, SidebarInv, NEW ix, NEW id, NEW s, NEW d,
         Side!SubmitEdit \/ (id \in Ids /\ Side!SubmitNew(id)) \/ Side!Connect(ix) \/ Side!Disconnect(ix) \/ Side!EditRuns(s) \/ Side!DeleteRuns(d)
  PROVE  SidebarInv'
<1>1. UNCHANGED <<servers, Side!index>>
  BY DEF Side!SubmitEdit, Side!SubmitNew, Side!Connect, Side!Disconnect, Side!EditRuns,
        Side!DeleteRuns
<1>2. Side!SameServer /\ Side!TypeOK /\ Unique(servers) /\ adds \subseteq used \ Side!ToSet(servers)
  BY DEF SidebarInv, Side!SameServer
<1>3. Unique(servers)' /\ IndicesKept'
  BY <1>1, <1>2 DEF Side!index, IndicesKept, Side!SameServer, Side!TypeOK, Side!At
<1>4. /\ \A i \in DOMAIN servers : servers[i] \in Ids /\ servers[i] # Side!None /\ Side!At(i) = servers[i]
      /\ servers \in Seq(used) /\ MaxDoings \in Nat
  BY SidebarFormed DEF Listed
<1>5. Side!TypeOK' /\ adds' \subseteq used' \ Side!ToSet(servers')
  <2>1. CASE Side!SubmitEdit
    <3>1. Side!FormOf \in Ids
      BY <1>2, <1>4, <2>1 DEF Side!SubmitEdit, Side!FormOf, Side!Pane, Side!SameServer
    <3>2. adding' \subseteq [id : Ids, at : {"asked", "saved", "refused"}]
      BY <1>2, <2>1, <3>1 DEF Side!SubmitEdit, Side!TypeOK
    <3> QED BY <1>1, <1>2, <1>4, <2>1, <3>2 DEF Side!SubmitEdit, Side!TypeOK, Side!index,
          Side!Acts
  <2>2. CASE id \in Ids /\ Side!SubmitNew(id)
    <3>1. servers' \in Seq(used')
      <4>1. \A i \in 1..Len(servers) : servers[i] \in used'
        BY <1>4, <2>2 DEF Side!SubmitNew
      <4> QED BY <1>1, <1>4, <4>1
    <3>2. id \notin Side!ToSet(servers)
      BY <1>4, <2>2 DEF Side!SubmitNew, Side!ToSet
    <3>3. used' = used \cup {id} /\ table' = table \cup {id} /\ adds' = adds \cup {id} /\ UNCHANGED <<state, adding, deletes>>
          /\ doings' \in 0..MaxDoings
      BY <1>2, <1>4, <2>2 DEF Side!SubmitNew, Side!Acts, Side!TypeOK
    <3>4. table' \subseteq used' /\ used' \subseteq Ids /\ adds' \subseteq Ids
      BY <1>2, <2>2, <3>3 DEF Side!TypeOK
    <3>5. adds' \subseteq used' \ Side!ToSet(servers)
      BY <1>2, <3>2, <3>3
    <3> QED BY <1>1, <1>2, <3>1, <3>3, <3>4, <3>5 DEF Side!TypeOK, Side!index
  <2>3. CASE Side!Connect(ix) \/ Side!Disconnect(ix)
    <3>1. state' \in [Ids -> {"off", "connecting", "connected", "failed"}] /\ doings' \in 0..MaxDoings
      BY <1>2, <1>4, <2>3 DEF Side!Connect, Side!Disconnect, Side!Acts, Side!TypeOK
    <3>2. UNCHANGED Side!jobs
      BY <2>3 DEF Side!Connect, Side!Disconnect
    <3> QED BY <1>1, <1>2, <3>1, <3>2 DEF Side!TypeOK, Side!index, Side!jobs
  <2>4. CASE Side!EditRuns(s)
    <3>1. adding' \subseteq [id : Ids, at : {"asked", "saved", "refused"}]
      BY <1>2, <2>4 DEF Side!EditRuns, Side!TypeOK
    <3> QED BY <1>1, <1>2, <2>4, <3>1 DEF Side!EditRuns, Side!TypeOK, Side!index
  <2>5. CASE Side!DeleteRuns(d)
    <3>1. deletes' \subseteq [id : Ids, at : {"asked", "done"}] /\ table' \subseteq used
      BY <1>2, <2>5 DEF Side!DeleteRuns, Side!TypeOK
    <3> QED BY <1>1, <1>2, <2>5, <3>1 DEF Side!DeleteRuns, Side!TypeOK, Side!index
  <2> QED BY <2>1, <2>2, <2>3, <2>4, <2>5
<1> QED BY <1>3, <1>5 DEF SidebarInv, Side!SameServer, IndicesKept

\* What the person does with the indices.
LEMMA PersonKeeps ==
  ASSUME Listed, SidebarInv, NEW ix,
         Side!Select(ix) \/ Side!ShowAdd \/ Side!ShowEdit \/ Side!CancelForm \/ Side!Request \/ Side!CancelConfirm \/ Side!ConfirmDelete
  PROVE  SidebarInv'
<1>1. UNCHANGED <<servers, state, table, used, adding, adds>>
  BY DEF Side!Select, Side!ShowAdd, Side!ShowEdit, Side!CancelForm, Side!Request,
        Side!CancelConfirm, Side!ConfirmDelete, Side!jobs
<1>2. Side!SameServer /\ Side!TypeOK /\ Unique(servers) /\ adds \subseteq used \ Side!ToSet(servers)
  BY DEF SidebarInv, Side!SameServer
<1>3. /\ \A i \in DOMAIN servers : /\ servers[i] \in Ids /\ servers[i] # Side!None /\ Side!At(i) = servers[i]
                                   /\ i \in 1..Side!Cardinality(Ids)
      /\ 0 \notin DOMAIN servers /\ Side!Cardinality(Ids) \in Nat /\ Side!At(0) = Side!None
  BY SidebarFormed
<1>4. \A x : Side!At(x)' = Side!At(x)
  BY <1>1 DEF Side!At
<1>5. IndicesKept'
  <2> USE DEF Side!SameServer, Side!TypeOK, Side!Meaning
  <2>1. CASE Side!Select(ix)
    <3>1. means' = [means EXCEPT !.selected = Side!At(ix)] /\ means \in Side!Meaning /\ Side!At(ix) \in Ids
      BY <1>2, <1>3, <2>1 DEF Side!Select
    <3>2. means' \in Side!Meaning /\ means'.selected = Side!At(ix) /\ means'.editing = means.editing
          /\ means'.confirm = means.confirm /\ means'.awaits = means.awaits
      BY <3>1
    <3> HIDE DEF Side!Meaning
    <3> QED BY <1>1, <1>2, <1>3, <1>4, <2>1, <3>2 DEF Side!Select, IndicesKept
  <2>2. CASE Side!ShowAdd
    <3>1. means' = [means EXCEPT !.editing = Side!None] /\ means \in Side!Meaning
      BY <1>2, <2>2 DEF Side!ShowAdd
    <3>2. means' \in Side!Meaning /\ means'.editing = Side!None /\ means'.selected = means.selected
          /\ means'.confirm = means.confirm /\ means'.awaits = means.awaits
      BY <3>1
    <3> HIDE DEF Side!Meaning
    <3> QED BY <1>1, <1>2, <1>3, <1>4, <2>2, <3>2 DEF Side!ShowAdd, IndicesKept
  <2>3. CASE Side!ShowEdit
    BY SMTT(20), <1>1, <1>2, <1>3, <2>3 DEF Side!ShowEdit, IndicesKept, Side!At
  <2>4. CASE Side!CancelForm
    <3>1. means' = [means EXCEPT !.editing = Side!None, !.awaits = Side!None] /\ means \in Side!Meaning
      BY <1>2, <2>4 DEF Side!CancelForm
    <3>2. means' \in Side!Meaning /\ means'.editing = Side!None /\ means'.selected = means.selected
          /\ means'.confirm = means.confirm /\ means'.awaits = Side!None
      BY <3>1
    <3> HIDE DEF Side!Meaning
    <3> QED BY <1>1, <1>2, <1>3, <1>4, <2>4, <3>2 DEF Side!CancelForm, IndicesKept
  <2>5. CASE Side!Request
    BY <1>1, <1>2, <1>3, <2>5 DEF Side!Request, IndicesKept, Side!At
  <2>6. CASE Side!CancelConfirm \/ Side!ConfirmDelete
    BY <1>1, <1>2, <1>3, <2>6 DEF Side!CancelConfirm, Side!ConfirmDelete, Side!Unasked,
          IndicesKept, Side!At
  <2> QED BY <2>1, <2>2, <2>3, <2>4, <2>5, <2>6
<1>6. deletes' \subseteq [id : Ids, at : {"asked", "done"}] /\ doings' \in 0..MaxDoings
  <2>1. CASE Side!ConfirmDelete
    <3>1. Side!At(confirm) \in Ids
      BY <1>2, <1>3, <2>1 DEF Side!ConfirmDelete, Side!SameServer
    <3> QED BY <1>2, <2>1, <3>1 DEF Side!ConfirmDelete, Side!Acts, Side!TypeOK, Listed
  <2>2. CASE ~Side!ConfirmDelete
    <3>1. deletes' = deletes /\ doings' = doings
      BY <2>2 DEF Side!Select, Side!ShowAdd, Side!ShowEdit, Side!CancelForm, Side!Request,
            Side!CancelConfirm, Side!jobs
    <3> QED BY <1>2, <3>1 DEF Side!TypeOK
  <2> QED BY <2>1, <2>2
<1>7. Side!TypeOK'
  BY <1>1, <1>2, <1>5, <1>6 DEF Side!TypeOK, IndicesKept
<1> QED BY <1>1, <1>2, <1>5, <1>7 DEF SidebarInv, Side!SameServer, IndicesKept, Unique

\* A form put over the detail of the server at a place.
LEMMA Awaited ==
  ASSUME Listed, SidebarInv, NEW order \in Seq(Ids), Unique(order), servers' = order,
         NEW ix \in DOMAIN order, Side!AwaitConnect(order, ix),
         \A i \in DOMAIN servers : i \in DOMAIN order /\ order[i] = servers[i]
  PROVE  IndicesKept' /\ state' \in [Ids -> {"off", "connecting", "connected", "failed"}]
<1>1. Side!SameServer /\ Side!TypeOK
  BY DEF SidebarInv, Side!SameServer
<1>2. /\ \A i \in DOMAIN order : order[i] \in Ids /\ order[i] # Side!None /\ i \in 1..Side!Cardinality(Ids)
      /\ 0 \notin DOMAIN order /\ Side!Cardinality(Ids) \in Nat
  BY ServersFormed, IdsFinite
<1>3. 0 \notin DOMAIN servers
  BY SidebarFormed
<1>4. IndicesKept'
  <2>1. /\ means' \in Side!Meaning /\ means'.selected = order[ix] /\ means'.editing = order[ix]
        /\ means'.awaits = order[ix] /\ means'.confirm = means.confirm
    BY <1>1, <1>2 DEF Side!AwaitConnect, Side!TypeOK, Side!Meaning
  <2>2. chosen' = ix /\ editing' = ix /\ awaits' = ix /\ confirm' = confirm /\ screen' = "form"
    BY DEF Side!AwaitConnect
  <2>3. Side!At(ix)' = order[ix] /\ Side!At(chosen)' = order[ix] /\ Side!At(editing)' = order[ix]
        /\ Side!At(awaits)' = order[ix]
    BY <2>2 DEF Side!At
  <2>4. Side!At(confirm)' = means'.confirm /\ (confirm # 0 => confirm \in DOMAIN order)
    BY <1>1, <1>2, <1>3, <2>1, <2>2 DEF Side!SameServer, Side!At
  <2>5. ix \in 0..Side!Cardinality(Ids) /\ confirm \in 0..Side!Cardinality(Ids) /\ ix # 0
    BY <1>1, <1>2 DEF Side!TypeOK
  <2> QED BY <2>1, <2>2, <2>3, <2>4, <2>5 DEF IndicesKept
<1>5. state' \in [Ids -> {"off", "connecting", "connected", "failed"}]
  BY <1>1 DEF Side!AwaitConnect, Side!TypeOK
<1> QED BY <1>4, <1>5

\* Settings saved, or the same sent again.
LEMMA FormKeeps ==
  ASSUME Listed, SidebarInv, NEW j, Side!EditDone(j) \/ Side!SubmitUnchanged
  PROVE  SidebarInv'
<1>1. Side!SameServer /\ Side!TypeOK /\ Unique(servers) /\ adds \subseteq used \ Side!ToSet(servers)
  BY DEF SidebarInv, Side!SameServer
<1>2. UNCHANGED <<servers, table, used, adds, deletes>> /\ adding' \subseteq adding
  BY DEF Side!EditDone, Side!SubmitUnchanged, Side!jobs
<1>3. servers \in Seq(Ids)
  BY SidebarFormed
<1>4. IndicesKept' /\ state' \in [Ids -> {"off", "connecting", "connected", "failed"}]
  <2>1. CASE \E ix \in DOMAIN servers : Side!AwaitConnect(servers, ix)
    BY <1>1, <1>2, <1>3, <2>1, Awaited
  <2>2. CASE UNCHANGED <<Side!index, state>>
    BY <1>1, <1>2, <2>2 DEF Side!index, IndicesKept, Side!SameServer, Side!TypeOK, Side!At
  <2>3. CASE Side!SubmitUnchanged
    <3>1. editing \in DOMAIN servers
      BY <1>1, <2>3 DEF Side!SubmitUnchanged, Side!SameServer
    <3> QED BY <2>1, <2>3, <3>1 DEF Side!SubmitUnchanged
  <2>4. CASE Side!EditDone(j)
    <3>1. Side!Position(j.id) # 0 => Side!Position(j.id) \in DOMAIN servers
      BY SidebarFormed
    <3> QED BY <2>1, <2>2, <2>4, <3>1 DEF Side!EditDone
  <2> QED BY <2>3, <2>4
<1>5. doings' \in 0..MaxDoings
  BY <1>1 DEF Side!EditDone, Side!SubmitUnchanged, Side!Acts, Side!TypeOK, Listed
<1>6. Side!TypeOK'
  BY <1>1, <1>2, <1>4, <1>5 DEF Side!TypeOK, IndicesKept
<1> QED BY <1>1, <1>2, <1>4, <1>6 DEF SidebarInv, Side!SameServer, IndicesKept, Unique

\* A server added: shown with its form, or imported and selected.
LEMMA AddedKeeps ==
  ASSUME Listed, SidebarInv, NEW id \in Ids, Side!AddDone(id) \/ Side!ImportDone(id)
  PROVE  SidebarInv'
<1> DEFINE order == Append(servers, id)
<1>1. Side!SameServer /\ Side!TypeOK /\ adds \subseteq used \ Side!ToSet(servers)
  BY DEF SidebarInv, Side!SameServer
<1>2. /\ servers' = order /\ id \in adds /\ adds' = adds \ {id}
      /\ UNCHANGED <<table, used, adding, deletes, doings>>
  BY DEF Side!AddDone, Side!ImportDone
<1>3. /\ servers \in Seq(Ids) /\ servers \in Seq(used) /\ Unique(servers) /\ id \in used
      /\ DOMAIN servers = 1..Len(servers) /\ Len(servers) \in Nat
      /\ \A i \in DOMAIN servers : servers[i] # id
  <2>1. servers \in Seq(Ids) /\ servers \in Seq(used) /\ Unique(servers)
    BY SidebarFormed
  <2>2. id \in used /\ id \notin Side!ToSet(servers)
    BY <1>1, <1>2
  <2> QED BY <2>1, <2>2 DEF Side!ToSet
<1>4. /\ order \in Seq(Ids) /\ order \in Seq(used) /\ Len(order) = Len(servers) + 1
      /\ DOMAIN order = 1..(Len(servers) + 1) /\ order[Len(servers) + 1] = id
      /\ \A i \in 1..Len(servers) : order[i] = servers[i]
  BY <1>3
<1> HIDE DEF order
<1>5. Unique(order)
  <2> SUFFICES ASSUME NEW i \in DOMAIN order, NEW k \in DOMAIN order, order[i] = order[k] PROVE i = k
    BY DEF Unique
  <2>1. i \in DOMAIN servers \/ i = Len(order)
    BY <1>3, <1>4
  <2>2. k \in DOMAIN servers \/ k = Len(order)
    BY <1>3, <1>4
  <2> QED BY <1>3, <1>4, <2>1, <2>2 DEF Unique
<1>6. adds' \subseteq used' \ Side!ToSet(servers')
  <2>1. \A i \in DOMAIN order : order[i] \in Side!ToSet(servers) \cup {id}
    BY <1>3, <1>4 DEF Side!ToSet
  <2> QED BY <1>1, <1>2, <2>1 DEF Side!ToSet
<1>7. /\ \A i \in DOMAIN order : order[i] \in Ids /\ order[i] # Side!None /\ i \in 1..Side!Cardinality(Ids)
      /\ 0 \notin DOMAIN order /\ Side!Cardinality(Ids) \in Nat
  BY <1>4, <1>5, ServersFormed, IdsFinite
<1>8. IndicesKept' /\ state' \in [Ids -> {"off", "connecting", "connected", "failed"}]
  <2>1. CASE Side!AddDone(id)
    <3>1. Side!AwaitConnect(order, Len(order)) /\ Len(order) \in DOMAIN order
      BY <1>2, <1>3, <1>4, <2>1 DEF Side!AddDone
    <3> QED BY <1>2, <1>3, <1>4, <1>5, <3>1, Awaited
  <2>2. CASE Side!ImportDone(id)
    <3>1. /\ chosen' = Len(order) /\ screen' = "detail" /\ means' = [means EXCEPT !.selected = id]
          /\ UNCHANGED <<editing, awaits, confirm, state>>
      BY <1>2, <2>2 DEF Side!ImportDone
    <3>2. /\ means' \in Side!Meaning /\ means'.selected = id /\ means'.editing = means.editing
          /\ means'.confirm = means.confirm /\ means'.awaits = means.awaits
      BY <1>1, <3>1 DEF Side!TypeOK, Side!Meaning
    <3>3. Len(order) \in DOMAIN order /\ order[Len(order)] = id /\ Len(order) # 0
          /\ Len(order) \in 0..Side!Cardinality(Ids)
      <4>1. Len(order) \in DOMAIN order /\ order[Len(order)] = id
        BY <1>3, <1>4
      <4> QED BY <1>7, <4>1
    <3>4. Side!At(chosen)' = id /\ \A x \in DOMAIN servers : Side!At(x)' = Side!At(x) /\ x \in DOMAIN order
      BY <1>2, <1>3, <1>4, <3>1, <3>3 DEF Side!At
    <3>5. Side!At(0) = Side!None /\ Side!At(0)' = Side!None
      BY <1>2, <1>3, <1>7 DEF Side!At
    <3>6. Side!At(confirm)' = means'.confirm /\ Side!At(editing)' = means'.editing
      BY <1>1, <3>1, <3>2, <3>4, <3>5 DEF Side!SameServer
    <3>7. awaits' # 0 => means'.awaits \in {Side!None, Side!At(awaits)'}
      <4>1. awaits \in DOMAIN servers \/ Side!At(awaits) = Side!None
        BY DEF Side!At
      <4> QED BY <1>1, <3>1, <3>2, <3>4, <4>1 DEF Side!SameServer
    <3> QED BY <1>1, <1>2, <3>1, <3>2, <3>3, <3>4, <3>6, <3>7 DEF IndicesKept,
          Side!SameServer, Side!TypeOK
  <2> QED BY <2>1, <2>2
<1>9. Side!TypeOK'
  BY <1>1, <1>2, <1>4, <1>8 DEF Side!TypeOK, IndicesKept
<1> QED BY <1>2, <1>5, <1>6, <1>8, <1>9 DEF SidebarInv, Side!SameServer, IndicesKept

\* A connect's result: the form that waits for it closes.
LEMMA ConnectedKeeps ==
  ASSUME Listed, SidebarInv, NEW id \in Ids, Side!ConnectDone(id)
  PROVE  SidebarInv'
<1>1. Side!SameServer /\ Side!TypeOK /\ Unique(servers) /\ adds \subseteq used \ Side!ToSet(servers)
  BY DEF SidebarInv, Side!SameServer
<1>2. /\ UNCHANGED <<servers, chosen, confirm, table, used, adding, adds, deletes, doings>>
      /\ state' \in [Ids -> {"off", "connecting", "connected", "failed"}]
  BY <1>1 DEF Side!ConnectDone, Side!jobs, Side!TypeOK
<1>3. /\ 0 \notin DOMAIN servers /\ Side!Cardinality(Ids) \in Nat
  BY SidebarFormed
<1>4. IndicesKept'
  <2>1. \/ UNCHANGED <<awaits, editing, screen, means>>
        \/ /\ awaits' = 0 /\ editing' = 0 /\ screen' = "detail"
           /\ means' = [means EXCEPT !.awaits = Side!None, !.editing = Side!None]
        \/ /\ awaits' = 0 /\ UNCHANGED <<editing, screen>> /\ means' = [means EXCEPT !.awaits = Side!None]
    BY DEF Side!ConnectDone
  <2>2. /\ means' \in Side!Meaning /\ means'.selected = means.selected
        /\ means'.confirm = means.confirm
    BY <1>1, <2>1 DEF Side!TypeOK, Side!Meaning
  <2>3. \A x : Side!At(x)' = Side!At(x)
    BY <1>2 DEF Side!At
  <2>4. \/ awaits' = awaits /\ means'.awaits = means.awaits
        \/ awaits' = 0
    BY <1>1, <2>1 DEF Side!TypeOK, Side!Meaning
  <2>5. \/ editing' = editing /\ means'.editing = means.editing
        \/ editing' = 0 /\ means'.editing = Side!None
    BY <1>1, <2>1 DEF Side!TypeOK, Side!Meaning
  <2>6. screen' \in {"detail", "form"} /\ Side!At(0) = Side!None /\ 0 \in 0..Side!Cardinality(Ids)
    BY <1>1, <1>3, <2>1 DEF Side!TypeOK, Side!At
  <2>7. Side!At(editing)' = means'.editing /\ (awaits' # 0 => means'.awaits \in {Side!None, Side!At(awaits)'})
    BY <1>1, <1>2, <2>4, <2>5, <2>6 DEF Side!SameServer, Side!At
  <2>8. Side!At(chosen)' = means'.selected /\ Side!At(confirm)' = means'.confirm
    BY <1>1, <1>2, <2>2 DEF Side!SameServer, Side!At
  <2>9. {chosen', editing', awaits', confirm'} \subseteq 0..Side!Cardinality(Ids)
    BY <1>1, <1>2, <2>4, <2>5, <2>6 DEF Side!TypeOK
  <2>10. \A x \in {chosen', editing', confirm'} : x # 0 => x \in DOMAIN servers'
    BY <1>1, <1>2, <2>5 DEF Side!SameServer
  <2>11. servers' # <<>> => chosen' # 0
    BY <1>1, <1>2 DEF Side!SameServer
  <2> QED BY <2>2, <2>6, <2>7, <2>8, <2>9, <2>10, <2>11 DEF IndicesKept
<1>5. Side!TypeOK'
  BY <1>1, <1>2, <1>4 DEF Side!TypeOK, IndicesKept
<1> QED BY <1>1, <1>2, <1>4, <1>5 DEF SidebarInv, Side!SameServer, IndicesKept, Unique

\* A server deleted: the indices behind it move up with their servers.
LEMMA DeletedKeeps ==
  ASSUME Listed, SidebarInv, NEW j \in deletes, Side!DeleteDone(j)
  PROVE  SidebarInv'
<1>1. Side!SameServer /\ Side!TypeOK /\ Unique(servers) /\ adds \subseteq used \ Side!ToSet(servers)
  BY DEF SidebarInv, Side!SameServer
<1>2. UNCHANGED <<awaits, state, table, used, adding, adds, doings>> /\ deletes' \subseteq deletes
  BY DEF Side!DeleteDone
<1>3. CASE Side!Position(j.id) = 0
  <2>1. UNCHANGED <<servers, Side!index>>
    BY <1>3 DEF Side!DeleteDone
  <2>2. IndicesKept' /\ Side!TypeOK'
    BY <1>1, <1>2, <2>1 DEF Side!index, IndicesKept, Side!SameServer, Side!TypeOK, Side!At
  <2> QED BY <1>1, <1>2, <2>1, <2>2 DEF SidebarInv, Side!SameServer, IndicesKept, Unique
<1>4. CASE Side!Position(j.id) # 0
  <2>20. PICK ix : ix = Side!Position(j.id)
    OBVIOUS
  <2>21. PICK left : left = Side!RemoveAt(servers, ix)
    OBVIOUS
  <2>22. PICK next : next = IF ix <= Len(left) THEN ix ELSE Len(left)
    OBVIOUS
  <2>1. /\ servers' = left
        /\ chosen' = IF chosen = ix THEN next ELSE Side!Down(chosen, ix)
        /\ confirm' = Side!Down(confirm, ix)
        /\ \/ editing >= ix /\ editing' = 0 /\ screen' = "detail"
           \/ ~(editing >= ix) /\ UNCHANGED <<editing, screen>>
        /\ means' = [means EXCEPT
                  !.selected = IF chosen = ix /\ next # 0 THEN left[next]
                               ELSE IF chosen = ix THEN Side!None ELSE @,
                  !.confirm = IF confirm = ix THEN Side!None ELSE @,
                  !.editing = IF editing >= ix THEN Side!None ELSE @,
                  !.awaits = IF awaits >= ix THEN Side!None ELSE @]
    BY <1>4, <2>20, <2>21, <2>22 DEF Side!DeleteDone
  <2>2. /\ servers \in Seq(used) /\ servers \in Seq(Ids)
        /\ ix \in 1..Len(servers) /\ Len(servers) \in Nat /\ DOMAIN servers = 1..Len(servers)
        /\ Len(servers) \in 0..Side!Cardinality(Ids) /\ Side!Cardinality(Ids) \in Nat
        /\ \A i \in DOMAIN servers : servers[i] \in Ids /\ servers[i] # Side!None
    BY <1>4, <2>20, SidebarFormed
  <2>3. /\ left \in Seq(used) /\ left \in Seq(Ids) /\ Len(left) = Len(servers) - 1
        /\ DOMAIN left = 1..(Len(servers) - 1) /\ Unique(left) /\ Side!ToSet(left) \subseteq Side!ToSet(servers)
        /\ \A i \in 1..(Len(servers) - 1) : left[i] = IF i < ix THEN servers[i] ELSE servers[i + 1]
    <3>0. /\ Side!RemoveAt(servers, ix) \in Seq(used) /\ Len(Side!RemoveAt(servers, ix)) = Len(servers) - 1
          /\ DOMAIN Side!RemoveAt(servers, ix) = 1..(Len(servers) - 1)
          /\ \A i \in 1..(Len(servers) - 1) :
               Side!RemoveAt(servers, ix)[i] = IF i < ix THEN servers[i] ELSE servers[i + 1]
          /\ Unique(Side!RemoveAt(servers, ix))
          /\ Side!ToSet(Side!RemoveAt(servers, ix)) \subseteq Side!ToSet(servers)
      <4>1. servers \in Seq(used) /\ Unique(servers) /\ ix \in 1..Len(servers)
        BY <1>1, <2>2
      <4> QED BY ONLY <4>1, RemovedAt
    <3>1. /\ left \in Seq(used) /\ Len(left) = Len(servers) - 1
          /\ DOMAIN left = 1..(Len(servers) - 1) /\ Unique(left) /\ Side!ToSet(left) \subseteq Side!ToSet(servers)
          /\ \A i \in 1..(Len(servers) - 1) : left[i] = IF i < ix THEN servers[i] ELSE servers[i + 1]
      BY <2>21, <3>0
    <3>2. left \in Seq(Ids)
      BY <1>1, <2>2, <2>21, RemovedAt
    <3> QED BY <3>1, <3>2
  <2>4. /\ chosen \in DOMAIN servers /\ confirm \in {0} \cup DOMAIN servers
        /\ editing \in {0} \cup DOMAIN servers /\ awaits \in Nat
    <3>1. servers # <<>>
      BY <2>2
    <3> QED BY <1>1, <2>2, <3>1 DEF Side!SameServer, Side!TypeOK
  <2>5. /\ means \in Side!Meaning /\ means.selected = servers[chosen]
        /\ means.confirm = IF confirm = 0 THEN Side!None ELSE servers[confirm]
        /\ means.editing = IF editing = 0 THEN Side!None ELSE servers[editing]
        /\ awaits # 0 => means.awaits \in {Side!None, Side!At(awaits)}
    BY <1>1, <2>2, <2>4 DEF Side!SameServer, Side!TypeOK, Side!At
  <2>6. next \in 0..(Len(servers) - 1) /\ (Len(servers) - 1 # 0 => next # 0)
    <3>1. ix \in Int /\ Len(left) \in Int /\ Len(servers) \in Int /\ 1 <= ix /\ ix <= Len(servers)
          /\ Len(left) = Len(servers) - 1
      BY <2>2, <2>3
    <3>2. CASE ix <= Len(left)
      BY <2>22, <3>1, <3>2
    <3>3. CASE ~(ix <= Len(left))
      BY <2>22, <3>1, <3>3
    <3> QED BY <3>2, <3>3
  <2>7. \A x \in DOMAIN servers : x # ix =>
          Side!Down(x, ix) \in DOMAIN left /\ left[Side!Down(x, ix)] = servers[x] /\ Side!Down(x, ix) # 0
    BY <2>2, <2>3 DEF Side!Down
  <2>8. chosen' \in 0..(Len(servers) - 1) /\ confirm' \in 0..(Len(servers) - 1)
        /\ editing' \in 0..(Len(servers) - 1)
        /\ (Len(servers) - 1 # 0 => chosen' # 0)
    BY SMTT(20), <2>1, <2>2, <2>3, <2>4, <2>6, <2>7 DEF Side!Down
  <2>9. /\ means' \in Side!Meaning
        /\ means'.selected = IF chosen = ix /\ next # 0 THEN left[next]
                             ELSE IF chosen = ix THEN Side!None ELSE means.selected
        /\ means'.confirm = IF confirm = ix THEN Side!None ELSE means.confirm
        /\ means'.editing = IF editing >= ix THEN Side!None ELSE means.editing
        /\ means'.awaits = IF awaits >= ix THEN Side!None ELSE means.awaits
    <3>1. next # 0 => left[next] \in Ids
      BY <2>3, <2>6
    <3> DEFINE s == IF chosen = ix /\ next # 0 THEN left[next]
                    ELSE IF chosen = ix THEN Side!None ELSE means.selected
               c == IF confirm = ix THEN Side!None ELSE means.confirm
               e == IF editing >= ix THEN Side!None ELSE means.editing
               a == IF awaits >= ix THEN Side!None ELSE means.awaits
    <3>2. {s, c, e, a} \subseteq Ids \cup {Side!None}
      BY <2>5, <3>1 DEF Side!Meaning
    <3>3. means' = [means EXCEPT !.selected = s, !.confirm = c, !.editing = e, !.awaits = a]
      BY <2>1
    <3> HIDE DEF s, c, e, a
    <3>4. /\ means' \in Side!Meaning /\ means'.selected = s /\ means'.confirm = c
          /\ means'.editing = e /\ means'.awaits = a
      BY <2>5, <3>2, <3>3 DEF Side!Meaning
    <3> QED BY <3>4 DEF s, c, e, a
  <2>10. Side!At(chosen)' = means'.selected
    <3>1. CASE chosen = ix
      BY <2>1, <2>2, <2>3, <2>6, <2>9, <3>1 DEF Side!At
    <3>2. CASE chosen # ix
      BY <2>1, <2>4, <2>5, <2>7, <2>9, <3>2 DEF Side!At
    <3> QED BY <3>1, <3>2
  <2>11. Side!At(confirm)' = means'.confirm
    <3>1. CASE confirm = 0 \/ confirm = ix
      BY <2>1, <2>2, <2>3, <2>5, <2>9, <3>1 DEF Side!At, Side!Down
    <3>2. CASE confirm # 0 /\ confirm # ix
      BY <2>1, <2>4, <2>5, <2>7, <2>9, <3>2 DEF Side!At
    <3> QED BY <3>1, <3>2
  <2>12. Side!At(editing)' = means'.editing
    <3>1. CASE editing >= ix
      BY <2>1, <2>3, <2>9, <3>1 DEF Side!At
    <3>2. CASE ~(editing >= ix)
      BY <2>1, <2>2, <2>3, <2>4, <2>5, <2>9, <3>2 DEF Side!At
    <3> QED BY <3>1, <3>2
  <2>13. awaits' # 0 => means'.awaits \in {Side!None, Side!At(awaits)'}
    <3>1. CASE awaits >= ix
      BY <2>9, <3>1
    <3>2. CASE ~(awaits >= ix) /\ awaits # 0
      <4>1. awaits \in DOMAIN left /\ left[awaits] = servers[awaits] /\ awaits \in DOMAIN servers
        BY <2>2, <2>3, <2>4, <3>2
      <4>2. Side!At(awaits) = servers[awaits] /\ Side!At(awaits)' = left[awaits]
        BY <1>2, <2>1, <4>1 DEF Side!At
      <4> QED BY <2>5, <2>9, <3>2, <4>1, <4>2
    <3> QED BY <1>2, <3>1, <3>2
  <2>14. IndicesKept'
    <3>1. 0..(Len(servers) - 1) \subseteq 0..Side!Cardinality(Ids)
      BY <2>2
    <3>2. \A x \in 0..(Len(servers) - 1) : x # 0 => x \in DOMAIN servers'
      BY <2>1, <2>2, <2>3
    <3>3. servers' # <<>> => chosen' # 0
      BY <2>1, <2>2, <2>3, <2>8
    <3>4. awaits' \in 0..Side!Cardinality(Ids) /\ screen' \in {"detail", "form"}
      BY <1>1, <1>2, <2>1 DEF Side!TypeOK
    <3> QED BY <2>8, <2>9, <2>10, <2>11, <2>12, <2>13, <3>1, <3>2, <3>3,
          <3>4 DEF IndicesKept
  <2>15. Side!TypeOK'
    BY <1>1, <1>2, <2>1, <2>3, <2>14 DEF Side!TypeOK, IndicesKept
  <2> QED BY <1>1, <1>2, <2>1, <2>3, <2>14, <2>15 DEF SidebarInv, Side!SameServer,
        IndicesKept
<1> QED BY <1>3, <1>4

LEMMA SidebarStart ==
  ASSUME Listed, Side!Init PROVE SidebarInv
<1>1. servers = Stored /\ Stored \in Seq(Ids) /\ Unique(servers)
  BY DEF Listed, Side!Init
<1>2. servers \in Seq(Ids) /\ servers \in Seq(used) /\ used \subseteq Ids /\ table = used
  <2>1. used = Side!ToSet(servers) /\ table = used
    BY DEF Side!Init
  <2>2. DOMAIN servers = 1..Len(servers) /\ \A i \in 1..Len(servers) : servers[i] \in Ids
    BY <1>1
  <2>3. \A i \in 1..Len(servers) : servers[i] \in used
    BY <2>1, <2>2 DEF Side!ToSet
  <2>4. \A id \in used : id \in Ids
    BY <2>1, <2>2 DEF Side!ToSet
  <2> QED BY <1>1, <2>1, <2>3, <2>4
<1>3. /\ Len(servers) \in 0..Side!Cardinality(Ids) /\ DOMAIN servers = 1..Len(servers)
      /\ \A i \in DOMAIN servers : servers[i] \in Ids /\ i \in 1..Side!Cardinality(Ids)
      /\ servers # <<>> <=> Len(servers) # 0
      /\ 0 \notin DOMAIN servers
  BY <1>1, <1>2, ServersFormed
<1>5. chosen \in 0..Side!Cardinality(Ids) /\ (chosen # 0 => chosen \in DOMAIN servers)
      /\ Side!At(chosen) \in Ids \cup {Side!None} /\ 0 \in 0..Side!Cardinality(Ids)
  BY <1>1, <1>3, IdsFinite DEF Side!Init, Side!At
<1>6. IndicesKept
  BY <1>1, <1>3, <1>5 DEF Side!Init, IndicesKept, Side!Meaning, Side!At
<1>7. Side!TypeOK
  BY <1>2, <1>6 DEF Side!Init, Side!TypeOK, IndicesKept, Listed
<1> QED BY <1>1, <1>6, <1>7 DEF Side!Init, SidebarInv, Side!SameServer, IndicesKept

LEMMA SidebarKept ==
  ASSUME Listed, SidebarInv, [Side!Next]_Side!vars PROVE SidebarInv'
<1>1. CASE UNCHANGED Side!vars
  BY <1>1 DEF Side!vars, Side!index, Side!jobs, SidebarInv, Side!SameServer, Side!TypeOK,
        Unique, Side!At
<1>2. CASE \/ \E ix \in 1..Side!Cardinality(Ids) : Side!Connect(ix) \/ Side!Disconnect(ix)
           \/ Side!SubmitEdit \/ \E s \in adding : Side!EditRuns(s)
           \/ \E d \in deletes : Side!DeleteRuns(d)
  BY <1>2, JobsKeep
<1>2a. CASE \E id \in Ids : Side!SubmitNew(id)
  BY <1>2a, JobsKeep
<1>3. CASE \/ \E ix \in 1..Side!Cardinality(Ids) : Side!Select(ix)
           \/ Side!ShowAdd \/ Side!ShowEdit \/ Side!CancelForm \/ Side!Request \/ Side!CancelConfirm \/ Side!ConfirmDelete
  BY <1>3, PersonKeeps
<1>4. CASE Side!SubmitUnchanged \/ \E s \in adding : Side!EditDone(s)
  BY <1>4, FormKeeps
<1>5. CASE \E id \in Ids : Side!AddDone(id) \/ Side!ImportDone(id)
  BY <1>5, AddedKeeps
<1> QED BY <1>1, <1>2, <1>2a, <1>3, <1>4, <1>5, ConnectedKeeps, DeletedKeeps DEF Side!Next

\* The window's indices stay on the servers they were set for.
THEOREM SidebarIsSame ==
  ASSUME Listed
  PROVE  Side!Spec => []Side!SameServer
<1>1. Side!Init => SidebarInv
  BY SidebarStart
<1>2. SidebarInv /\ [Side!Next]_Side!vars => SidebarInv'
  BY SidebarKept
<1>3. SidebarInv => Side!SameServer
  BY DEF SidebarInv
<1> QED BY <1>1, <1>2, <1>3, PTL DEF Side!Spec

\* Whatever was saved, imported or deleted meanwhile, what the window has
\* selected, what its form edits and what its confirmation asks about are the
\* servers they were set for (finish_delete, await_connect, push_saved).
THEOREM SameServerStays == WindowSpec => []SameServer
<1>1. Listed
  BY WindowAssumption DEF Listed, Unique
<1>2. WindowInit => Side!Init
  BY DEF WindowInit, Beginning
<1>3. [WindowNext]_all => [Side!Next]_Side!vars
  BY DEF WindowNext, ServingStep, SidebarStep, StoreStep, KeyringStep, AgentsStep, all,
        ofSidebar,
         Side!vars, Side!index, Side!jobs
<1>4. Side!SameServer => SameServer
  BY DEF SameServer
<1> QED BY <1>1, <1>2, <1>3, <1>4, SidebarIsSame, PTL DEF WindowSpec, Side!Spec

\* And the gateway shown as running is the one that runs, in every run of the
\* window (gateway_start, gateway_stop, gateway_refresh, save_gateway).
THEOREM ServingStaysSound == WindowSpec => []ServingSound
<1>1. MaxActions \in Nat
  BY WindowAssumption
<1>2. WindowInit => Init
  BY DEF WindowInit, Beginning
<1>3. [WindowNext]_all => [Next]_vars
  BY DEF WindowNext, ServingStep, SidebarStep, StoreStep, KeyringStep, AgentsStep, all
<1> QED BY <1>1, <1>2, <1>3, ServingIsSound, PTL DEF WindowSpec, Spec

-----------------------------------------------------------------------------
\* A set of numbers has a smallest.
LEMMA SmallestInNat ==
  ASSUME NEW S \in SUBSET Nat, NEW n \in S
  PROVE  \E k \in S : \A i \in S : k <= i
<1> DEFINE R == OpToRel(<, Nat)
<1>1. \A i, j \in Nat : <<i, j>> \in R <=> i < j
  BY Zenon DEF OpToRel
<1>2. IsWellFoundedOn(R, Nat)
  BY Zenon, NatLessThanWellFounded
<1> HIDE DEF R
<1>3. PICK k \in S : \A i \in S : ~(<<i, k>> \in R)
  BY <1>2, WFMin
<1>4. \A i \in S : ~(i < k)
  BY <1>1, <1>3
<1>5. \A i \in S : k <= i
  BY <1>4
<1> QED BY <1>5

\* The constants: takings are few, and a second has tenths.
Stocked == IsFiniteSet(Takers) /\ Base \in Nat \ {0} /\ St!None \notin Contents /\ MaxTime \in Nat

-----------------------------------------------------------------------------
(* Store: the order of its rows.                                           *)

\* SQLite's order is strict and total.
LEMMA BeforeOrders ==
  /\ \A a \in Seq(Int) : ~St!Before(a, a)
  /\ \A a, b, c \in Seq(Int) : St!Before(a, b) /\ St!Before(b, c) => St!Before(a, c)
  /\ \A a, b \in Seq(Int) : a # b => St!Before(a, b) \/ St!Before(b, a)
<1>1. ASSUME NEW a \in Seq(Int) PROVE ~St!Before(a, a)
  BY DEF St!Before
<1>2. ASSUME NEW a \in Seq(Int), NEW b \in Seq(Int), NEW c \in Seq(Int), St!Before(a, b), St!Before(b, c)
      PROVE  St!Before(a, c)
  <2>0. Len(a) \in Nat /\ Len(b) \in Nat /\ Len(c) \in Nat
    OBVIOUS
  <2>1. PICK n \in 0..Len(a) : n < Len(b) /\ (\A i \in 1..n : a[i] = b[i])
                               /\ (n = Len(a) \/ a[n + 1] < b[n + 1])
    BY <1>2 DEF St!Before
  <2>2. PICK m \in 0..Len(b) : m < Len(c) /\ (\A i \in 1..m : b[i] = c[i])
                               /\ (m = Len(b) \/ b[m + 1] < c[m + 1])
    BY <1>2 DEF St!Before
  <2>3. CASE n <= m
    <3>0. n < Len(c) /\ n \in 0..Len(a) /\ \A i \in 1..n : i \in 1..m
      BY <2>0, <2>1, <2>2, <2>3
    <3>1. n < Len(c) /\ \A i \in 1..n : a[i] = c[i]
      BY <2>1, <2>2, <3>0
    <3>2. n = Len(a) \/ a[n + 1] < c[n + 1]
      <4> SUFFICES ASSUME n # Len(a) PROVE a[n + 1] < c[n + 1]
        OBVIOUS
      <4>0. n \in Int /\ 0 <= n /\ n <= Len(a) /\ n # Len(a) /\ n < Len(b) /\ n < Len(c)
        BY <2>0, <2>1, <3>0
      <4>1. n + 1 \in 1..Len(a) /\ n + 1 \in 1..Len(b) /\ n + 1 \in 1..Len(c)
        BY <2>0, <4>0
      <4>2. a[n + 1] \in Int /\ b[n + 1] \in Int /\ c[n + 1] \in Int
        BY <4>1
      <4>3. a[n + 1] < b[n + 1]
        BY <2>1
      <4>4. CASE n = m
        <5>1. b[n + 1] < c[n + 1]
          BY <2>0, <2>1, <2>2, <4>4
        <5>2. \A x, y, z \in Int : x < y /\ y < z => x < z
          OBVIOUS
        <5> QED BY <4>2, <4>3, <5>1, <5>2
      <4>5. CASE n < m
        <5>1. n + 1 \in 1..m
          BY <2>0, <2>1, <2>2, <4>5
        <5> QED BY <2>2, <4>3, <5>1
      <4>6. n = m \/ n < m
        BY <2>0, <2>1, <2>2, <2>3
      <4> QED BY <4>4, <4>5, <4>6
    <3> QED BY <3>0, <3>1, <3>2 DEF St!Before
  <2>4. CASE m < n
    <3>1. /\ m \in 0..Len(a) /\ m < Len(c) /\ m < Len(b) /\ m + 1 \in 1..n
          /\ m + 1 \in 1..Len(b)
      <4>1. n \in 0..Len(a) /\ n < Len(b) /\ m \in 0..Len(b) /\ m < Len(c)
        BY <2>1, <2>2
      <4> QED BY <2>0, <2>4, <4>1
    <3>2. \A i \in 1..m : i \in 1..n /\ a[i] = c[i]
      <4>1. \A i \in 1..m : i \in 1..n
        BY <2>1, <2>2, <2>4
      <4> QED BY <2>1, <2>2, <4>1
    <3>3. m # Len(b)
      BY <2>0, <2>1, <2>4, <3>1
    <3>4. a[m + 1] = b[m + 1] /\ b[m + 1] < c[m + 1]
      BY <2>1, <2>2, <3>1, <3>3
    <3> QED BY <3>1, <3>2, <3>4 DEF St!Before
  <2> QED BY <2>0, <2>1, <2>2, <2>3, <2>4
<1>3. ASSUME NEW a \in Seq(Int), NEW b \in Seq(Int), a # b PROVE St!Before(a, b) \/ St!Before(b, a)
  <2>0. Len(a) \in Nat /\ Len(b) \in Nat /\ DOMAIN a = 1..Len(a) /\ DOMAIN b = 1..Len(b)
        /\ (\A i \in 1..Len(a) : a[i] \in Int) /\ (\A i \in 1..Len(b) : b[i] \in Int)
    OBVIOUS
  <2> DEFINE Differ == {i \in Nat : i \in 1..Len(a) /\ i \in 1..Len(b) /\ a[i] # b[i]}
  <2>1. CASE Differ = {}
    <3>1. \A i : i \in 1..Len(a) /\ i \in 1..Len(b) => a[i] = b[i]
      BY <2>0, <2>1
    <3>2. ASSUME Len(a) = Len(b) PROVE FALSE
      <4>1. \A i \in 1..Len(a) : a[i] = b[i]
        BY <3>1, <3>2
      <4> QED BY <1>3, <2>0, <3>2, <4>1, SeqEqual
    <3>3. CASE Len(a) < Len(b)
      <4>1. Len(a) \in 0..Len(a) /\ \A i \in 1..Len(a) : a[i] = b[i]
        BY <2>0, <3>1, <3>3
      <4> QED BY <3>3, <4>1 DEF St!Before
    <3>4. CASE Len(b) < Len(a)
      <4>2. \A i \in 1..Len(b) : i \in 1..Len(a)
        BY <2>0, <3>4
      <4>1. Len(b) \in 0..Len(b) /\ \A i \in 1..Len(b) : b[i] = a[i]
        BY <2>0, <3>1, <4>2
      <4> QED BY <3>4, <4>1 DEF St!Before
    <3>5. Len(a) < Len(b) \/ Len(b) < Len(a)
      <4> DEFINE m == Len(a)
                 n == Len(b)
      <4>0. m \in Nat /\ n \in Nat
        OBVIOUS
      <4>1. m # n
        BY Zenon, <3>2
      <4> HIDE DEF m, n
      <4>2. m < n \/ n < m
        BY <4>0, <4>1
      <4> QED BY <4>2 DEF m, n
    <3> QED BY <3>3, <3>4, <3>5
  <2>2. CASE Differ # {}
    <3>1. PICK k \in Differ : \A i \in Differ : k <= i
      <4>1. PICK d \in Differ : TRUE
        BY <2>2
      <4>2. Differ \in SUBSET Nat
        OBVIOUS
      <4> HIDE DEF Differ
      <4> QED BY <4>1, <4>2, SmallestInNat
    <3>2. k \in Nat /\ k \in 1..Len(a) /\ k \in 1..Len(b) /\ a[k] # b[k] /\ a[k] \in Int /\ b[k] \in Int
      BY <2>0, <3>1
    <3>3. \A i \in 1..(k - 1) : a[i] = b[i]
      <4> TAKE i \in 1..(k - 1)
      <4>1. i \in Nat /\ i \in 1..Len(a) /\ i \in 1..Len(b) /\ ~(k <= i)
        BY <2>0, <3>2
      <4> QED BY <3>1, <4>1
    <3>4. /\ k - 1 \in 0..Len(a) /\ k - 1 \in 0..Len(b) /\ k - 1 < Len(a) /\ k - 1 < Len(b)
          /\ k - 1 + 1 = k
      BY <2>0, <3>2
    <3>5. a[k] < b[k] => St!Before(a, b)
      BY <3>3, <3>4 DEF St!Before
    <3>6. b[k] < a[k] => St!Before(b, a)
      <4>1. \A i \in 1..(k - 1) : b[i] = a[i]
        BY <3>3
      <4> QED BY <3>4, <4>1 DEF St!Before
    <3> QED BY <3>2, <3>5, <3>6
  <2> QED BY <2>1, <2>2
<1> QED BY <1>1, <1>2, <1>3

\* Instants have texts of their own.
LEMMA Digits ==
  ASSUME NEW B \in Nat \ {0}, NEW a \in Nat, NEW b \in Nat, a \div B = b \div B, a % B = b % B
  PROVE  a = b
OBVIOUS

LEMMA Seconds ==
  ASSUME NEW B \in Nat \ {0}, NEW a \in Nat
  PROVE  /\ a \div (B * B) = (a \div B) \div B
         /\ a \div B \in Nat /\ a % B \in Nat
OBVIOUS

LEMMA TextsDiffer ==
  ASSUME Stocked
  PROVE  /\ \A t \in Nat : St!Text(t) \in Seq(Int)
         /\ \A t, u \in Nat : St!Text(t) = St!Text(u) => t = u
<1> DEFINE s(t) == t \div (Base * Base)
           x(t) == (t \div Base) % Base
           y(t) == t % Base
<1>1. St!Z \in Int /\ St!Dot \in Int /\ Base \in Nat \ {0}
  BY DEF St!Z, St!Dot, Stocked
<1>2. ASSUME NEW t \in Nat
      PROVE  s(t) \in Int /\ x(t) \in Int /\ y(t) \in Int
  <2>1. t \div Base \in Nat /\ y(t) \in Nat /\ s(t) = (t \div Base) \div Base
    BY <1>1, Seconds
  <2>2. (t \div Base) \div Base \in Nat /\ x(t) \in Nat
    BY <1>1, <2>1, Seconds
  <2> QED BY <2>1, <2>2
<1>3. ASSUME NEW t \in Nat, NEW u \in Nat, s(t) = s(u), x(t) = x(u), y(t) = y(u) PROVE t = u
  <2>1. /\ t \div Base \in Nat /\ u \div Base \in Nat
        /\ (t \div Base) \div Base = (u \div Base) \div Base
    BY <1>1, <1>3, Seconds
  <2>2. t \div Base = u \div Base
    BY <1>1, <1>3, <2>1, Digits
  <2> QED BY <1>1, <1>3, <2>2, Digits
<1>4. \A t \in Nat : St!Text(t) = IF y(t) # 0 THEN <<s(t), St!Dot, x(t), y(t), St!Z>>
                               ELSE IF x(t) # 0 THEN <<s(t), St!Dot, x(t), St!Z>> ELSE <<s(t), St!Z>>
  BY DEF St!Text
<1> HIDE DEF s, x, y
<1>5. ASSUME NEW t \in Nat PROVE St!Text(t) \in Seq(Int)
  <2>0. s(t) \in Int /\ x(t) \in Int /\ y(t) \in Int
    BY <1>2
  <2>1. <<s(t), St!Dot, x(t), y(t), St!Z>> \in Seq(Int)
    BY <1>1, <2>0
  <2>2. <<s(t), St!Dot, x(t), St!Z>> \in Seq(Int)
    BY <1>1, <2>0
  <2>3. <<s(t), St!Z>> \in Seq(Int)
    BY <1>1, <2>0
  <2> QED BY <1>4, <2>1, <2>2, <2>3
<1>6. ASSUME NEW t \in Nat
      PROVE  /\ y(t) # 0 => St!Text(t) = <<s(t), St!Dot, x(t), y(t), St!Z>> /\ Len(St!Text(t)) = 5
             /\ y(t) = 0 /\ x(t) # 0 => St!Text(t) = <<s(t), St!Dot, x(t), St!Z>> /\ Len(St!Text(t)) = 4
             /\ y(t) = 0 /\ x(t) = 0 => St!Text(t) = <<s(t), St!Z>> /\ Len(St!Text(t)) = 2
  BY <1>4
<1>7. ASSUME NEW t \in Nat, NEW u \in Nat, St!Text(t) = St!Text(u) PROVE t = u
  <2>1. CASE y(t) # 0
    <3>1. y(u) # 0
      BY <1>6, <1>7, <2>1
    <3>2. <<s(t), St!Dot, x(t), y(t), St!Z>> = <<s(u), St!Dot, x(u), y(u), St!Z>>
      BY <1>6, <1>7, <2>1, <3>1
    <3> QED BY <1>3, <3>2
  <2>2. CASE y(t) = 0 /\ x(t) # 0
    <3>1. y(u) = 0 /\ x(u) # 0
      BY <1>6, <1>7, <2>2
    <3>2. <<s(t), St!Dot, x(t), St!Z>> = <<s(u), St!Dot, x(u), St!Z>>
      BY <1>6, <1>7, <2>2, <3>1
    <3> QED BY <1>3, <2>2, <3>1, <3>2
  <2>3. CASE y(t) = 0 /\ x(t) = 0
    <3>1. y(u) = 0 /\ x(u) = 0
      BY <1>6, <1>7, <2>3
    <3>2. <<s(t), St!Z>> = <<s(u), St!Z>>
      BY <1>6, <1>7, <2>3, <3>1
    <3> QED BY <1>3, <2>3, <3>1, <3>2
  <2> QED BY <2>1, <2>2, <2>3
<1> QED BY <1>5, <1>7

Snapshot == [id : Nat, content : Contents, at : Nat, by : {"app", "cli"}, crossed : BOOLEAN]
Single(S) == \A r, s \in S : r.id = s.id => r = s

\* The order of the rows is strict and total.
LEMMA LaterOrders ==
  ASSUME Stocked, NEW S \in SUBSET Snapshot, Single(S)
  PROVE  /\ \A r \in S : ~St!Later(r, r)
         /\ \A q, r, s \in S : St!Later(q, r) /\ St!Later(r, s) => St!Later(q, s)
         /\ \A r, s \in S : r # s => St!Later(r, s) \/ St!Later(s, r)
<1>1. \A r \in S : r.id \in Nat /\ r.at \in Nat /\ St!Text(r.at) \in Seq(Int)
  BY TextsDiffer DEF Snapshot
<1>2. ASSUME NEW r \in S PROVE ~St!Later(r, r)
  <2>1. ~St!Before(St!Text(r.at), St!Text(r.at)) /\ r.id \in Nat
    BY <1>1, BeforeOrders
  <2> QED BY <2>1 DEF St!Later
<1>3. ASSUME NEW q \in S, NEW r \in S, NEW s \in S, St!Later(q, r), St!Later(r, s)
      PROVE  St!Later(q, s)
  <2>1. /\ St!Before(St!Text(r.at), St!Text(q.at)) \/ (q.at = r.at /\ q.id > r.id)
        /\ St!Before(St!Text(s.at), St!Text(r.at)) \/ (r.at = s.at /\ r.id > s.id)
    BY <1>3 DEF St!Later
  <2>2. St!Before(St!Text(r.at), St!Text(q.at)) /\ St!Before(St!Text(s.at), St!Text(r.at))
          => St!Before(St!Text(s.at), St!Text(q.at))
    BY <1>1, BeforeOrders
  <2>3. q.id \in Nat /\ r.id \in Nat /\ s.id \in Nat
    BY <1>1
  <2>4. q.id > r.id /\ r.id > s.id => q.id > s.id
    BY <2>3
  <2> QED BY <2>1, <2>2, <2>4 DEF St!Later
<1>4. ASSUME NEW r \in S, NEW s \in S, r # s PROVE St!Later(r, s) \/ St!Later(s, r)
  <2>1. CASE r.at = s.at
    <3>1. r.id # s.id
      BY <1>4 DEF Single
    <3>2. r.id > s.id \/ s.id > r.id
      BY <1>1, <3>1
    <3> QED BY <2>1, <3>2 DEF St!Later
  <2>2. CASE r.at # s.at
    <3>1. St!Text(r.at) # St!Text(s.at)
      BY <1>1, <2>2, TextsDiffer
    <3>2. St!Before(St!Text(r.at), St!Text(s.at)) \/ St!Before(St!Text(s.at), St!Text(r.at))
      BY <1>1, <3>1, BeforeOrders
    <3> QED BY <3>2 DEF St!Later
  <2> QED BY <2>1, <2>2
<1> QED BY <1>2, <1>3, <1>4

\* Of finitely many rows one is the latest: the one later than most.
LEMMA LatestOf ==
  ASSUME Stocked, NEW S \in SUBSET Snapshot, Single(S), IsFiniteSet(S), S # {}
  PROVE  \E r \in S : \A s \in S \ {r} : St!Later(r, s)
<1> DEFINE Earlier(r) == {s \in S : St!Later(r, s)}
           n == Cardinality(S)
           Left == {k \in Nat : \E r \in S : k = n - Cardinality(Earlier(r))}
<1>1. \A r \in S : /\ IsFiniteSet(Earlier(r)) /\ Cardinality(Earlier(r)) \in Nat
                   /\ n \in Nat /\ Cardinality(Earlier(r)) <= n
  <2> TAKE r \in S
  <2>1. Earlier(r) \in SUBSET S
    OBVIOUS
  <2> HIDE DEF Earlier
  <2> QED BY <2>1, FS_Subset, FS_CardinalityType
<1>2. ASSUME NEW r \in S, NEW s \in S, St!Later(s, r)
      PROVE  Cardinality(Earlier(r)) < Cardinality(Earlier(s))
  <2>1. r \notin Earlier(r) /\ Earlier(r) \cup {r} \in SUBSET Earlier(s)
    BY <1>2, LaterOrders
  <2> HIDE DEF Earlier
  <2>2. Cardinality(Earlier(r) \cup {r}) = Cardinality(Earlier(r)) + 1
    BY <1>1, <2>1, FS_AddElement
  <2>3. Cardinality(Earlier(r) \cup {r}) <= Cardinality(Earlier(s))
    BY <1>1, <2>1, FS_Subset
  <2> QED BY <1>1, <2>2, <2>3
<1>3. \A r \in S : n - Cardinality(Earlier(r)) \in Nat
  <2> HIDE DEF Earlier, n
  <2> QED BY <1>1
<1>4. PICK k \in Left : \A i \in Left : k <= i
  <2>1. PICK r \in S : TRUE
    OBVIOUS
  <2>2. n - Cardinality(Earlier(r)) \in Nat
    BY <1>3
  <2>3. n - Cardinality(Earlier(r)) \in Left
    BY <2>2
  <2>4. Left \in SUBSET Nat
    OBVIOUS
  <2> HIDE DEF Left
  <2> QED BY <2>3, <2>4, SmallestInNat
<1>5. PICK r \in S : k = n - Cardinality(Earlier(r))
  BY <1>4
<1>6. ASSUME NEW s \in S, s # r PROVE St!Later(r, s)
  <2> SUFFICES ASSUME ~St!Later(r, s) PROVE FALSE
    OBVIOUS
  <2>1. St!Later(s, r)
    BY <1>6, LaterOrders
  <2>2. Cardinality(Earlier(r)) < Cardinality(Earlier(s))
    BY <1>2, <2>1
  <2>3. n - Cardinality(Earlier(s)) \in Nat
    BY <1>3
  <2>4. k <= n - Cardinality(Earlier(s))
    BY <1>4, <2>3
  <2> HIDE DEF Earlier, n
  <2> QED BY <1>1, <1>5, <2>2, <2>4
<1> QED BY <1>6

-----------------------------------------------------------------------------
(* Store: the invariant.                                                   *)

StoredJobs == {k \in Takers : taker[k].at = "stored"}

\* Rows are told apart by their ids, given in order, and none is of a time to come.
RowsHold ==
  /\ IsFiniteSet(snapshots) /\ Single(snapshots)
  /\ \A r \in snapshots :
       r.id <= Cardinality(StoredJobs) /\ r.at <= clock /\ r.content \notin Unread
  /\ snapshots # {} => server.saved

\* What a job, r, knows of the rows at its place: what one that no other
\* crossed was measured against is the latest still.
TakerHolds(r) ==
  /\ r.time <= clock /\ r.deletes <= server.deletes
  /\ r.at # "no" => r.content # St!None
  /\ r.at \in {"taken", "compared"} /\ ~r.crossed => \A q \in snapshots : q.at <= r.time
  /\ r.at = "compared" /\ ~r.crossed =>
       \A q \in snapshots : (\A s \in snapshots \ {q} : St!Later(q, s)) => q.content # r.content

TakersHold == \A j \in Takers : TakerHolds(taker[j])

Disorder == \E p, q \in snapshots : p.at > q.at /\ St!Later(q, p)

KeptContent ==
  \A j \in Takers : taker[j].at \in {"same", "stored"} /\ taker[j].deletes = server.deletes =>
    \E r \in snapshots : r.content = taker[j].content

Neighbours ==
  \A r, s \in snapshots : St!Follows(r, s) /\ r.content = s.content =>
    \/ "cli" \in {r.by, s.by} \/ r.crossed \/ s.crossed
    \/ Disorder

StoreInv == St!TypeOK /\ RowsHold /\ TakersHold /\ KeptContent /\ Neighbours

LEMMA StoreInvSound == ASSUME StoreInv PROVE St!StoreSound
BY DEF StoreInv, St!StoreSound, RowsHold, KeptContent, Neighbours, Disorder

\* The rows are counted as the sets of this module.
LEMMA StoreSame ==
  ASSUME NEW S PROVE St!Cardinality(S) = Cardinality(S)
BY Zenon DEF Cardinality, St!Cardinality

LEMMA RowsTyped ==
  ASSUME Stocked, St!TypeOK
  PROVE  snapshots \in SUBSET Snapshot
<1>1. Cardinality(Takers) \in Nat
  BY FS_CardinalityType DEF Stocked
<1>2. St!Times \subseteq Nat /\ 1..Cardinality(Takers) \subseteq Nat
  BY <1>1 DEF St!Times, Stocked
<1> QED BY <1>2, StoreSame DEF St!TypeOK, Snapshot

LEMMA StoreInit == ASSUME Stocked, St!Init PROVE StoreInv
<1>1. 0 \in St!Times /\ snapshots = {} /\ IsFiniteSet({}) /\ server.deletes = 0 /\ clock = 0
  BY FS_EmptySet DEF St!Init, St!Times, Stocked
<1>2. St!TypeOK
  BY <1>1 DEF St!Init, St!TypeOK
<1>3. RowsHold
  BY <1>1 DEF RowsHold, Single
<1>4. TakersHold
  BY <1>1 DEF St!Init, TakersHold, TakerHolds
<1>5. KeptContent /\ Neighbours
  BY <1>1 DEF St!Init, KeptContent, Neighbours
<1> QED BY <1>2, <1>3, <1>4, <1>5 DEF StoreInv

\* Neighbours says nothing of anything but the rows.
LEMMA SameRows ==
  ASSUME Neighbours, UNCHANGED snapshots
  PROVE  Neighbours'
BY DEF Neighbours, St!Follows, St!Later, Disorder

LEMMA Ticks == ASSUME Stocked, StoreInv, St!Tick PROVE StoreInv'
<1>1. UNCHANGED <<server, snapshots, taker>> /\ clock' = clock + 1 /\ clock < MaxTime
  BY DEF St!Tick
<1>2. /\ clock \in Nat /\ clock' \in St!Times /\ clock <= clock' /\ clock' \in Nat
      /\ \A r \in snapshots : r.at \in Nat
      /\ \A j \in Takers : taker[j].time \in Nat
  BY <1>1, RowsTyped DEF StoreInv, St!TypeOK, St!Times, Stocked, Snapshot
<1>3. St!TypeOK'
  BY <1>1, <1>2 DEF StoreInv, St!TypeOK
<1>4. RowsHold'
  <2>1. \A r \in snapshots : r.at <= clock'
    BY <1>2 DEF StoreInv, RowsHold
  <2> QED BY <1>1, <2>1 DEF StoreInv, RowsHold, Single, StoredJobs
<1>5. TakersHold'
  <2>1. \A j \in Takers : taker[j].time <= clock'
    BY <1>2 DEF StoreInv, TakersHold, TakerHolds
  <2> QED BY <1>1, <2>1 DEF StoreInv, TakersHold, TakerHolds, St!Later
<1>6. KeptContent' /\ Neighbours'
  BY <1>1, SameRows DEF StoreInv, KeptContent
<1> QED BY <1>3, <1>4, <1>5, <1>6 DEF StoreInv

TakerRecord == [at : {"no", "taken", "found", "saved", "compared", "stored", "same", "refused",
                    "failed"},
              by : {"app", "cli"}, content : Contents \cup {St!None}, time : St!Times,
              crossed : BOOLEAN, deletes : 0..1]

\* A step of one job that writes no row.
LEMMA TakerMoves ==
  ASSUME StoreInv, NEW j \in Takers, NEW r \in TakerRecord, taker' = [taker EXCEPT ![j] = r],
         taker[j].at # "stored", r.at # "stored", UNCHANGED <<snapshots, clock>>,
         server' \in [saved : BOOLEAN, deletes : 0..1], server'.deletes = server.deletes,
         server.saved => server'.saved, TakerHolds(r),
         r.at = "same" => \E q \in snapshots : q.content = r.content
  PROVE  StoreInv'
<1>1. taker'[j] = r /\ \A k \in Takers \ {j} : taker'[k] = taker[k]
  BY DEF StoreInv, St!TypeOK
<1>2. St!TypeOK'
  BY DEF StoreInv, St!TypeOK, TakerRecord
<1>3. RowsHold' /\ Neighbours'
  <2>1. StoredJobs' = StoredJobs
    BY <1>1 DEF StoredJobs
  <2> QED BY <2>1, SameRows DEF StoreInv, RowsHold, Single
<1>4. TakersHold'
  <2>1. \A k \in Takers : TakerHolds(taker'[k])
    BY <1>1 DEF StoreInv, TakersHold
  <2> QED BY <2>1 DEF TakersHold, TakerHolds, St!Later
<1>5. KeptContent'
  BY <1>1 DEF StoreInv, KeptContent
<1> QED BY <1>2, <1>3, <1>4, <1>5 DEF StoreInv

LEMMA TakerTyped ==
  ASSUME St!TypeOK, NEW j \in Takers
  PROVE  taker \in [Takers -> TakerRecord] /\ taker[j] \in TakerRecord
BY DEF St!TypeOK, TakerRecord

LEMMA Takes == ASSUME Stocked, StoreInv, NEW j \in Takers, St!Take(j) PROVE StoreInv'
<1>1. PICK by \in {"app", "cli"}, c \in Contents :
        taker' = [taker EXCEPT ![j] = [@ EXCEPT !.at = "taken", !.by = by, !.content = c,
                                            !.time = clock, !.deletes = server.deletes]]
  BY DEF St!Take
<1> DEFINE r == [taker[j] EXCEPT !.at = "taken", !.by = by, !.content = c,
                               !.time = clock, !.deletes = server.deletes]
<1>2. UNCHANGED <<server, snapshots, clock>> /\ taker[j].at = "no"
  BY DEF St!Take
<1>3. /\ clock \in St!Times /\ server.deletes \in 0..1 /\ c # St!None
      /\ server \in [saved : BOOLEAN, deletes : 0..1]
  BY DEF StoreInv, St!TypeOK, Stocked
<1>4. /\ r \in TakerRecord /\ r.at = "taken" /\ r.content = c /\ r.time = clock
      /\ r.deletes = server.deletes
  BY <1>3, TakerTyped DEF TakerRecord, StoreInv
<1>5. taker' = [taker EXCEPT ![j] = r]
  BY <1>1
<1> HIDE DEF r
<1>6. TakerHolds(r)
  <2>1. clock \in Nat /\ server.deletes \in Nat
    BY <1>3 DEF St!Times, Stocked
  <2> QED BY <1>3, <1>4, <2>1 DEF TakerHolds, StoreInv, RowsHold
<1> QED BY <1>2, <1>3, <1>4, <1>5, <1>6, TakerMoves

LEMMA Finds == ASSUME Stocked, StoreInv, NEW j \in Takers, St!CliFinds(j) PROVE StoreInv'
<1> DEFINE r == [taker[j] EXCEPT !.at = IF server.saved THEN "saved" ELSE "found",
                               !.deletes = server.deletes]
<1>1. UNCHANGED <<server, snapshots, clock>> /\ taker[j].at = "taken"
  BY DEF St!CliFinds
<1>2. server.deletes \in 0..1 /\ server \in [saved : BOOLEAN, deletes : 0..1]
  BY DEF StoreInv, St!TypeOK
<1>3. /\ r \in TakerRecord /\ r.at \in {"saved", "found"} /\ r.content = taker[j].content
      /\ r.time = taker[j].time /\ r.deletes = server.deletes
  BY <1>2, TakerTyped DEF TakerRecord, StoreInv
<1>4. taker' = [taker EXCEPT ![j] = r]
  BY TakerTyped DEF St!CliFinds, StoreInv, TakerRecord
<1> HIDE DEF r
<1>5. TakerHolds(r)
  BY <1>1, <1>2, <1>3 DEF StoreInv, TakersHold, TakerHolds
<1> QED BY <1>1, <1>2, <1>3, <1>4, <1>5, TakerMoves

LEMMA AddsServer == ASSUME Stocked, StoreInv, NEW j \in Takers, St!CliAdds(j) PROVE StoreInv'
<1> DEFINE r == [taker[j] EXCEPT !.at = IF server.saved THEN "failed" ELSE "saved",
                               !.deletes = server.deletes]
<1>1. /\ UNCHANGED <<snapshots, clock>> /\ taker[j].at = "found"
      /\ server' \in [saved : BOOLEAN, deletes : 0..1]
      /\ server'.saved = TRUE /\ server'.deletes = server.deletes
  BY DEF St!CliAdds, StoreInv, St!TypeOK
<1>2. server.deletes \in 0..1
  BY DEF StoreInv, St!TypeOK
<1>3. /\ r \in TakerRecord /\ r.at \in {"saved", "failed"} /\ r.content = taker[j].content
      /\ r.time = taker[j].time /\ r.deletes = server.deletes
  BY <1>2, TakerTyped DEF TakerRecord, StoreInv
<1>4. taker' = [taker EXCEPT ![j] = r]
  BY TakerTyped DEF St!CliAdds, StoreInv, TakerRecord
<1> HIDE DEF r
<1>5. TakerHolds(r)
  BY <1>1, <1>2, <1>3 DEF StoreInv, TakersHold, TakerHolds
<1> QED BY <1>1, <1>3, <1>4, <1>5, TakerMoves

\* What the diff is measured against is the latest row there is.
LEMMA Compares == ASSUME Stocked, StoreInv, NEW j \in Takers, St!AppCompares(j) PROVE StoreInv'
<1> DEFINE previous == IF snapshots = {} THEN St!None ELSE St!Latest.content
           r == [taker[j] EXCEPT !.at = IF previous = taker[j].content THEN "same" ELSE "compared"]
<1>1. UNCHANGED <<server, snapshots, clock>> /\ taker[j].at = "taken"
  BY DEF St!AppCompares
<1>2. /\ r \in TakerRecord /\ r.content = taker[j].content /\ r.time = taker[j].time
      /\ r.deletes = taker[j].deletes /\ r.crossed = taker[j].crossed
      /\ r.at = IF previous = taker[j].content THEN "same" ELSE "compared"
  BY TakerTyped DEF TakerRecord, StoreInv
<1>3. taker' = [taker EXCEPT ![j] = r]
  BY TakerTyped DEF St!AppCompares, StoreInv, TakerRecord
<1>4. server \in [saved : BOOLEAN, deletes : 0..1] /\ taker[j].content # St!None
  BY <1>1 DEF StoreInv, St!TypeOK, TakersHold, TakerHolds
<1>5. ASSUME snapshots # {}
      PROVE  /\ St!Latest \in snapshots
             /\ \A q \in snapshots : (\A s \in snapshots \ {q} : St!Later(q, s)) => q = St!Latest
  <2>1. \E q \in snapshots : \A s \in snapshots \ {q} : St!Later(q, s)
    BY <1>5, RowsTyped, LatestOf DEF StoreInv, RowsHold
  <2>2. St!Latest \in snapshots /\ \A s \in snapshots \ {St!Latest} : St!Later(St!Latest, s)
    BY <2>1 DEF St!Latest
  <2>3. ASSUME NEW q \in snapshots, \A s \in snapshots \ {q} : St!Later(q, s), q # St!Latest
        PROVE  FALSE
    <3>1. St!Later(q, St!Latest) /\ St!Later(St!Latest, q)
      BY <2>2, <2>3
    <3>2. ~St!Later(q, q) /\ (St!Later(q, St!Latest) /\ St!Later(St!Latest, q) => St!Later(q, q))
      BY <2>2, RowsTyped, LaterOrders DEF StoreInv, RowsHold
    <3> QED BY <3>1, <3>2
  <2> QED BY <2>2, <2>3
<1>6. r.at = "same" => \E q \in snapshots : q.content = r.content
  BY <1>2, <1>4, <1>5
<1>7. r.at = "compared" =>
        \A q \in snapshots : (\A s \in snapshots \ {q} : St!Later(q, s)) => q.content # r.content
  BY <1>2, <1>5
<1>8. r.at \in {"same", "compared"}
  BY <1>2
<1> HIDE DEF r
<1>9. TakerHolds(r)
  BY <1>1, <1>2, <1>7, <1>8 DEF StoreInv, TakersHold, TakerHolds
<1> QED BY <1>1, <1>2, <1>3, <1>4, <1>6, <1>8, <1>9, TakerMoves

LEMMA Deletes == ASSUME Stocked, StoreInv, St!DeleteServer PROVE StoreInv'
<1>1. /\ UNCHANGED <<clock, taker>> /\ snapshots' = {} /\ server' = [saved |-> FALSE, deletes |-> 1]
      /\ server.deletes = 0
  BY DEF St!DeleteServer
<1>2. St!TypeOK'
  BY <1>1 DEF StoreInv, St!TypeOK
<1>3. RowsHold' /\ Neighbours'
  BY <1>1, FS_EmptySet DEF RowsHold, Single, Neighbours
<1>4. \A j \in Takers : taker[j].deletes \in Nat /\ taker[j].deletes <= 0
  BY <1>1 DEF StoreInv, TakersHold, TakerHolds, St!TypeOK
<1>5. TakersHold'
  BY <1>1, <1>4 DEF StoreInv, TakersHold, TakerHolds
<1>6. KeptContent'
  BY <1>1, <1>4 DEF KeptContent
<1> QED BY <1>2, <1>3, <1>5, <1>6 DEF StoreInv

LEMMA StoresNothing ==
  ASSUME Stocked, StoreInv, NEW j \in Takers, taker[j].at \in {"compared", "saved"},
         NEW p \in {"refused", "failed"}, taker' = [taker EXCEPT ![j].at = p],
         UNCHANGED <<server, snapshots, clock>>
  PROVE  StoreInv'
<1> DEFINE r == [taker[j] EXCEPT !.at = p]
<1>1. /\ r \in TakerRecord /\ r.at = p /\ r.content = taker[j].content /\ r.time = taker[j].time
      /\ r.deletes = taker[j].deletes
  BY TakerTyped DEF TakerRecord, StoreInv
<1>2. taker' = [taker EXCEPT ![j] = r]
  BY TakerTyped DEF StoreInv, TakerRecord
<1>3. server \in [saved : BOOLEAN, deletes : 0..1]
  BY DEF StoreInv, St!TypeOK
<1> HIDE DEF r
<1>4. TakerHolds(r)
  BY <1>1 DEF StoreInv, TakersHold, TakerHolds
<1> QED BY <1>1, <1>2, <1>3, <1>4, TakerMoves

\* What Store writes.
NewRow(j) == [id |-> Cardinality(StoredJobs) + 1, content |-> taker[j].content,
              at |-> taker[j].time, by |-> taker[j].by, crossed |-> taker[j].crossed]
StoredBy(j) ==
  [k \in Takers |->
     IF k = j THEN [taker[k] EXCEPT !.at = "stored", !.time = 0, !.by = "app", !.crossed = FALSE]
     ELSE [taker[k] EXCEPT !.crossed = @ \/ taker[k].at \in {"taken", "compared"}]]

\* A row is added: its neighbours are what it was compared with, and others that
\* sort by their times, or a job crossed it.
LEMMA AddsRow ==
  ASSUME Stocked, StoreInv, NEW j \in Takers,
         taker[j].at = IF taker[j].by = "app" THEN "compared" ELSE "saved",
         St!Kept(taker[j].content), server.saved, server.deletes = taker[j].deletes,
         UNCHANGED <<server, clock>>,
         NEW x, x = NewRow(j), snapshots' = snapshots \cup {x}, taker' = StoredBy(j)
  PROVE  StoreInv'
<1>1. /\ taker[j] \in TakerRecord /\ taker[j].at # "stored" /\ taker[j].content # St!None
      /\ taker[j].content \in Contents /\ taker[j].time \in St!Times
      /\ taker[j].time <= clock /\ clock \in Nat /\ taker[j].time \in Nat /\ 0 \in St!Times
      /\ server \in [saved : BOOLEAN, deletes : 0..1]
  <2>1. taker[j] \in TakerRecord
    BY TakerTyped DEF StoreInv
  <2>2. TakerHolds(taker[j]) /\ taker[j].at \in {"compared", "saved"}
    BY DEF StoreInv, TakersHold
  <2>3. taker[j].content # St!None /\ taker[j].time <= clock
    BY <2>2 DEF TakerHolds
  <2>4. taker[j].content \in Contents /\ taker[j].time \in St!Times
    BY <2>1, <2>3 DEF TakerRecord
  <2>5. clock \in St!Times /\ server \in [saved : BOOLEAN, deletes : 0..1]
    BY DEF StoreInv, St!TypeOK
  <2>6. St!Times \subseteq Nat /\ 0 \in St!Times
    BY DEF St!Times, Stocked
  <2> QED BY <2>1, <2>2, <2>3, <2>4, <2>5, <2>6
<1>2. /\ taker'[j] \in TakerRecord /\ taker'[j].at = "stored" /\ taker'[j].time = 0
      /\ taker'[j].content = taker[j].content /\ taker'[j].deletes = taker[j].deletes
  BY <1>1 DEF TakerRecord, StoredBy
<1>3. ASSUME NEW k \in Takers \ {j}
      PROVE  /\ taker'[k] \in TakerRecord /\ taker'[k].at = taker[k].at /\ taker'[k].time = taker[k].time
             /\ taker'[k].content = taker[k].content /\ taker'[k].deletes = taker[k].deletes
             /\ taker[k].at \in {"taken", "compared"} => taker'[k].crossed
  <2>1. taker[k] \in TakerRecord
    BY TakerTyped DEF StoreInv
  <2> QED BY <2>1 DEF TakerRecord, StoredBy
<1>4. /\ StoredJobs' = StoredJobs \cup {j} /\ j \notin StoredJobs
      /\ StoredJobs \in SUBSET Takers /\ StoredJobs' \in SUBSET Takers
  BY <1>1, <1>2, <1>3 DEF StoredJobs
<1>5. /\ Cardinality(StoredJobs) \in Nat
      /\ Cardinality(StoredJobs') = Cardinality(StoredJobs) + 1
      /\ Cardinality(StoredJobs') <= Cardinality(Takers) /\ Cardinality(Takers) \in Nat
  <2>1. IsFiniteSet(Takers)
    BY DEF Stocked
  <2>2. IsFiniteSet(StoredJobs)
    BY <1>4, <2>1, FS_Subset
  <2>3. Cardinality(StoredJobs') <= Cardinality(Takers)
    BY <1>4, <2>1, FS_Subset
  <2> QED BY <1>4, <2>1, <2>2, <2>3, FS_AddElement, FS_CardinalityType
<1>6. /\ x.id = Cardinality(StoredJobs) + 1 /\ x.content = taker[j].content
      /\ x.at = taker[j].time /\ x.by = taker[j].by /\ x.crossed = taker[j].crossed
      /\ x \in [id : 1..Cardinality(Takers), content : Contents, at : St!Times,
                by : {"app", "cli"}, crossed : BOOLEAN]
  <2>1. /\ x.id = Cardinality(StoredJobs) + 1 /\ x.content = taker[j].content
        /\ x.at = taker[j].time /\ x.by = taker[j].by /\ x.crossed = taker[j].crossed
    BY DEF NewRow
  <2>2. Cardinality(StoredJobs) + 1 \in 1..Cardinality(Takers)
    BY <1>5
  <2>3. taker[j].by \in {"app", "cli"} /\ taker[j].crossed \in BOOLEAN
    BY <1>1 DEF TakerRecord
  <2> QED BY <1>1, <2>1, <2>2, <2>3 DEF NewRow
<1>7. St!TypeOK'
  <2>1. taker' \in [Takers -> TakerRecord]
    BY <1>2, <1>3 DEF StoredBy
  <2> QED BY <1>6, <2>1, StoreSame DEF StoreInv, St!TypeOK, TakerRecord
<1>8. snapshots \in SUBSET Snapshot /\ snapshots' \in SUBSET Snapshot
  <2>1. x \in Snapshot
    BY <1>5, <1>6, <1>1 DEF Snapshot
  <2> QED BY <2>1, RowsTyped DEF StoreInv
<1>9. /\ \A r \in snapshots : r.id \in Nat /\ r.id < x.id /\ r.at \in Nat
      /\ x.id \in Nat /\ x.at \in Nat /\ x \notin snapshots
  BY <1>1, <1>5, <1>6, <1>8 DEF StoreInv, RowsHold, Snapshot
<1>10. RowsHold'
  <2>1. IsFiniteSet(snapshots')
    BY FS_AddElement DEF StoreInv, RowsHold
  <2>2. Single(snapshots')
    BY <1>9 DEF StoreInv, RowsHold, Single
  <2>3. \A r \in snapshots' :
          r.id <= Cardinality(StoredJobs') /\ r.at <= clock /\ r.content \notin Unread
    <3>1. ASSUME NEW r \in snapshots
          PROVE  r.id <= Cardinality(StoredJobs') /\ r.at <= clock /\ r.content \notin Unread
      BY <1>5, <1>9 DEF StoreInv, RowsHold
    <3>2. x.id <= Cardinality(StoredJobs') /\ x.at <= clock /\ x.content \notin Unread
      BY <1>1, <1>5, <1>6 DEF St!Kept
    <3> QED BY <3>1, <3>2
  <2> QED BY <2>1, <2>2, <2>3 DEF RowsHold
<1>11. TakersHold'
  <2>1. ASSUME NEW k \in Takers \ {j} PROVE TakerHolds(taker[k])'
    <3>1. TakerHolds(taker[k])
      BY DEF StoreInv, TakersHold
    <3> QED BY <1>3, <3>1 DEF TakerHolds
  <2>2. TakerHolds(taker[j])'
    <3>1. TakerHolds(taker[j])
      BY DEF StoreInv, TakersHold
    <3> QED BY <1>1, <1>2, <3>1 DEF TakerHolds
  <2> QED BY <2>1, <2>2 DEF TakersHold
<1>12. KeptContent'
  <2>1. \A k \in Takers : taker'[k].at \in {"same", "stored"} /\ taker'[k].deletes = server.deletes =>
          \E r \in snapshots' : r.content = taker'[k].content
    <3> TAKE k \in Takers
    <3>1. CASE k = j
      BY <1>2, <1>6, <3>1
    <3>2. CASE k # j
      BY <1>3, <3>2 DEF StoreInv, KeptContent
    <3> QED BY <3>1, <3>2
  <2> QED BY <2>1 DEF KeptContent
<1>13. Neighbours'
  <2> DEFINE S == snapshots'
  <2> SUFFICES ASSUME NEW r \in S, NEW s \in S, St!Later(r, s),
                      ~\E q \in S : St!Later(r, q) /\ St!Later(q, s), r.content = s.content,
                      "cli" \notin {r.by, s.by}, ~r.crossed, ~s.crossed,
                      ~\E p, q \in S : p.at > q.at /\ St!Later(q, p)
               PROVE  FALSE
    BY DEF Neighbours, St!Follows, St!Later, Disorder
  <2>0. /\ \A q \in S : ~St!Later(q, q)
        /\ \A p, q \in S : p # q => St!Later(p, q) \/ St!Later(q, p)
    BY <1>8, <1>10, LaterOrders DEF RowsHold
  <2>1. CASE r \in snapshots /\ s \in snapshots
    <3>1. St!Follows(r, s)
      BY DEF St!Follows
    <3> QED BY <2>1, <3>1 DEF StoreInv, Neighbours, Disorder
  <2>2. x \in {r, s} => /\ taker[j].at = "compared" /\ ~taker[j].crossed
                        /\ \A q \in snapshots : q.at <= x.at
    BY <1>1, <1>6 DEF StoreInv, TakersHold, TakerHolds, TakerRecord
  <2>3. x \in {r, s} => \A q \in snapshots : St!Later(x, q)
    <3> SUFFICES ASSUME x \in {r, s}, NEW q \in snapshots PROVE St!Later(x, q)
      OBVIOUS
    <3>1. CASE q.at = x.at
      BY <1>9, <3>1 DEF St!Later
    <3>2. CASE q.at # x.at
      <4>1. x.at > q.at
        BY <1>9, <2>2, <3>2
      <4> QED BY <1>9, <2>0, <4>1
    <3> QED BY <3>1, <3>2
  <2>4. CASE r = x /\ s \in snapshots
    <3>1. \A q \in snapshots \ {s} : St!Later(s, q)
      BY <2>0, <2>3, <2>4
    <3> QED BY <1>6, <2>2, <2>4, <3>1 DEF StoreInv, TakersHold, TakerHolds
  <2>5. CASE s = x /\ r \in snapshots
    <3>1. St!Later(x, r) /\ St!Later(r, x)
      BY <2>3, <2>5
    <3>2. St!Later(x, r) /\ St!Later(r, x) => St!Later(x, x)
      BY <1>8, <1>10, LaterOrders DEF RowsHold
    <3> QED BY <2>0, <3>1, <3>2
  <2> QED BY <2>0, <2>1, <2>4, <2>5
<1> QED BY <1>7, <1>10, <1>11, <1>12, <1>13 DEF StoreInv

LEMMA Stores == ASSUME Stocked, StoreInv, NEW j \in Takers, St!Store(j) PROVE StoreInv'
<1>1. /\ taker[j].at = IF taker[j].by = "app" THEN "compared" ELSE "saved"
      /\ UNCHANGED <<server, clock>> /\ taker[j].at \in {"compared", "saved"}
  BY DEF St!Store
<1>2. CASE ~St!Kept(taker[j].content)
  <2>1. taker' = [taker EXCEPT ![j].at = "refused"] /\ UNCHANGED snapshots
    BY <1>2 DEF St!Store
  <2> QED BY <1>1, <2>1, StoresNothing
<1>3. CASE St!Kept(taker[j].content) /\ (~server.saved \/ server.deletes # taker[j].deletes)
  <2>1. taker' = [taker EXCEPT ![j].at = "failed"] /\ UNCHANGED snapshots
    BY <1>3 DEF St!Store
  <2> QED BY <1>1, <2>1, StoresNothing
<1>4. CASE St!Kept(taker[j].content) /\ server.saved /\ server.deletes = taker[j].deletes
  <2>1. snapshots' = snapshots \cup {NewRow(j)} /\ taker' = StoredBy(j)
    BY <1>4, StoreSame DEF St!Store, StoredJobs, NewRow, StoredBy
  <2> QED BY <1>1, <1>4, <2>1, AddsRow
<1> QED BY <1>2, <1>3, <1>4

LEMMA StoreNext == ASSUME Stocked, StoreInv, St!Next PROVE StoreInv'
<1>1. CASE St!Tick
  BY <1>1, Ticks
<1>2. CASE St!DeleteServer
  BY <1>2, Deletes
<1>3. ASSUME NEW j \in Takers, St!Take(j) \/ St!CliFinds(j) \/ St!CliAdds(j) \/ St!AppCompares(j) \/ St!Store(j)
      PROVE  StoreInv'
  BY <1>3, Takes, Finds, AddsServer, Compares, Stores
<1> QED BY <1>1, <1>2, <1>3 DEF St!Next

LEMMA StoreStutters == ASSUME StoreInv, UNCHANGED St!vars PROVE StoreInv'
<1>1. St!TypeOK' /\ RowsHold' /\ KeptContent'
  BY DEF St!vars, StoreInv, St!TypeOK, RowsHold, Single, StoredJobs, KeptContent
<1>2. TakersHold'
  BY DEF St!vars, StoreInv, TakersHold, TakerHolds, St!Later
<1> QED BY <1>1, <1>2, SameRows DEF St!vars, StoreInv

\* No stored snapshot is unread or of a server that is gone, what was compared
\* or stored is there, and of two equal neighbours in the list one is the command
\* line's, two sessions crossed, or times do not sort as text: for any number of
\* sessions, contents and instants (compare_and_store, add_snapshot).
THEOREM StoreIsSound ==
  ASSUME Stocked
  PROVE  St!Spec => []St!StoreSound
<1>1. St!Init => StoreInv
  BY StoreInit
<1>2. StoreInv /\ [St!Next]_St!vars => StoreInv'
  BY StoreNext, StoreStutters
<1>3. StoreInv => St!StoreSound
  BY StoreInvSound
<1> QED BY <1>1, <1>2, <1>3, PTL DEF St!Spec

\* Store and Keyring in every run of the window: the database and the keyring
\* hold what the window and the command line put there (compare_and_store,
\* apply_edit, finish_delete, load_snapshot).
THEOREM KeptStaysSound == WindowSpec => []KeptSound
<1>1. Stocked /\ MaxKeyringJobs \in Nat /\ K!None \notin Keys
  BY WindowAssumption DEF Stocked, St!None, K!None
<1>2. WindowInit => St!Init /\ K!Init
  BY DEF WindowInit, Beginning
<1>3. [WindowNext]_all => [St!Next]_St!vars
  BY DEF WindowNext, ServingStep, SidebarStep, StoreStep, KeyringStep, AgentsStep, all,
        ofStore,
         St!vars
<1>4. [WindowNext]_all => [K!Next]_K!vars
  BY DEF WindowNext, ServingStep, SidebarStep, StoreStep, KeyringStep, AgentsStep, all,
        ofKeyring,
         K!vars
<1>5. St!StoreSound /\ K!KeyringSound => KeptSound
  BY DEF KeptSound
<1> QED BY <1>1, <1>2, <1>3, <1>4, <1>5, StoreIsSound, KeyringIsSound, PTL
    DEF WindowSpec, St!Spec, K!Spec
=============================================================================
