------------------------ MODULE GatewayServerProofs ------------------------
(***************************************************************************)
(* What is proved of GatewayServer for every finite set of agents, every   *)
(* limit and every list of servers: that reservations are counted exactly, *)
(* that no path ever holds more connections than the limit, that the map   *)
(* and the reservations account for all that runs, and that a change of    *)
(* the list ends only connections to what it changes.                      *)
(***************************************************************************)
EXTENDS GatewayServer, FiniteSetTheorems, TLAPS

\* The counts a path's connections are compared with are numbers.
LEMMA CountsFinite ==
  ASSUME TypeOK, NEW p \in Paths
  PROVE  /\ IsFiniteSet(Held(p)) /\ Cardinality(Held(p)) \in Nat
         /\ IsFiniteSet(LiveAt(p)) /\ Cardinality(LiveAt(p)) \in Nat
         /\ IsFiniteSet(Holding(p)) /\ Cardinality(Holding(p)) \in Nat
<1>1. Held(p) \in SUBSET Conns /\ LiveAt(p) \in SUBSET Conns /\ Holding(p) \in SUBSET Conns
  BY DEF Held, LiveAt, Live, Holding, TypeOK
<1> QED BY <1>1, GatewayAssumption, FS_Subset, FS_CardinalityType

\* Where no more is held than before, the cap goes on holding.
LEMMA CapShrinks ==
  ASSUME TypeOK, CapHeld, NEW p \in Paths, Holding(p)' \subseteq Holding(p)
  PROVE  Cardinality(Holding(p)') <= Limit
<1>1. Cardinality(Holding(p)) <= Limit /\ IsFiniteSet(Holding(p))
  BY CountsFinite DEF CapHeld
<1>2. Cardinality(Holding(p)') <= Cardinality(Holding(p)) /\ IsFiniteSet(Holding(p)')
  BY <1>1, FS_Subset
<1>3. Cardinality(Holding(p)') \in Nat /\ Cardinality(Holding(p)) \in Nat
  BY <1>1, <1>2, FS_CardinalityType
<1> QED BY <1>1, <1>2, <1>3, GatewayAssumption

\* A step that reserves nothing and gives nothing back.
LEMMA SameStep ==
  ASSUME TypeOK, PlacesCounted, CapHeld,
         UNCHANGED <<opening, path>>,
         \A c \in Conns : (at[c] \in Reserving)' <=> at[c] \in Reserving,
         \A c \in Live' : c \in Live \/ (c \in Conns /\ at[c] \in Reserving)
  PROVE  PlacesCounted' /\ CapHeld'
<1> SUFFICES ASSUME NEW p \in Paths
             PROVE  opening'[p] = Cardinality(Held(p)') /\ Cardinality(Holding(p)') <= Limit
  BY DEF PlacesCounted, CapHeld
<1>1. Held(p)' = Held(p)
  BY DEF Held
<1>2. Holding(p)' \subseteq Holding(p)
  BY <1>1 DEF Holding, Held, LiveAt
<1> QED BY <1>1, <1>2, CapShrinks DEF PlacesCounted

\* A step in which one attempt gives its place back.
LEMMA GiveBackStep ==
  ASSUME TypeOK, PlacesCounted, CapHeld, NEW c \in Conns,
         at[c] \in Reserving, GiveBack(c), UNCHANGED path,
         (at[c] \notin Reserving)',
         \A d \in Conns \ {c} : (at[d] \in Reserving)' <=> at[d] \in Reserving,
         Live' \subseteq Live
  PROVE  PlacesCounted' /\ CapHeld'
<1> SUFFICES ASSUME NEW p \in Paths
             PROVE  opening'[p] = Cardinality(Held(p)') /\ Cardinality(Holding(p)') <= Limit
  BY DEF PlacesCounted, CapHeld
<1>1. Held(p)' = Held(p) \ {c}
  BY DEF Held
<1>2. Holding(p)' \subseteq Holding(p)
  BY <1>1 DEF Holding, LiveAt
<1>3. Cardinality(Held(p)') =
        IF c \in Held(p) THEN Cardinality(Held(p)) - 1 ELSE Cardinality(Held(p))
  BY <1>1, CountsFinite, FS_RemoveElement
<1>4. opening'[p] = IF p = path[c] THEN opening[p] - 1 ELSE opening[p]
  BY DEF GiveBack, TypeOK
<1>5. c \in Held(p) <=> p = path[c]
  BY DEF Held
<1> QED BY <1>2, <1>3, <1>4, <1>5, CapShrinks DEF PlacesCounted

\* The step that reserves a place: what is open and what is being opened were
\* counted together, so that their sum bounds what the path holds.
LEMMA ReserveStep ==
  ASSUME TypeOK, PlacesCounted, CapHeld, NEW c \in Conns,
         at[c] = "arrived", Goes(c, "opening"), UNCHANGED <<path, relays, ended>>,
         ~(Taken(path[c]) >= Limit),
         opening' = [opening EXCEPT ![path[c]] = @ + 1]
  PROVE  PlacesCounted' /\ CapHeld'
<1> SUFFICES ASSUME NEW p \in Paths
             PROVE  opening'[p] = Cardinality(Held(p)') /\ Cardinality(Holding(p)') <= Limit
  BY DEF PlacesCounted, CapHeld
<1>0. /\ c \notin Held(p)
      /\ (at[c] = "opening")'
      /\ \A d \in Conns \ {c} : at'[d] = at[d]
  BY DEF Held, Reserving, Goes, TypeOK
<1>1. CASE p = path[c]
  <2>1. Held(p)' = Held(p) \cup {c}
    BY <1>0, <1>1 DEF Held, Reserving
  <2>2. Holding(p)' = Holding(p) \cup {c}
    BY <2>1 DEF Holding, LiveAt, Live
  <2>3. Cardinality(Held(p)') = Cardinality(Held(p)) + 1
    BY <1>0, <2>1, CountsFinite, FS_AddElement
  <2>4. Cardinality(Holding(p)') <= Cardinality(Holding(p)) + 1
    <3>1. Cardinality(Holding(p)') =
            IF c \in Holding(p) THEN Cardinality(Holding(p)) ELSE Cardinality(Holding(p)) + 1
      BY <2>2, CountsFinite, FS_AddElement
    <3>2. Cardinality(Holding(p)) \in Nat
      BY CountsFinite
    <3> QED BY <3>1, <3>2
  <2>5. Cardinality(Holding(p)) <= Cardinality(Held(p)) + Cardinality(LiveAt(p))
    <3>1. Cardinality(Held(p) \cap LiveAt(p)) \in Nat
      BY CountsFinite, FS_Intersection, FS_CardinalityType
    <3>2. Cardinality(Held(p) \cup LiveAt(p)) =
            Cardinality(Held(p)) + Cardinality(LiveAt(p)) - Cardinality(Held(p) \cap LiveAt(p))
      BY CountsFinite, FS_Union
    <3> QED BY <3>1, <3>2, CountsFinite DEF Holding
  <2>6. Cardinality(LiveAt(p)) + Cardinality(Held(p)) < Limit
    BY <1>1, CountsFinite, GatewayAssumption DEF Taken, PlacesCounted
  <2>7. opening'[p] = opening[p] + 1
    BY <1>1 DEF TypeOK
  <2>8. Cardinality(Holding(p)') \in Nat
    BY <2>2, CountsFinite, FS_AddElement, FS_CardinalityType
  <2> QED BY <2>3, <2>4, <2>5, <2>6, <2>7, <2>8, CountsFinite, GatewayAssumption
             DEF PlacesCounted
<1>2. CASE p # path[c]
  <2>1. Held(p)' = Held(p)
    BY <1>0, <1>2 DEF Held
  <2>2. Holding(p)' \subseteq Holding(p)
    BY <2>1 DEF Holding, LiveAt, Live
  <2>3. opening'[p] = opening[p]
    BY <1>2 DEF TypeOK
  <2> QED BY <2>1, <2>2, <2>3, CapShrinks DEF PlacesCounted
<1> QED BY <1>1, <1>2

CapInv == TypeOK /\ PlacesCounted /\ CapHeld

\* The gateway starts with nothing held.
LEMMA InitCap == Init => CapInv
<1> SUFFICES ASSUME Init PROVE CapInv
  OBVIOUS
<1>1. TypeOK
  <2>1. opening \in [Paths -> Nat] /\ at \in [Conns -> {"out", "arrived", "kept", "refused"} \cup Reserving]
    BY DEF Init
  <2>2. changes \in 0..MaxChanges
    BY GatewayAssumption DEF Init
  <2> QED BY <2>1, <2>2 DEF Init, TypeOK
<1>2. \A p \in Paths : Held(p) = {} /\ LiveAt(p) = {}
  BY DEF Init, Held, LiveAt, Live, Reserving
<1>3. \A p \in Paths : Holding(p) = {}
  BY <1>2 DEF Holding
<1>4. PlacesCounted
  BY <1>2, FS_EmptySet DEF Init, PlacesCounted
<1>5. CapHeld
  BY <1>3, FS_EmptySet, GatewayAssumption DEF CapHeld
<1> QED BY <1>1, <1>4, <1>5 DEF CapInv

\* Every step keeps the types; a place given back was counted.
LEMMA TypeStep == CapInv /\ [Next]_vars => TypeOK'
<1> SUFFICES ASSUME CapInv, [Next]_vars PROVE TypeOK'
  OBVIOUS
<1>t. TypeOK
  BY DEF CapInv
<1>1. ASSUME NEW c \in Conns, at[c] \in Reserving, GiveBack(c)
      PROVE  opening' \in [Paths -> Nat]
  <2>1. c \in Held(path[c]) /\ path[c] \in Paths
    BY <1>1, <1>t DEF Held, TypeOK
  <2>2. opening[path[c]] # 0
    BY <2>1, <1>t, CountsFinite, FS_EmptySet DEF PlacesCounted, CapInv
  <2> QED BY <1>1, <1>t, <2>1, <2>2 DEF GiveBack, TypeOK
<1>2. ASSUME NEW c \in Conns, Connects(c) PROVE TypeOK'
  <2>1. CASE Arrive(c) \/ Insert(c)
    BY <1>t, <2>1 DEF Arrive, Insert, Goes, config, TypeOK, Reserving
  <2>2. CASE Reserve(c)
    <3>1. opening' \in [Paths -> Nat]
      BY <1>t, <2>2 DEF Reserve, TypeOK
    <3>2. at' \in [Conns -> {"out", "arrived", "kept", "refused"} \cup Reserving]
      BY <1>t, <2>2 DEF Reserve, Goes, TypeOK, Reserving
    <3> QED BY <1>t, <2>2, <3>1, <3>2 DEF Reserve, config, TypeOK
  <2>3. CASE Opens(c)
    BY <1>t, <2>3 DEF Opens, Goes, config, TypeOK, Reserving
  <2>4. CASE OpenFails(c) \/ Refuse(c)
    <3>1. at[c] \in Reserving /\ GiveBack(c)
      BY <2>4 DEF OpenFails, Refuse, Reserving
    <3>2. opening' \in [Paths -> Nat]
      BY <1>1, <3>1
    <3> QED BY <1>t, <2>4, <3>2 DEF OpenFails, Refuse, Goes, config, TypeOK, Reserving
  <2>5. CASE Check(c)
    <3>1. at[c] \in Reserving
      BY <2>5 DEF Check, Reserving
    <3>2. opening' \in [Paths -> Nat]
      BY <1>1, <1>t, <2>5, <3>1 DEF Check, TypeOK
    <3> QED BY <1>t, <2>5, <3>2 DEF Check, Goes, config, TypeOK, Reserving
  <2>6. CASE Return(c)
    <3>1. at[c] \in Reserving /\ GiveBack(c)
      BY <2>6 DEF Return, Reserving
    <3>2. opening' \in [Paths -> Nat]
      BY <1>1, <3>1
    <3> QED BY <1>t, <2>6, <3>2 DEF Return, Goes, config, TypeOK, Reserving
  <2> QED BY <1>2, <2>1, <2>2, <2>3, <2>4, <2>5, <2>6 DEF Connects
<1>3. ASSUME NEW c \in Conns,
             Ends(c) \/ Closed(c) \/ Forget(c) \/ CloseStale(c) \/ CloseForStop(c)
      PROVE  TypeOK'
  BY <1>t, <1>3 DEF Ends, Closed, Forget, CloseStale, CloseForStop, Cancelled,
                    config, TypeOK, Reserving
<1>4. ASSUME NEW given \in Lists, SetServers(given) PROVE TypeOK'
  BY <1>t, <1>4, GatewayAssumption DEF SetServers, Slipping, TypeOK, Reserving
<1>5. CASE StopBegins \/ StopPasses
  BY <1>t, <1>5 DEF StopBegins, StopPasses, Slipping, Live, TypeOK, Reserving
<1>6. CASE UNCHANGED vars
  BY <1>t, <1>6 DEF vars, TypeOK, Reserving
<1> QED BY <1>2, <1>3, <1>4, <1>5, <1>6 DEF Next

\* Every step keeps the counts and the cap.
LEMMA CapStep == CapInv /\ [Next]_vars => PlacesCounted' /\ CapHeld'
<1> SUFFICES ASSUME CapInv, [Next]_vars PROVE PlacesCounted' /\ CapHeld'
  OBVIOUS
<1>t. TypeOK /\ PlacesCounted /\ CapHeld
  BY DEF CapInv
<1>1. ASSUME NEW c \in Conns, Connects(c) PROVE PlacesCounted' /\ CapHeld'
  <2>1. CASE Arrive(c) \/ Opens(c) \/ Insert(c)
    <3>1. /\ UNCHANGED <<opening, path>>
          /\ \A d \in Conns : (at[d] \in Reserving)' <=> at[d] \in Reserving
          /\ \A d \in Live' : d \in Live \/ (d \in Conns /\ at[d] \in Reserving)
      BY <1>t, <2>1 DEF Arrive, Opens, Insert, Goes, Reserving, Live, TypeOK
    <3> QED BY <1>t, <3>1, SameStep
  <2>2. CASE Reserve(c)
    <3>1. CASE Goes(c, "refused") /\ UNCHANGED opening
      <4>1. /\ UNCHANGED <<opening, path>>
            /\ \A d \in Conns : (at[d] \in Reserving)' <=> at[d] \in Reserving
            /\ \A d \in Live' : d \in Live \/ (d \in Conns /\ at[d] \in Reserving)
        BY <1>t, <2>2, <3>1 DEF Reserve, Goes, Reserving, Live, TypeOK
      <4> QED BY <1>t, <4>1, SameStep
    <3>2. CASE ~(Goes(c, "refused") /\ UNCHANGED opening)
      <4>1. /\ at[c] = "arrived" /\ Goes(c, "opening")
            /\ UNCHANGED <<path, relays, ended>>
            /\ ~(Taken(path[c]) >= Limit)
            /\ opening' = [opening EXCEPT ![path[c]] = @ + 1]
        BY <2>2, <3>2 DEF Reserve
      <4> QED BY <1>t, <4>1, ReserveStep
    <3> QED BY <3>1, <3>2
  <2>3. CASE OpenFails(c) \/ Refuse(c) \/ Return(c)
    <3>1. /\ at[c] \in Reserving /\ GiveBack(c) /\ UNCHANGED path
          /\ (at[c] \notin Reserving)'
          /\ \A d \in Conns \ {c} : (at[d] \in Reserving)' <=> at[d] \in Reserving
          /\ Live' \subseteq Live
      BY <1>t, <2>3 DEF OpenFails, Refuse, Return, Goes, Reserving, Live, TypeOK
    <3> QED BY <1>t, <3>1, GiveBackStep
  <2>4. CASE Check(c)
    <3>1. CASE Goes(c, "refused") /\ GiveBack(c) /\ UNCHANGED ended
      <4>1. /\ at[c] \in Reserving /\ UNCHANGED path
            /\ (at[c] \notin Reserving)'
            /\ \A d \in Conns \ {c} : (at[d] \in Reserving)' <=> at[d] \in Reserving
            /\ Live' \subseteq Live
        BY <1>t, <2>4, <3>1 DEF Check, Goes, Reserving, Live, TypeOK
      <4> QED BY <1>t, <3>1, <4>1, GiveBackStep
    <3>2. CASE ~(Goes(c, "refused") /\ GiveBack(c) /\ UNCHANGED ended)
      <4>1. /\ UNCHANGED <<opening, path>>
            /\ \A d \in Conns : (at[d] \in Reserving)' <=> at[d] \in Reserving
            /\ \A d \in Live' : d \in Live \/ (d \in Conns /\ at[d] \in Reserving)
        BY <1>t, <2>4, <3>2 DEF Check, Goes, Reserving, Live, TypeOK
      <4> QED BY <1>t, <4>1, SameStep
    <3> QED BY <3>1, <3>2
  <2> QED BY <1>1, <2>1, <2>2, <2>3, <2>4 DEF Connects
<1>2. ASSUME UNCHANGED <<opening, path, at>>, Live' \subseteq Live
      PROVE  PlacesCounted' /\ CapHeld'
  BY <1>t, <1>2, SameStep
<1>3. ASSUME NEW c \in Conns,
             Ends(c) \/ Closed(c) \/ Forget(c) \/ CloseStale(c) \/ CloseForStop(c)
      PROVE  PlacesCounted' /\ CapHeld'
  BY <1>2, <1>3 DEF Ends, Closed, Forget, CloseStale, CloseForStop, Cancelled, Live
<1>4. CASE (\E given \in Lists : SetServers(given)) \/ StopBegins \/ StopPasses
  BY <1>2, <1>4 DEF SetServers, StopBegins, StopPasses, Live
<1>5. CASE UNCHANGED vars
  BY <1>2, <1>5 DEF vars, Live
<1> QED BY <1>1, <1>3, <1>4, <1>5 DEF Next

\* Types, counts and cap, together: a place can only be given back because it
\* was counted.
THEOREM GatewayInvariant == Safety => []CapInv
<1>1. CapInv /\ [Next]_vars => CapInv'
  BY TypeStep, CapStep DEF CapInv
<1> QED BY <1>1, InitCap, PTL DEF Safety

\* Every reservation is counted while it is held and given back exactly once.
THEOREM GatewayPlacesCounted == Safety => []PlacesCounted
BY GatewayInvariant, PTL DEF CapInv

\* No path ever holds more connections than the limit, however many agents
\* arrive together.
THEOREM GatewayCapHeld == Safety => []CapHeld
BY GatewayInvariant, PTL DEF CapInv

-----------------------------------------------------------------------------
(* That all that runs is accounted for.                                    *)

\* What the steps of a connect leave behind: the server side is not up before
\* it is opened, what is in the map has been put there, and what was opened
\* was opened from something.
WayThrough ==
  /\ DOMAIN via = Conns
  /\ \A c \in Conns :
       /\ at[c] \in {"out", "arrived", "opening"} => c \notin up
       /\ c \in relays => at[c] \in {"inserted", "kept"}
       /\ at[c] = "inserted" => c \in relays \cup ended
       /\ at[c] \in {"opened", "closing", "checked", "inserted", "kept"} => via[c] # <<>>

\* What passed the check is still wanted until something slips between, and
\* stop has every connection in hand that did not.
StillInHand ==
  /\ \A c \in Slipping : c \in slipped \/ StillWanted(c)
  /\ stopping <=> stop # "no"
  /\ stop \in {"first", "second"} => Live \subseteq sweeping \cup slipped

AccountInv ==
  WayThrough /\ StillInHand /\ KeptIsCurrent /\ NoneOrphaned /\ StoppedHoldsNothing

\* The root sees the whole list.
LEMMA ViewOfRoot == \A list : View(list, Root) = list
BY DEF View

\* A step that leaves the list, the attempts and what they were opened from
\* as they are, and takes none back that stop has in hand.
LEMMA AccountSame ==
  ASSUME TypeOK, AccountInv,
         UNCHANGED <<servers, stopping, stale, stop, sweeping, at, path, via, slipped>>,
         up' \subseteq up,
         up' \ ended' \subseteq up \ ended,
         relays' \subseteq relays,
         relays \ relays' \subseteq ended', ended \subseteq ended'
  PROVE  AccountInv'
<1>1. Live' \subseteq Live
  BY DEF Live
<1>2. WayThrough'
  BY DEF AccountInv, WayThrough
<1>3. StillInHand'
  BY <1>1 DEF AccountInv, StillInHand, Slipping, StillWanted, Current
<1>4. KeptIsCurrent' /\ StoppedHoldsNothing'
  BY <1>1 DEF AccountInv, KeptIsCurrent, StoppedHoldsNothing, Current
<1>5. NoneOrphaned'
  BY DEF AccountInv, NoneOrphaned
<1> QED BY <1>2, <1>3, <1>4, <1>5 DEF AccountInv

\* A connect goes on: nothing but its own place, and what was kept stays kept.
LEMMA AccountConnect ==
  ASSUME TypeOK, AccountInv, NEW c \in Conns, Connects(c)
  PROVE  AccountInv'
<1> USE DEF AccountInv
<1>1. /\ UNCHANGED <<servers, stopping, stale, stop, sweeping, path, slipped>>
      /\ \A d \in Conns \ {c} : at'[d] = at[d] /\ via'[d] = via[d]
  BY DEF Connects, Arrive, Reserve, Opens, OpenFails, Check, Refuse, Insert, Return,
         Goes, config, TypeOK, WayThrough
<1>2. ASSUME NEW d \in Conns, d # c
      PROVE  (Current(d)' <=> Current(d)) /\ (StillWanted(d)' <=> StillWanted(d))
  BY <1>1, <1>2 DEF Current, StillWanted
<1>3. CASE Arrive(c) \/ OpenFails(c) \/ Refuse(c)
  <2>1. /\ UNCHANGED <<relays, ended, up, via>> /\ at'[c] \in {"refused", "arrived"}
        /\ c \notin up /\ at[c] \in {"out", "opening", "closing"}
    BY <1>3 DEF Arrive, OpenFails, Refuse, Goes, TypeOK, WayThrough
  <2>2. Live' = Live /\ c \notin Live
    BY <2>1 DEF Live, WayThrough
  <2>3. WayThrough'
    BY <1>1, <2>1 DEF WayThrough
  <2>4. StillInHand'
    BY <1>1, <1>2, <2>1, <2>2 DEF StillInHand, Slipping
  <2>5. KeptIsCurrent' /\ StoppedHoldsNothing'
    BY <1>1, <1>2, <2>1, <2>2 DEF KeptIsCurrent, StoppedHoldsNothing, Live, TypeOK
  <2>6. NoneOrphaned'
    BY <1>1, <2>1 DEF NoneOrphaned, TypeOK
  <2> QED BY <2>3, <2>4, <2>5, <2>6
<1>4. CASE Reserve(c)
  <2>1. /\ UNCHANGED <<relays, ended, up>> /\ at'[c] \in {"refused", "opening"}
        /\ DOMAIN via' = Conns /\ c \notin up /\ at[c] = "arrived"
    BY <1>4 DEF Reserve, Goes, TypeOK, WayThrough
  <2>2. Live' = Live /\ c \notin Live
    BY <2>1 DEF Live, WayThrough
  <2>3. WayThrough'
    BY <1>1, <2>1 DEF WayThrough
  <2>4. StillInHand'
    BY <1>1, <1>2, <2>1, <2>2 DEF StillInHand, Slipping
  <2>5. KeptIsCurrent' /\ StoppedHoldsNothing'
    BY <1>1, <1>2, <2>1, <2>2 DEF KeptIsCurrent, StoppedHoldsNothing, Live, TypeOK
  <2>6. NoneOrphaned'
    BY <1>1, <2>1 DEF NoneOrphaned, TypeOK
  <2> QED BY <2>3, <2>4, <2>5, <2>6
<1>5. CASE Opens(c)
  <2>1. /\ UNCHANGED <<relays, ended, via>> /\ at'[c] = "opened" /\ via[c] # <<>>
        /\ up' = up \cup {c} /\ at[c] = "opening"
    BY <1>5 DEF Opens, Goes, TypeOK
  <2>2. Live' = Live /\ c \notin Live
    BY <2>1 DEF Live, WayThrough
  <2>3. WayThrough'
    BY <1>1, <2>1 DEF WayThrough
  <2>4. StillInHand'
    BY <1>1, <1>2, <2>1, <2>2 DEF StillInHand, Slipping
  <2>5. KeptIsCurrent' /\ StoppedHoldsNothing'
    BY <1>1, <1>2, <2>1, <2>2 DEF KeptIsCurrent, StoppedHoldsNothing, Live, TypeOK
  <2>6. NoneOrphaned'
    BY <1>1, <2>1 DEF NoneOrphaned, TypeOK, Reserving
  <2> QED BY <2>3, <2>4, <2>5, <2>6
<1>6. CASE Check(c)
  <2>1. /\ UNCHANGED <<relays, up, via>> /\ at[c] = "opened" /\ via[c] # <<>>
        /\ \/ at'[c] = "checked" /\ StillWanted(c) /\ ended' = ended
           \/ at'[c] = "closing" /\ ended' = ended \cup {c}
           \/ at'[c] = "refused" /\ ended' = ended /\ c \in ended
    BY <1>6 DEF Check, Goes, TypeOK, WayThrough
  <2>2. Live' = Live /\ c \notin Live
    BY <2>1 DEF Live, WayThrough
  <2>3. WayThrough'
    BY <1>1, <2>1 DEF WayThrough
  <2>4. StillWanted(c)' <=> StillWanted(c)
    BY <1>1, <2>1 DEF StillWanted, Current
  <2>5. StillInHand'
    BY <1>1, <1>2, <2>1, <2>2, <2>4 DEF StillInHand, Slipping
  <2>6. KeptIsCurrent' /\ StoppedHoldsNothing'
    BY <1>1, <1>2, <2>1, <2>2 DEF KeptIsCurrent, StoppedHoldsNothing, Live, TypeOK
  <2>7. NoneOrphaned'
    BY <1>1, <2>1 DEF NoneOrphaned, TypeOK, Reserving
  <2> QED BY <2>3, <2>5, <2>6, <2>7
<1>7. CASE Insert(c)
  <2>1. /\ UNCHANGED <<ended, up, via>> /\ relays' = relays \cup {c}
        /\ at[c] = "checked" /\ at'[c] = "inserted"
    BY <1>7 DEF Insert, Goes, TypeOK
  <2>2. WayThrough'
    BY <1>1, <2>1 DEF WayThrough
  <2>3. c \in slipped \/ (StillWanted(c) /\ Current(c)')
    BY <1>1, <2>1 DEF StillInHand, Slipping, StillWanted, Current
  <2>4. Live' \subseteq Live \cup {c}
    BY <2>1 DEF Live
  <2>5. StillInHand'
    BY <1>1, <1>2, <2>1, <2>3, <2>4 DEF StillInHand, Slipping, StillWanted
  <2>6. KeptIsCurrent'
    BY <1>1, <1>2, <2>3, <2>4 DEF KeptIsCurrent, Live, TypeOK
  <2>7. StoppedHoldsNothing'
    BY <1>1, <2>3, <2>4 DEF StoppedHoldsNothing, StillInHand, StillWanted
  <2>8. NoneOrphaned'
    BY <1>1, <2>1 DEF NoneOrphaned, TypeOK
  <2> QED BY <2>2, <2>5, <2>6, <2>7, <2>8
<1>8. CASE Return(c)
  <2>1. /\ UNCHANGED <<relays, ended, up, via>>
        /\ at[c] = "inserted" /\ at'[c] = "kept"
    BY <1>8 DEF Return, Goes, TypeOK
  <2>2. Live' = Live /\ (Current(c)' <=> Current(c))
    BY <1>1, <2>1 DEF Live, Current
  <2>3. WayThrough'
    BY <1>1, <2>1 DEF WayThrough
  <2>4. StillInHand'
    BY <1>1, <1>2, <2>1, <2>2 DEF StillInHand, Slipping
  <2>5. KeptIsCurrent' /\ StoppedHoldsNothing'
    BY <1>1, <1>2, <2>1, <2>2 DEF KeptIsCurrent, StoppedHoldsNothing, Live, TypeOK
  <2>6. NoneOrphaned'
    BY <1>1, <2>1 DEF NoneOrphaned, TypeOK, WayThrough
  <2> QED BY <2>3, <2>4, <2>5, <2>6
<1> QED BY <1>3, <1>4, <1>5, <1>6, <1>7, <1>8 DEF Connects

\* A change of the list: what is kept is either seen to be current or is to be
\* closed, and what passed the check has slipped.
LEMMA AccountSetServers ==
  ASSUME TypeOK, AccountInv, NEW given \in Lists, SetServers(given)
  PROVE  AccountInv'
<1> USE DEF AccountInv
<1>1. /\ UNCHANGED <<stopping, stop, sweeping, relays, at, path, via, ended, up>>
      /\ stale' = stale \cup {c \in relays : ChangedOf(path[c], servers')}
      /\ slipped' = slipped \cup {c \in Slipping : View(servers', path[c]) # via[c]}
  BY DEF SetServers
<1>2. Live' = Live /\ Slipping' = Slipping
  BY <1>1 DEF Live, Slipping
<1>3. WayThrough' /\ NoneOrphaned' /\ StoppedHoldsNothing'
  BY <1>1, <1>2 DEF WayThrough, NoneOrphaned, StoppedHoldsNothing
<1>4. StillInHand'
  BY <1>1, <1>2 DEF StillInHand, StillWanted, Current
<1>5. ASSUME NEW c \in relays, Current(c), c \notin stale' PROVE Current(c)'
  BY <1>1, <1>5, ViewOfRoot DEF ChangedOf, Current
<1>6. KeptIsCurrent'
  BY <1>1, <1>2, <1>5 DEF KeptIsCurrent, Live
<1> QED BY <1>3, <1>4, <1>6

\* Stop begins with all that is live in hand; only what slipped comes later.
LEMMA AccountStop ==
  ASSUME TypeOK, AccountInv, StopBegins \/ StopPasses
  PROVE  AccountInv'
<1> USE DEF AccountInv
<1>1. /\ UNCHANGED <<servers, stale, relays, at, path, via, ended, up>>
      /\ Live' = Live /\ Slipping' = Slipping
  BY DEF StopBegins, StopPasses, Live, Slipping
<1>2. WayThrough' /\ NoneOrphaned'
  BY <1>1 DEF WayThrough, NoneOrphaned
<1>3. slipped \subseteq slipped' /\ \A c : Current(c)' <=> Current(c)
  BY <1>1 DEF StopBegins, StopPasses, Current
<1>4. KeptIsCurrent'
  BY <1>1, <1>3 DEF KeptIsCurrent
<1>5. CASE StopBegins
  <2>1. /\ stopping' = TRUE /\ stop' = "first" /\ sweeping' = Live
        /\ slipped' = slipped \cup Slipping
    BY <1>5 DEF StopBegins
  <2>2. StillInHand'
    BY <1>1, <2>1 DEF StillInHand
  <2> QED BY <1>2, <1>4, <2>1, <2>2 DEF StoppedHoldsNothing
<1>6. CASE StopPasses
  <2>1. /\ stopping' = stopping /\ slipped' = slipped /\ sweeping = {}
        /\ \/ stop = "first" /\ stop' = "second" /\ sweeping' = Live
           \/ stop = "second" /\ stop' = "stopped"
    BY <1>6 DEF StopPasses
  <2>2. StillInHand'
    BY <1>1, <1>3, <2>1 DEF StillInHand, StillWanted
  <2>3. StoppedHoldsNothing'
    BY <1>1, <2>1 DEF StillInHand, StoppedHoldsNothing
  <2> QED BY <1>2, <1>4, <2>2, <2>3
<1> QED BY <1>2, <1>4, <1>5, <1>6

\* Every step keeps the account.
LEMMA AccountStep == TypeOK /\ AccountInv /\ [Next]_vars => AccountInv'
<1> SUFFICES ASSUME TypeOK, AccountInv, [Next]_vars PROVE AccountInv'
  OBVIOUS
<1>1. ASSUME NEW c \in Conns, Connects(c) PROVE AccountInv'
  BY <1>1, AccountConnect
<1>2. ASSUME NEW c \in Conns, Ends(c) \/ Closed(c) \/ Forget(c) PROVE AccountInv'
  BY <1>2, AccountSame DEF Ends, Closed, Forget, Forgettable, Cancelled, config
<1>3. ASSUME NEW c \in Conns, CloseStale(c) \/ CloseForStop(c) PROVE AccountInv'
  <2>1. /\ UNCHANGED <<servers, stopping, stop, relays, at, path, via, up, slipped>>
        /\ ended' = ended \cup {c} /\ Live' = Live \ {c}
        /\ stale \ stale' \subseteq {c} /\ sweeping \ sweeping' \subseteq {c}
    BY <1>3 DEF CloseStale, CloseForStop, Cancelled, Live
  <2>2. \A d : Current(d)' <=> Current(d)
    BY <2>1 DEF Current
  <2>3. WayThrough' /\ NoneOrphaned'
    BY <2>1 DEF AccountInv, WayThrough, NoneOrphaned
  <2>4. StillInHand' /\ StoppedHoldsNothing'
    BY <2>1, <2>2 DEF AccountInv, StillInHand, StoppedHoldsNothing, Slipping, StillWanted
  <2>5. KeptIsCurrent'
    BY <2>1, <2>2 DEF AccountInv, KeptIsCurrent
  <2> QED BY <2>3, <2>4, <2>5 DEF AccountInv
<1>4. ASSUME NEW given \in Lists, SetServers(given) PROVE AccountInv'
  BY <1>4, AccountSetServers
<1>5. CASE StopBegins \/ StopPasses
  BY <1>5, AccountStop
<1>6. CASE UNCHANGED vars
  BY <1>6, AccountSame DEF vars
<1> QED BY <1>1, <1>2, <1>3, <1>4, <1>5, <1>6 DEF Next

\* Both invariants together, from the start.
THEOREM GatewayAccount == Safety => [](CapInv /\ AccountInv)
<1>1. Init => CapInv /\ AccountInv
  BY InitCap DEF Init, AccountInv, WayThrough, StillInHand, KeptIsCurrent, NoneOrphaned,
                 StoppedHoldsNothing, Slipping, Live
<1>2. CapInv /\ AccountInv /\ [Next]_vars => (CapInv /\ AccountInv)'
  BY TypeStep, CapStep, AccountStep DEF CapInv
<1> QED BY <1>1, <1>2, PTL DEF Safety

\* The map of connections and the reservations together account for all that
\* runs, whoever connects, leaves, changes the list or stops meanwhile.
THEOREM GatewayAllAccounted == Safety => []AllAccounted
<1>1. CapInv /\ AccountInv => AllAccounted
  BY DEF CapInv, AccountInv, AllAccounted
<1> QED BY <1>1, GatewayAccount, PTL

\* Changing the list ends no connection to a server it leaves as it was.
THEOREM GatewayUnchangedKept == Safety => UnchangedKept
<1>1. ASSUME CapInv, AccountInv, [Next]_vars, NEW c \in stale' \ stale
      PROVE  ~(Current(c) /\ Current(c)')
  <2>1. PICK given \in Lists : SetServers(given)
    BY <1>1 DEF Next, vars, Connects, Arrive, Reserve, Opens, OpenFails, Check, Refuse,
                Insert, Return, Ends, Closed, Forget, CloseStale, CloseForStop, StopBegins,
                StopPasses, config
  <2>2. /\ c \in relays /\ path' = path /\ via' = via
        /\ ChangedOf(path[c], servers')
    BY <1>1, <2>1 DEF SetServers
  <2>3. via[c] # <<>>
    BY <1>1, <2>2 DEF AccountInv, WayThrough, CapInv, TypeOK
  <2> QED BY <2>2, <2>3, ViewOfRoot DEF ChangedOf, Current
<1>2. CapInv /\ AccountInv /\ [Next]_vars =>
        [\A c \in stale' \ stale : ~(Current(c) /\ Current(c)')]_vars
  BY <1>1
<1> QED BY <1>2, GatewayAccount, PTL DEF Safety, UnchangedKept
=============================================================================
