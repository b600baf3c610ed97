--------------------------- MODULE TurnProcessorWar ---------------------------
(***************************************************************************)
(* Travel, capture and battle under the turn engine: what the steps of a   *)
(* turn may do to a unit, to the Ring Bearer on the road, to a region.     *)
(***************************************************************************)
EXTENDS TurnProcessorGame, WellFoundedInduction

-----------------------------------------------------------------------------
(* What a step may do to a unit.                                           *)

\* The moves of one unit u: a new route (step 2), a new place (steps 4 and 8), a cooldown
\* (step 6), a turn on the road (step 7), a wound (step 8), the timers (step 11), the
\* broadcast that hides it, and a new game.
UnitMove(u) ==
  \/ units'[u] = units[u]
  \/ \E s \in Seq(Path) : units'[u] = Rerouted(units[u], s)
  \/ \E r \in Place : units'[u] = PlacedAt(units[u], r)
  \/ \E k \in Nat : units'[u] = [units[u] EXCEPT !.cooldown = k]
  \/ units'[u] = Advanced(units[u])
  \/ /\ \E w \in Unit : AttackRegion(w)
     /\ \E d \in Int : d > 0 /\ Active(units, u) /\ units'[u] = Damaged(u, d)
  \/ units'[u] = CooledDown(AfterRespawnTimer(u))
  \/ units'[u] = [units[u] EXCEPT !.region = Nowhere]
  \/ Restarted

\* The damage of an attack is a number.
LEMMA DamageType ==
  ASSUME TypeOK, NEW A \in SUBSET Unit, NEW D \in SUBSET Unit, NEW r \in Region
  PROVE  Power(A) \in Nat /\ DefencePower(A, D, r) \in Nat
<1>1. Power(A) \in Nat /\ Power(D) \in Nat
  BY PowerType
<1>2. TerrainBonus[r] \in Nat
  BY MapAssumption
<1>3. QED
  BY <1>1, <1>2 DEF DefencePower

\* Nobody attacks with nobody.
LEMMA NoPower == Power({}) = 0
<1>1. UNION {{w} \X (1..EffectiveStrength(w, {})) : w \in {}} = {}
  OBVIOUS
<1>2. QED
  BY <1>1, FS_EmptySet DEF Power

\* Step 8, seen from outside: the attackers, active and of the side of u, move in and the
\* defenders, active and of the other side, are damaged, or the attackers are.
LEMMA AttackOutcome ==
  ASSUME TypeOK, NEW u \in Unit, AttackRegion(u)
  PROVE  \E A, D \in SUBSET Unit, r \in Region, d \in Int :
           /\ \A v \in A : Active(units, v) /\ SideOf(v) = SideOf(u)
           /\ \A v \in D : Active(units, v) /\ SideOf(v) # SideOf(u)
           /\ \/ /\ d > 0
                 /\ A # {}
                 /\ units' = AfterVictory(A, D, r, d)
                 /\ regions' = [regions EXCEPT ![r].control = SideOf(u)]
                 /\ maiaDisabled' = (maiaDisabled \/ DisablesCorruption(r, SideOf(u)))
              \/ /\ units' = AfterRepulse(A)
                 /\ UNCHANGED <<regions, maiaDisabled>>
<1> DEFINE r == orders[u].region
           A == {v \in Unit : /\ Active(units, v)
                              /\ units[v].region = units[u].region
                              /\ SideOf(v) = SideOf(u)}
           D == {v \in Unit : Active(units, v) /\ units[v].region = r /\ SideOf(v) # SideOf(u)}
           d == Power(A) - DefencePower(A, D, r)
<1>1. r \in Region
  BY TakenType DEF AttackRegion
<1>2. /\ \A v \in A : Active(units, v) /\ SideOf(v) = SideOf(u)
      /\ \A v \in D : Active(units, v) /\ SideOf(v) # SideOf(u)
      /\ A \in SUBSET Unit /\ D \in SUBSET Unit
  OBVIOUS
<1>3. \/ /\ d > 0
         /\ units' = AfterVictory(A, D, r, d)
         /\ regions' = [regions EXCEPT ![r].control = SideOf(u)]
         /\ maiaDisabled' = (maiaDisabled \/ DisablesCorruption(r, SideOf(u)))
      \/ /\ units' = AfterRepulse(A)
         /\ UNCHANGED <<regions, maiaDisabled>>
  BY DEF AttackRegion
<1>4. d \in Int /\ (d > 0 => A # {})
  <2>1. Power(A) \in Nat /\ DefencePower(A, D, r) \in Nat
    <3> HIDE DEF A, D, r
    <3> QED BY <1>1, <1>2, DamageType
  <2> HIDE DEF A, D, r
  <2>2. QED
    BY <2>1, NoPower
<1> HIDE DEF A, D, r, d
<1>5. QED
  BY <1>1, <1>2, <1>3, <1>4

\* Every step is a move of each unit.
LEMMA UnitMoves ==
  ASSUME TypeOK, [Next]_vars, NEW u \in Unit
  PROVE  UnitMove(u)
<1>1. CASE UNCHANGED units
  BY <1>1 DEF UnitMove
<1>2. CASE BeginTurn
  <2>1. units'[u] = units[u]
          \/ (orders[u].type = "ROUTE" /\ units'[u] = Rerouted(units[u], orders[u].route))
    BY <1>2 DEF BeginTurn
  <2>2. QED
    BY <2>1, TakenType DEF UnitMove
<1>3. ASSUME NEW v \in Unit, MaiaAbility(v)
      PROVE  UnitMove(u)
  <2>1. UnitCfg[v].cooldown \in Nat
    BY RosterAssumption DEF UnitConfig
  <2>2. units'[u] \in {units[u], [units[u] EXCEPT !.cooldown = UnitCfg[v].cooldown]}
    BY <1>3 DEF MaiaAbility, TypeOK
  <2>3. QED
    BY <2>1, <2>2 DEF UnitMove
<1>4. CASE DeployAndFortify
  <2>1. units'[u] = units[u]
          \/ (MayRedeploy(u) /\ units'[u] = PlacedAt(units[u], orders[u].region))
    BY <1>4 DEF DeployAndFortify
  <2>2. MayRedeploy(u) => orders[u].region \in Place
    BY TakenType DEF MayRedeploy
  <2>3. QED
    BY <2>1, <2>2 DEF UnitMove
<1>5. CASE AutoAdvance
  BY <1>5 DEF AutoAdvance, UnitMove
<1>6. ASSUME NEW v \in Unit, AttackRegion(v)
      PROVE  UnitMove(u)
  <2>1. PICK A, D \in SUBSET Unit, r \in Region, d \in Int :
               /\ \A w \in A \cup D : Active(units, w)
               /\ (d > 0 /\ units' = AfterVictory(A, D, r, d)) \/ units' = AfterRepulse(A)
    BY <1>6, AttackOutcome
  <2>2. r \in Place
    BY DEF Place
  <2>3. \/ units'[u] = units[u]
        \/ units'[u] = PlacedAt(units[u], r)
        \/ Active(units, u) /\ units'[u] = Damaged(u, 1)
        \/ d > 0 /\ Active(units, u) /\ units'[u] = Damaged(u, d)
    BY <2>1 DEF AfterVictory, AfterRepulse
  <2>4. QED
    BY <1>6, <2>2, <2>3 DEF UnitMove
<1>7. CASE EndTurn
  BY <1>7 DEF EndTurn, UnitMove
<1>8. CASE ApplyBroadcast
  BY <1>8 DEF ApplyBroadcast, TypeOK, UnitMove
<1>9. CASE NewGame \/ NewGameElsewhere
  BY <1>9 DEF Restarted, UnitMove
<1>10. ASSUME NEW v \in Unit, BlockPath(v) \/ SearchPath(v)
       PROVE  UnitMove(u)
  BY <1>1, <1>10 DEF BlockPath, SearchPath
<1>11. CASE \E v \in Unit, o \in Submittable : BufferOrder(v, o) \/ BufferLateOrder(v, o)
  BY <1>1, <1>11 DEF BufferOrder, BufferLateOrder
<1>12. CASE RevertBlocked \/ UNCHANGED vars
  BY <1>1, <1>12 DEF RevertBlocked, vars
<1>13. QED
  BY <1>2, <1>3, <1>4, <1>5, <1>6, <1>7, <1>8, <1>9, <1>10, <1>11, <1>12 DEF Next, TurnStep

-----------------------------------------------------------------------------
(* Travel.                                                                 *)

\* Whoever is not under way on a path is on its way to nowhere.
LEMMA NotTravelling ==
  ASSUME NEW t, t.travel = None
  PROVE  OnItsWay(t)
BY DEF OnItsWay

\* What OnItsWay looks at.
LEMMA SameTravel ==
  ASSUME NEW t, NEW q, OnItsWay(t),
         q.travel = t.travel, q.route = t.route, q.remaining = t.remaining
  PROVE  OnItsWay(q)
BY DEF OnItsWay

\* A new route, and a new place, end the travel.
LEMMA ResetsTravel ==
  ASSUME NEW t, t \in UnitState \/ t \in RingBearerState
  PROVE  /\ \A s \in Seq(Path) : Rerouted(t, s).travel = None
         /\ \A r \in Place : PlacedAt(t, r).travel = None
         /\ Arrived(t).travel = None
BY DEF Rerouted, PlacedAt, Arrived, UnitState, RingBearerState

\* One turn on the road: the first turn on a path leaves its cost less one, the next ones
\* one less, the last one none (stepAutoAdvance, for units and the Ring Bearer alike).
LEMMA AdvancedOnItsWay ==
  ASSUME TypeOK, NEW t, t \in UnitState \/ t \in RingBearerState, OnItsWay(t)
  PROVE  OnItsWay(Advanced(t))
<1> DEFINE p == Head(t.route)
           c == PathCfg[p].cost - 1
           k == t.remaining - 1
<1>1. t.route \in Seq(Path) /\ t.remaining \in Nat
  BY DEF UnitState, RingBearerState
<1>2. CASE t.route = <<>>
  BY <1>2 DEF Advanced
<1>3. CASE t.route # <<>> /\ InTransit(t) /\ t.remaining = 1
  BY <1>3, ResetsTravel, NotTravelling DEF Advanced
<1>4. CASE t.route # <<>> /\ InTransit(t) /\ t.remaining # 1
  <2>1. p \in Path /\ PathCfg[p].cost \in Nat /\ None \notin Path
    BY <1>1, <1>4, HeadTailProperties, MapAssumption, RosterAssumption
  <2>2. t.travel = p /\ t.remaining \in 1..(PathCfg[p].cost - 1)
    BY <1>4, <2>1 DEF OnItsWay, InTransit
  <2>3. k \in 1..(PathCfg[p].cost - 1)
    BY <1>1, <1>4, <2>1, <2>2
  <2>4. Advanced(t) = [t EXCEPT !.remaining = k]
    BY <1>4 DEF Advanced
  <2> HIDE DEF k
  <2>5. /\ Advanced(t).travel = t.travel
        /\ Advanced(t).route = t.route
        /\ Advanced(t).remaining = k
    BY <2>4 DEF UnitState, RingBearerState
  <2>6. QED
    BY <1>4, <2>2, <2>3, <2>5 DEF OnItsWay
<1>5. CASE t.route # <<>> /\ ~InTransit(t) /\ paths[p].status = "BLOCKED"
  BY <1>5 DEF Advanced
<1>6. CASE /\ t.route # <<>>
           /\ ~InTransit(t)
           /\ paths[p].status # "BLOCKED"
           /\ PathCfg[p].cost <= 1
  BY <1>6, ResetsTravel, NotTravelling DEF Advanced
<1>7. CASE /\ t.route # <<>>
           /\ ~InTransit(t)
           /\ paths[p].status # "BLOCKED"
           /\ ~(PathCfg[p].cost <= 1)
  <2>1. p \in Path /\ PathCfg[p].cost \in Nat
    BY <1>1, <1>7, HeadTailProperties, MapAssumption
  <2>2. c \in 1..(PathCfg[p].cost - 1)
    BY <1>7, <2>1
  <2>3. Advanced(t) = [t EXCEPT !.travel = p, !.remaining = c]
    BY <1>7 DEF Advanced
  <2> HIDE DEF p, c
  <2>4. /\ Advanced(t).travel = p
        /\ Advanced(t).route = t.route
        /\ Advanced(t).remaining = c
    BY <2>3 DEF UnitState, RingBearerState
  <2>5. QED
    BY <1>7, <2>2, <2>4 DEF OnItsWay, p
<1>8. QED
  BY <1>2, <1>3, <1>4, <1>5, <1>6, <1>7

\* A wound, a cooldown and a lost place leave the travel as it is.
LEMMA WoundedTravel ==
  ASSUME TypeOK, NEW u \in Unit, NEW d \in Int
  PROVE  LET q == Damaged(u, d) IN
           /\ q.travel = units[u].travel
           /\ q.route = units[u].route
           /\ q.remaining = units[u].remaining
BY DEF Damaged, TypeOK, UnitState

\* So does a cooldown that passes.
LEMMA CooledTravel ==
  ASSUME NEW t \in UnitState, OnItsWay(t)
  PROVE  OnItsWay(CooledDown(t))
<1>1. /\ CooledDown(t).travel = t.travel
      /\ CooledDown(t).route = t.route
      /\ CooledDown(t).remaining = t.remaining
  BY DEF CooledDown, UnitState
<1>2. QED
  BY <1>1, SameTravel

\* So do the timers, unless the unit returns.
LEMMA TimedOnItsWay ==
  ASSUME TypeOK, NEW u \in Unit, OnItsWay(units[u])
  PROVE  OnItsWay(CooledDown(AfterRespawnTimer(u)))
<1> DEFINE q == AfterRespawnTimer(u)
           back == PlacedAt(units[u], UnitCfg[u].start)
<1>1. q \in UnitState /\ units[u] \in UnitState
  BY AfterRespawnTimerType DEF TypeOK
<1>2. OnItsWay(q)
  <2>1. CASE Respawns(u)
    <3>1. UnitCfg[u].start \in Place
      BY RosterAssumption DEF UnitConfig, Place
    <3>2. back \in UnitState /\ back.travel = None
      BY <1>1, <3>1, PlacedAtType, ResetsTravel
    <3>3. q.travel = back.travel
      <4> HIDE DEF back
      <4>1. q = [back EXCEPT !.status = "ACTIVE", !.strength = UnitCfg[u].strength,
                             !.respawnTurns = 0]
        BY <2>1 DEF AfterRespawnTimer, back
      <4>2. QED
        BY <3>2, <4>1 DEF UnitState
    <3>4. QED
      BY <3>2, <3>3, NotTravelling
  <2>2. CASE ~Respawns(u)
    <3>1. q.travel = units[u].travel /\ q.route = units[u].route /\ q.remaining = units[u].remaining
      BY <1>1, <2>2 DEF AfterRespawnTimer, UnitState
    <3> HIDE DEF q
    <3>2. QED
      BY <3>1, SameTravel
  <2>3. QED
    BY <2>1, <2>2
<1> HIDE DEF q
<1>3. OnItsWay(CooledDown(q))
  BY <1>1, <1>2, CooledTravel
<1>4. QED
  BY <1>3 DEF q

\* Every move of a unit keeps it on its way.
LEMMA UnitOnItsWay ==
  ASSUME TypeOK, NEW u \in Unit, OnItsWay(units[u]), UnitMove(u)
  PROVE  OnItsWay(units'[u])
<1>1. units[u] \in UnitState
  BY DEF TypeOK
<1>2. CASE units'[u] = units[u]
  BY <1>2
<1>3. ASSUME NEW s \in Seq(Path), units'[u] = Rerouted(units[u], s)
      PROVE  OnItsWay(units'[u])
  BY <1>1, <1>3, ResetsTravel, NotTravelling
<1>4. ASSUME NEW r \in Place, units'[u] = PlacedAt(units[u], r)
      PROVE  OnItsWay(units'[u])
  BY <1>1, <1>4, ResetsTravel, NotTravelling
<1>5. ASSUME NEW k \in Nat, units'[u] = [units[u] EXCEPT !.cooldown = k]
      PROVE  OnItsWay(units'[u])
  <2>1. /\ units'[u].travel = units[u].travel
        /\ units'[u].route = units[u].route
        /\ units'[u].remaining = units[u].remaining
    BY <1>1, <1>5 DEF UnitState
  <2>2. QED
    BY <2>1, SameTravel
<1>6. CASE units'[u] = Advanced(units[u])
  BY <1>1, <1>6, AdvancedOnItsWay
<1>7. ASSUME NEW d \in Int, units'[u] = Damaged(u, d)
      PROVE  OnItsWay(units'[u])
  BY <1>7, WoundedTravel, SameTravel
<1>8. CASE units'[u] = CooledDown(AfterRespawnTimer(u))
  BY <1>8, TimedOnItsWay
<1>9. CASE units'[u] = [units[u] EXCEPT !.region = Nowhere]
  <2>1. /\ units'[u].travel = units[u].travel
        /\ units'[u].route = units[u].route
        /\ units'[u].remaining = units[u].remaining
    BY <1>1, <1>9 DEF UnitState
  <2>2. QED
    BY <2>1, SameTravel
<1>10. CASE NewGame
  <2>1. units'[u].travel = None
    BY <1>10 DEF NewGame, UnitsAtStart, UnitAtStart
  <2>2. QED
    BY <2>1, NotTravelling
<1>11. CASE NewGameElsewhere
  <2>1. /\ units'[u].travel = units[u].travel
        /\ units'[u].route = units[u].route
        /\ units'[u].remaining = units[u].remaining
    <3>1. units'[u] = [units[u] EXCEPT !.region = UnitsAtStart[u].region,
                                       !.strength = UnitCfg[u].strength,
                                       !.status = "ACTIVE"]
      BY <1>11 DEF NewGameElsewhere
    <3>2. QED
      BY <1>1, <3>1 DEF UnitState
  <2>2. QED
    BY <2>1, SameTravel
<1>12. QED
  BY <1>2, <1>3, <1>4, <1>5, <1>6, <1>7, <1>8, <1>9, <1>10, <1>11 DEF UnitMove, Restarted

\* What a step may do to the Ring Bearer.
LEMMA BearerMoves ==
  ASSUME TypeOK, [Next]_vars
  PROVE  \/ rb' = rb
         \/ \E s \in Seq(Path) : rb' = Rerouted(rb, s)
         \/ AutoAdvance /\ rb' = BearerAdvanced
         \/ \E e \in BOOLEAN : rb' = [rb EXCEPT !.exposed = e]
         \/ NewGame /\ rb' = BearerAtStart
<1>1. CASE BeginTurn
  <2>1. rb' = rb
          \/ (orders[RingBearer].type = "ROUTE" /\ rb' = Rerouted(rb, orders[RingBearer].route))
    BY <1>1 DEF BeginTurn
  <2>2. QED
    BY <2>1, TakenType, RosterAssumption
<1>2. CASE AutoAdvance
  BY <1>2 DEF AutoAdvance
<1>3. CASE EndTurn
  <2> DEFINE exposed == rb.exposed \/ Detected(units')
             outcome == Outcome(units', exposed)
             e == exposed /\ outcome # None
  <2>1. e \in BOOLEAN /\ rb' = [rb EXCEPT !.exposed = e]
    BY <1>3 DEF EndTurn, BearerAtTurnEnd
  <2> HIDE DEF e
  <2>2. QED
    BY <2>1
<1>4. CASE NewGame
  BY <1>4 DEF NewGame
<1>5. CASE NewGameElsewhere
  BY <1>5 DEF NewGameElsewhere
<1>6. CASE \E u \in Unit : BlockPath(u) \/ SearchPath(u) \/ MaiaAbility(u) \/ AttackRegion(u)
  BY <1>6 DEF BlockPath, SearchPath, MaiaAbility, AttackRegion
<1>7. CASE \/ \E u \in Unit, o \in Submittable : BufferOrder(u, o) \/ BufferLateOrder(u, o)
           \/ RevertBlocked \/ DeployAndFortify \/ ApplyBroadcast
  BY <1>7 DEF BufferOrder, BufferLateOrder, RevertBlocked, DeployAndFortify, ApplyBroadcast
<1>8. CASE UNCHANGED vars
  BY <1>8 DEF vars
<1>9. QED
  BY <1>1, <1>2, <1>3, <1>4, <1>5, <1>6, <1>7, <1>8 DEF Next, TurnStep

\* The Ring Bearer's turn on the road is that of a unit, but for the exposure.
LEMMA BearerAdvancedIsAdvanced ==
  ASSUME TypeOK
  PROVE  /\ BearerAdvanced.travel = Advanced(rb).travel
         /\ BearerAdvanced.route = Advanced(rb).route
         /\ BearerAdvanced.remaining = Advanced(rb).remaining
         /\ BearerAdvanced.region = Advanced(rb).region
<1> DEFINE moved == Advanced(rb)
           seen == moved.exposed \/ ExposedBySurveillance(Head(rb.route))
<1>1. moved \in RingBearerState
  BY AdvancedType DEF TypeOK
<1>2. BearerAdvanced \in {moved, [moved EXCEPT !.exposed = seen]}
  BY DEF BearerAdvanced
<1> HIDE DEF moved, seen
<1>3. QED
  BY <1>1, <1>2 DEF RingBearerState, moved

\* The Ring Bearer stays on its way.
LEMMA BearerOnItsWay ==
  ASSUME TypeOK, [Next]_vars, OnItsWay(rb)
  PROVE  OnItsWay(rb')
<1>1. rb \in RingBearerState
  BY DEF TypeOK
<1>2. CASE rb' = rb
  BY <1>2
<1>3. ASSUME NEW s \in Seq(Path), rb' = Rerouted(rb, s)
      PROVE  OnItsWay(rb')
  BY <1>1, <1>3, ResetsTravel, NotTravelling
<1>4. CASE rb' = BearerAdvanced
  <2>1. OnItsWay(Advanced(rb))
    BY <1>1, AdvancedOnItsWay
  <2>2. QED
    BY <1>4, <2>1, BearerAdvancedIsAdvanced, SameTravel
<1>5. ASSUME NEW e \in BOOLEAN, rb' = [rb EXCEPT !.exposed = e]
      PROVE  OnItsWay(rb')
  <2>1. rb'.travel = rb.travel /\ rb'.route = rb.route /\ rb'.remaining = rb.remaining
    BY <1>1, <1>5 DEF RingBearerState
  <2>2. QED
    BY <2>1, SameTravel
<1>6. CASE rb' = BearerAtStart
  <2>1. rb'.travel = None
    BY <1>6 DEF BearerAtStart
  <2>2. QED
    BY <2>1, NotTravelling
<1>7. QED
  BY <1>2, <1>3, <1>4, <1>5, <1>6, BearerMoves

\* Nobody is under way at the start.
LEMMA InitOnItsWay == Init => TravelOnRoute
<1> SUFFICES ASSUME Init
             PROVE  TravelOnRoute
  OBVIOUS
<1>1. rb.travel = None /\ \A u \in Unit : units[u].travel = None
  BY DEF Init, BearerAtStart, UnitsAtStart, UnitAtStart
<1>2. QED
  BY <1>1, NotTravelling DEF TravelOnRoute

\* Whatever the map, the orders and the battles: whoever is under way is on the first path
\* of its route, with at least one turn and less than the cost of the path to go.
THEOREM TravellersKeepToRoute == Spec => []TravelOnRoute
<1>1. Init => TypeOK /\ TravelOnRoute
  BY InitType, InitOnItsWay
<1>2. TypeOK /\ TravelOnRoute /\ [Next]_vars => (TypeOK /\ TravelOnRoute)'
  <2> SUFFICES ASSUME TypeOK, TravelOnRoute, [Next]_vars
               PROVE  (TypeOK /\ TravelOnRoute)'
    OBVIOUS
  <2>1. OnItsWay(rb')
    BY BearerOnItsWay DEF TravelOnRoute
  <2>2. \A u \in Unit : OnItsWay(units'[u])
    BY UnitMoves, UnitOnItsWay DEF TravelOnRoute
  <2>3. TravelOnRoute'
    BY <2>1, <2>2 DEF TravelOnRoute, OnItsWay
  <2>4. QED
    BY <2>3, NextType
<1>3. QED
  BY <1>1, <1>2, PTL DEF Spec

\* Step 7 takes the Ring Bearer to the end of a path by its last turn on it, which is also
\* when the path leaves its route.
LEMMA MovedMeansArrived ==
  ASSUME TypeOK, Advanced(rb).region # rb.region
  PROVE  Len(Advanced(rb).route) < Len(rb.route)
<1> DEFINE k == rb.remaining - 1
           c == PathCfg[Head(rb.route)].cost - 1
<1>1. rb \in RingBearerState /\ rb.route \in Seq(Path)
  BY DEF TypeOK, RingBearerState
<1>2. rb.route # <<>>
  BY DEF Advanced
<1>3. /\ [rb EXCEPT !.remaining = k].region = rb.region
      /\ [rb EXCEPT !.travel = Head(rb.route), !.remaining = c].region = rb.region
  <2> HIDE DEF k, c
  <2> QED BY <1>1 DEF RingBearerState
<1>4. Advanced(rb) = Arrived(rb)
  BY <1>2, <1>3 DEF Advanced
<1>5. Arrived(rb).route = Tail(rb.route)
  BY <1>1 DEF Arrived, PlacedAt, RingBearerState
<1>6. Len(Tail(rb.route)) = Len(rb.route) - 1 /\ Len(rb.route) \in Nat
  BY <1>1, <1>2, HeadTailProperties
<1>7. QED
  BY <1>4, <1>5, <1>6

\* Whatever the costs of the paths and however long the Ring Bearer was under way: after the
\* hidden start no watched path is walked to its end without exposing it.
THEOREM WatchedRoadsExpose == Spec => WatchedRoadExposes
<1> DEFINE Exposes == /\ phase = "maia"
                      /\ rb'.region # rb.region
                      /\ turn > HiddenUntilTurn
                      /\ paths[Head(rb.route)].surveillance > 0
                      => rb'.exposed
<1>1. TypeOK /\ [Next]_vars => Exposes
  <2> SUFFICES ASSUME TypeOK, [Next]_vars,
                      phase = "maia",
                      rb'.region # rb.region,
                      turn > HiddenUntilTurn,
                      paths[Head(rb.route)].surveillance > 0
               PROVE  rb'.exposed
    OBVIOUS
  <2> DEFINE moved == Advanced(rb)
             seen == moved.exposed \/ ExposedBySurveillance(Head(rb.route))
  <2>1. rb' = BearerAdvanced
    <3>1. ASSUME NEW s \in Seq(Path), rb' = Rerouted(rb, s)
          PROVE  FALSE
      BY <3>1 DEF Rerouted, TypeOK, RingBearerState
    <3>2. ASSUME NEW e \in BOOLEAN, rb' = [rb EXCEPT !.exposed = e]
          PROVE  FALSE
      BY <3>2 DEF TypeOK, RingBearerState
    <3>3. ~NewGame
      BY DEF NewGame
    <3>4. QED
      BY <3>1, <3>2, <3>3, BearerMoves
  <2>2. Len(moved.route) < Len(rb.route)
    BY <2>1, BearerAdvancedIsAdvanced, MovedMeansArrived
  <2>3. ExposedBySurveillance(Head(rb.route))
    <3>1. Head(rb.route) \in Path
      <4>1. rb.route # <<>>
        BY <2>2 DEF Advanced
      <4>2. QED
        BY <4>1, HeadTailProperties DEF TypeOK, RingBearerState
    <3>2. QED
      BY <3>1 DEF ExposedBySurveillance, TypeOK, PathState
  <2>4. moved \in RingBearerState
    BY AdvancedType DEF TypeOK
  <2>5. rb' = [moved EXCEPT !.exposed = seen]
    BY <2>1, <2>2 DEF BearerAdvanced
  <2>6. seen = TRUE
    BY <2>3
  <2> HIDE DEF moved, seen
  <2>7. QED
    BY <2>4, <2>5, <2>6 DEF RingBearerState
<1>2. TypeOK /\ [Next]_vars => [Exposes]_vars
  BY <1>1
<1>3. QED
  BY <1>2, TypeCorrect, PTL DEF Spec, WatchedRoadExposes

-----------------------------------------------------------------------------
(* Battle.                                                                 *)

\* What a step may do to the fortification of a region: step 5 makes the timer 2, the end of
\* the turn (step 10) takes one, a new game clears it, and conquests leave it alone.
LEMMA FortifyMoves ==
  ASSUME TypeOK, [Next]_vars, NEW q \in Region
  PROVE  \/ Restarted /\ ~regions'[q].fortified /\ phase' = "collect"
         \/ /\ regions'[q].fortified = regions[q].fortified
            /\ regions'[q].fortifyTurns = regions[q].fortifyTurns
            /\ phase \in {"maia", "combat"} => phase' \in {"maia", "combat"}
         \/ /\ phase = "deploy" /\ phase' = "maia"
            /\ regions'[q].fortified /\ regions'[q].fortifyTurns = 2
         \/ /\ phase = "combat" /\ phase' = "collect"
            /\ regions[q].fortified => /\ regions'[q].fortifyTurns = regions[q].fortifyTurns - 1
                                       /\ regions'[q].fortified <=> regions[q].fortifyTurns > 1
            /\ regions'[q].fortified => regions[q].fortified
<1>1. regions[q] \in RegionState /\ regions[q].fortifyTurns \in Int
  BY DEF TypeOK, RegionState
<1>2. ASSUME NEW u \in Unit, AttackRegion(u)
      PROVE  /\ regions'[q].fortified = regions[q].fortified
             /\ regions'[q].fortifyTurns = regions[q].fortifyTurns
             /\ phase' = phase
  <2>1. PICK r \in Region : \/ regions' = [regions EXCEPT ![r].control = SideOf(u)]
                            \/ regions' = regions
    BY <1>2, AttackOutcome
  <2>2. regions'[q] \in {regions[q], [regions[q] EXCEPT !.control = SideOf(u)]}
    BY <2>1 DEF TypeOK
  <2>3. phase' = phase
    BY <1>2 DEF AttackRegion
  <2>4. QED
    BY <1>1, <2>2, <2>3 DEF RegionState
<1>3. CASE DeployAndFortify
  <2> DEFINE two == 2
             yes == TRUE
  <2>1. phase = "deploy" /\ phase' = "maia"
    BY <1>3 DEF DeployAndFortify
  <2>2. regions'[q] \in {regions[q], [regions[q] EXCEPT !.fortified = yes, !.fortifyTurns = two]}
    BY <1>3 DEF DeployAndFortify
  <2> HIDE DEF yes, two
  <2>3. regions'[q] = regions[q] \/ (regions'[q].fortified = yes /\ regions'[q].fortifyTurns = two)
    BY <1>1, <2>2 DEF RegionState
  <2>4. QED
    BY <2>1, <2>3 DEF yes, two
<1>4. CASE EndTurn
  <2> DEFINE k == regions[q].fortifyTurns - 1
             lasts == regions[q].fortifyTurns > 1
  <2>1. phase = "combat" /\ phase' = "collect"
    BY <1>4 DEF EndTurn
  <2>2. regions'[q] = IF regions[q].fortified
                      THEN [regions[q] EXCEPT !.fortifyTurns = k, !.fortified = lasts]
                      ELSE regions[q]
    BY <1>4 DEF EndTurn, AfterFortifyTimer
  <2> HIDE DEF k, lasts
  <2>3. IF regions[q].fortified THEN regions'[q].fortifyTurns = k /\ regions'[q].fortified = lasts
                                ELSE regions'[q] = regions[q]
    BY <1>1, <2>2 DEF RegionState
  <2>4. QED
    BY <2>1, <2>3 DEF k, lasts
<1>5. CASE NewGame
  BY <1>5 DEF NewGame, RegionsAtStart, Restarted
<1>6. CASE NewGameElsewhere
  <2> DEFINE no == FALSE
  <2>1. phase' = "collect"
    BY <1>6 DEF NewGameElsewhere
  <2>2. regions'[q] = [regions[q] EXCEPT !.control = StartControl[q], !.fortified = no]
    BY <1>6 DEF NewGameElsewhere
  <2> HIDE DEF no
  <2>3. regions'[q].fortified = no
    BY <1>1, <2>2 DEF RegionState
  <2>4. QED
    BY <1>6, <2>1, <2>3 DEF Restarted, no
<1>7. CASE BeginTurn \/ RevertBlocked \/ AutoAdvance
  BY <1>7 DEF BeginTurn, RevertBlocked, AutoAdvance
<1>8. ASSUME NEW u \in Unit, BlockPath(u) \/ SearchPath(u) \/ MaiaAbility(u)
      PROVE  regions' = regions /\ phase' = phase
  BY <1>8 DEF BlockPath, SearchPath, MaiaAbility
<1>9. ASSUME \/ \E u \in Unit, o \in Submittable : BufferOrder(u, o) \/ BufferLateOrder(u, o)
             \/ ApplyBroadcast
             \/ UNCHANGED vars
      PROVE  regions' = regions /\ phase' = phase
  BY <1>9 DEF BufferOrder, BufferLateOrder, ApplyBroadcast, vars
<1>10. QED
  BY <1>2, <1>3, <1>4, <1>5, <1>6, <1>7, <1>8, <1>9 DEF Next, TurnStep

\* Between turns a fortified region has one combat to go, and never more than two.
FortifiedInTime ==
  \A q \in Region :
    regions[q].fortified =>
      regions[q].fortifyTurns \in (IF phase \in {"maia", "combat"} THEN 1..2 ELSE {1})

\* Every step keeps it so.
LEMMA NextFortified == TypeOK /\ FortifiedInTime /\ [Next]_vars => FortifiedInTime'
<1> SUFFICES ASSUME TypeOK, FortifiedInTime, [Next]_vars, NEW q \in Region, regions'[q].fortified
             PROVE  regions'[q].fortifyTurns \in (IF phase' \in {"maia", "combat"} THEN 1..2
                                                                               ELSE {1})
  BY DEF FortifiedInTime
<1>1. /\ regions[q].fortifyTurns \in Int
      /\ regions[q].fortified =>
           regions[q].fortifyTurns \in (IF phase \in {"maia", "combat"} THEN 1..2 ELSE {1})
  BY DEF TypeOK, RegionState, FortifiedInTime
<1>2. QED
  BY <1>1, FortifyMoves

\* However often a region is fortified and conquered, and whatever comes between: an order
\* protects it in this turn's combat and the next one's, and in no other.
THEOREM FortressesLastTwoTurns == Spec => FortifiedForTwoCombats
<1> DEFINE TwoCombats == \A r \in Region :
       \/ Restarted /\ CombatsLeft(r)' = 0
       \/ /\ CombatsLeft(r)' = IF phase = "combat" /\ phase' = "collect" /\ CombatsLeft(r) > 0
                               THEN CombatsLeft(r) - 1
                               ELSE CombatsLeft(r)
          /\ regions'[r].fortified <=> CombatsLeft(r)' > 0
       \/ phase = "deploy" /\ CombatsLeft(r)' = 2
<1>1. Init => TypeOK /\ FortifiedInTime
  <2>1. Init => FortifiedInTime
    BY DEF Init, RegionsAtStart, FortifiedInTime
  <2>2. QED
    BY <2>1, InitType
<1>2. TypeOK /\ FortifiedInTime /\ [Next]_vars => (TypeOK /\ FortifiedInTime)'
  BY NextType, NextFortified
<1>3. TypeOK /\ FortifiedInTime /\ [Next]_vars => TwoCombats
  <2> SUFFICES ASSUME TypeOK, FortifiedInTime, [Next]_vars, NEW r \in Region
               PROVE  \/ Restarted /\ CombatsLeft(r)' = 0
                      \/ /\ CombatsLeft(r)' = IF phase = "combat" /\ phase' = "collect"
                                                 /\ CombatsLeft(r) > 0
                                              THEN CombatsLeft(r) - 1
                                              ELSE CombatsLeft(r)
                         /\ regions'[r].fortified <=> CombatsLeft(r)' > 0
                      \/ phase = "deploy" /\ CombatsLeft(r)' = 2
    OBVIOUS
  <2>1. /\ regions[r].fortifyTurns \in Int
        /\ regions[r].fortified =>
             regions[r].fortifyTurns \in (IF phase \in {"maia", "combat"} THEN 1..2 ELSE {1})
    BY DEF TypeOK, RegionState, FortifiedInTime
  <2>2. /\ CombatsLeft(r) = IF regions[r].fortified THEN regions[r].fortifyTurns ELSE 0
        /\ CombatsLeft(r)' = IF regions'[r].fortified THEN regions'[r].fortifyTurns ELSE 0
    BY DEF CombatsLeft
  <2>3. QED
    BY <2>1, <2>2, FortifyMoves
<1>4. TypeOK /\ FortifiedInTime /\ [Next]_vars => [TwoCombats]_vars
  BY <1>3
<1>5. QED
  BY <1>1, <1>2, <1>4, PTL DEF Spec, FortifiedForTwoCombats

\* Only an attack, and a new game, gives a region to another side.
LEMMA ControlMoves ==
  ASSUME TypeOK, [Next]_vars, NEW q \in Region
  PROVE  \/ /\ regions'[q].control = regions[q].control
            /\ maiaDisabled => maiaDisabled'
         \/ \E u \in Unit : /\ AttackRegion(u)
                            /\ regions'[q].control = SideOf(u)
                            /\ DisablesCorruption(q, SideOf(u)) => maiaDisabled'
         \/ Restarted /\ regions'[q].control = StartControl[q]
<1>1. regions[q] \in RegionState
  BY DEF TypeOK
<1>2. ASSUME NEW u \in Unit, AttackRegion(u)
      PROVE  \/ /\ regions'[q].control = regions[q].control
                /\ maiaDisabled => maiaDisabled'
             \/ /\ regions'[q].control = SideOf(u)
                /\ DisablesCorruption(q, SideOf(u)) => maiaDisabled'
  <2>1. PICK r \in Region :
          \/ /\ regions' = [regions EXCEPT ![r].control = SideOf(u)]
             /\ maiaDisabled' = (maiaDisabled \/ DisablesCorruption(r, SideOf(u)))
          \/ UNCHANGED <<regions, maiaDisabled>>
    BY <1>2, AttackOutcome
  <2>2. CASE r = q /\ regions' = [regions EXCEPT ![r].control = SideOf(u)]
    BY <1>1, <2>1, <2>2 DEF TypeOK, RegionState
  <2>3. CASE r # q \/ regions' = regions
    BY <1>1, <2>1, <2>3 DEF TypeOK
  <2>4. QED
    BY <2>1, <2>2, <2>3
<1>3. CASE DeployAndFortify
  <2> DEFINE two == 2
             yes == TRUE
  <2>1. regions'[q] \in {regions[q], [regions[q] EXCEPT !.fortified = yes, !.fortifyTurns = two]}
    BY <1>3 DEF DeployAndFortify
  <2>2. maiaDisabled' = maiaDisabled
    BY <1>3 DEF DeployAndFortify
  <2> HIDE DEF yes, two
  <2>3. QED
    BY <1>1, <2>1, <2>2 DEF RegionState
<1>4. CASE EndTurn
  <2> DEFINE k == regions[q].fortifyTurns - 1
             lasts == regions[q].fortifyTurns > 1
  <2>1. regions'[q] \in {regions[q], [regions[q] EXCEPT !.fortifyTurns = k, !.fortified = lasts]}
    BY <1>4 DEF EndTurn, AfterFortifyTimer
  <2>2. maiaDisabled' = maiaDisabled
    BY <1>4 DEF EndTurn
  <2> HIDE DEF k, lasts
  <2>3. QED
    BY <1>1, <2>1, <2>2 DEF RegionState
<1>5. CASE BeginTurn \/ RevertBlocked \/ AutoAdvance
  BY <1>5 DEF BeginTurn, RevertBlocked, AutoAdvance
<1>6. CASE \E u \in Unit : BlockPath(u) \/ SearchPath(u) \/ MaiaAbility(u)
  BY <1>6 DEF BlockPath, SearchPath, MaiaAbility
<1>7. CASE \/ \E u \in Unit, o \in Submittable : BufferOrder(u, o) \/ BufferLateOrder(u, o)
           \/ ApplyBroadcast
           \/ UNCHANGED vars
  BY <1>7 DEF BufferOrder, BufferLateOrder, ApplyBroadcast, vars
<1>8. CASE NewGame
  BY <1>8 DEF NewGame, RegionsAtStart, Restarted
<1>9. CASE NewGameElsewhere
  <2> DEFINE no == FALSE
  <2>1. regions'[q] = [regions[q] EXCEPT !.control = StartControl[q], !.fortified = no]
    BY <1>9 DEF NewGameElsewhere
  <2> HIDE DEF no
  <2>2. regions'[q].control = StartControl[q]
    BY <1>1, <2>1 DEF RegionState
  <2>3. QED
    BY <1>9, <2>2 DEF Restarted
<1>10. QED
  BY <1>2, <1>3, <1>4, <1>5, <1>6, <1>7, <1>8, <1>9 DEF Next, TurnStep

\* Whatever happens elsewhere and whoever holds Isengard later: as long as the Free Peoples
\* hold an Isengard they have conquered, no unit corrupts a path.
THEOREM FallenIsengardIsSilent ==
  ASSUME Isengard \in Region
  PROVE  Spec => []IsengardFallSilences
<1>1. Init => TypeOK /\ IsengardFallSilences
  <2>1. Init => IsengardFallSilences
    BY DEF Init, RegionsAtStart, IsengardFallSilences
  <2>2. QED
    BY <2>1, InitType
<1>2. TypeOK /\ IsengardFallSilences /\ [Next]_vars => (TypeOK /\ IsengardFallSilences)'
  <2> SUFFICES ASSUME TypeOK, IsengardFallSilences, [Next]_vars,
                      regions'[Isengard].control = "FREE_PEOPLES",
                      StartControl[Isengard] # "FREE_PEOPLES"
               PROVE  maiaDisabled'
    BY NextType DEF IsengardFallSilences
  <2>1. CASE /\ regions'[Isengard].control = regions[Isengard].control
             /\ maiaDisabled => maiaDisabled'
    BY <2>1 DEF IsengardFallSilences
  <2>2. ASSUME NEW u \in Unit,
               regions'[Isengard].control = SideOf(u),
               DisablesCorruption(Isengard, SideOf(u)) => maiaDisabled'
        PROVE  maiaDisabled'
    BY <2>2 DEF DisablesCorruption
  <2>3. QED
    BY <2>1, <2>2, ControlMoves
<1>3. QED
  BY <1>1, <1>2, PTL DEF Spec

\* A victory leaves an attacker in the region it is about: someone had the power to win, and
\* all who had it have moved in.
LEMMA GarrisonAfterAttack ==
  ASSUME TypeOK, NEW u \in Unit, AttackRegion(u), NEW q \in Region,
         regions'[q].control # regions[q].control
  PROVE  \E v \in Unit : /\ units'[v].status = "ACTIVE"
                         /\ units'[v].region = q
                         /\ SideOf(v) = regions'[q].control
<1>1. PICK A \in SUBSET Unit, D \in SUBSET Unit, r \in Region, d \in Int :
        /\ \A v \in A : Active(units, v) /\ SideOf(v) = SideOf(u)
        /\ A # {}
        /\ units' = AfterVictory(A, D, r, d)
        /\ regions' = [regions EXCEPT ![r].control = SideOf(u)]
  BY AttackOutcome
<1>2. q = r /\ regions'[q].control = SideOf(u)
  BY <1>1 DEF TypeOK, RegionState
<1>3. PICK v \in A : TRUE
  BY <1>1
<1>4. v \in Unit /\ units'[v] = PlacedAt(units[v], r)
  BY <1>1 DEF AfterVictory
<1>5. units'[v].status = "ACTIVE" /\ units'[v].region = r
  BY <1>1, <1>4 DEF Active, PlacedAt, TypeOK, UnitState
<1>6. QED
  BY <1>1, <1>2, <1>4, <1>5

\* No region changes hands by a battle nobody of the new side survives in it, for any map,
\* terrain and number of attackers.
THEOREM ConquestsAreHeld == Spec => ConquestLeavesGarrison
<1> DEFINE Held == \A r \in Region :
                     regions'[r].control # regions[r].control =>
                       \/ Restarted
                       \/ \E u \in Unit : /\ Active(units', u)
                                          /\ units'[u].region = r
                                          /\ SideOf(u) = regions'[r].control
<1>1. TypeOK /\ [Next]_vars => Held
  <2> SUFFICES ASSUME TypeOK, [Next]_vars, NEW r \in Region,
                      regions'[r].control # regions[r].control
               PROVE  \/ Restarted
                      \/ \E u \in Unit : /\ units'[u].status = "ACTIVE"
                                         /\ units'[u].region = r
                                         /\ SideOf(u) = regions'[r].control
    BY DEF Active
  <2>1. QED
    BY ControlMoves, GarrisonAfterAttack
<1>2. TypeOK /\ [Next]_vars => [Held]_vars
  BY <1>1
<1>3. QED
  BY <1>2, TypeCorrect, PTL DEF Spec, ConquestLeavesGarrison

\* What is destroyed is neither wounded nor returned by any move of a unit.
LEMMA DestroyedStays ==
  ASSUME TypeOK, NEW u \in Unit, units[u].status = "DESTROYED", UnitMove(u)
  PROVE  units'[u].status = "DESTROYED" \/ Restarted
<1>1. units[u] \in UnitState
  BY DEF TypeOK
<1>2. \A q : SameLife(units[u], q) => q.status = "DESTROYED"
  BY DEF SameLife
<1>3. ~Active(units, u)
  BY DEF Active
<1>4. CASE units'[u] = CooledDown(AfterRespawnTimer(u))
  <2>1. AfterRespawnTimer(u) = units[u]
    BY DEF AfterRespawnTimer, Respawns
  <2>2. QED
    BY <1>1, <1>2, <1>4, <2>1, MovesKeepLife
<1>5. CASE units'[u] = units[u] \/ Restarted
  BY <1>5
<1>6. CASE \/ \E s \in Seq(Path) : units'[u] = Rerouted(units[u], s)
           \/ \E r \in Place : units'[u] = PlacedAt(units[u], r)
           \/ \E k \in Nat : units'[u] = [units[u] EXCEPT !.cooldown = k]
           \/ units'[u] = Advanced(units[u])
           \/ units'[u] = [units[u] EXCEPT !.region = Nowhere]
  <2>1. SameLife(units[u], units'[u])
    BY <1>1, <1>6, MovesKeepLife
  <2>2. QED
    BY <1>2, <2>1
<1>7. QED
  BY <1>3, <1>4, <1>5, <1>6 DEF UnitMove

\* No turn, order or broadcast brings a destroyed unit back.
THEOREM DestructionIsFinal == Spec => DestroyedIsFinal
<1> DEFINE Final == \A u \in Unit :
                      units[u].status = "DESTROYED" => units'[u].status = "DESTROYED" \/ Restarted
<1>1. TypeOK /\ [Next]_vars => Final
  BY UnitMoves, DestroyedStays
<1>2. TypeOK /\ [Next]_vars => [Final]_vars
  BY <1>1
<1>3. QED
  BY <1>2, TypeCorrect, PTL DEF Spec, DestroyedIsFinal

\* Only an attack weakens a unit: every other move leaves it as strong as it was, or at full
\* strength.
LEMMA OnlyWoundsWeaken ==
  ASSUME TypeOK, UnitLifecycle, NEW u \in Unit, UnitMove(u),
         units'[u].strength < units[u].strength
  PROVE  \E w \in Unit : AttackRegion(w)
<1>1. /\ units[u] \in UnitState
      /\ units[u].strength \in Nat
      /\ UnitCfg[u].strength \in Nat
      /\ units[u].strength <= UnitCfg[u].strength
  BY ConfigNumbers DEF TypeOK, UnitState, UnitLifecycle
<1>2. \A q : SameLife(units[u], q) => q.strength = units[u].strength
  BY DEF SameLife
<1>3. CASE units'[u] = CooledDown(AfterRespawnTimer(u))
  <2> DEFINE q == AfterRespawnTimer(u)
  <2>1. q \in UnitState
    BY AfterRespawnTimerType
  <2>2. q.strength \in {units[u].strength, UnitCfg[u].strength}
    <3>1. CASE Respawns(u)
      BY <1>1, <2>1, <3>1 DEF AfterRespawnTimer, PlacedAt, UnitState
    <3>2. CASE ~Respawns(u)
      BY <1>1, <3>2 DEF AfterRespawnTimer, UnitState
    <3>3. QED
      BY <3>1, <3>2
  <2> HIDE DEF q
  <2>3. CooledDown(q).strength = q.strength
    BY <2>1, MovesKeepLife DEF SameLife
  <2>4. QED
    BY <1>1, <1>3, <2>2, <2>3 DEF q
<1>4. CASE Restarted
  <2>1. CASE NewGame
    <3>1. units'[u].strength = UnitCfg[u].strength
      BY <2>1 DEF NewGame, UnitsAtStart, UnitAtStart
    <3>2. QED
      BY <1>1, <3>1
  <2>2. CASE NewGameElsewhere
    <3>1. units'[u] = [units[u] EXCEPT !.region = UnitsAtStart[u].region,
                                       !.strength = UnitCfg[u].strength,
                                       !.status = "ACTIVE"]
      BY <2>2 DEF NewGameElsewhere
    <3>2. units'[u].strength = UnitCfg[u].strength
      BY <1>1, <3>1 DEF UnitState
    <3>3. QED
      BY <1>1, <3>2
  <2>3. QED
    BY <1>4, <2>1, <2>2 DEF Restarted
<1>5. CASE \/ units'[u] = units[u]
           \/ \E s \in Seq(Path) : units'[u] = Rerouted(units[u], s)
           \/ \E r \in Place : units'[u] = PlacedAt(units[u], r)
           \/ \E k \in Nat : units'[u] = [units[u] EXCEPT !.cooldown = k]
           \/ units'[u] = Advanced(units[u])
           \/ units'[u] = [units[u] EXCEPT !.region = Nowhere]
  <2>1. units'[u] = units[u] \/ SameLife(units[u], units'[u])
    BY <1>1, <1>5, MovesKeepLife
  <2>2. QED
    BY <1>1, <1>2, <2>1
<1>6. QED
  BY <1>3, <1>4, <1>5 DEF UnitMove

\* Of the two parties of one attack only one is weaker afterwards.
LEMMA OneSideBleeds ==
  ASSUME TypeOK, NEW w \in Unit, AttackRegion(w), NEW u \in Unit, NEW v \in Unit,
         units'[u].strength < units[u].strength,
         units'[v].strength < units[v].strength
  PROVE  SideOf(u) = SideOf(v)
<1>1. PICK A \in SUBSET Unit, D \in SUBSET Unit, r \in Region, d \in Int :
        /\ \A x \in A : SideOf(x) = SideOf(w)
        /\ \A x \in D : SideOf(x) # SideOf(w)
        /\ units' = AfterVictory(A, D, r, d) \/ units' = AfterRepulse(A)
  BY AttackOutcome
<1>2. \A x \in Unit : SideOf(x) \in Side
  BY RosterAssumption DEF UnitConfig, SideOf
<1>3. \A x \in Unit : units[x] \in UnitState /\ units[x].strength \in Nat
  BY DEF TypeOK, UnitState
<1>4. CASE units' = AfterVictory(A, D, r, d)
  <2>1. ASSUME NEW x \in Unit, units'[x].strength < units[x].strength
        PROVE  x \in D
    <3>1. units[x] \in UnitState /\ ~(units[x].strength < units[x].strength)
      BY <1>3
    <3>2. PlacedAt(units[x], r).strength = units[x].strength
      BY <3>1 DEF PlacedAt, UnitState
    <3>3. QED
      BY <1>4, <2>1, <3>1, <3>2 DEF AfterVictory
  <2>2. QED
    BY <1>1, <1>2, <2>1 DEF Side
<1>5. CASE units' = AfterRepulse(A)
  <2>1. ASSUME NEW x \in Unit, units'[x].strength < units[x].strength
        PROVE  x \in A
    <3>1. ~(units[x].strength < units[x].strength)
      BY <1>3
    <3>2. QED
      BY <1>5, <2>1, <3>1 DEF AfterRepulse
  <2>2. QED
    BY <1>1, <2>1
<1>6. QED
  BY <1>1, <1>4, <1>5

\* No step of a game wounds both sides, whatever the armies: attackers who win pay nothing,
\* attackers who are repelled cost nothing.
THEOREM OneSidePays == Spec => OnlyLosersBleed
<1> DEFINE OneSide == \A u, v \in Unit :
                        /\ units'[u].strength < units[u].strength
                        /\ units'[v].strength < units[v].strength
                        => SideOf(u) = SideOf(v)
<1>1. TypeOK /\ UnitLifecycle /\ [Next]_vars => OneSide
  <2> SUFFICES ASSUME TypeOK, UnitLifecycle, [Next]_vars, NEW u \in Unit, NEW v \in Unit,
                      units'[u].strength < units[u].strength,
                      units'[v].strength < units[v].strength
               PROVE  SideOf(u) = SideOf(v)
    OBVIOUS
  <2>1. PICK w \in Unit : AttackRegion(w)
    BY UnitMoves, OnlyWoundsWeaken
  <2>2. QED
    BY <2>1, OneSideBleeds
<1>2. TypeOK /\ UnitLifecycle /\ [Next]_vars => [OneSide]_vars
  BY <1>1
<1>3. QED
  BY <1>2, TypeCorrect, UnitsLiveByTheRules, PTL DEF Spec, OnlyLosersBleed

-----------------------------------------------------------------------------
(* Capture.                                                                *)

\* A set of numbers that is not empty has a least one.
LEMMA LeastNumber ==
  ASSUME NEW T \in SUBSET Nat, T # {}
  PROVE  \E n \in T : \A m \in T : n <= m
<1> DEFINE R == OpToRel(<, Nat)
<1>1. IsWellFoundedOn(R, Nat)
  BY NatLessThanWellFounded
<1>2. \A m, n \in Nat : m < n => <<m, n>> \in R
  BY DEF OpToRel
<1> HIDE DEF R
<1>3. PICK n \in T : \A m \in T : ~ (<<m, n>> \in R)
  BY <1>1, WFMin
<1>4. n \in Nat /\ \A m \in T : m \in Nat /\ ~(m < n)
  BY <1>2, <1>3
<1>5. QED
  BY <1>4

\* b is the function Within defines around r.
IsBall(b, r, k) ==
  b = [i \in 0..k |-> IF i = 0 THEN {r} ELSE b[i - 1] \cup UNION {Neighbours(x) : x \in b[i - 1]}]

\* There is one for every radius: take the least radius without one, and extend the ball
\* of the radius before by its neighbours.
LEMMA BallExists == \A r : \A k \in Nat : \E b : IsBall(b, r, k)
<1> SUFFICES ASSUME NEW r, {k \in Nat : ~ \E b : IsBall(b, r, k)} # {}
             PROVE  FALSE
  OBVIOUS
<1> DEFINE T == {k \in Nat : ~ \E b : IsBall(b, r, k)}
<1>1. PICK n \in T : \A m \in T : n <= m
  BY LeastNumber
<1>2. n \in Nat /\ ~ \E b : IsBall(b, r, n)
  BY <1>1
<1>3. CASE n = 0
  <2> DEFINE b == [i \in 0..n |-> {r}]
  <2>1. IsBall(b, r, n)
    BY <1>3 DEF IsBall
  <2>2. QED
    BY <1>2, <2>1
<1>4. CASE n # 0
  <2>1. n - 1 \in Nat /\ n - 1 \notin T
    BY <1>1, <1>2, <1>4
  <2>2. PICK b : IsBall(b, r, n - 1)
    BY <2>1
  <2> DEFINE top == b[n - 1] \cup UNION {Neighbours(x) : x \in b[n - 1]}
             c == [i \in 0..n |-> IF i = n THEN top ELSE b[i]]
  <2>3. (\A i \in 0..(n - 1) : c[i] = b[i]) /\ c[n] = top
    BY <1>2, <1>4
  <2>4. ASSUME NEW i \in 0..n
        PROVE  c[i] = IF i = 0 THEN {r} ELSE c[i - 1] \cup UNION {Neighbours(x) : x \in c[i - 1]}
    <3>1. CASE i = n
      <4>1. c[i - 1] = b[n - 1]
        BY <1>2, <1>4, <2>3, <3>1
      <4> HIDE DEF c
      <4>2. QED
        BY <1>4, <2>3, <3>1, <4>1
    <3>2. CASE i # n
      <4>1. i \in 0..(n - 1)
        BY <1>2, <3>2
      <4>2. b[i] = IF i = 0 THEN {r} ELSE b[i - 1] \cup UNION {Neighbours(x) : x \in b[i - 1]}
        BY <2>2, <4>1 DEF IsBall
      <4>3. i # 0 => c[i - 1] = b[i - 1]
        BY <1>2, <2>3, <4>1
      <4> HIDE DEF c
      <4>4. QED
        BY <2>3, <4>1, <4>2, <4>3
    <3>3. QED
      BY <3>1, <3>2
  <2>5. IsBall(c, r, n)
    <3>1. c = [i \in 0..n |-> c[i]]
      OBVIOUS
    <3> HIDE DEF c
    <3>2. QED
      BY <2>4, <3>1 DEF IsBall
  <2>6. QED
    BY <1>2, <2>5
<1>5. QED
  BY <1>3, <1>4

\* The ball of any radius (graph.BFSDistance) has its centre in it: no smallest i is without.
LEMMA CentreWithin ==
  ASSUME NEW r, NEW k \in Nat
  PROVE  r \in Within(r, k)
<1> DEFINE ball == CHOOSE b : IsBall(b, r, k)
<1>1. Within(r, k) = ball[k]
  BY DEF Within, IsBall
<1>2. IsBall(ball, r, k)
  BY BallExists
<1> HIDE DEF ball
<1> DEFINE T == {i \in Nat : i <= k /\ r \notin ball[i]}
<1>3. ASSUME T # {}
      PROVE  FALSE
  <2>1. PICK n \in T : \A m \in T : n <= m
    BY <1>3, LeastNumber
  <2>2. n \in 0..k /\ r \notin ball[n]
    BY <2>1
  <2>3. ball[n] = IF n = 0 THEN {r} ELSE ball[n - 1] \cup UNION {Neighbours(x) : x \in ball[n - 1]}
    BY <1>2, <2>2 DEF IsBall
  <2>4. n # 0 => r \in ball[n - 1]
    BY <2>1, <2>2
  <2>5. QED
    BY <2>2, <2>3, <2>4
<1>4. QED
  BY <1>1, <1>3

\* A Nazgul beside the Ring Bearer detects it, whatever its range and with or without the
\* Eye: range 0 sees nothing, so every range that sees has the Ring Bearer's own region in it.
LEMMA CaughtMeansDetected ==
  ASSUME TypeOK, NEW us, BearerCaught(us), turn > HiddenUntilTurn
  PROVE  Detected(us)
<1>1. PICK u \in Unit : /\ Active(us, u)
                        /\ UnitCfg[u].detectionRange > 0
                        /\ us[u].region = rb.region
  BY DEF BearerCaught
<1>2. UnitCfg[u].detectionRange + (IF SauronEyeActive(us) THEN 1 ELSE 0) \in Nat
  BY RosterAssumption DEF UnitConfig
<1>3. QED
  BY <1>1, <1>2, CentreWithin DEF Detected

\* The invariant of capture, step by step: only the end of a turn, a new game and the
\* broadcast take place between turns and change what it speaks of.
LEMMA NextCapture == TypeOK /\ NoNazgulBesideBearer /\ [Next]_vars => NoNazgulBesideBearer'
<1> SUFFICES ASSUME TypeOK, NoNazgulBesideBearer, [Next]_vars,
                    phase' = "collect", turn' > HiddenUntilTurn + 1, winner' = None
             PROVE  ~BearerCaught(units)'
  BY DEF NoNazgulBesideBearer
<1>1. CASE EndTurn
  <2> DEFINE exposed == rb.exposed \/ Detected(units')
             outcome == Outcome(units', exposed)
  <2>1. outcome = None /\ turn' = turn + 1 /\ rb' = BearerAtTurnEnd(exposed, outcome)
    BY <1>1 DEF EndTurn, Recorded
  <2>2. turn > HiddenUntilTurn
    BY <2>1, GameAssumption DEF TypeOK
  <2>3. ~RingDestroyed(units') /\ ~(exposed /\ BearerCaught(units'))
    <3> HIDE DEF exposed
    <3> QED BY <2>1, RosterAssumption DEF Outcome, Side
  <2>4. ~BearerCaught(units')
    BY <2>2, <2>3, CaughtMeansDetected
  <2>5. rb'.region = rb.region
    <3> DEFINE e == exposed /\ outcome # None
    <3>1. e \in BOOLEAN /\ rb' = [rb EXCEPT !.exposed = e]
      BY <2>1 DEF BearerAtTurnEnd
    <3> HIDE DEF e
    <3>2. QED
      BY <3>1 DEF TypeOK, RingBearerState
  <2> HIDE DEF exposed, outcome
  <2>6. QED
    BY <2>4, <2>5 DEF BearerCaught, Active
<1>2. CASE NewGame \/ NewGameElsewhere
  <2>1. turn' = 1
    BY <1>2 DEF NewGame, NewGameElsewhere
  <2>2. QED
    BY <2>1, GameAssumption
<1>3. CASE ApplyBroadcast
  <2>1. ~BearerCaught(units) /\ rb' = rb
    BY <1>3 DEF ApplyBroadcast, NoNazgulBesideBearer
  <2>2. rb.region \in Region /\ Nowhere \notin Region
    BY MapAssumption DEF TypeOK, RingBearerState
  <2>3. ASSUME NEW u \in Unit
        PROVE  /\ units'[u].status = units[u].status
               /\ units'[u].region \in {units[u].region, Nowhere}
    <3>1. units'[u] \in {units[u], [units[u] EXCEPT !.region = Nowhere]}
      BY <1>3 DEF ApplyBroadcast, TypeOK
    <3>2. QED
      BY <3>1 DEF TypeOK, UnitState
  <2>4. QED
    BY <2>1, <2>2, <2>3 DEF BearerCaught, Active
<1>4. CASE UNCHANGED vars
  BY <1>4 DEF vars, NoNazgulBesideBearer, BearerCaught, Active
<1>5. CASE \E u \in Unit, o \in Submittable : BufferOrder(u, o) \/ BufferLateOrder(u, o)
  BY <1>5 DEF BufferOrder, BufferLateOrder, NoNazgulBesideBearer, BearerCaught, Active
<1>6. ASSUME \/ BeginTurn \/ RevertBlocked \/ DeployAndFortify \/ AutoAdvance
             \/ \E u \in Unit : BlockPath(u) \/ SearchPath(u) \/ MaiaAbility(u) \/ AttackRegion(u)
      PROVE  phase' # "collect"
  BY <1>6 DEF BeginTurn, RevertBlocked, DeployAndFortify, AutoAdvance, BlockPath, SearchPath,
              MaiaAbility, AttackRegion
<1>7. QED
  BY <1>1, <1>2, <1>3, <1>4, <1>5, <1>6 DEF Next, TurnStep

\* After the hidden start no game goes on from a turn that ends with a Nazgul beside the
\* Ring Bearer: its own region is within every range, so that it is detected, exposed and
\* caught in the same turn, whatever the map.
THEOREM CaughtMeansLost == Spec => []NoNazgulBesideBearer
<1>1. Init => TypeOK /\ NoNazgulBesideBearer
  <2>1. Init => NoNazgulBesideBearer
    BY GameAssumption DEF Init, NoNazgulBesideBearer
  <2>2. QED
    BY <2>1, InitType
<1>2. TypeOK /\ NoNazgulBesideBearer /\ [Next]_vars => (TypeOK /\ NoNazgulBesideBearer)'
  BY NextType, NextCapture
<1>3. QED
  BY <1>1, <1>2, PTL DEF Spec
=============================================================================
