------------------------- MODULE TurnProcessorTypes --------------------------
(***************************************************************************)
(* Type correctness of the turn engine, for every map, every roster and    *)
(* every setting of the game, with the lemmas about what its steps are     *)
(* built from: the power of a side, a turn along a route, damage.          *)
(***************************************************************************)
EXTENDS TurnProcessor, FiniteSetTheorems, SequenceTheorems, TLAPS

-----------------------------------------------------------------------------
(* Power and the highest bonus are numbers: the sets they count are finite. *)

\* The values of a function on a finite set are finitely many.
LEMMA FiniteImage ==
  ASSUME NEW S, IsFiniteSet(S), NEW f
  PROVE  IsFiniteSet({f[x] : x \in S})
<1> DEFINE T == {f[x] : x \in S}
           g == [x \in S |-> f[x]]
<1>1. g \in Surjection(S, T)
  BY DEF Surjection
<1>2. QED
  BY <1>1, FS_Surjection

\* The highest leadership bonus (combat.go) is a natural number.
LEMMA HighestBonusType ==
  ASSUME NEW u, NEW S \in SUBSET Unit
  PROVE  HighestBonus(u, S) \in Nat
<1> DEFINE O == S \ {u}
           f == [v \in O |-> 1..UnitCfg[v].leadershipBonus]
<1>1. IsFiniteSet(O)
  BY FS_Subset, RosterAssumption
<1>2. IsFiniteSet({f[v] : v \in O})
  BY <1>1, FiniteImage
<1>3. ASSUME NEW v \in O
      PROVE  IsFiniteSet(1..UnitCfg[v].leadershipBonus)
  <2>1. UnitCfg[v].leadershipBonus \in Nat
    BY RosterAssumption DEF UnitConfig
  <2>2. QED
    BY <2>1, FS_Interval
<1>4. \A T \in {f[v] : v \in O} : IsFiniteSet(T)
  BY <1>3
<1>5. IsFiniteSet(UNION {f[v] : v \in O})
  <2> HIDE DEF f
  <2> QED BY <1>2, <1>4, FS_UNION
<1>6. {f[v] : v \in O} = {1..UnitCfg[v].leadershipBonus : v \in S \ {u}}
  OBVIOUS
<1>7. QED
  BY <1>5, <1>6, FS_CardinalityType DEF HighestBonus

\* The power of a side in an attack (combat.go) is a natural number.
LEMMA PowerType ==
  ASSUME TypeOK, NEW S \in SUBSET Unit
  PROVE  Power(S) \in Nat
<1> DEFINE f == [u \in S |-> {u} \X (1..EffectiveStrength(u, S))]
<1>1. IsFiniteSet(S)
  BY FS_Subset, RosterAssumption
<1>2. IsFiniteSet({f[u] : u \in S})
  <2> HIDE DEF f
  <2> QED BY <1>1, FiniteImage
<1>3. ASSUME NEW u \in S
      PROVE  IsFiniteSet({u} \X (1..EffectiveStrength(u, S)))
  <2>0. units[u].strength \in Nat /\ HighestBonus(u, S) \in Nat
    BY HighestBonusType DEF TypeOK, UnitState
  <2>1. EffectiveStrength(u, S) \in Nat
    BY <2>0 DEF EffectiveStrength
  <2>2. IsFiniteSet(1..EffectiveStrength(u, S))
    BY <2>1, FS_Interval
  <2>3. IsFiniteSet({u})
    BY FS_Singleton
  <2>4. QED
    BY <2>2, <2>3, FS_Product
<1>4. \A T \in {f[u] : u \in S} : IsFiniteSet(T)
  BY <1>3
<1>5. IsFiniteSet(UNION {f[u] : u \in S})
  <2> HIDE DEF f
  <2> QED BY <1>2, <1>4, FS_UNION
<1>6. {f[u] : u \in S} = {{u} \X (1..EffectiveStrength(u, S)) : u \in S}
  OBVIOUS
<1>7. QED
  BY <1>5, <1>6, FS_CardinalityType DEF Power

-----------------------------------------------------------------------------
(* Types of what the steps are built from.                                 *)

\* The other end of a path is a region, and so is what an attack may reach.
LEMMA EndsType ==
  ASSUME NEW p \in Path, NEW r
  PROVE  OtherEnd(r, p) \in Region /\ Ends(p) \subseteq Region
BY MapAssumption DEF OtherEnd, Ends

\* Neighbours of a region are regions.
LEMMA NeighboursType ==
  ASSUME NEW r
  PROVE  Neighbours(r) \subseteq Region
BY EndsType DEF Neighbours

\* Whatever a player submits is an order.
LEMMA SubmittableType == Submittable \subseteq Order
<1>1. ASSUME NEW n \in 1..MaxRoute, NEW s \in [1..n -> Path]
      PROVE  Ord("ROUTE", s, None, Nowhere) \in Order
  <2>1. s \in Seq(Path)
    BY SeqDef, BoundAssumption
  <2>2. QED
    BY <2>1 DEF Ord, Order, OrderType, Place
<1>2. <<>> \in Seq(Path)
  BY EmptySeq
<1>3. ASSUME NEW p \in Path, NEW t \in {"BLOCK_PATH", "SEARCH_PATH", "MAIA_ABILITY"}
      PROVE  Ord(t, <<>>, p, Nowhere) \in Order
  BY <1>2 DEF Ord, Order, OrderType, Place
<1>4. ASSUME NEW r \in Place, NEW t \in {"REINFORCE_REGION", "DEPLOY_NAZGUL", "ATTACK_REGION"}
      PROVE  Ord(t, <<>>, None, r) \in Order
  BY <1>2 DEF Ord, Order, OrderType
<1>5. ASSUME NEW t \in {"FORTIFY_REGION", "DESTROY_RING"}
      PROVE  Ord(t, <<>>, None, Nowhere) \in Order
  BY <1>2 DEF Ord, Order, OrderType, Place
<1>6. QED
  BY <1>1, <1>3, <1>4, <1>5 DEF Submittable

\* A validated order is one the steps can take.
LEMMA ValidType ==
  ASSUME TypeOK, NEW u \in Unit, NEW o \in Submittable, Valid(u, o)
  PROVE  o \in ParsedOrder
<1>1. o \in Order
  BY SubmittableType
<1>2. o.type = "ATTACK_REGION" => o.region \in Region
  BY NeighboursType DEF Valid
<1>3. QED
  BY <1>1, <1>2 DEF ParsedOrder

\* An order that is there has the fields of one.
LEMMA TakenType ==
  ASSUME TypeOK, NEW u \in Unit, orders[u].type # "NONE"
  PROVE  /\ orders[u] \in ParsedOrder
         /\ orders[u].route \in Seq(Path)
         /\ orders[u].path \in Path \cup {None}
         /\ orders[u].region \in Place
         /\ orders[u].type = "ATTACK_REGION" => orders[u].region \in Region
BY DEF TypeOK, ParsedOrder, Order, NoOrder

\* A new route keeps the fields of a unit and of the Ring Bearer.
LEMMA ReroutedType ==
  ASSUME NEW s \in Seq(Path)
  PROVE  /\ \A t \in UnitState : Rerouted(t, s) \in UnitState
         /\ \A t \in RingBearerState : Rerouted(t, s) \in RingBearerState
BY DEF Rerouted, UnitState, RingBearerState

\* So does a new place,
LEMMA PlacedAtType ==
  ASSUME NEW t \in UnitState, NEW r \in Place
  PROVE  PlacedAt(t, r) \in UnitState
BY DEF PlacedAt, UnitState

\* and the first of several turns on a path.
LEMMA EnteredType ==
  ASSUME NEW p \in Path, NEW k \in Nat, NEW t
  PROVE  /\ t \in UnitState => [t EXCEPT !.travel = p, !.remaining = k] \in UnitState
         /\ t \in RingBearerState =>
              [t EXCEPT !.travel = p, !.remaining = k] \in RingBearerState
BY DEF UnitState, RingBearerState

\* One turn along a route keeps the fields of a unit and of the Ring Bearer.
LEMMA AdvancedType ==
  ASSUME TypeOK
  PROVE  /\ \A t \in UnitState : Advanced(t) \in UnitState
         /\ \A t \in RingBearerState : Advanced(t) \in RingBearerState
<1>1. ASSUME NEW s \in Seq(Path), s # <<>>
      PROVE  Head(s) \in Path /\ Tail(s) \in Seq(Path) /\ PathCfg[Head(s)].cost \in Nat
  <2>1. Head(s) \in Path /\ Tail(s) \in Seq(Path)
    BY <1>1, HeadTailProperties
  <2>2. QED
    BY <2>1, MapAssumption
<1>2. ASSUME NEW t \in UnitState
      PROVE  Advanced(t) \in UnitState
  <2>1. CASE t.route = <<>>
    BY <1>2, <2>1 DEF Advanced
  <2>2. CASE t.route # <<>>
    <3>1. t.route \in Seq(Path) /\ t.remaining \in Nat
      BY DEF UnitState
    <3>2. Head(t.route) \in Path /\ Tail(t.route) \in Seq(Path) /\ PathCfg[Head(t.route)].cost \in Nat
      BY <1>1, <2>2, <3>1
    <3>3. OtherEnd(t.region, Head(t.route)) \in Region
      BY <3>2, EndsType
    <3>4. Arrived(t) \in UnitState
      BY <3>2, <3>3 DEF Arrived, PlacedAt, UnitState, Place
    <3>5. t.remaining > 0 => [t EXCEPT !.remaining = @ - 1] \in UnitState
      BY <3>1 DEF UnitState
    <3>6. ASSUME PathCfg[Head(t.route)].cost > 1
          PROVE  [t EXCEPT !.travel = Head(t.route),
                           !.remaining = PathCfg[Head(t.route)].cost - 1] \in UnitState
      <4>1. PathCfg[Head(t.route)].cost - 1 \in Nat
        BY <3>2, <3>6
      <4>2. QED
        BY <3>2, <4>1, EnteredType
    <3>7. QED
      BY <2>2, <3>2, <3>4, <3>5, <3>6 DEF Advanced, InTransit
  <2>3. QED
    BY <2>1, <2>2
<1>3. ASSUME NEW t \in RingBearerState
      PROVE  Advanced(t) \in RingBearerState
  <2>1. CASE t.route = <<>>
    BY <1>3, <2>1 DEF Advanced
  <2>2. CASE t.route # <<>>
    <3>1. t.route \in Seq(Path) /\ t.remaining \in Nat
      BY DEF RingBearerState
    <3>2. Head(t.route) \in Path /\ Tail(t.route) \in Seq(Path) /\ PathCfg[Head(t.route)].cost \in Nat
      BY <1>1, <2>2, <3>1
    <3>3. OtherEnd(t.region, Head(t.route)) \in Region
      BY <3>2, EndsType
    <3>4. Arrived(t) \in RingBearerState
      BY <3>2, <3>3 DEF Arrived, PlacedAt, RingBearerState
    <3>5. t.remaining > 0 => [t EXCEPT !.remaining = @ - 1] \in RingBearerState
      BY <3>1 DEF RingBearerState
    <3>6. ASSUME PathCfg[Head(t.route)].cost > 1
          PROVE  [t EXCEPT !.travel = Head(t.route),
                           !.remaining = PathCfg[Head(t.route)].cost - 1] \in RingBearerState
      <4>1. PathCfg[Head(t.route)].cost - 1 \in Nat
        BY <3>2, <3>6
      <4>2. QED
        BY <3>2, <4>1, EnteredType
    <3>7. QED
      BY <2>2, <3>2, <3>4, <3>5, <3>6 DEF Advanced, InTransit
  <2>3. QED
    BY <2>1, <2>2
<1>4. QED
  BY <1>2, <1>3

\* Damage of any size leaves a unit with the fields of one (ApplyDamage).
LEMMA DamagedType ==
  ASSUME TypeOK, NEW u \in Unit, NEW damage \in Int
  PROVE  Damaged(u, damage) \in UnitState
<1>1. units[u] \in UnitState /\ units[u].strength \in Nat
  BY DEF TypeOK, UnitState
<1>2. /\ UnitCfg[u].respawnTurns \in Nat
      /\ UnitCfg[u].indestructible \in BOOLEAN
      /\ UnitCfg[u].respawns \in BOOLEAN
  BY RosterAssumption DEF UnitConfig
<1> DEFINE raw == units[u].strength - damage
           kept == IF raw < 1 THEN 1 ELSE raw
           zero == 0
<1>3. raw \in Int /\ kept \in Nat /\ zero \in Nat
  BY <1>1
<1>4. CASE UnitCfg[u].indestructible
  <2>1. Damaged(u, damage) = [units[u] EXCEPT !.strength = kept, !.status = "ACTIVE"]
    BY <1>4 DEF Damaged
  <2> HIDE DEF raw, kept
  <2>2. QED
    BY <1>1, <1>3, <2>1 DEF UnitState, UnitStatus
<1>5. CASE ~UnitCfg[u].indestructible /\ raw > 0
  <2>1. Damaged(u, damage) = [units[u] EXCEPT !.strength = raw]
    BY <1>5 DEF Damaged
  <2>2. raw \in Nat
    BY <1>3, <1>5
  <2> HIDE DEF raw, kept
  <2>3. QED
    BY <1>1, <2>1, <2>2 DEF UnitState
<1>6. CASE ~UnitCfg[u].indestructible /\ raw <= 0 /\ UnitCfg[u].respawns
  <2>1. ~(raw > 0)
    BY <1>3, <1>6
  <2>2. Damaged(u, damage) = [units[u] EXCEPT !.strength = zero, !.status = "RESPAWNING",
                                              !.region = Nowhere,
                                              !.respawnTurns = UnitCfg[u].respawnTurns]
    BY <1>6, <2>1 DEF Damaged
  <2> HIDE DEF raw, kept, zero
  <2>3. QED
    BY <1>1, <1>2, <1>3, <2>2 DEF UnitState, UnitStatus, Place
<1>7. CASE ~UnitCfg[u].indestructible /\ raw <= 0 /\ ~UnitCfg[u].respawns
  <2>1. ~(raw > 0)
    BY <1>3, <1>7
  <2>2. Damaged(u, damage) = [units[u] EXCEPT !.strength = zero, !.status = "DESTROYED"]
    BY <1>7, <2>1 DEF Damaged
  <2> HIDE DEF raw, kept, zero
  <2>3. QED
    BY <1>1, <1>3, <2>2 DEF UnitState, UnitStatus
<1>8. QED
  BY <1>2, <1>3, <1>4, <1>5, <1>6, <1>7

-----------------------------------------------------------------------------
(* Type correctness: one lemma per action.                                 *)

\* The world of a new game has the right types.
LEMMA StartType ==
  /\ NoOrders \in [Unit -> ParsedOrder \cup {NoOrder}]
  /\ UnitsAtStart \in [Unit -> UnitState]
  /\ PathsAtStart \in [Path -> PathState]
  /\ RegionsAtStart \in [Region -> RegionState]
  /\ BearerAtStart \in RingBearerState
<1>1. <<>> \in Seq(Path)
  BY EmptySeq
<1>2. ASSUME NEW u \in Unit
      PROVE  UnitCfg[u].start \in Region /\ UnitCfg[u].strength \in Nat
  BY RosterAssumption DEF UnitConfig
<1>3. NoOrders \in [Unit -> ParsedOrder \cup {NoOrder}]
  BY DEF NoOrders
<1>4. UnitsAtStart \in [Unit -> UnitState]
  <2>1. ASSUME NEW u \in Unit
        PROVE  UnitAtStart(u) \in UnitState
    BY <1>1, <1>2 DEF UnitAtStart, UnitState, UnitStatus, Place
  <2>2. ASSUME NEW u \in Unit
        PROVE  [UnitAtStart(u) EXCEPT !.region = Nowhere] \in UnitState
    BY <2>1 DEF UnitState, Place
  <2>3. QED
    BY <2>1, <2>2 DEF UnitsAtStart
<1>5. PathsAtStart \in [Path -> PathState]
  BY DEF PathsAtStart, PathState, PathStatus
<1>6. RegionsAtStart \in [Region -> RegionState]
  BY MapAssumption DEF RegionsAtStart, RegionState
<1>7. BearerAtStart \in RingBearerState
  BY <1>1, <1>2, RosterAssumption DEF BearerAtStart, RingBearerState
<1>8. QED
  BY <1>3, <1>4, <1>5, <1>6, <1>7

\* The first state has the right types.
LEMMA InitType == Init => TypeOK
<1> SUFFICES ASSUME Init
             PROVE  TypeOK
  OBVIOUS
<1>1. turn \in Nat /\ phase \in Phase
  BY DEF Init, Phase
<1>2. /\ maiaDisabled \in BOOLEAN /\ winner \in Side \cup {"DRAW", None}
      /\ gameOverSent \in BOOLEAN /\ startedAway \in BOOLEAN
  BY Zenon DEF Init
<1>3. QED
  BY <1>1, <1>2, StartType DEF Init, TypeOK

\* A new game, in whatever state the last one was.
LEMMA NewGameType == TypeOK /\ NewGame => TypeOK'
<1> SUFFICES ASSUME TypeOK, NewGame
             PROVE  TypeOK'
  OBVIOUS
<1>1. turn' \in Nat /\ phase' \in Phase
  BY DEF NewGame, TypeOK
<1>2. /\ maiaDisabled' \in BOOLEAN /\ winner' \in Side \cup {"DRAW", None}
      /\ gameOverSent' \in BOOLEAN /\ startedAway' \in BOOLEAN
  BY Zenon DEF NewGame
<1>3. QED
  BY <1>1, <1>2, StartType DEF NewGame, TypeOK

\* A new game of another instance, of which the leader sees what is public.
LEMMA NewGameElsewhereType == TypeOK /\ NewGameElsewhere => TypeOK'
<1> SUFFICES ASSUME TypeOK, NewGameElsewhere
             PROVE  TypeOK'
  OBVIOUS
<1>1. /\ turn' \in Nat /\ phase' \in Phase /\ rb' \in RingBearerState
      /\ startedAway' \in BOOLEAN /\ winner' \in Side \cup {"DRAW", None}
  BY DEF NewGameElsewhere, TypeOK
<1>2. maiaDisabled' \in BOOLEAN /\ gameOverSent' \in BOOLEAN
  BY Zenon DEF NewGameElsewhere, TypeOK
<1>3. orders' \in [Unit -> ParsedOrder \cup {NoOrder}] /\ late' \in [Unit -> ParsedOrder \cup {NoOrder}]
  BY StartType DEF NewGameElsewhere, TypeOK
<1>4. units' \in [Unit -> UnitState]
  <2>1. ASSUME NEW u \in Unit
        PROVE  [units[u] EXCEPT !.region = UnitsAtStart[u].region, !.strength = UnitCfg[u].strength,
                                !.status = "ACTIVE"] \in UnitState
    <3>1. UnitsAtStart[u].region \in Place /\ UnitCfg[u].strength \in Nat
      BY StartType, RosterAssumption DEF UnitState, UnitConfig
    <3>2. QED
      BY <3>1 DEF TypeOK, UnitState, UnitStatus
  <2>2. QED
    BY <2>1 DEF NewGameElsewhere
<1>5. paths' \in [Path -> PathState]
  <2> DEFINE zero == 0
  <2>1. zero \in Nat /\ zero \in 0..3
    OBVIOUS
  <2>2. paths' = [p \in Path |-> [paths[p] EXCEPT !.status = "OPEN", !.surveillance = zero,
                                                 !.tempOpenTurns = zero]]
    BY DEF NewGameElsewhere
  <2> HIDE DEF zero
  <2>3. QED
    BY <2>1, <2>2 DEF TypeOK, PathState, PathStatus
<1>6. regions' \in [Region -> RegionState]
  <2> DEFINE no == FALSE
  <2>1. no \in BOOLEAN
    OBVIOUS
  <2>2. regions' = [r \in Region |-> [regions[r] EXCEPT !.control = StartControl[r], !.fortified = no]]
    BY DEF NewGameElsewhere
  <2> HIDE DEF no
  <2>3. QED
    BY <2>1, <2>2, MapAssumption DEF TypeOK, RegionState
<1>7. QED
  BY <1>1, <1>2, <1>3, <1>4, <1>5, <1>6 DEF TypeOK

\* An order is buffered for the turn to come,
LEMMA BufferOrderType ==
  ASSUME TypeOK, NEW u \in Unit, NEW o \in Submittable, BufferOrder(u, o)
  PROVE  TypeOK'
<1>1. o \in ParsedOrder
  BY ValidType DEF BufferOrder
<1>2. QED
  BY <1>1 DEF BufferOrder, TypeOK

\* or for the one after it.
LEMMA BufferLateOrderType ==
  ASSUME TypeOK, NEW u \in Unit, NEW o \in Submittable, BufferLateOrder(u, o)
  PROVE  TypeOK'
<1>1. o \in ParsedOrder
  BY ValidType DEF BufferLateOrder
<1>2. QED
  BY <1>1 DEF BufferLateOrder, TypeOK

\* A unit may lose its place.
LEMMA HiddenType ==
  ASSUME NEW t \in UnitState
  PROVE  [t EXCEPT !.region = Nowhere] \in UnitState
BY DEF UnitState, Place

\* The broadcast empties the region of the Ring Bearer only.
LEMMA ApplyBroadcastType == TypeOK /\ ApplyBroadcast => TypeOK'
<1> SUFFICES ASSUME TypeOK, ApplyBroadcast
             PROVE  TypeOK'
  OBVIOUS
<1>1. \A u \in Unit : units'[u] = units[u] \/ units'[u] = [units[u] EXCEPT !.region = Nowhere]
  BY DEF ApplyBroadcast, TypeOK
<1>2. \A u \in Unit : units'[u] \in UnitState
  BY <1>1, HiddenType DEF TypeOK
<1>3. units' \in [Unit -> UnitState]
  BY <1>2 DEF ApplyBroadcast, TypeOK
<1>4. QED
  BY <1>3 DEF ApplyBroadcast, TypeOK

\* What AdvanceTurn has not taken yet are orders, after one is taken
LEMMA ConsumeType ==
  ASSUME TypeOK, NEW u \in Unit, Consume(u)
  PROVE  orders' \in [Unit -> ParsedOrder \cup {NoOrder}]
BY DEF TypeOK, Consume

\* and after all orders of some types are taken.
LEMMA WithoutType ==
  ASSUME TypeOK, NEW types
  PROVE  Without(types) \in [Unit -> ParsedOrder \cup {NoOrder}]
BY DEF TypeOK, Without

\* Steps 1 and 2.
LEMMA BeginTurnType == TypeOK /\ BeginTurn => TypeOK'
<1> SUFFICES ASSUME TypeOK, BeginTurn
             PROVE  TypeOK'
  OBVIOUS
<1>1. ASSUME NEW u \in Unit, orders[u].type = "ROUTE"
      PROVE  orders[u].route \in Seq(Path)
  BY <1>1, TakenType
<1>2. ASSUME NEW u \in Unit
      PROVE  (IF orders[u].type = "ROUTE" /\ Active(units, u)
              THEN Rerouted(units[u], orders[u].route) ELSE units[u]) \in UnitState
  BY <1>1, ReroutedType DEF TypeOK
<1>3. units' \in [Unit -> UnitState]
  BY <1>2 DEF BeginTurn
<1>4. rb' \in RingBearerState
  BY <1>1, ReroutedType, RosterAssumption DEF BeginTurn, TypeOK
<1>5. orders' \in [Unit -> ParsedOrder \cup {NoOrder}]
  BY WithoutType DEF BeginTurn
<1>6. QED
  BY <1>3, <1>4, <1>5 DEF BeginTurn, TypeOK, Phase

\* Step 3, BLOCK_PATH.
LEMMA BlockPathType ==
  ASSUME TypeOK, NEW u \in Unit, BlockPath(u)
  PROVE  TypeOK'
<1> DEFINE blocked == [paths EXCEPT ![orders[u].path].status = "BLOCKED",
                                    ![orders[u].path].blockedBy = u]
<1>0. paths \in [Path -> PathState]
  BY DEF TypeOK
<1>1. blocked \in [Path -> PathState]
  BY <1>0 DEF PathState, PathStatus
<1>2. paths' = blocked \/ paths' = paths
  BY DEF BlockPath
<1>3. orders' \in [Unit -> ParsedOrder \cup {NoOrder}]
  BY ConsumeType DEF BlockPath
<1> HIDE DEF blocked
<1>4. QED
  BY <1>1, <1>2, <1>3 DEF BlockPath, TypeOK

\* Surveillance is capped at three.
LEMMA SearchedType ==
  ASSUME NEW ps \in PathState
  PROVE  Searched(ps) \in PathState
<1> DEFINE s == IF ps.surveillance < 3 THEN ps.surveillance + 1 ELSE ps.surveillance
           st == IF ps.status = "OPEN" THEN "THREATENED" ELSE ps.status
<1>1. s \in 0..3 /\ st \in PathStatus
  BY DEF PathState, PathStatus
<1>2. Searched(ps) = [ps EXCEPT !.surveillance = s, !.status = st]
  BY DEF Searched
<1> HIDE DEF s, st
<1>3. QED
  BY <1>1, <1>2 DEF PathState

\* Step 3, SEARCH_PATH.
LEMMA SearchPathType ==
  ASSUME TypeOK, NEW u \in Unit, SearchPath(u)
  PROVE  TypeOK'
<1>1. paths' \in [Path -> PathState]
  BY SearchedType DEF SearchPath, TypeOK
<1>2. orders' \in [Unit -> ParsedOrder \cup {NoOrder}]
  BY ConsumeType DEF SearchPath
<1>3. QED
  BY <1>1, <1>2 DEF SearchPath, TypeOK

\* A path that is blocked no more.
LEMMA RevertedType ==
  ASSUME NEW ps \in PathState
  PROVE  Reverted(ps) \in PathState
BY DEF Reverted, StatusFromSurveillance, PathState, PathStatus

\* Step 3, its end.
LEMMA RevertBlockedType == TypeOK /\ RevertBlocked => TypeOK'
<1> SUFFICES ASSUME TypeOK, RevertBlocked
             PROVE  TypeOK'
  OBVIOUS
<1>1. paths' \in [Path -> PathState]
  BY RevertedType DEF RevertBlocked, TypeOK
<1>2. QED
  BY <1>1 DEF RevertBlocked, TypeOK, Phase

\* A region fortified for two turns.
LEMMA FortifiedType ==
  ASSUME NEW rs \in RegionState
  PROVE  [rs EXCEPT !.fortified = TRUE, !.fortifyTurns = 2] \in RegionState
<1> DEFINE yes == TRUE
           two == 2
<1>1. yes \in BOOLEAN /\ two \in Int
  OBVIOUS
<1> HIDE DEF yes, two
<1>2. [rs EXCEPT !.fortified = yes, !.fortifyTurns = two] \in RegionState
  BY <1>1 DEF RegionState
<1>3. QED
  BY <1>2 DEF yes, two

\* Steps 4 and 5.
LEMMA DeployAndFortifyType == TypeOK /\ DeployAndFortify => TypeOK'
<1> SUFFICES ASSUME TypeOK, DeployAndFortify
             PROVE  TypeOK'
  OBVIOUS
<1>1. ASSUME NEW u \in Unit, MayRedeploy(u)
      PROVE  PlacedAt(units[u], orders[u].region) \in UnitState
  <2>1. orders[u].region \in Place
    BY <1>1, TakenType DEF MayRedeploy
  <2>2. QED
    BY <2>1, PlacedAtType DEF TypeOK
<1>2. units' \in [Unit -> UnitState]
  BY <1>1 DEF DeployAndFortify, TypeOK
<1>3. \A r \in Region : [regions[r] EXCEPT !.fortified = TRUE, !.fortifyTurns = 2] \in RegionState
  BY FortifiedType DEF TypeOK
<1>4. regions' \in [Region -> RegionState]
  BY <1>3 DEF DeployAndFortify, TypeOK
<1>5. orders' \in [Unit -> ParsedOrder \cup {NoOrder}]
  BY WithoutType DEF DeployAndFortify
<1>6. QED
  BY <1>2, <1>4, <1>5 DEF DeployAndFortify, TypeOK, Phase

\* What the abilities make of a path.
LEMMA OpenedType ==
  ASSUME NEW ps \in PathState
  PROVE  /\ Opened(ps) \in PathState
         /\ [ps EXCEPT !.surveillance = 3] \in PathState
<1> DEFINE two == 2
           three == 3
<1>1. two \in Nat /\ three \in 0..3
  OBVIOUS
<1> HIDE DEF two, three
<1>2. /\ [ps EXCEPT !.status = "TEMPORARILY_OPEN", !.tempOpenTurns = two] \in PathState
      /\ [ps EXCEPT !.surveillance = three] \in PathState
  BY <1>1 DEF PathState, PathStatus
<1>3. QED
  BY <1>2 DEF Opened, two, three

\* A new cooldown keeps the fields of a unit.
LEMMA CooldownType ==
  ASSUME NEW t \in UnitState, NEW k \in Nat
  PROVE  [t EXCEPT !.cooldown = k] \in UnitState
BY DEF UnitState

\* Step 6.
LEMMA MaiaAbilityType ==
  ASSUME TypeOK, NEW u \in Unit, MaiaAbility(u)
  PROVE  TypeOK'
<1>1. \A p \in Path : paths'[p] \in {paths[p], Opened(paths[p]), [paths[p] EXCEPT !.surveillance = 3]}
  BY DEF MaiaAbility, TypeOK
<1>2. paths' \in [Path -> PathState]
  <2>1. \A p \in Path : paths'[p] \in PathState
    BY <1>1, OpenedType DEF TypeOK
  <2>2. QED
    BY <2>1 DEF MaiaAbility, TypeOK
<1>3. UnitCfg[u].cooldown \in Nat
  BY RosterAssumption DEF UnitConfig
<1>4. [units EXCEPT ![u].cooldown = UnitCfg[u].cooldown] \in [Unit -> UnitState]
  BY <1>3, CooldownType DEF TypeOK
<1>5. units' \in [Unit -> UnitState]
  BY <1>4 DEF MaiaAbility, TypeOK
<1>6. orders' \in [Unit -> ParsedOrder \cup {NoOrder}]
  BY ConsumeType DEF MaiaAbility
<1>7. QED
  BY <1>2, <1>5, <1>6 DEF MaiaAbility, TypeOK

\* The Ring Bearer after its turn on the road.
LEMMA BearerAdvancedType ==
  ASSUME TypeOK
  PROVE  BearerAdvanced \in RingBearerState
<1> DEFINE moved == Advanced(rb)
           seen == moved.exposed \/ ExposedBySurveillance(Head(rb.route))
<1>1. moved \in RingBearerState
  BY AdvancedType DEF TypeOK
<1>2. seen \in BOOLEAN
  OBVIOUS
<1>3. BearerAdvanced \in {moved, [moved EXCEPT !.exposed = seen]}
  BY DEF BearerAdvanced
<1> HIDE DEF moved, seen
<1>4. [moved EXCEPT !.exposed = seen] \in RingBearerState
  BY <1>1, <1>2 DEF RingBearerState
<1>5. QED
  BY <1>1, <1>3, <1>4

\* Step 7.
LEMMA AutoAdvanceType == TypeOK /\ AutoAdvance => TypeOK'
<1> SUFFICES ASSUME TypeOK, AutoAdvance
             PROVE  TypeOK'
  OBVIOUS
<1>1. units' \in [Unit -> UnitState]
  BY AdvancedType DEF AutoAdvance, TypeOK
<1>2. rb' \in RingBearerState
  BY BearerAdvancedType DEF AutoAdvance
<1>3. QED
  BY <1>1, <1>2 DEF AutoAdvance, TypeOK, Phase

\* Step 8: the damage is a number, whatever its sign.
LEMMA AttackRegionType ==
  ASSUME TypeOK, NEW u \in Unit, AttackRegion(u)
  PROVE  TypeOK'
<1> DEFINE r == orders[u].region
           A == {v \in Unit : /\ Active(units, v)
                              /\ units[v].region = units[u].region
                              /\ SideOf(v) = SideOf(u)}
           D == {v \in Unit : Active(units, v) /\ units[v].region = r /\ SideOf(v) # SideOf(u)}
           damage == Power(A) - DefencePower(A, D, r)
<1>1. r \in Region
  BY TakenType DEF AttackRegion
<1>2. Power(A) \in Nat /\ Power(D) \in Nat
  BY PowerType
<1>3. damage \in Int
  <2>1. TerrainBonus[r] \in Nat
    BY <1>1, MapAssumption
  <2> HIDE DEF A, D, r
  <2>2. DefencePower(A, D, r) \in Nat
    BY <1>2, <2>1 DEF DefencePower
  <2>3. QED
    BY <1>2, <2>2
<1>4. ASSUME NEW v \in Unit
      PROVE  /\ Damaged(v, damage) \in UnitState
             /\ Damaged(v, 1) \in UnitState
             /\ PlacedAt(units[v], r) \in UnitState
             /\ units[v] \in UnitState
  <2>1. Damaged(v, damage) \in UnitState /\ Damaged(v, 1) \in UnitState
    <3> HIDE DEF damage
    <3> QED BY <1>3, DamagedType
  <2>2. units[v] \in UnitState /\ r \in Place
    BY <1>1 DEF TypeOK, Place
  <2>3. QED
    BY <2>1, <2>2, PlacedAtType
<1>5. AfterVictory(A, D, r, damage) \in [Unit -> UnitState]
  <2> HIDE DEF A, D, r, damage
  <2> QED BY <1>4 DEF AfterVictory
<1>6. AfterRepulse(A) \in [Unit -> UnitState]
  <2> HIDE DEF A, D, r, damage
  <2> QED BY <1>4 DEF AfterRepulse
<1>7. units' \in [Unit -> UnitState]
  BY <1>5, <1>6 DEF AttackRegion
<1>8. regions' \in [Region -> RegionState]
  <2>1. SideOf(u) \in Controller
    BY RosterAssumption DEF UnitConfig, SideOf, Controller
  <2>2. \A rs \in RegionState : [rs EXCEPT !.control = SideOf(u)] \in RegionState
    BY <2>1 DEF RegionState
  <2>3. regions' = regions \/ regions' = [regions EXCEPT ![r].control = SideOf(u)]
    BY DEF AttackRegion
  <2>4. QED
    BY <2>2, <2>3 DEF TypeOK
<1>9. maiaDisabled' \in BOOLEAN
  BY Zenon DEF AttackRegion, TypeOK
<1>10. orders' \in [Unit -> ParsedOrder \cup {NoOrder}]
  BY ConsumeType DEF AttackRegion
<1>11. QED
  BY <1>7, <1>8, <1>9, <1>10 DEF AttackRegion, TypeOK

\* Step 9, for one path.
LEMMA AfterTimerType ==
  ASSUME NEW ps \in PathState
  PROVE  AfterTimer(ps) \in PathState
<1> DEFINE st == IF ps.blockedBy # None THEN "BLOCKED" ELSE StatusFromSurveillance(ps)
           one == ps.tempOpenTurns - 1
           zero == 0
<1>1. /\ st \in PathStatus
      /\ ps.tempOpenTurns > 1 => one \in Nat
      /\ zero \in Nat
  BY DEF PathState, PathStatus, StatusFromSurveillance
<1>2. \/ AfterTimer(ps) = ps
      \/ ps.tempOpenTurns > 1 /\ AfterTimer(ps) = [ps EXCEPT !.tempOpenTurns = one]
      \/ AfterTimer(ps) = [ps EXCEPT !.tempOpenTurns = zero, !.status = st]
  BY DEF AfterTimer
<1> HIDE DEF st, one, zero
<1>3. QED
  BY <1>1, <1>2 DEF PathState

\* Step 10, for one region.
LEMMA AfterFortifyTimerType ==
  ASSUME NEW rs \in RegionState
  PROVE  AfterFortifyTimer(rs) \in RegionState
<1> DEFINE k == rs.fortifyTurns - 1
           lasts == rs.fortifyTurns > 1
<1>1. k \in Int /\ lasts \in BOOLEAN
  BY DEF RegionState
<1>2. AfterFortifyTimer(rs) \in {rs, [rs EXCEPT !.fortifyTurns = k, !.fortified = lasts]}
  BY DEF AfterFortifyTimer
<1> HIDE DEF k, lasts
<1>3. QED
  BY <1>1, <1>2 DEF RegionState

\* Step 11, the cooldown of one unit,
LEMMA CooledDownType ==
  ASSUME NEW t \in UnitState
  PROVE  CooledDown(t) \in UnitState
<1> DEFINE k == IF t.cooldown > 0 THEN t.cooldown - 1 ELSE 0
<1>1. k \in Nat
  BY DEF UnitState
<1>2. CooledDown(t) = [t EXCEPT !.cooldown = k]
  BY DEF CooledDown
<1> HIDE DEF k
<1>3. QED
  BY <1>1, <1>2, CooldownType

\* and its return: no counter goes below zero.
LEMMA AfterRespawnTimerType ==
  ASSUME TypeOK, NEW u \in Unit
  PROVE  AfterRespawnTimer(u) \in UnitState
<1>1. units[u] \in UnitState /\ units[u].respawnTurns \in Nat
  BY DEF TypeOK, UnitState
<1>2. UnitCfg[u].start \in Place /\ UnitCfg[u].strength \in Nat
  BY RosterAssumption DEF UnitConfig, Place
<1>3. CASE Respawns(u)
  <2> DEFINE back == PlacedAt(units[u], UnitCfg[u].start)
             zero == 0
             full == UnitCfg[u].strength
  <2>1. back \in UnitState /\ zero \in Nat /\ full \in Nat
    BY <1>1, <1>2, PlacedAtType
  <2>2. AfterRespawnTimer(u) =
          [back EXCEPT !.status = "ACTIVE", !.strength = full, !.respawnTurns = zero]
    BY <1>3 DEF AfterRespawnTimer
  <2> HIDE DEF back, zero, full
  <2>3. QED
    BY <2>1, <2>2 DEF UnitState, UnitStatus
<1>4. CASE ~Respawns(u) /\ units[u].status = "RESPAWNING"
  <2> DEFINE k == units[u].respawnTurns - 1
  <2>1. k \in Nat
    BY <1>1, <1>4 DEF Respawns
  <2>2. AfterRespawnTimer(u) = [units[u] EXCEPT !.respawnTurns = k]
    BY <1>4 DEF AfterRespawnTimer
  <2> HIDE DEF k
  <2>3. QED
    BY <1>1, <2>1, <2>2 DEF UnitState
<1>5. CASE ~Respawns(u) /\ units[u].status # "RESPAWNING"
  BY <1>1, <1>5 DEF AfterRespawnTimer
<1>6. QED
  BY <1>3, <1>4, <1>5

\* Steps 9 to 13.
LEMMA EndTurnType == TypeOK /\ EndTurn => TypeOK'
<1> SUFFICES ASSUME TypeOK, EndTurn
             PROVE  TypeOK'
  OBVIOUS
<1>1. paths' \in [Path -> PathState]
  BY AfterTimerType DEF EndTurn, TypeOK
<1>2. regions' \in [Region -> RegionState]
  BY AfterFortifyTimerType DEF EndTurn, TypeOK
<1>3. units' \in [Unit -> UnitState]
  BY AfterRespawnTimerType, CooledDownType DEF EndTurn
<1>4. PICK exposed, outcome : /\ outcome = Outcome(units', exposed)
                             /\ winner' = Recorded(outcome)
                             /\ rb' = BearerAtTurnEnd(exposed, outcome)
                             /\ turn' = IF outcome = None THEN turn + 1 ELSE turn
  BY Zenon DEF EndTurn
<1>5. winner' \in Side \cup {"DRAW", None}
  BY <1>4 DEF Recorded, Outcome, Side
<1>6. rb' \in RingBearerState
  <2> DEFINE e == exposed /\ outcome # None
  <2>1. e \in BOOLEAN
    OBVIOUS
  <2>2. rb' = [rb EXCEPT !.exposed = e]
    BY <1>4 DEF BearerAtTurnEnd
  <2> HIDE DEF e
  <2>3. QED
    BY <2>1, <2>2 DEF TypeOK, RingBearerState
<1>7. turn' \in Nat
  BY <1>4 DEF TypeOK
<1>8. orders' \in [Unit -> ParsedOrder \cup {NoOrder}] /\ late' \in [Unit -> ParsedOrder \cup {NoOrder}]
  BY StartType DEF EndTurn, TypeOK
<1>9. gameOverSent' \in BOOLEAN /\ startedAway' \in BOOLEAN
  BY Zenon DEF EndTurn, TypeOK
<1>10. QED
  BY <1>1, <1>2, <1>3, <1>5, <1>6, <1>7, <1>8, <1>9 DEF EndTurn, TypeOK, Phase

\* No step leaves the types.
LEMMA NextType == TypeOK /\ [Next]_vars => TypeOK'
<1> SUFFICES ASSUME TypeOK, [Next]_vars
             PROVE  TypeOK'
  OBVIOUS
<1>1. CASE UNCHANGED vars
  BY <1>1 DEF vars, TypeOK
<1>2. CASE TurnStep
  BY <1>2, BeginTurnType, BlockPathType, SearchPathType, RevertBlockedType, DeployAndFortifyType,
     MaiaAbilityType, AutoAdvanceType, AttackRegionType, EndTurnType DEF TurnStep
<1>3. CASE \E u \in Unit, o \in Submittable : BufferOrder(u, o) \/ BufferLateOrder(u, o)
  BY <1>3, BufferOrderType, BufferLateOrderType
<1>4. CASE ApplyBroadcast
  BY <1>4, ApplyBroadcastType
<1>5. CASE NewGame
  BY <1>5, NewGameType
<1>6. CASE NewGameElsewhere
  BY <1>6, NewGameElsewhereType
<1>7. QED
  BY <1>1, <1>2, <1>3, <1>4, <1>5, <1>6 DEF Next

\* Every field of the engine's state keeps a value the code can give it: no counter goes
\* below zero, no surveillance above three, no unit without a place on the map but Nowhere.
THEOREM TypeCorrect == Spec => []TypeOK
<1>1. Init => TypeOK
  BY InitType
<1>2. TypeOK /\ [Next]_vars => TypeOK'
  BY NextType
<1>3. QED
  BY <1>1, <1>2, PTL DEF Spec
=============================================================================
