---------------------------- MODULE TurnProcessor ----------------------------
(***************************************************************************)
(* The turn engine of the leader (internal/engine): orders are buffered    *)
(* while a turn is open, and AdvanceTurn runs the thirteen steps of the    *)
(* turn on a snapshot of the world, then writes the snapshot back.         *)
(*                                                                         *)
(* phase is where the turn stands.  AdvanceTurn takes the orders in their  *)
(* order of arrival.  A unit has at most one order and every order belongs *)
(* to one step, so taking the orders of a step one by one in any order     *)
(* gives what the possible arrival orders give; a consumed order is        *)
(* removed from the buffer.  Maps of the code that are walked in Go's      *)
(* random order are updated as a whole where the entries do not interact.  *)
(***************************************************************************)
EXTENDS Integers, Sequences, FiniteSets

CONSTANTS
  Unit,            \* units of units.conf
  Region,          \* regions of map.conf
  Path,            \* paths of map.conf
  RingBearer,      \* the unit of class RingBearer
  UnitCfg,         \* config.UnitConfig of each unit
  PathCfg,         \* config.PathConfig of each path: from, to, cost
  TerrainBonus,    \* region -> bonus of its terrain (combat.go)
  StartControl,    \* region -> controller at the start of a game
  MountDoom, Mordor, Isengard,   \* the regions the engine names
  Nowhere,         \* the empty region name
  None,            \* the empty unit or path name
  HiddenUntilTurn, \* no detection up to this turn
  MaxTurns,        \* the game is drawn after this turn
  Menu,            \* bound: the order types each unit's player tries
  MaxRoute,        \* bound: length of a submitted route
  MaxOrders,       \* bound: orders buffered when AdvanceTurn takes them
  MaxLate,         \* bound: orders that arrive while AdvanceTurn runs
  AwayTurns        \* bound: the turns in which a start elsewhere meets an undecided game

Side == {"FREE_PEOPLES", "SHADOW"}
Controller == Side \cup {"NEUTRAL"}
UnitStatus == {"ACTIVE", "RESPAWNING", "DESTROYED"}
PathStatus == {"OPEN", "THREATENED", "BLOCKED", "TEMPORARILY_OPEN"}
OrderType == {"ROUTE", "BLOCK_PATH", "SEARCH_PATH", "REINFORCE_REGION", "DEPLOY_NAZGUL",
              "FORTIFY_REGION", "MAIA_ABILITY", "ATTACK_REGION", "DESTROY_RING"}
Phase == {"collect", "path", "deploy", "maia", "combat"}
Place == Region \cup {Nowhere}

\* leadershipBonus is 0 for a unit without leadership; abilityPaths is maiaAbilityPaths.
UnitConfig == [class: {"RingBearer", "FellowshipGuard", "Nazgul", "Maia", "Army"}, side: Side,
               start: Region, strength: Nat \ {0}, leadershipBonus: Nat, indestructible: BOOLEAN,
               detectionRange: Nat, respawns: BOOLEAN, respawnTurns: Nat, maia: BOOLEAN,
               abilityPaths: SUBSET Path, ignoresFortress: BOOLEAN, canFortify: BOOLEAN,
               cooldown: Nat]

ASSUME RosterAssumption ==
  /\ IsFiniteSet(Unit)
  /\ RingBearer \in Unit
  /\ UnitCfg \in [Unit -> UnitConfig]
  /\ \A u \in Unit : UnitCfg[u].respawns => UnitCfg[u].respawnTurns > 0
  /\ None \notin Unit \cup Path \cup Side \cup {"DRAW"}

ASSUME MapAssumption ==
  /\ PathCfg \in [Path -> [from: Region, to: Region, cost: Nat]]
  /\ TerrainBonus \in [Region -> Nat]
  /\ StartControl \in [Region -> Controller]
  /\ Nowhere \notin Region

ASSUME GameAssumption ==
  /\ HiddenUntilTurn \in Nat
  /\ MaxTurns \in Nat \ {0}

ASSUME BoundAssumption == MaxRoute \in Nat

VARIABLES
  turn,         \* currentTurn
  phase,        \* where AdvanceTurn stands; "collect" between turns
  orders,       \* pendingOrders, by unit, and what AdvanceTurn has left of them
  late,         \* the orders that will arrive while AdvanceTurn runs
  units,        \* Units of the cache, or of AdvanceTurn's snapshot of it
  paths,        \* Paths, likewise
  regions,      \* Regions, likewise
  rb,           \* the authoritative RingBearerState
  maiaDisabled, \* corruptPathMaiaDisabledIDs holds the CorruptPath units
  winner,       \* Session.GameOverWinner, or None
  gameOverSent, \* the engine has announced the end of a game since its last Reset
  startedAway   \* history: the last game was started at another instance

vars == <<turn, phase, orders, late, units, paths, regions, rb, maiaDisabled, winner,
          gameOverSent, startedAway>>

Order == [type: OrderType, route: Seq(Path), path: Path \cup {None}, region: Place]
\* Validation lets no attack on an unknown region through.
ParsedOrder == {o \in Order : o.type = "ATTACK_REGION" => o.region \in Region}
NoOrder == [type |-> "NONE"]

UnitState == [region: Place, strength: Nat, status: UnitStatus, respawnTurns: Nat, cooldown: Nat,
              route: Seq(Path), travel: Path \cup {None}, remaining: Nat]
PathState == [status: PathStatus, surveillance: 0..3, tempOpenTurns: Nat,
              blockedBy: Unit \cup {None}]
RegionState == [control: Controller, fortified: BOOLEAN, fortifyTurns: Int]
RingBearerState == [region: Region, route: Seq(Path), travel: Path \cup {None}, remaining: Nat,
                    exposed: BOOLEAN]

\* Every field has a value the code can give it.
TypeOK ==
  /\ turn \in Nat
  /\ phase \in Phase
  /\ orders \in [Unit -> ParsedOrder \cup {NoOrder}]
  /\ late \in [Unit -> ParsedOrder \cup {NoOrder}]
  /\ units \in [Unit -> UnitState]
  /\ paths \in [Path -> PathState]
  /\ regions \in [Region -> RegionState]
  /\ rb \in RingBearerState
  /\ maiaDisabled \in BOOLEAN
  /\ winner \in Side \cup {"DRAW", None}
  /\ gameOverSent \in BOOLEAN
  /\ startedAway \in BOOLEAN

-----------------------------------------------------------------------------
(* The map and the units on it.                                            *)

Ends(p) == {PathCfg[p].from, PathCfg[p].to}
OtherEnd(r, p) == IF r = PathCfg[p].to THEN PathCfg[p].from ELSE PathCfg[p].to
Neighbours(r) == {OtherEnd(r, p) : p \in {q \in Path : r \in Ends(q)}}
Active(us, u) == us[u].status = "ACTIVE"
SideOf(u) == UnitCfg[u].side

\* Regions at most k hops from r (the ball of graph.BFSDistance).
Within(r, k) ==
  LET ball[i \in 0..k] ==
        IF i = 0 THEN {r} ELSE ball[i - 1] \cup UNION {Neighbours(x) : x \in ball[i - 1]}
  IN ball[k]

\* An active enemy FellowshipGuard stands at an end of p.
GuardedByEnemy(p, side) ==
  \E g \in Unit : /\ Active(units, g)
                  /\ SideOf(g) # side
                  /\ UnitCfg[g].class = "FellowshipGuard"
                  /\ units[g].region \in Ends(p)

ShadowAt(us, r) == \E u \in Unit : Active(us, u) /\ us[u].region = r /\ SideOf(u) = "SHADOW"

UnitAtStart(u) ==
  [region |-> UnitCfg[u].start, strength |-> UnitCfg[u].strength, status |-> "ACTIVE",
   respawnTurns |-> 0, cooldown |-> 0, route |-> <<>>, travel |-> None, remaining |-> 0]

\* The world of a new game (NewWorldStateCache, ResetFromConfig, InitRingBearerState).
NoOrders == [u \in Unit |-> NoOrder]
UnitsAtStart == [u \in Unit |-> IF u = RingBearer THEN [UnitAtStart(u) EXCEPT !.region = Nowhere]
                                ELSE UnitAtStart(u)]
PathsAtStart == [p \in Path |-> [status |-> "OPEN", surveillance |-> 0, tempOpenTurns |-> 0,
                                 blockedBy |-> None]]
RegionsAtStart == [r \in Region |-> [control |-> StartControl[r], fortified |-> FALSE,
                                     fortifyTurns |-> 0]]
BearerAtStart == [region |-> UnitCfg[RingBearer].start, route |-> <<>>, travel |-> None,
                  remaining |-> 0, exposed |-> FALSE]

Init ==
  /\ turn = 1
  /\ phase = "collect"
  /\ orders = NoOrders
  /\ late = NoOrders
  /\ units = UnitsAtStart
  /\ paths = PathsAtStart
  /\ regions = RegionsAtStart
  /\ rb = BearerAtStart
  /\ maiaDisabled = FALSE
  /\ winner = None
  /\ gameOverSent = FALSE
  /\ startedAway = FALSE

\* POST /game/start at the leader, between two turns (handleGameStart, and Reset of the engine).
NewGame ==
  /\ phase = "collect"
  /\ turn' = 1
  /\ orders' = NoOrders
  /\ late' = NoOrders
  /\ units' = UnitsAtStart
  /\ paths' = PathsAtStart
  /\ regions' = RegionsAtStart
  /\ rb' = BearerAtStart
  /\ maiaDisabled' = FALSE
  /\ winner' = None
  /\ gameOverSent' = FALSE
  /\ startedAway' = FALSE
  /\ UNCHANGED phase

\* POST /game/start at another instance: the broadcast and the session record of the new
\* game reach the leader between two turns.  They carry what is public of the world, so
\* whatever else the leader keeps is still of the old game, gameOverSent too.  Orders for a
\* later turn are dropped when syncTurnLocked finds the cache at turn 1.
\* Bound: once after a start at the leader.
NewGameElsewhere ==
  /\ phase = "collect"
  /\ ~startedAway
  /\ winner # None \/ turn \in AwayTurns
  /\ turn' = 1
  /\ orders' = IF turn > 1 THEN NoOrders ELSE orders
  /\ late' = IF turn > 1 THEN NoOrders ELSE late
  /\ units' = [u \in Unit |-> [units[u] EXCEPT !.region = UnitsAtStart[u].region,
                                              !.strength = UnitCfg[u].strength,
                                              !.status = "ACTIVE"]]
  /\ paths' = [p \in Path |-> [paths[p] EXCEPT !.status = "OPEN", !.surveillance = 0,
                                              !.tempOpenTurns = 0]]
  /\ regions' = [r \in Region |-> [regions[r] EXCEPT !.control = StartControl[r],
                                                    !.fortified = FALSE]]
  /\ winner' = None
  /\ startedAway' = TRUE
  /\ UNCHANGED <<phase, rb, maiaDisabled, gameOverSent>>

-----------------------------------------------------------------------------
(* Orders: what the players may submit, and what validation lets through.  *)

Ord(t, route, p, r) == [type |-> t, route |-> route, path |-> p, region |-> r]

\* Bound: the orders enumerated, ASSIGN_ROUTE and REDIRECT_UNIT as ROUTE.
Submittable ==
  UNION {{Ord("ROUTE", s, None, Nowhere) : s \in UNION {[1..n -> Path] : n \in 1..MaxRoute}},
         {Ord(t, <<>>, p, Nowhere) : t \in {"BLOCK_PATH", "SEARCH_PATH", "MAIA_ABILITY"}, p \in Path},
         {Ord(t, <<>>, None, r) : t \in {"REINFORCE_REGION", "DEPLOY_NAZGUL", "ATTACK_REGION"},
                                  r \in Place},
         {Ord(t, <<>>, None, Nowhere) : t \in {"FORTIFY_REGION", "DESTROY_RING"}}}

\* Each path of the route starts where the one before it ends.
IsWalk(start, route) ==
  LET stop[i \in 0..Len(route)] == IF i = 0 THEN start ELSE OtherEnd(stop[i - 1], route[i])
  IN \A i \in 1..Len(route) : stop[i - 1] \in Ends(route[i])

\* ValidateRawOrder; turn and side are right, and only Maia units try MAIA_ABILITY.
Valid(u, o) ==
  /\ Active(units, u)
  /\ o.type = "ROUTE" =>
       /\ IsWalk(IF u = RingBearer THEN rb.region ELSE units[u].region, o.route)
       /\ u = RingBearer => paths[Head(o.route)].status # "BLOCKED"
  /\ o.type \in {"BLOCK_PATH", "SEARCH_PATH"} => units[u].region \in Ends(o.path)
  /\ o.type = "SEARCH_PATH" => SideOf(u) = "SHADOW"
  /\ o.type = "BLOCK_PATH" => ~GuardedByEnemy(o.path, SideOf(u))
  /\ o.type = "ATTACK_REGION" => /\ o.region \in Neighbours(units[u].region)
                                 /\ regions[o.region].control \notin {"NEUTRAL", SideOf(u)}
  /\ o.type = "MAIA_ABILITY" => units[u].cooldown = 0
  /\ o.type = "DEPLOY_NAZGUL" => SideOf(u) = "SHADOW" /\ UnitCfg[u].detectionRange > 0
  /\ o.type = "FORTIFY_REGION" => UnitCfg[u].canFortify
  /\ o.type = "DESTROY_RING" => /\ u = RingBearer
                                /\ rb.region = MountDoom
                                /\ ~ShadowAt(units, MountDoom)

\* AdvanceTurn returns at once when this does not hold.
Playing == winner = None /\ ~gameOverSent

Size(buffer) == Cardinality({u \in Unit : buffer[u] # NoOrder})

\* A validated order reaches bufferOrder; a second one of the unit is dropped.  Orders
\* buffered after the end of the game are never taken and are left out.
BufferOrder(u, o) ==
  /\ phase = "collect"
  /\ Playing
  /\ orders[u] = NoOrder
  /\ late[u] \in {NoOrder, o}
  /\ Size(orders) < MaxOrders
  /\ o.type \in Menu[u]
  /\ Valid(u, o)
  /\ orders' = [orders EXCEPT ![u] = o]
  /\ UNCHANGED <<turn, phase, late, units, paths, regions, rb, maiaDisabled, winner, gameOverSent, startedAway>>

\* As BufferOrder, for an order that is validated on the cache of this turn and reaches
\* bufferOrder after AdvanceTurn has taken the orders.  The turn it carries is still
\* currentTurn, so it is buffered, and taken by the AdvanceTurn of the next turn.  It may be
\* a second copy of a buffered order: the Go and the Java validators both emit one.
BufferLateOrder(u, o) ==
  /\ phase = "collect"
  /\ Playing
  /\ late[u] = NoOrder
  /\ orders[u] \in {NoOrder, o}
  /\ Size(late) < MaxLate
  /\ o.type \in Menu[u]
  /\ Valid(u, o)
  /\ late' = [late EXCEPT ![u] = o]
  /\ UNCHANGED <<turn, phase, orders, units, paths, regions, rb, maiaDisabled, winner, gameOverSent, startedAway>>

\* The leader's own broadcast of the finished turn comes back (ApplySnapshot).  It was
\* produced before cache.Update, and has no effect if it is applied before it.
ApplyBroadcast ==
  /\ phase = "collect"
  /\ winner = None
  /\ units[RingBearer].region # Nowhere
  /\ units' = [units EXCEPT ![RingBearer].region = Nowhere]
  /\ UNCHANGED <<turn, phase, orders, late, paths, regions, rb, maiaDisabled, winner, gameOverSent, startedAway>>

-----------------------------------------------------------------------------
(* AdvanceTurn.                                                            *)

OrdersLeft(types) == {u \in Unit : orders[u].type \in types}
Without(types) == [u \in Unit |-> IF orders[u].type \in types THEN NoOrder ELSE orders[u]]
Consume(u) == orders' = [orders EXCEPT ![u] = NoOrder]

MutRerouted(t, route) == [t EXCEPT !.route = route]
Rerouted(t, route) == [t EXCEPT !.route = route, !.travel = None, !.remaining = 0]

\* Steps 1 and 2: take the orders, set the routes.
BeginTurn ==
  /\ phase = "collect"
  /\ Playing
  /\ phase' = "path"
  /\ units' = [u \in Unit |-> IF orders[u].type = "ROUTE" /\ Active(units, u)
                              THEN Rerouted(units[u], orders[u].route) ELSE units[u]]
  /\ rb' = IF orders[RingBearer].type = "ROUTE" /\ Active(units, RingBearer)
           THEN Rerouted(rb, orders[RingBearer].route) ELSE rb
  /\ orders' = Without({"ROUTE"})
  /\ UNCHANGED <<turn, late, paths, regions, maiaDisabled, winner, gameOverSent, startedAway>>

\* Step 3: BLOCK_PATH.
BlockPath(u) ==
  LET p == orders[u].path
      allowed == units[u].region \in Ends(p) /\ ~GuardedByEnemy(p, SideOf(u))
  IN /\ phase = "path"
     /\ orders[u].type = "BLOCK_PATH"
     /\ paths' = IF allowed
                 THEN [paths EXCEPT ![p].status = "BLOCKED", ![p].blockedBy = u]
                 ELSE paths
     /\ Consume(u)
     /\ UNCHANGED <<turn, phase, late, units, regions, rb, maiaDisabled, winner, gameOverSent, startedAway>>

MutSearched(ps) ==
  [ps EXCEPT !.surveillance = @ + 1, !.status = IF @ = "OPEN" THEN "THREATENED" ELSE @]
Searched(ps) ==
  [ps EXCEPT !.surveillance = IF @ < 3 THEN @ + 1 ELSE @,
             !.status = IF @ = "OPEN" THEN "THREATENED" ELSE @]

\* Step 3: SEARCH_PATH.
SearchPath(u) ==
  /\ phase = "path"
  /\ orders[u].type = "SEARCH_PATH"
  /\ paths' = [paths EXCEPT ![orders[u].path] = Searched(@)]
  /\ Consume(u)
  /\ UNCHANGED <<turn, phase, late, units, regions, rb, maiaDisabled, winner, gameOverSent, startedAway>>

StatusFromSurveillance(ps) == IF ps.surveillance > 0 THEN "THREATENED" ELSE "OPEN"
BlockerGone(p) ==
  /\ paths[p].status = "BLOCKED"
  /\ paths[p].blockedBy # None
  /\ units[paths[p].blockedBy].region \notin Ends(p)
MutReverted(ps) == [ps EXCEPT !.status = StatusFromSurveillance(ps)]
Reverted(ps) == [ps EXCEPT !.status = StatusFromSurveillance(ps), !.blockedBy = None]

\* Step 3, its end: paths whose blocker has moved away are blocked no more.
RevertBlocked ==
  /\ phase = "path"
  /\ OrdersLeft({"BLOCK_PATH", "SEARCH_PATH"}) = {}
  /\ phase' = "deploy"
  /\ paths' = [p \in Path |-> IF BlockerGone(p) THEN Reverted(paths[p]) ELSE paths[p]]
  /\ UNCHANGED <<turn, orders, late, units, regions, rb, maiaDisabled, winner, gameOverSent, startedAway>>

PlacedAt(t, r) == [t EXCEPT !.region = r, !.travel = None, !.remaining = 0]
MayRedeploy(u) ==
  \/ orders[u].type = "REINFORCE_REGION" /\ orders[u].region \in Neighbours(units[u].region)
  \/ orders[u].type = "DEPLOY_NAZGUL" /\ UnitCfg[u].detectionRange > 0

\* Steps 4 and 5.
DeployAndFortify ==
  LET fortify == {r \in Region : \E u \in Unit : /\ orders[u].type = "FORTIFY_REGION"
                                                 /\ UnitCfg[u].canFortify
                                                 /\ units[u].region = r}
  IN /\ phase = "deploy"
     /\ phase' = "maia"
     /\ units' = [u \in Unit |-> IF MayRedeploy(u) THEN PlacedAt(units[u], orders[u].region)
                                 ELSE units[u]]
     /\ regions' = [r \in Region |-> IF r \in fortify
                                     THEN [regions[r] EXCEPT !.fortified = TRUE, !.fortifyTurns = 2]
                                     ELSE regions[r]]
     /\ orders' = Without({"REINFORCE_REGION", "DEPLOY_NAZGUL", "FORTIFY_REGION"})
     /\ UNCHANGED <<turn, late, paths, rb, maiaDisabled, winner, gameOverSent, startedAway>>

CanUseAbility(u, p) ==
  /\ UnitCfg[u].maia
  /\ units[u].cooldown = 0
  /\ ~(maiaDisabled /\ UnitCfg[u].abilityPaths # {})
  /\ units[u].region \in Ends(p)
Opens(u, p) == UnitCfg[u].abilityPaths = {} /\ paths[p].status = "BLOCKED"
Corrupts(u, p) == p \in UnitCfg[u].abilityPaths /\ paths[p].status # "TEMPORARILY_OPEN"

Opened(ps) == [ps EXCEPT !.status = "TEMPORARILY_OPEN", !.tempOpenTurns = 2]

\* Step 6: MAIA_ABILITY opens a blocked path, corrupts a path, or fails.
MaiaAbility(u) ==
  LET p == orders[u].path
      opens == CanUseAbility(u, p) /\ Opens(u, p)
      corrupts == CanUseAbility(u, p) /\ Corrupts(u, p)
  IN /\ phase = "maia"
     /\ orders[u].type = "MAIA_ABILITY"
     /\ paths' = [paths EXCEPT ![p] = IF opens THEN Opened(@)
                                      ELSE IF corrupts THEN [@ EXCEPT !.surveillance = 3]
                                      ELSE @]
     /\ units' = IF opens \/ corrupts
                 THEN [units EXCEPT ![u].cooldown = UnitCfg[u].cooldown] ELSE units
     /\ Consume(u)
     /\ UNCHANGED <<turn, phase, late, regions, rb, maiaDisabled, winner, gameOverSent, startedAway>>

Arrived(t) == [PlacedAt(t, OtherEnd(t.region, Head(t.route))) EXCEPT !.route = Tail(@)]
InTransit(t) == t.travel = Head(t.route) /\ t.remaining > 0

\* One turn along the route of t, a unit or the hidden Ring Bearer.
Advanced(t) ==
  LET p == Head(t.route)
  IN IF t.route = <<>> THEN t
     ELSE IF InTransit(t)
          THEN IF t.remaining = 1 THEN Arrived(t) ELSE [t EXCEPT !.remaining = @ - 1]
     ELSE IF paths[p].status = "BLOCKED" THEN t
     ELSE IF PathCfg[p].cost <= 1 THEN Arrived(t)
     ELSE [t EXCEPT !.travel = p, !.remaining = PathCfg[p].cost - 1]

MutExposedBySurveillance(p) == paths[p].surveillance >= 1
ExposedBySurveillance(p) == turn > HiddenUntilTurn /\ paths[p].surveillance >= 1

MutBearerAdvanced ==
  LET moved == Advanced(rb)
  IN IF Len(moved.route) < Len(rb.route) /\ ~InTransit(rb)
     THEN [moved EXCEPT !.exposed = @ \/ ExposedBySurveillance(Head(rb.route))]
     ELSE moved
\* Arriving over a watched path exposes the Ring Bearer.
BearerAdvanced ==
  LET moved == Advanced(rb)
  IN IF Len(moved.route) < Len(rb.route)
     THEN [moved EXCEPT !.exposed = @ \/ ExposedBySurveillance(Head(rb.route))]
     ELSE moved

\* Step 7.
AutoAdvance ==
  /\ phase = "maia"
  /\ OrdersLeft({"MAIA_ABILITY"}) = {}
  /\ phase' = "combat"
  /\ units' = [u \in Unit |-> IF Active(units, u) THEN Advanced(units[u]) ELSE units[u]]
  /\ rb' = BearerAdvanced
  /\ UNCHANGED <<turn, orders, late, paths, regions, maiaDisabled, winner, gameOverSent, startedAway>>

-----------------------------------------------------------------------------
(* Combat (combat.go).  Sums and maxima are cardinalities of sets.         *)

\* The highest leadership bonus among the others of S; bonuses count 1..b, so a
\* union of such intervals has the size of the largest.
HighestBonus(u, S) == Cardinality(UNION {1..UnitCfg[v].leadershipBonus : v \in S \ {u}})
EffectiveStrength(u, S) == units[u].strength + HighestBonus(u, S)
Power(S) == Cardinality(UNION {{u} \X (1..EffectiveStrength(u, S)) : u \in S})

DefencePower(A, D, r) ==
  Power(D) + (IF \E a \in A : UnitCfg[a].ignoresFortress THEN 0 ELSE TerrainBonus[r])
           + (IF regions[r].fortified THEN 2 ELSE 0)

MutDamaged(u, damage) ==
  LET raw == units[u].strength - damage
  IN IF raw > 0 THEN [units[u] EXCEPT !.strength = raw]
     ELSE [units[u] EXCEPT !.strength = 0, !.respawnTurns = UnitCfg[u].respawnTurns, !.region = Nowhere,
                           !.status = IF UnitCfg[u].respawns THEN "RESPAWNING" ELSE "DESTROYED"]
\* ApplyDamage: an indestructible unit keeps strength 1.
Damaged(u, damage) ==
  LET raw == units[u].strength - damage
  IN IF UnitCfg[u].indestructible
     THEN [units[u] EXCEPT !.strength = IF raw < 1 THEN 1 ELSE raw, !.status = "ACTIVE"]
     ELSE IF raw > 0 THEN [units[u] EXCEPT !.strength = raw]
     ELSE IF UnitCfg[u].respawns
     THEN [units[u] EXCEPT !.strength = 0, !.status = "RESPAWNING", !.region = Nowhere,
                           !.respawnTurns = UnitCfg[u].respawnTurns]
     ELSE [units[u] EXCEPT !.strength = 0, !.status = "DESTROYED"]

MutAfterVictory(A, D, r, damage) ==
  [v \in Unit |-> IF v \in A THEN PlacedAt(Damaged(v, 1), r)
                  ELSE IF v \in D THEN Damaged(v, damage) ELSE units[v]]
MutAfterVictoryUnmoved(A, D, r, damage) ==
  [v \in Unit |-> IF v \in D THEN Damaged(v, damage) ELSE units[v]]
AfterVictory(A, D, r, damage) ==
  [v \in Unit |-> IF v \in A THEN PlacedAt(units[v], r)
                  ELSE IF v \in D THEN Damaged(v, damage) ELSE units[v]]
AfterRepulse(A) == [v \in Unit |-> IF v \in A THEN Damaged(v, 1) ELSE units[v]]

MutDisablesCorruption(r, side) == r = Isengard /\ side = "SHADOW"
DisablesCorruption(r, side) == r = Isengard /\ side = "FREE_PEOPLES"

\* Step 8: ATTACK_REGION by everyone of the unit's side in its region.
AttackRegion(u) ==
  LET r == orders[u].region
      A == {v \in Unit : /\ Active(units, v)
                         /\ units[v].region = units[u].region
                         /\ SideOf(v) = SideOf(u)}
      D == {v \in Unit : Active(units, v) /\ units[v].region = r /\ SideOf(v) # SideOf(u)}
      damage == Power(A) - DefencePower(A, D, r)
  IN /\ phase = "combat"
     /\ orders[u].type = "ATTACK_REGION"
     /\ \/ /\ damage > 0
           /\ units' = AfterVictory(A, D, r, damage)
           /\ regions' = [regions EXCEPT ![r].control = SideOf(u)]
           /\ maiaDisabled' = (maiaDisabled \/ DisablesCorruption(r, SideOf(u)))
        \/ /\ damage <= 0
           /\ units' = AfterRepulse(A)
           /\ UNCHANGED <<regions, maiaDisabled>>
     /\ Consume(u)
     /\ UNCHANGED <<turn, phase, late, paths, rb, winner, gameOverSent, startedAway>>

-----------------------------------------------------------------------------
(* The end of the turn.                                                    *)

MutAfterTimer(ps) ==
  IF ps.status # "TEMPORARILY_OPEN" THEN ps
  ELSE [ps EXCEPT !.tempOpenTurns = 0,
                  !.status = IF ps.blockedBy # None THEN "BLOCKED" ELSE StatusFromSurveillance(ps)]
\* Step 9.
AfterTimer(ps) ==
  IF ps.status # "TEMPORARILY_OPEN" THEN ps
  ELSE IF ps.tempOpenTurns > 1 THEN [ps EXCEPT !.tempOpenTurns = @ - 1]
  ELSE [ps EXCEPT !.tempOpenTurns = 0,
                  !.status = IF ps.blockedBy # None THEN "BLOCKED" ELSE StatusFromSurveillance(ps)]

MutAfterFortifyTimer(rs) ==
  IF rs.fortified THEN [rs EXCEPT !.fortifyTurns = @ - 1, !.fortified = rs.fortifyTurns > 2] ELSE rs
\* Step 10.
AfterFortifyTimer(rs) ==
  IF rs.fortified
  THEN [rs EXCEPT !.fortifyTurns = @ - 1, !.fortified = rs.fortifyTurns > 1]
  ELSE rs

MutRespawns(u) == units[u].status # "ACTIVE" /\ units[u].respawnTurns <= 1
Respawns(u) == units[u].status = "RESPAWNING" /\ units[u].respawnTurns <= 1
CooledDown(t) == [t EXCEPT !.cooldown = IF @ > 0 THEN @ - 1 ELSE 0]
\* Step 11.
AfterRespawnTimer(u) ==
  IF Respawns(u)
  THEN [PlacedAt(units[u], UnitCfg[u].start)
          EXCEPT !.status = "ACTIVE", !.strength = UnitCfg[u].strength, !.respawnTurns = 0]
  ELSE IF units[u].status = "RESPAWNING" THEN [units[u] EXCEPT !.respawnTurns = @ - 1]
  ELSE units[u]

\* Step 12, on the units us.
SauronEyeActive(us) ==
  \E u \in Unit : /\ Active(us, u)
                  /\ UnitCfg[u].maia
                  /\ UnitCfg[u].start = Mordor
                  /\ us[u].region = Mordor
MutDetected(us) ==
  /\ turn > HiddenUntilTurn + 1
  /\ \E u \in Unit : Active(us, u) /\ UnitCfg[u].detectionRange > 0 /\ us[u].region = rb.region
Detected(us) ==
  /\ turn > HiddenUntilTurn
  /\ \E u \in Unit :
       /\ Active(us, u)
       /\ UnitCfg[u].detectionRange > 0
       /\ us[u].region \in Within(rb.region, UnitCfg[u].detectionRange
                                               + (IF SauronEyeActive(us) THEN 1 ELSE 0))

MutRingDestroyed(us) == rb.region = MountDoom /\ OrdersLeft({"DESTROY_RING"}) # {}
RingDestroyed(us) ==
  /\ rb.region = MountDoom
  /\ OrdersLeft({"DESTROY_RING"}) # {}
  /\ ~ShadowAt(us, MountDoom)
BearerCaught(us) ==
  \E u \in Unit : Active(us, u) /\ UnitCfg[u].detectionRange > 0 /\ us[u].region = rb.region

\* Step 13; after the last turn the game is drawn.
Outcome(us, exposed) ==
  IF RingDestroyed(us) THEN "FREE_PEOPLES"
  ELSE IF exposed /\ BearerCaught(us) THEN "SHADOW"
  ELSE IF turn >= MaxTurns THEN "DRAW"
  ELSE None

MutRecorded(outcome) == IF outcome = "DRAW" THEN None ELSE outcome
\* applyGameOverToSnapshot.
Recorded(outcome) == outcome

\* The exposure lasts to the end of the turn, or of the game.
BearerAtTurnEnd(exposed, outcome) == [rb EXCEPT !.exposed = exposed /\ outcome # None]

\* Steps 9 to 13 and the write back to the cache.  Late orders are lost if one of them is
\* buffered between cache.Update and currentTurn++: the next syncTurnLocked then finds the
\* cache behind currentTurn and takes that for a new game.
EndTurn ==
  /\ phase = "combat"
  /\ OrdersLeft({"ATTACK_REGION"}) = {}
  /\ phase' = "collect"
  /\ paths' = [p \in Path |-> AfterTimer(paths[p])]
  /\ regions' = [r \in Region |-> AfterFortifyTimer(regions[r])]
  /\ units' = [u \in Unit |-> CooledDown(AfterRespawnTimer(u))]
  /\ LET exposed == rb.exposed \/ Detected(units')
         outcome == Outcome(units', exposed)
     IN /\ winner' = Recorded(outcome)
        /\ rb' = BearerAtTurnEnd(exposed, outcome)
        /\ gameOverSent' = (outcome # None)
        /\ turn' = IF outcome = None THEN turn + 1 ELSE turn
  /\ orders' \in {late, NoOrders}
  /\ late' = NoOrders
  /\ UNCHANGED <<maiaDisabled, startedAway>>

TurnStep ==
  \/ BeginTurn
  \/ \E u \in Unit : BlockPath(u) \/ SearchPath(u) \/ MaiaAbility(u) \/ AttackRegion(u)
  \/ RevertBlocked
  \/ DeployAndFortify
  \/ AutoAdvance
  \/ EndTurn

Next ==
  \/ TurnStep
  \/ \E u \in Unit, o \in Submittable : BufferOrder(u, o) \/ BufferLateOrder(u, o)
  \/ ApplyBroadcast
  \/ NewGame
  \/ NewGameElsewhere

\* The turn ticker fires again and again, and AdvanceTurn runs to its end.
Spec == Init /\ [][Next]_vars /\ WF_vars(TurnStep)

-----------------------------------------------------------------------------
(* What must hold.                                                         *)

\* The leader does not play a game that another instance started after the end of one.
Stalled == startedAway /\ gameOverSent /\ winner = None
Restarted == NewGame \/ NewGameElsewhere

\* A path is blocked or temporarily open exactly while a unit is on record as its
\* blocker: stepBlockAndSearch, stepMaiaAbilities and stepTempOpenTimers write status and
\* blockedByUnitId in different steps, and must never leave one without the other.  Only a
\* game started at another instance opens a path and leaves the record.
ClosedPathsAreOwned ==
  \A p \in Path : LET closed == paths[p].status \in {"BLOCKED", "TEMPORARILY_OPEN"}
                     owned == paths[p].blockedBy # None
                 IN (closed => owned) /\ (owned => closed \/ startedAway)

\* Each path keeps the promise of PathLifecycle through all thirteen steps of the turn and
\* whatever orders meet on it: it is opened only from BLOCKED, for exactly two turn ends if
\* no one blocks it again, and then is BLOCKED as before; what is watched stays watched.
Road(p) ==
  [status |-> paths[p].status,
   surveillance |-> paths[p].surveillance,
   turnsLeft |-> IF paths[p].status = "TEMPORARILY_OPEN" THEN paths[p].tempOpenTurns ELSE 0]
Promise == INSTANCE PathLifecycle WITH road <- [p \in Path |-> Road(p)], stage <- phase
PathsKeepTheirPromise == Promise!Lifecycle

OnItsWay(t) ==
  t.travel # None => /\ t.route # <<>>
                     /\ t.travel = Head(t.route)
                     /\ t.remaining \in 1..(PathCfg[t.travel].cost - 1)
\* Whoever is under way is on the path its route goes on with, and has less than the cost
\* of it to go: every step that reroutes, moves or returns a unit resets the travel.
TravelOnRoute == OnItsWay(rb) /\ \A u \in Unit : OnItsWay(units[u])

\* In the first turns of a game that is played nothing exposes the Ring Bearer, neither a
\* watched path in step 7 nor a Nazgul in step 12, and the game cannot be lost.
HiddenStart == ~Stalled /\ (rb.exposed \/ winner = "SHADOW") => turn > HiddenUntilTurn

\* The Ring Bearer who reaches the end of a watched path after the hidden start is exposed
\* for the rest of the turn, after one turn of travel or several (both branches of
\* stepAutoAdvance).
WatchedRoadExposes ==
  [][ /\ phase = "maia"
      /\ rb'.region # rb.region
      /\ turn > HiddenUntilTurn
      /\ paths[Head(rb.route)].surveillance > 0
      => rb'.exposed ]_vars

\* After the hidden start a turn that ends with a Nazgul beside the Ring Bearer is the last
\* one: detection, respawn and the win conditions run on the same world.
NoNazgulBesideBearer ==
  phase = "collect" /\ turn > HiddenUntilTurn + 1 /\ winner = None => ~BearerCaught(units)

\* The recorded verdict is true of the final world, not only of the world in which the
\* orders that led to it were validated.
VerdictMatchesWorld ==
  /\ winner = "FREE_PEOPLES" => rb.region = MountDoom /\ ~ShadowAt(units, MountDoom)
  /\ winner = "SHADOW" => rb.exposed /\ BearerCaught(units)
  /\ winner = "DRAW" => turn >= MaxTurns

\* A game that is not abandoned for a new one is decided, at the latest by the draw after
\* the last turn, wherever it was started; but for a game that was started at another
\* instance after the end of one, which the leader never plays.
GameEnds ==
  []<>(winner # None \/ Stalled) \/ []<><<Restarted>>_vars

\* Strength, status and respawn counter of a unit agree: only those with strength left are
\* active, only respawning units wait, and what is indestructible stays.
UnitLifecycle ==
  \A u \in Unit :
    /\ Active(units, u) <=> units[u].strength > 0
    /\ units[u].strength <= UnitCfg[u].strength
    /\ units[u].status = "RESPAWNING" =>
         UnitCfg[u].respawns /\ units[u].respawnTurns \in 1..UnitCfg[u].respawnTurns
    /\ units[u].status = "DESTROYED" => ~UnitCfg[u].respawns
    /\ UnitCfg[u].indestructible => Active(units, u)

\* A destroyed unit stays destroyed until a new game (stepRespawnAndCooldown).
DestroyedIsFinal ==
  [][\A u \in Unit : units[u].status = "DESTROYED" => units'[u].status = "DESTROYED" \/ Restarted]_vars

\* While the Free Peoples hold an Isengard they have conquered, the abilities that corrupt
\* paths are disabled (stepCombat, DisableCorruptPathMaias).
IsengardFallSilences ==
  regions[Isengard].control = "FREE_PEOPLES" /\ StartControl[Isengard] # "FREE_PEOPLES"
    => maiaDisabled

\* A region changes hands only to a side that has an active unit in it afterwards: the
\* attackers have all moved in before stepCombat writes the control.
ConquestLeavesGarrison ==
  [][\A r \in Region :
       regions'[r].control # regions[r].control =>
         \/ Restarted
         \/ \E u \in Unit : /\ Active(units', u)
                            /\ units'[u].region = r
                            /\ SideOf(u) = regions'[r].control]_vars

\* One attack costs only one side strength: the repelled attackers, or the defenders.
OnlyLosersBleed ==
  [][\A u, v \in Unit :
       /\ units'[u].strength < units[u].strength
       /\ units'[v].strength < units[v].strength
       => SideOf(u) = SideOf(v)]_vars

\* Of the combats of this turn and later ones, those r is still fortified for.
CombatsLeft(r) == IF regions[r].fortified THEN regions[r].fortifyTurns ELSE 0
\* A FORTIFY_REGION order protects a region in exactly two combats, the one of its turn and
\* the next: step 5 makes it two, the end of a turn takes one, nothing else but a new game
\* changes the number, and the region is fortified exactly while there are combats left.
FortifiedForTwoCombats ==
  [][\A r \in Region :
       \/ Restarted /\ CombatsLeft(r)' = 0
       \/ /\ CombatsLeft(r)' = IF phase = "combat" /\ phase' = "collect" /\ CombatsLeft(r) > 0
                               THEN CombatsLeft(r) - 1
                               ELSE CombatsLeft(r)
          /\ regions'[r].fortified <=> CombatsLeft(r)' > 0
       \/ phase = "deploy" /\ CombatsLeft(r)' = 2]_vars

-----------------------------------------------------------------------------
(* What the documents promise and the code does not keep.                  *)

\* "A path remains BLOCKED only while the blocking unit stays at one of its endpoint
\* regions.  If that unit moves away or is destroyed, the path reverts": after step 3.
BlockedByPresence ==
  phase = "deploy" =>
    \A p \in Path : paths[p].status = "BLOCKED" =>
      Active(units, paths[p].blockedBy) /\ units[paths[p].blockedBy].region \in Ends(p)

\* "The Ring Bearer's currentRegion is always empty in public state."
RingBearerHidden == phase = "collect" => units[RingBearer].region = Nowhere

\* "The unit auto-advances one step per turn along its route": the Ring Bearer gets from one
\* region to another only over a path between them.
BearerWalksRoads ==
  [][rb'.region # rb.region => Restarted \/ {rb.region, rb'.region} = Ends(Head(rb.route))]_vars
=============================================================================
