-------------------------- MODULE TurnProcessorGame --------------------------
(***************************************************************************)
(* The hidden start, the verdict and the life of a unit under the turn     *)
(* engine.                                                                 *)
(***************************************************************************)
EXTENDS TurnProcessorTypes

-----------------------------------------------------------------------------
(* The hidden start and the verdict.                                       *)

\* A game that is over stays in the world it ended in until a new game.
OverBetweenTurns == phase # "collect" => Playing
\* The exposure does not outlast the turn, but at the end of a game.
ExposedWithinTurn == phase = "collect" /\ ~gameOverSent => ~rb.exposed
EndInv == HiddenStart /\ OverBetweenTurns /\ ExposedWithinTurn /\ VerdictMatchesWorld

\* Only the end of a turn decides a game, and only by what Outcome finds.
LEMMA VerdictFromOutcome ==
  ASSUME NEW us, NEW exposed, NEW outcome, outcome = Outcome(us, exposed)
  PROVE  /\ outcome = "FREE_PEOPLES" => RingDestroyed(us)
         /\ outcome = "SHADOW" => exposed /\ BearerCaught(us)
         /\ outcome = "DRAW" => turn >= MaxTurns
BY RosterAssumption DEF Outcome, Side

\* EndInv holds in the first state
LEMMA InitEnd == Init => EndInv
BY RosterAssumption DEF Init, BearerAtStart, EndInv, HiddenStart, OverBetweenTurns,
                        ExposedWithinTurn, VerdictMatchesWorld, Side

\* and in every new game.
LEMMA NewGameEnd == NewGame => EndInv'
BY RosterAssumption DEF NewGame, BearerAtStart, EndInv, HiddenStart, OverBetweenTurns,
                        ExposedWithinTurn, VerdictMatchesWorld, Side

\* A start elsewhere leaves the Ring Bearer as it is: not exposed, or in a game that the
\* leader does not play.
LEMMA NewGameElsewhereEnd == EndInv /\ NewGameElsewhere => EndInv'
<1> SUFFICES ASSUME EndInv, NewGameElsewhere
             PROVE  EndInv'
  OBVIOUS
<1>1. /\ phase = "collect" /\ phase' = "collect"
      /\ winner' = None /\ startedAway'
      /\ UNCHANGED <<rb, gameOverSent>>
  BY DEF NewGameElsewhere
<1>2. ~gameOverSent => ~rb.exposed
  BY <1>1 DEF EndInv, ExposedWithinTurn
<1>3. HiddenStart'
  BY <1>1, <1>2, RosterAssumption DEF HiddenStart, Stalled, Side
<1>4. OverBetweenTurns' /\ ExposedWithinTurn' /\ VerdictMatchesWorld'
  BY <1>1, <1>2, RosterAssumption
  DEF OverBetweenTurns, ExposedWithinTurn, VerdictMatchesWorld, Side
<1>5. QED
  BY <1>3, <1>4 DEF EndInv

\* Step 7 exposes the Ring Bearer after the hidden start only.
LEMMA AutoAdvanceEnd == TypeOK /\ EndInv /\ AutoAdvance => EndInv'
<1> SUFFICES ASSUME TypeOK, EndInv, AutoAdvance
             PROVE  EndInv'
  OBVIOUS
<1>1. /\ ~gameOverSent /\ winner = None
      /\ UNCHANGED <<turn, winner, gameOverSent>> /\ phase' = "combat"
  BY DEF AutoAdvance, EndInv, OverBetweenTurns, Playing
<1>2. rb'.exposed => rb.exposed \/ turn > HiddenUntilTurn
  <2> DEFINE moved == Advanced(rb)
             seen == moved.exposed \/ ExposedBySurveillance(Head(rb.route))
  <2>1. moved \in RingBearerState
    BY AdvancedType DEF TypeOK
  <2>2. moved.exposed = rb.exposed
    BY DEF Advanced, Arrived, PlacedAt, TypeOK, RingBearerState
  <2>3. ExposedBySurveillance(Head(rb.route)) => turn > HiddenUntilTurn
    BY DEF ExposedBySurveillance
  <2>4. rb' = moved \/ rb' = [moved EXCEPT !.exposed = seen]
    BY DEF AutoAdvance, BearerAdvanced
  <2>5. seen => rb.exposed \/ turn > HiddenUntilTurn
    BY <2>2, <2>3
  <2> HIDE DEF moved, seen
  <2>6. rb' = moved \/ rb'.exposed = seen
    BY <2>1, <2>4 DEF RingBearerState
  <2>7. QED
    BY <2>2, <2>5, <2>6
<1>3. HiddenStart'
  BY <1>1, <1>2, RosterAssumption DEF EndInv, HiddenStart, Stalled, Side
<1>4. OverBetweenTurns' /\ ExposedWithinTurn' /\ VerdictMatchesWorld'
  BY <1>1, RosterAssumption
  DEF OverBetweenTurns, ExposedWithinTurn, Playing, VerdictMatchesWorld, Side
<1>5. QED
  BY <1>3, <1>4 DEF EndInv

\* The end of a turn records what holds of the world it leaves.
LEMMA EndTurnEnd == TypeOK /\ EndInv /\ EndTurn => EndInv'
<1> SUFFICES ASSUME TypeOK, EndInv, EndTurn
             PROVE  EndInv'
  OBVIOUS
<1> DEFINE exposed == rb.exposed \/ Detected(units')
           outcome == Outcome(units', exposed)
<1>1. /\ winner' = outcome
      /\ rb' = BearerAtTurnEnd(exposed, outcome)
      /\ turn' = IF outcome = None THEN turn + 1 ELSE turn
      /\ gameOverSent' = (outcome # None)
      /\ phase = "combat" /\ phase' = "collect"
  BY DEF EndTurn, Recorded
<1>2. exposed => turn > HiddenUntilTurn
  BY <1>1 DEF EndInv, HiddenStart, OverBetweenTurns, Playing, Stalled, Detected
<1>3. /\ outcome = "FREE_PEOPLES" => RingDestroyed(units')
      /\ outcome = "SHADOW" => exposed /\ BearerCaught(units')
      /\ outcome = "DRAW" => turn >= MaxTurns
  <2> HIDE DEF exposed
  <2> QED BY VerdictFromOutcome
<1>4. exposed \in BOOLEAN
  OBVIOUS
<1> HIDE DEF exposed, outcome
<1>5. rb'.region = rb.region /\ (rb'.exposed <=> exposed /\ outcome # None)
  <2> DEFINE e == exposed /\ outcome # None
  <2>1. e \in BOOLEAN
    OBVIOUS
  <2>2. rb' = [rb EXCEPT !.exposed = e]
    BY <1>1 DEF BearerAtTurnEnd
  <2> HIDE DEF e
  <2>3. rb'.region = rb.region /\ rb'.exposed = e
    BY <2>1, <2>2 DEF TypeOK, RingBearerState
  <2>4. QED
    BY <2>3 DEF e
<1>6. HiddenStart'
  BY <1>1, <1>2, <1>3, <1>5, RosterAssumption DEF HiddenStart, Side
<1>7. OverBetweenTurns' /\ ExposedWithinTurn'
  BY <1>1, <1>5 DEF OverBetweenTurns, ExposedWithinTurn
<1>8. VerdictMatchesWorld'
  <2>1. winner' = "FREE_PEOPLES" => rb'.region = MountDoom /\ ~ShadowAt(units', MountDoom)
    BY <1>1, <1>3, <1>5 DEF RingDestroyed
  <2>2. winner' = "SHADOW" => rb'.exposed /\ BearerCaught(units)'
    BY <1>1, <1>3, <1>5, RosterAssumption DEF BearerCaught, Side
  <2>3. winner' = "DRAW" => turn' >= MaxTurns
    BY <1>1, <1>3, RosterAssumption
  <2>4. QED
    BY <2>1, <2>2, <2>3 DEF VerdictMatchesWorld, ShadowAt, Active
<1>9. QED
  BY <1>6, <1>7, <1>8 DEF EndInv

\* The other steps leave the exposure alone and are taken in games that are not over.
LEMMA OtherStepsEnd ==
  ASSUME EndInv, UNCHANGED <<turn, winner, gameOverSent, startedAway>>, winner = None,
         rb'.exposed = rb.exposed, ~gameOverSent \/ UNCHANGED phase, phase' = "collect" => phase = "collect"
  PROVE  EndInv'
BY RosterAssumption DEF EndInv, HiddenStart, Stalled, OverBetweenTurns, ExposedWithinTurn, Playing,
                        VerdictMatchesWorld, Side

\* Every step keeps EndInv.
LEMMA NextEnd == TypeOK /\ EndInv /\ [Next]_vars => EndInv'
<1> SUFFICES ASSUME TypeOK, EndInv, [Next]_vars
             PROVE  EndInv'
  OBVIOUS
<1>1. CASE UNCHANGED vars
  BY <1>1 DEF vars, EndInv, HiddenStart, Stalled, OverBetweenTurns, ExposedWithinTurn, Playing,
              VerdictMatchesWorld, ShadowAt, BearerCaught, Active
<1>2. CASE BeginTurn
  <2>1. /\ ~gameOverSent /\ winner = None /\ phase' = "path"
        /\ UNCHANGED <<turn, winner, gameOverSent, startedAway>>
    BY <1>2 DEF BeginTurn, Playing
  <2>2. rb'.exposed = rb.exposed
    BY <1>2 DEF BeginTurn, Rerouted, TypeOK, RingBearerState
  <2>3. QED
    BY <2>1, <2>2, OtherStepsEnd
<1>3. ASSUME NEW u \in Unit, BlockPath(u) \/ SearchPath(u) \/ MaiaAbility(u) \/ AttackRegion(u)
      PROVE  EndInv'
  <2>1. /\ winner = None /\ UNCHANGED phase
        /\ UNCHANGED <<turn, winner, gameOverSent, startedAway, rb>>
    BY <1>3 DEF BlockPath, SearchPath, MaiaAbility, AttackRegion, EndInv, OverBetweenTurns, Playing
  <2>2. QED
    BY <2>1, OtherStepsEnd
<1>4. CASE RevertBlocked \/ DeployAndFortify
  <2>1. /\ ~gameOverSent /\ winner = None /\ phase' # "collect"
        /\ UNCHANGED <<turn, winner, gameOverSent, startedAway, rb>>
    BY <1>4 DEF RevertBlocked, DeployAndFortify, EndInv, OverBetweenTurns, Playing
  <2>2. QED
    BY <2>1, OtherStepsEnd
<1>5. CASE AutoAdvance
  BY <1>5, AutoAdvanceEnd
<1>6. CASE EndTurn
  BY <1>6, EndTurnEnd
<1>7. CASE (\E u \in Unit, o \in Submittable : BufferOrder(u, o) \/ BufferLateOrder(u, o))
           \/ ApplyBroadcast
  <2>1. /\ winner = None /\ UNCHANGED phase
        /\ UNCHANGED <<turn, winner, gameOverSent, startedAway, rb>>
    BY <1>7 DEF BufferOrder, BufferLateOrder, ApplyBroadcast, Playing
  <2>2. QED
    BY <2>1, OtherStepsEnd
<1>8. CASE NewGame \/ NewGameElsewhere
  BY <1>8, NewGameEnd, NewGameElsewhereEnd
<1>9. QED
  BY <1>1, <1>2, <1>3, <1>4, <1>5, <1>6, <1>7, <1>8 DEF Next, TurnStep

\* EndInv holds throughout.
LEMMA EndCorrect == Spec => [](TypeOK /\ EndInv)
<1>1. Init => TypeOK /\ EndInv
  BY InitType, InitEnd
<1>2. TypeOK /\ EndInv /\ [Next]_vars => (TypeOK /\ EndInv)'
  BY NextType, NextEnd
<1>3. QED
  BY <1>1, <1>2, PTL DEF Spec

\* Whatever the length of the hidden start, the watching of paths and the range of the
\* Nazgul: up to HiddenUntilTurn the Ring Bearer is not exposed and the game is not lost,
\* in every game that the leader plays.
THEOREM HiddenAtStart == Spec => []HiddenStart
<1>1. EndInv => HiddenStart
  BY DEF EndInv
<1>2. QED
  BY <1>1, EndCorrect, PTL

\* The recorded winner is the one the final world calls for: the ring is at an unguarded
\* Mount Doom, or the exposed Ring Bearer has a Nazgul beside it, or the turns are over.
THEOREM VerdictIsTrue == Spec => []VerdictMatchesWorld
<1>1. EndInv => VerdictMatchesWorld
  BY DEF EndInv
<1>2. QED
  BY <1>1, EndCorrect, PTL

-----------------------------------------------------------------------------
(* The life of a unit.                                                     *)

\* Strength, status and respawn counter of u agree in its state t.
LifeOK(u, t) ==
  /\ t.status = "ACTIVE" <=> t.strength > 0
  /\ t.strength <= UnitCfg[u].strength
  /\ t.status = "RESPAWNING" =>
       UnitCfg[u].respawns /\ t.respawnTurns \in 1..UnitCfg[u].respawnTurns
  /\ t.status = "DESTROYED" => ~UnitCfg[u].respawns
  /\ UnitCfg[u].indestructible => t.status = "ACTIVE"
SameLife(t, q) ==
  q.strength = t.strength /\ q.status = t.status /\ q.respawnTurns = t.respawnTurns

\* UnitLifecycle, unit by unit.
LEMMA LifecycleIsLifeOK == UnitLifecycle <=> \A u \in Unit : LifeOK(u, units[u])
BY DEF UnitLifecycle, LifeOK, Active

\* What does not touch the life of a unit keeps it right.
LEMMA SameLifeOK ==
  ASSUME NEW u \in Unit, NEW t \in UnitState, NEW q \in UnitState, LifeOK(u, t), SameLife(t, q)
  PROVE  LifeOK(u, q)
BY DEF LifeOK, SameLife

\* Every unit starts with strength; one that respawns waits at least one turn.
LEMMA ConfigNumbers ==
  ASSUME NEW u \in Unit
  PROVE  /\ UnitCfg[u].strength \in Nat \ {0}
         /\ UnitCfg[u].respawnTurns \in Nat
         /\ UnitCfg[u].respawns => UnitCfg[u].respawnTurns > 0
BY RosterAssumption DEF UnitConfig

\* A fresh unit, with or without its place.
LEMMA StartLifeOK == \A u \in Unit : LifeOK(u, UnitsAtStart[u])
<1> SUFFICES ASSUME NEW u \in Unit
             PROVE  LifeOK(u, UnitsAtStart[u])
  OBVIOUS
<1>1. /\ UnitsAtStart[u].strength = UnitCfg[u].strength
      /\ UnitsAtStart[u].status = "ACTIVE"
  BY DEF UnitsAtStart, UnitAtStart
<1>2. QED
  BY <1>1, ConfigNumbers DEF LifeOK

\* Damage hits active units only and is never a gift.
LEMMA DamagedLifeOK ==
  ASSUME TypeOK, NEW u \in Unit, NEW damage \in Int, damage > 0,
         Active(units, u), LifeOK(u, units[u])
  PROVE  LifeOK(u, Damaged(u, damage))
<1> DEFINE raw == units[u].strength - damage
           q == Damaged(u, damage)
<1>1. units[u] \in UnitState /\ units[u].strength \in Nat
  BY DEF TypeOK, UnitState
<1>2. /\ raw \in Int
      /\ raw < units[u].strength
      /\ units[u].strength <= UnitCfg[u].strength
  BY <1>1 DEF LifeOK
<1>3. CASE UnitCfg[u].indestructible
  <2>1. q.strength = (IF raw < 1 THEN 1 ELSE raw) /\ q.status = "ACTIVE"
    BY <1>1, <1>3 DEF Damaged, UnitState
  <2> HIDE DEF raw, q
  <2>2. LifeOK(u, q)
    BY <1>1, <1>2, <2>1, ConfigNumbers DEF LifeOK
  <2>3. QED
    BY <2>2 DEF q
<1>4. CASE ~UnitCfg[u].indestructible /\ raw > 0
  <2>1. q.strength = raw /\ q.status = "ACTIVE"
    BY <1>1, <1>4 DEF Damaged, Active, UnitState
  <2> HIDE DEF raw, q
  <2>2. LifeOK(u, q)
    BY <1>1, <1>2, <1>4, <2>1, ConfigNumbers DEF LifeOK
  <2>3. QED
    BY <2>2 DEF q
<1>5. CASE ~UnitCfg[u].indestructible /\ ~(raw > 0) /\ UnitCfg[u].respawns
  <2>1. /\ q.strength = 0
        /\ q.status = "RESPAWNING"
        /\ q.respawnTurns = UnitCfg[u].respawnTurns
    BY <1>1, <1>5 DEF Damaged, UnitState
  <2> HIDE DEF raw, q
  <2>2. LifeOK(u, q)
    BY <1>5, <2>1, ConfigNumbers DEF LifeOK
  <2>3. QED
    BY <2>2 DEF q
<1>6. CASE ~UnitCfg[u].indestructible /\ ~(raw > 0) /\ ~UnitCfg[u].respawns
  <2>1. q.strength = 0 /\ q.status = "DESTROYED"
    BY <1>1, <1>6 DEF Damaged, UnitState
  <2> HIDE DEF raw, q
  <2>2. LifeOK(u, q)
    BY <1>6, <2>1, ConfigNumbers DEF LifeOK
  <2>3. QED
    BY <2>2 DEF q
<1>7. QED
  BY <1>3, <1>4, <1>5, <1>6

\* Steps that move, reroute or refit a unit do not touch its life.
LEMMA MovesKeepLife ==
  ASSUME TypeOK, NEW t \in UnitState
  PROVE  /\ \A s \in Seq(Path) : SameLife(t, Rerouted(t, s))
         /\ \A r \in Place : SameLife(t, PlacedAt(t, r))
         /\ \A k \in Nat : SameLife(t, [t EXCEPT !.cooldown = k])
         /\ SameLife(t, [t EXCEPT !.region = Nowhere])
         /\ SameLife(t, Advanced(t))
         /\ SameLife(t, CooledDown(t))
BY DEF SameLife, Rerouted, PlacedAt, Advanced, Arrived, CooledDown, UnitState

\* In a game started elsewhere every unit is active at full strength.
LEMMA NewGameElsewhereLife ==
  ASSUME TypeOK, NewGameElsewhere, NEW u \in Unit
  PROVE  LifeOK(u, units'[u])
<1> DEFINE q == units'[u]
<1>1. units[u] \in UnitState
  BY DEF TypeOK
<1>2. q = [units[u] EXCEPT !.region = UnitsAtStart[u].region,
                           !.strength = UnitCfg[u].strength,
                           !.status = "ACTIVE"]
  BY DEF NewGameElsewhere
<1>3. q.strength = UnitCfg[u].strength /\ q.status = "ACTIVE"
  BY <1>1, <1>2 DEF UnitState
<1> HIDE DEF q
<1>4. LifeOK(u, q)
  BY <1>3, ConfigNumbers DEF LifeOK
<1>5. QED
  BY <1>4 DEF q

\* Step 8: attackers move or lose one point, defenders lose the damage.
LEMMA AttackKeepsLife ==
  ASSUME TypeOK, UnitLifecycle, NEW u \in Unit, AttackRegion(u), NEW v \in Unit
  PROVE  LifeOK(v, units'[v])
<1> DEFINE r == orders[u].region
           A == {w \in Unit : /\ Active(units, w)
                              /\ units[w].region = units[u].region
                              /\ SideOf(w) = SideOf(u)}
           D == {w \in Unit : Active(units, w) /\ units[w].region = r /\ SideOf(w) # SideOf(u)}
           damage == Power(A) - DefencePower(A, D, r)
<1>1. r \in Place /\ units[v] \in UnitState /\ LifeOK(v, units[v])
  BY TakenType, LifecycleIsLifeOK DEF AttackRegion, TypeOK
<1>2. \A w \in A \cup D : Active(units, w)
  OBVIOUS
<1>3. \/ damage > 0 /\ units' = AfterVictory(A, D, r, damage)
      \/ units' = AfterRepulse(A)
  BY DEF AttackRegion
<1>4. damage \in Int
  <2>1. Power(A) \in Nat /\ Power(D) \in Nat
    BY PowerType
  <2>2. TerrainBonus[r] \in Nat
    BY TakenType, MapAssumption DEF AttackRegion
  <2> HIDE DEF A, D, r
  <2>3. DefencePower(A, D, r) \in Nat
    BY <2>1, <2>2 DEF DefencePower
  <2>4. QED
    BY <2>1, <2>3
<1> HIDE DEF A, D, r, damage
<1>5. units'[v] \in {units[v], PlacedAt(units[v], r)}
        \/ (v \in A \cup D /\ \E d \in Int : d > 0 /\ units'[v] = Damaged(v, d))
  BY <1>3, <1>4 DEF AfterVictory, AfterRepulse
<1>6. CASE units'[v] \in {units[v], PlacedAt(units[v], r)}
  BY <1>1, <1>6, MovesKeepLife, PlacedAtType, SameLifeOK
<1>7. CASE v \in A \cup D /\ \E d \in Int : d > 0 /\ units'[v] = Damaged(v, d)
  BY <1>1, <1>2, <1>7, DamagedLifeOK
<1>8. QED
  BY <1>5, <1>6, <1>7

\* Step 11.
LEMMA EndTurnKeepsLife ==
  ASSUME TypeOK, UnitLifecycle, EndTurn, NEW u \in Unit
  PROVE  LifeOK(u, units'[u])
<1> DEFINE q == AfterRespawnTimer(u)
<1>1. /\ units[u] \in UnitState /\ LifeOK(u, units[u])
      /\ units[u].respawnTurns \in Nat
      /\ q \in UnitState
  BY LifecycleIsLifeOK, AfterRespawnTimerType DEF TypeOK, UnitState
<1>2. LifeOK(u, q)
  <2>1. CASE Respawns(u)
    <3>1. q.status = "ACTIVE" /\ q.strength = UnitCfg[u].strength
      BY <1>1, <2>1 DEF AfterRespawnTimer, PlacedAt, UnitState
    <3> HIDE DEF q
    <3>2. QED
      BY <3>1, ConfigNumbers DEF LifeOK
  <2>2. CASE ~Respawns(u) /\ units[u].status = "RESPAWNING"
    <3>1. /\ q.status = "RESPAWNING"
          /\ q.strength = units[u].strength
          /\ q.respawnTurns = units[u].respawnTurns - 1
          /\ units[u].respawnTurns > 1
      BY <1>1, <2>2 DEF AfterRespawnTimer, Respawns, UnitState
    <3> HIDE DEF q
    <3>2. QED
      BY <1>1, <2>2, <3>1, ConfigNumbers DEF LifeOK
  <2>3. CASE ~Respawns(u) /\ units[u].status # "RESPAWNING"
    BY <1>1, <2>3 DEF AfterRespawnTimer
  <2>4. QED
    BY <2>1, <2>2, <2>3
<1>3. units'[u] = CooledDown(q)
  BY DEF EndTurn
<1> HIDE DEF q
<1>4. QED
  BY <1>1, <1>2, <1>3, CooledDownType, MovesKeepLife, SameLifeOK

\* Every step keeps UnitLifecycle.
LEMMA NextLife == TypeOK /\ UnitLifecycle /\ [Next]_vars => UnitLifecycle'
<1> SUFFICES ASSUME TypeOK, UnitLifecycle, [Next]_vars, NEW u \in Unit
             PROVE  LifeOK(u, units'[u])
  BY DEF UnitLifecycle, LifeOK, Active
<1>1. units[u] \in UnitState /\ LifeOK(u, units[u])
  BY LifecycleIsLifeOK DEF TypeOK
<1>2. units'[u] \in UnitState
  BY NextType DEF TypeOK
<1>3. CASE SameLife(units[u], units'[u])
  BY <1>1, <1>2, <1>3, SameLifeOK
<1>4. CASE UNCHANGED units
  BY <1>1, <1>4
<1>5. CASE BeginTurn
  <2>1. units'[u] = units[u]
          \/ (orders[u].type = "ROUTE" /\ units'[u] = Rerouted(units[u], orders[u].route))
    BY <1>5 DEF BeginTurn
  <2>2. SameLife(units[u], units'[u])
    BY <1>1, <2>1, TakenType, MovesKeepLife DEF SameLife
  <2>3. QED
    BY <1>3, <2>2
<1>6. ASSUME NEW v \in Unit, BlockPath(v) \/ SearchPath(v)
      PROVE  UNCHANGED units
  BY <1>6 DEF BlockPath, SearchPath
<1>7. ASSUME NEW v \in Unit, MaiaAbility(v)
      PROVE  SameLife(units[u], units'[u])
  <2>1. UnitCfg[v].cooldown \in Nat
    BY RosterAssumption DEF UnitConfig
  <2>2. units'[u] \in {units[u], [units[u] EXCEPT !.cooldown = UnitCfg[v].cooldown]}
    BY <1>7 DEF MaiaAbility, TypeOK
  <2>3. QED
    BY <1>1, <2>1, <2>2 DEF SameLife, UnitState
<1>8. CASE DeployAndFortify
  <2>1. units'[u] = units[u]
          \/ (MayRedeploy(u) /\ units'[u] = PlacedAt(units[u], orders[u].region))
    BY <1>8 DEF DeployAndFortify
  <2>2. MayRedeploy(u) => orders[u].region \in Place
    BY TakenType DEF MayRedeploy
  <2>3. SameLife(units[u], units'[u])
    BY <1>1, <2>1, <2>2, MovesKeepLife DEF SameLife
  <2>4. QED
    BY <1>3, <2>3
<1>9. CASE AutoAdvance
  <2>1. units'[u] \in {units[u], Advanced(units[u])}
    BY <1>9 DEF AutoAdvance
  <2>2. SameLife(units[u], units'[u])
    BY <1>1, <2>1, MovesKeepLife DEF SameLife
  <2>3. QED
    BY <1>3, <2>2
<1>10. CASE ApplyBroadcast
  <2>1. units'[u] \in {units[u], [units[u] EXCEPT !.region = Nowhere]}
    BY <1>10 DEF ApplyBroadcast, TypeOK
  <2>2. SameLife(units[u], units'[u])
    BY <1>1, <2>1, MovesKeepLife DEF SameLife
  <2>3. QED
    BY <1>3, <2>2
<1>11. CASE EndTurn
  BY <1>11, EndTurnKeepsLife
<1>12. CASE NewGame \/ NewGameElsewhere
  BY <1>12, StartLifeOK, NewGameElsewhereLife DEF NewGame
<1>13. CASE RevertBlocked \/ UNCHANGED vars
  BY <1>4, <1>13 DEF RevertBlocked, vars
<1>14. CASE \E v \in Unit, o \in Submittable : BufferOrder(v, o) \/ BufferLateOrder(v, o)
  BY <1>4, <1>14 DEF BufferOrder, BufferLateOrder
<1>15. CASE \E v \in Unit : BlockPath(v) \/ SearchPath(v) \/ MaiaAbility(v) \/ AttackRegion(v)
  BY <1>3, <1>4, <1>6, <1>7, <1>15, AttackKeepsLife
<1>16. QED
  BY <1>5, <1>8, <1>9, <1>10, <1>11, <1>12, <1>13, <1>14, <1>15 DEF Next, TurnStep

\* Whatever the roster and the battles: only units with strength left are active, only
\* those that respawn wait, for no longer than their respawnTurns, nobody is stronger than
\* its configuration, and what is indestructible stays.
THEOREM UnitsLiveByTheRules == Spec => []UnitLifecycle
<1>1. Init => TypeOK /\ UnitLifecycle
  BY InitType, StartLifeOK, LifecycleIsLifeOK DEF Init
<1>2. TypeOK /\ UnitLifecycle /\ [Next]_vars => (TypeOK /\ UnitLifecycle)'
  BY NextType, NextLife
<1>3. QED
  BY <1>1, <1>2, PTL DEF Spec
=============================================================================
