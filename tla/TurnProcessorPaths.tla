------------------------- MODULE TurnProcessorPaths --------------------------
(***************************************************************************)
(* The paths under the turn engine: what closes a path is on record, and   *)
(* the paths implement PathLifecycle.                                      *)
(***************************************************************************)
EXTENDS TurnProcessorTypes

-----------------------------------------------------------------------------
(* The paths.  Every step of the program but a new game is one of a few    *)
(* moves of each path; the moves keep what closes a path on record, and    *)
(* the timer of an opened path between one and two.                        *)

BlockedFor(ps, u) == [ps EXCEPT !.status = "BLOCKED", !.blockedBy = u]
Corrupted(ps) == [ps EXCEPT !.surveillance = 3]

\* q is what a step may make of a path ps, in each phase of the turn.
OrderMove(ps, q) == q \in {ps, Searched(ps)} \/ \E u \in Unit : q = BlockedFor(ps, u)
ReleaseMove(ps, q) == q = ps \/ (ps.status = "BLOCKED" /\ q = Reverted(ps))
AbilityMove(ps, q) ==
  \/ q = ps
  \/ ps.status = "BLOCKED" /\ q = Opened(ps)
  \/ ps.status # "TEMPORARILY_OPEN" /\ q = Corrupted(ps)
Onward == {<<"collect", "path">>, <<"deploy", "maia">>, <<"maia", "combat">>}

PathMove(ps, q, from, to) ==
  \/ q = ps /\ (from = to \/ <<from, to>> \in Onward)
  \/ from = "path" /\ to = "path" /\ OrderMove(ps, q)
  \/ from = "path" /\ to = "deploy" /\ ReleaseMove(ps, q)
  \/ from = "maia" /\ to = "maia" /\ AbilityMove(ps, q)
  \/ from = "combat" /\ to = "collect" /\ q = AfterTimer(ps)

\* Each action but a new game moves each path in one of these ways.
LEMMA PathMoves ==
  ASSUME TypeOK, [Next]_vars, NEW p \in Path
  PROVE  Restarted \/ PathMove(paths[p], paths'[p], phase, phase')
<1>1. CASE UNCHANGED <<paths, phase>>
  BY <1>1 DEF PathMove
<1>2. ASSUME NEW u \in Unit, BlockPath(u)
      PROVE  PathMove(paths[p], paths'[p], phase, phase')
  <2>1. paths'[p] \in {paths[p], BlockedFor(paths[p], u)}
    BY <1>2 DEF BlockPath, BlockedFor, TypeOK
  <2>2. phase = "path" /\ phase' = "path"
    BY <1>2 DEF BlockPath
  <2>3. QED
    BY <2>1, <2>2 DEF PathMove, OrderMove
<1>3. ASSUME NEW u \in Unit, SearchPath(u)
      PROVE  PathMove(paths[p], paths'[p], phase, phase')
  <2>1. paths'[p] \in {paths[p], Searched(paths[p])}
    BY <1>3 DEF SearchPath, TypeOK
  <2>2. phase = "path" /\ phase' = "path"
    BY <1>3 DEF SearchPath
  <2>3. QED
    BY <2>1, <2>2 DEF PathMove, OrderMove
<1>4. CASE RevertBlocked
  <2>1. ReleaseMove(paths[p], paths'[p])
    BY <1>4 DEF RevertBlocked, BlockerGone, ReleaseMove, TypeOK
  <2>2. QED
    BY <1>4, <2>1 DEF RevertBlocked, PathMove
<1>5. ASSUME NEW u \in Unit, MaiaAbility(u)
      PROVE  PathMove(paths[p], paths'[p], phase, phase')
  <2>1. \/ paths'[p] = paths[p]
        \/ Opens(u, p) /\ paths'[p] = Opened(paths[p])
        \/ Corrupts(u, p) /\ paths'[p] = Corrupted(paths[p])
    BY <1>5 DEF MaiaAbility, Corrupted, TypeOK
  <2>2. phase = "maia" /\ phase' = "maia"
    BY <1>5 DEF MaiaAbility
  <2>3. QED
    BY <2>1, <2>2 DEF PathMove, AbilityMove, Opens, Corrupts
<1>6. CASE EndTurn
  <2>1. paths'[p] = AfterTimer(paths[p]) /\ phase = "combat" /\ phase' = "collect"
    BY <1>6 DEF EndTurn
  <2>2. QED
    BY <2>1 DEF PathMove
<1>7. CASE BeginTurn \/ DeployAndFortify \/ AutoAdvance
  <2>1. UNCHANGED paths /\ <<phase, phase'>> \in Onward
    BY <1>7 DEF BeginTurn, DeployAndFortify, AutoAdvance, Onward
  <2>2. QED
    BY <2>1 DEF PathMove
<1>8. CASE UNCHANGED vars
  BY <1>1, <1>8 DEF vars
<1>9. CASE TurnStep
  <2>1. ASSUME NEW u \in Unit, AttackRegion(u)
        PROVE  UNCHANGED <<paths, phase>>
    BY <2>1 DEF AttackRegion
  <2>2. QED
    BY <1>1, <1>2, <1>3, <1>4, <1>5, <1>6, <1>7, <1>9, <2>1 DEF TurnStep
<1>10. CASE (\E u \in Unit, o \in Submittable : BufferOrder(u, o) \/ BufferLateOrder(u, o))
            \/ ApplyBroadcast
  BY <1>1, <1>10 DEF BufferOrder, BufferLateOrder, ApplyBroadcast
<1>11. QED
  BY <1>8, <1>9, <1>10 DEF Next, Restarted

\* A path ps that is closed or opened for now has a blocker on record, and no other path
\* has one, unless the game was started away; an opened path has one or two turns to go.
Owned(ps, away) ==
  LET closed == ps.status \in {"BLOCKED", "TEMPORARILY_OPEN"}
      owned == ps.blockedBy # None
  IN (closed => owned) /\ (owned => closed \/ away)
Timed(ps) == ps.status = "TEMPORARILY_OPEN" => ps.tempOpenTurns \in 1..2
PathInv == \A p \in Path : Owned(paths[p], startedAway) /\ Timed(paths[p])

\* No move leaves a path closed without a blocker, or opened without time.
LEMMA MoveKeepsPath ==
  ASSUME NEW ps \in PathState, NEW q, NEW away, NEW from, NEW to,
         Owned(ps, away), Timed(ps), PathMove(ps, q, from, to)
  PROVE  Owned(q, away) /\ Timed(q)
<1>1. CASE q = ps
  BY <1>1
<1>3. CASE q = Searched(ps)
  <2>1. q.blockedBy = ps.blockedBy /\ q.tempOpenTurns = ps.tempOpenTurns
    BY <1>3 DEF Searched, PathState
  <2>2. q.status = IF ps.status = "OPEN" THEN "THREATENED" ELSE ps.status
    BY <1>3 DEF Searched, PathState
  <2>3. QED
    BY <2>1, <2>2 DEF Owned, Timed
<1>4. CASE q = AfterTimer(ps)
  <2>1. CASE ps.status # "TEMPORARILY_OPEN"
    BY <1>4, <2>1 DEF AfterTimer
  <2>2. CASE ps.status = "TEMPORARILY_OPEN" /\ ps.tempOpenTurns > 1
    <3>1. /\ q.status = ps.status
          /\ q.blockedBy = ps.blockedBy
          /\ q.tempOpenTurns = ps.tempOpenTurns - 1
      BY <1>4, <2>2 DEF AfterTimer, PathState
    <3>2. QED
      BY <2>2, <3>1 DEF Owned, Timed, PathState
  <2>3. CASE ps.status = "TEMPORARILY_OPEN" /\ ~(ps.tempOpenTurns > 1)
    <3>1. ps.blockedBy # None
      BY <2>3 DEF Owned
    <3>2. q.status = "BLOCKED" /\ q.blockedBy = ps.blockedBy
      BY <1>4, <2>3, <3>1 DEF AfterTimer, PathState
    <3>3. QED
      BY <3>1, <3>2 DEF Owned, Timed
  <2>4. QED
    BY <2>1, <2>2, <2>3
<1>5. CASE \E u \in Unit : q = BlockedFor(ps, u)
  <2>1. PICK u \in Unit : q = BlockedFor(ps, u)
    BY <1>5
  <2>2. q.status = "BLOCKED" /\ q.blockedBy = u /\ u # None
    BY <2>1, RosterAssumption DEF BlockedFor, PathState
  <2>3. QED
    BY <2>2 DEF Owned, Timed
<1>6. CASE q = Reverted(ps)
  <2>1. q.status \in {"OPEN", "THREATENED"} /\ q.blockedBy = None
    BY <1>6 DEF Reverted, StatusFromSurveillance, PathState
  <2>2. QED
    BY <2>1 DEF Owned, Timed
<1>7. CASE ps.status = "BLOCKED" /\ q = Opened(ps)
  <2>1. q.status = "TEMPORARILY_OPEN" /\ q.blockedBy = ps.blockedBy /\ q.tempOpenTurns = 2
    BY <1>7 DEF Opened, PathState
  <2>2. QED
    BY <1>7, <2>1 DEF Owned, Timed
<1>8. CASE q = Corrupted(ps)
  <2>1. q.status = ps.status /\ q.blockedBy = ps.blockedBy /\ q.tempOpenTurns = ps.tempOpenTurns
    BY <1>8 DEF Corrupted, PathState
  <2>2. QED
    BY <2>1 DEF Owned, Timed
<1>9. QED
  BY <1>1, <1>3, <1>4, <1>5, <1>6, <1>7, <1>8
  DEF PathMove, OrderMove, ReleaseMove, AbilityMove

\* The phases follow each other.
LEMMA PhaseMoves ==
  [Next]_vars => \/ Restarted
                 \/ UNCHANGED phase
                 \/ <<phase, phase'>> \in Onward \cup {<<"path", "deploy">>, <<"combat", "collect">>}
BY DEF Next, TurnStep, BeginTurn, BlockPath, SearchPath, RevertBlocked, DeployAndFortify,
       MaiaAbility, AutoAdvance, AttackRegion, EndTurn, BufferOrder, BufferLateOrder,
       ApplyBroadcast, Restarted, vars, Onward

\* Only a new game changes where the last game was started.
LEMMA AwayStays == [Next]_vars => Restarted \/ UNCHANGED startedAway
BY DEF Next, TurnStep, BeginTurn, BlockPath, SearchPath, RevertBlocked, DeployAndFortify,
       MaiaAbility, AutoAdvance, AttackRegion, EndTurn, BufferOrder, BufferLateOrder,
       ApplyBroadcast, Restarted, vars

\* In a new game every path is open and unwatched.
LEMMA NewGamePaths ==
  ASSUME TypeOK, Restarted, NEW p \in Path
  PROVE  /\ paths'[p].status = "OPEN" /\ paths'[p].surveillance = 0
         /\ startedAway' \/ paths'[p].blockedBy = None
<1> DEFINE zero == 0
<1>1. CASE NewGame
  <2>1. paths'[p] = PathsAtStart[p]
    BY <1>1 DEF NewGame
  <2>2. QED
    BY <2>1 DEF PathsAtStart
<1>2. CASE NewGameElsewhere
  <2>1. paths'[p] = [paths[p] EXCEPT !.status = "OPEN", !.surveillance = zero, !.tempOpenTurns = zero]
    BY <1>2 DEF NewGameElsewhere
  <2>2. startedAway'
    BY <1>2 DEF NewGameElsewhere
  <2>3. paths[p] \in PathState
    BY DEF TypeOK
  <2> HIDE DEF zero
  <2>4. paths'[p].status = "OPEN" /\ paths'[p].surveillance = zero
    BY <2>1, <2>3 DEF PathState
  <2>5. QED
    BY <2>2, <2>4 DEF zero
<1>3. QED
  BY <1>1, <1>2 DEF Restarted

\* PathInv is inductive.
LEMMA InitPaths == Init => PathInv
BY DEF Init, PathsAtStart, PathInv, Owned, Timed

\* Every step keeps PathInv, path by path.
LEMMA NextPaths == TypeOK /\ PathInv /\ [Next]_vars => PathInv'
<1> SUFFICES ASSUME TypeOK, PathInv, [Next]_vars, NEW p \in Path
             PROVE  Owned(paths'[p], startedAway') /\ Timed(paths'[p])
  BY DEF PathInv
<1>1. paths[p] \in PathState /\ Owned(paths[p], startedAway) /\ Timed(paths[p])
  BY DEF TypeOK, PathInv
<1>2. CASE Restarted
  BY <1>2, NewGamePaths DEF Owned, Timed
<1>3. CASE ~Restarted
  <2>1. PathMove(paths[p], paths'[p], phase, phase')
    BY <1>3, PathMoves
  <2>2. startedAway' = startedAway
    BY <1>3, AwayStays
  <2>3. QED
    BY <1>1, <2>1, <2>2, MoveKeepsPath
<1>4. QED
  BY <1>2, <1>3

\* PathInv holds throughout.
LEMMA PathsCorrect == Spec => [](TypeOK /\ PathInv)
<1>1. Init => TypeOK /\ PathInv
  BY InitType, InitPaths
<1>2. TypeOK /\ PathInv /\ [Next]_vars => (TypeOK /\ PathInv)'
  BY NextType, NextPaths
<1>3. QED
  BY <1>1, <1>2, PTL DEF Spec

\* No path is ever blocked, or opened for now, without a unit on record as its blocker, and
\* no other path has one unless the game was started at another instance: status and
\* blockedByUnitId are written in different steps of the turn (stepBlockAndSearch,
\* stepMaiaAbilities, stepTempOpenTimers) and stay consistent.
THEOREM ClosedPathsOwned == Spec => []ClosedPathsAreOwned
<1>1. PathInv => ClosedPathsAreOwned
  BY DEF PathInv, Owned, ClosedPathsAreOwned
<1>2. QED
  BY <1>1, PathsCorrect, PTL

-----------------------------------------------------------------------------
(* The engine keeps the promise of PathLifecycle.                          *)

\* What the promise says of a path ps: Road(p) of paths[p].
RoadOf(ps) ==
  [status |-> ps.status,
   surveillance |-> ps.surveillance,
   turnsLeft |-> IF ps.status = "TEMPORARILY_OPEN" THEN ps.tempOpenTurns ELSE 0]
RoadState == [status: PathStatus, surveillance: 0..3, turnsLeft: Nat]

\* The fields of the road of a path.
LEMMA RoadOfFields ==
  ASSUME NEW ps \in PathState
  PROVE  /\ RoadOf(ps) \in RoadState
         /\ RoadOf(ps).status = ps.status
         /\ RoadOf(ps).surveillance = ps.surveillance
         /\ RoadOf(ps).turnsLeft = IF ps.status = "TEMPORARILY_OPEN" THEN ps.tempOpenTurns ELSE 0
<1> DEFINE k == IF ps.status = "TEMPORARILY_OPEN" THEN ps.tempOpenTurns ELSE 0
<1>1. k \in Nat
  BY DEF PathState
<1>2. RoadOf(ps) = [status |-> ps.status, surveillance |-> ps.surveillance, turnsLeft |-> k]
  BY DEF RoadOf
<1> HIDE DEF k
<1>3. RoadOf(ps) \in RoadState /\ RoadOf(ps).turnsLeft = k
  BY <1>1, <1>2 DEF PathState, RoadState
<1>4. RoadOf(ps).status = ps.status /\ RoadOf(ps).surveillance = ps.surveillance
  BY <1>2
<1>5. QED
  BY <1>3, <1>4 DEF k

\* Roads with the same fields are the same.
LEMMA SameRoad ==
  ASSUME NEW a \in RoadState, NEW b \in RoadState,
         a.status = b.status, a.surveillance = b.surveillance, a.turnsLeft = b.turnsLeft
  PROVE  a = b
BY DEF RoadState

\* What the moves of the promise make of the fields of a road.
LEMMA RoadMoves ==
  ASSUME NEW r \in RoadState
  PROVE  /\ LET q == Promise!Blocked(r)
            IN  /\ q \in RoadState /\ q.status = "BLOCKED" /\ q.surveillance = r.surveillance
                /\ q.turnsLeft = 0
         /\ LET q == Promise!Searched(r)
            IN  /\ q \in RoadState
                /\ q.status = IF r.status = "OPEN" THEN "THREATENED" ELSE r.status
                /\ q.surveillance = IF r.surveillance < 3 THEN r.surveillance + 1 ELSE 3
                /\ q.turnsLeft = r.turnsLeft
         /\ LET q == Promise!Released(r)
            IN  /\ q \in RoadState
                /\ q.status = IF r.surveillance > 0 THEN "THREATENED" ELSE "OPEN"
                /\ q.surveillance = r.surveillance
                /\ q.turnsLeft = r.turnsLeft
         /\ LET q == Promise!Corrupted(r)
            IN  /\ q \in RoadState /\ q.status = r.status /\ q.surveillance = 3
                /\ q.turnsLeft = r.turnsLeft
         /\ LET q == Promise!Opened(r)
            IN  /\ q \in RoadState /\ q.status = "TEMPORARILY_OPEN"
                /\ q.surveillance = r.surveillance
                /\ q.turnsLeft = 2
<1> DEFINE zero == 0
           two == 2
           three == 3
           unheld == IF r.surveillance > 0 THEN "THREATENED" ELSE "OPEN"
           threatened == IF r.status = "OPEN" THEN "THREATENED" ELSE r.status
           more == IF r.surveillance < 3 THEN r.surveillance + 1 ELSE 3
<1>1. /\ zero \in Nat /\ two \in Nat /\ three \in 0..3
      /\ unheld \in PathStatus /\ threatened \in PathStatus /\ more \in 0..3
  BY DEF RoadState, PathStatus
<1>2. /\ Promise!Blocked(r) = [r EXCEPT !.status = "BLOCKED", !.turnsLeft = zero]
      /\ Promise!Searched(r) = [r EXCEPT !.surveillance = more, !.status = threatened]
      /\ Promise!Released(r) = [r EXCEPT !.status = unheld]
      /\ Promise!Corrupted(r) = [r EXCEPT !.surveillance = three]
      /\ Promise!Opened(r) = [r EXCEPT !.status = "TEMPORARILY_OPEN", !.turnsLeft = two]
  BY DEF Promise!Blocked, Promise!Searched, Promise!Released, Promise!Corrupted, Promise!Opened
<1> HIDE DEF zero, two, three, unheld, threatened, more
<1>3. LET q == Promise!Blocked(r)
      IN  /\ q \in RoadState /\ q.status = "BLOCKED" /\ q.surveillance = r.surveillance
          /\ q.turnsLeft = zero
  BY <1>1, <1>2 DEF RoadState, PathStatus
<1>4. LET q == Promise!Searched(r)
      IN  /\ q \in RoadState /\ q.status = threatened /\ q.surveillance = more
          /\ q.turnsLeft = r.turnsLeft
  BY <1>1, <1>2 DEF RoadState, PathStatus
<1>5. LET q == Promise!Released(r)
      IN  /\ q \in RoadState /\ q.status = unheld /\ q.surveillance = r.surveillance
          /\ q.turnsLeft = r.turnsLeft
  BY <1>1, <1>2 DEF RoadState, PathStatus
<1>6. LET q == Promise!Corrupted(r)
      IN  /\ q \in RoadState /\ q.status = r.status /\ q.surveillance = three
          /\ q.turnsLeft = r.turnsLeft
  BY <1>1, <1>2 DEF RoadState, PathStatus
<1>7. LET q == Promise!Opened(r)
      IN  /\ q \in RoadState /\ q.status = "TEMPORARILY_OPEN" /\ q.surveillance = r.surveillance
          /\ q.turnsLeft = two
  BY <1>1, <1>2 DEF RoadState, PathStatus
<1>8. QED
  BY <1>3, <1>4, <1>5, <1>6, <1>7 DEF zero, two, three, unheld, threatened, more

\* An open path that no one watches is a fresh road.
LEMMA FreshRoad ==
  ASSUME NEW ps \in PathState, ps.status = "OPEN", ps.surveillance = 0
  PROVE  RoadOf(ps) = Promise!Fresh
<1> DEFINE zero == 0
<1>1. zero \in Nat /\ zero \in 0..3
  OBVIOUS
<1>2. Promise!Fresh = [status |-> "OPEN", surveillance |-> zero, turnsLeft |-> zero]
  BY DEF Promise!Fresh
<1>3. RoadOf(ps) \in RoadState /\ RoadOf(ps).status = "OPEN" /\ RoadOf(ps).surveillance = zero
      /\ RoadOf(ps).turnsLeft = zero
  BY RoadOfFields
<1> HIDE DEF zero
<1>4. /\ Promise!Fresh \in RoadState
      /\ Promise!Fresh.status = "OPEN"
      /\ Promise!Fresh.surveillance = zero
      /\ Promise!Fresh.turnsLeft = zero
  BY <1>1, <1>2 DEF RoadState, PathStatus
<1>5. QED
  BY <1>3, <1>4, SameRoad

\* The end of a turn is the end of a turn for the road of a path.
LEMMA OneTurnLessRoad ==
  ASSUME NEW ps \in PathState, NEW away, Owned(ps, away), Timed(ps)
  PROVE  RoadOf(AfterTimer(ps)) = Promise!OneTurnLess(RoadOf(ps))
<1> DEFINE r == RoadOf(ps)
           q == AfterTimer(ps)
           zero == 0
           one == 1
<1>1. zero \in Nat /\ one \in Nat /\ q \in PathState
  BY AfterTimerType
<1>2. /\ r \in RoadState
      /\ r.status = ps.status
      /\ r.surveillance = ps.surveillance
      /\ ps.status = "TEMPORARILY_OPEN" => r.turnsLeft = ps.tempOpenTurns
  BY RoadOfFields
<1>3. CASE ps.status # "TEMPORARILY_OPEN"
  BY <1>2, <1>3 DEF AfterTimer, Promise!OneTurnLess
<1>4. CASE ps.status = "TEMPORARILY_OPEN" /\ ps.tempOpenTurns = 2
  <2>1. /\ q.status = "TEMPORARILY_OPEN"
        /\ q.surveillance = ps.surveillance
        /\ q.tempOpenTurns = 1
    BY <1>4 DEF AfterTimer, PathState
  <2>2. Promise!OneTurnLess(r) = [r EXCEPT !.turnsLeft = one]
    BY <1>2, <1>4 DEF Promise!OneTurnLess
  <2> HIDE DEF r, q, zero, one
  <2>3. LET s == Promise!OneTurnLess(r)
        IN  /\ s \in RoadState /\ s.status = r.status /\ s.surveillance = r.surveillance
            /\ s.turnsLeft = one
    BY <1>1, <1>2, <2>2 DEF RoadState
  <2>4. /\ RoadOf(q) \in RoadState
        /\ RoadOf(q).status = "TEMPORARILY_OPEN"
        /\ RoadOf(q).surveillance = ps.surveillance
        /\ RoadOf(q).turnsLeft = 1
    BY <1>1, <2>1, RoadOfFields
  <2>5. RoadOf(q) = Promise!OneTurnLess(r)
    BY <1>2, <1>4, <2>3, <2>4, SameRoad DEF one
  <2>6. QED
    BY <2>5 DEF r, q
<1>5. CASE ps.status = "TEMPORARILY_OPEN" /\ ps.tempOpenTurns = 1
  <2>1. ps.blockedBy # None
    BY <1>5 DEF Owned
  <2>2. q.status = "BLOCKED" /\ q.surveillance = ps.surveillance
    BY <1>5, <2>1 DEF AfterTimer, PathState
  <2>3. Promise!OneTurnLess(r) = [r EXCEPT !.status = "BLOCKED", !.turnsLeft = zero]
    BY <1>2, <1>5 DEF Promise!OneTurnLess
  <2> HIDE DEF r, q, zero, one
  <2>4. LET s == Promise!OneTurnLess(r)
        IN  /\ s \in RoadState /\ s.status = "BLOCKED" /\ s.surveillance = r.surveillance
            /\ s.turnsLeft = zero
    BY <1>1, <1>2, <2>3 DEF RoadState, PathStatus
  <2>5. /\ RoadOf(q) \in RoadState
        /\ RoadOf(q).status = "BLOCKED"
        /\ RoadOf(q).surveillance = ps.surveillance
        /\ RoadOf(q).turnsLeft = 0
    BY <1>1, <2>2, RoadOfFields
  <2>6. RoadOf(q) = Promise!OneTurnLess(r)
    BY <1>2, <2>4, <2>5, SameRoad DEF zero
  <2>7. QED
    BY <2>6 DEF r, q
<1>6. QED
  <2>1. ps.status = "TEMPORARILY_OPEN" => ps.tempOpenTurns = 1 \/ ps.tempOpenTurns = 2
    BY DEF Timed
  <2>2. QED
    BY <1>3, <1>4, <1>5, <2>1

\* An order of step 3 moves the road of a path as the promise says,
LEMMA OrderKeepsPromise ==
  ASSUME NEW ps \in PathState, NEW q \in PathState, OrderMove(ps, q)
  PROVE  RoadOf(q) \in Promise!ByOrder(RoadOf(ps))
<1> DEFINE r == RoadOf(ps)
<1>1. CASE q = ps
  BY <1>1 DEF Promise!ByOrder
<1>2. CASE q = Searched(ps)
  <2>1. /\ q.status = IF ps.status = "OPEN" THEN "THREATENED" ELSE ps.status
        /\ q.surveillance = IF ps.surveillance < 3 THEN ps.surveillance + 1 ELSE 3
        /\ q.tempOpenTurns = ps.tempOpenTurns
    BY <1>2 DEF Searched, PathState
  <2>2. RoadOf(q) = Promise!Searched(r)
    BY <2>1, RoadOfFields, RoadMoves, SameRoad
  <2>3. QED
    BY <2>2 DEF Promise!ByOrder
<1>3. CASE \E u \in Unit : q = BlockedFor(ps, u)
  <2>1. PICK u \in Unit : q = BlockedFor(ps, u)
    BY <1>3
  <2>2. q.status = "BLOCKED" /\ q.surveillance = ps.surveillance
    BY <2>1 DEF BlockedFor, PathState
  <2>3. RoadOf(q) = Promise!Blocked(r)
    BY <2>2, RoadOfFields, RoadMoves, SameRoad
  <2>4. QED
    BY <2>3 DEF Promise!ByOrder
<1>4. QED
  BY <1>1, <1>2, <1>3 DEF OrderMove

\* so does the end of step 3,
LEMMA ReleaseKeepsPromise ==
  ASSUME NEW ps \in PathState, NEW q \in PathState, ReleaseMove(ps, q)
  PROVE  RoadOf(q) \in Promise!ByRelease(RoadOf(ps))
<1> DEFINE r == RoadOf(ps)
<1>1. CASE q = ps
  BY <1>1 DEF Promise!ByRelease
<1>2. CASE ps.status = "BLOCKED" /\ q = Reverted(ps)
  <2>1. /\ q.status = IF ps.surveillance > 0 THEN "THREATENED" ELSE "OPEN"
        /\ q.surveillance = ps.surveillance
    BY <1>2 DEF Reverted, StatusFromSurveillance, PathState
  <2>2. q.status # "TEMPORARILY_OPEN"
    BY <2>1
  <2>3. RoadOf(q) = Promise!Released(r)
    BY <1>2, <2>1, <2>2, RoadOfFields, RoadMoves, SameRoad
  <2>4. RoadOf(ps).status = "BLOCKED"
    BY <1>2, RoadOfFields
  <2>5. QED
    BY <2>3, <2>4 DEF Promise!ByRelease
<1>3. QED
  BY <1>1, <1>2 DEF ReleaseMove

\* and an ability of step 6.
LEMMA AbilityKeepsPromise ==
  ASSUME NEW ps \in PathState, NEW q \in PathState, AbilityMove(ps, q)
  PROVE  RoadOf(q) \in Promise!ByAbility(RoadOf(ps))
<1> DEFINE r == RoadOf(ps)
<1>0. r.status = ps.status
  BY RoadOfFields
<1>1. CASE q = ps
  BY <1>1 DEF Promise!ByAbility
<1>2. CASE ps.status = "BLOCKED" /\ q = Opened(ps)
  <2>1. /\ q.status = "TEMPORARILY_OPEN"
        /\ q.surveillance = ps.surveillance
        /\ q.tempOpenTurns = 2
    BY <1>2 DEF Opened, PathState
  <2>2. RoadOf(q) = Promise!Opened(r)
    BY <2>1, RoadOfFields, RoadMoves, SameRoad
  <2>3. QED
    BY <1>0, <1>2, <2>2 DEF Promise!ByAbility
<1>3. CASE ps.status # "TEMPORARILY_OPEN" /\ q = Corrupted(ps)
  <2>1. q.status = ps.status /\ q.surveillance = 3
    BY <1>3 DEF Corrupted, PathState
  <2>2. RoadOf(q) = Promise!Corrupted(r)
    BY <1>3, <2>1, RoadOfFields, RoadMoves, SameRoad
  <2>3. QED
    BY <1>0, <1>3, <2>2 DEF Promise!ByAbility
<1>4. QED
  BY <1>1, <1>2, <1>3 DEF AbilityMove

\* The paths of the engine implement PathLifecycle: whatever orders meet in a turn, a path
\* is blocked, watched and opened only in the steps of the turn made for it, opened only out
\* of BLOCKED and then for exactly two turn ends unless it is blocked again, and is never
\* watched less than before but in a new game.
THEOREM PathsImplementPromise == Spec => PathsKeepTheirPromise
<1> DEFINE road == [p \in Path |-> Road(p)]
<1>0. \A p \in Path : road[p] = RoadOf(paths[p]) /\ road'[p] = RoadOf(paths'[p])
  BY DEF Road, RoadOf
<1>1. Init => road = [p \in Path |-> Promise!Fresh] /\ phase = "collect"
  <2>1. ASSUME Init, NEW p \in Path
        PROVE  Road(p) = Promise!Fresh
    <3>1. /\ paths[p] \in PathState
          /\ paths[p].status = "OPEN" /\ paths[p].surveillance = 0
      BY <2>1, StartType DEF Init, PathsAtStart
    <3>2. QED
      BY <3>1, FreshRoad, <1>0
  <2>2. QED
    BY <2>1 DEF Init
<1>2. TypeOK /\ PathInv /\ [Next]_vars => [Promise!Next]_<<road, phase>>
  <2> SUFFICES ASSUME TypeOK, PathInv, [Next]_vars
               PROVE  Promise!Next \/ UNCHANGED <<road, phase>>
    OBVIOUS
  <2>1. \A p \in Path : paths[p] \in PathState /\ paths'[p] \in PathState
    BY NextType DEF TypeOK
  <2>2. CASE Restarted
    <3>1. \A p \in Path : RoadOf(paths'[p]) = Promise!Fresh
      BY <2>1, <2>2, NewGamePaths, FreshRoad
    <3>2. road' = [p \in Path |-> Promise!Fresh]
      BY <1>0, <3>1
    <3>3. phase = "collect" /\ phase' = "collect"
      BY <2>2 DEF Restarted, NewGame, NewGameElsewhere
    <3>4. QED
      BY <3>2, <3>3 DEF Promise!Next, Promise!NewGame
  <2>3. CASE ~Restarted
    <3>1. \A p \in Path : PathMove(paths[p], paths'[p], phase, phase')
      BY <2>3, PathMoves
    <3>2. CASE phase = "path" /\ phase' = "path"
      <4>1. \A p \in Path : OrderMove(paths[p], paths'[p])
        BY <3>1, <3>2 DEF PathMove, OrderMove
      <4>2. \A p \in Path : road'[p] \in Promise!ByOrder(road[p])
        BY <1>0, <2>1, <4>1, OrderKeepsPromise
      <4>3. QED
        BY <3>2, <4>2 DEF Promise!Next, Promise!Order
    <3>3. CASE phase = "path" /\ phase' = "deploy"
      <4>1. \A p \in Path : ReleaseMove(paths[p], paths'[p])
        BY <3>1, <3>3 DEF PathMove, ReleaseMove, Onward
      <4>2. \A p \in Path : road'[p] \in Promise!ByRelease(road[p])
        BY <1>0, <2>1, <4>1, ReleaseKeepsPromise
      <4>3. QED
        BY <3>3, <4>2 DEF Promise!Next, Promise!Release
    <3>4. CASE phase = "maia" /\ phase' = "maia"
      <4>1. \A p \in Path : AbilityMove(paths[p], paths'[p])
        BY <3>1, <3>4 DEF PathMove, AbilityMove
      <4>2. \A p \in Path : road'[p] \in Promise!ByAbility(road[p])
        BY <1>0, <2>1, <4>1, AbilityKeepsPromise
      <4>3. QED
        BY <3>4, <4>2 DEF Promise!Next, Promise!Ability
    <3>5. CASE phase = "combat" /\ phase' = "collect"
      <4>1. \A p \in Path : paths'[p] = AfterTimer(paths[p])
        BY <3>1, <3>5 DEF PathMove, Onward
      <4>2. \A p \in Path : road'[p] = Promise!OneTurnLess(road[p])
        BY <1>0, <2>1, <4>1, OneTurnLessRoad DEF PathInv
      <4>3. road' = [p \in Path |-> Promise!OneTurnLess(road[p])]
        BY <4>2
      <4>4. QED
        BY <3>5, <4>3 DEF Promise!Next, Promise!TurnEnd
    <3>6. CASE /\ ~(phase = "path" /\ phase' = "path")
               /\ ~(phase = "path" /\ phase' = "deploy")
               /\ ~(phase = "maia" /\ phase' = "maia")
               /\ ~(phase = "combat" /\ phase' = "collect")
      <4>1. UNCHANGED phase \/ <<phase, phase'>> \in Onward
        BY <2>3, <3>6, PhaseMoves
      <4>2. \A p \in Path : paths'[p] = paths[p]
        BY <3>1, <3>6 DEF PathMove
      <4>3. UNCHANGED road
        BY <1>0, <4>2
      <4>4. QED
        BY <4>1, <4>3 DEF Promise!Next, Promise!NextStage, Onward
    <3>7. QED
      BY <3>2, <3>3, <3>4, <3>5, <3>6
  <2>4. QED
    BY <2>2, <2>3
<1>3. QED
  BY <1>1, <1>2, PathsCorrect, PTL DEF Spec, PathsKeepTheirPromise, Promise!Lifecycle
=============================================================================
