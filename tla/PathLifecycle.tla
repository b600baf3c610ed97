---------------------------- MODULE PathLifecycle ----------------------------
(***************************************************************************)
(* What the engine promises about each path, whoever acts on it.  A turn   *)
(* goes through its stages in order.  A path is blocked or watched more    *)
(* only by the orders of the path stage, and released only at its end.  It *)
(* is opened only in the maia stage and only out of BLOCKED; then it stays *)
(* open for exactly two turn ends, unless it is blocked again, and is      *)
(* BLOCKED after them.  Surveillance never falls but in a new game, which  *)
(* starts between two turns and makes every path fresh.                    *)
(***************************************************************************)
EXTENDS Naturals

CONSTANT Path

VARIABLES
  road, \* of each path: status, surveillance, turn ends it stays open
  stage \* where the turn stands; "collect" between turns

Fresh == [status |-> "OPEN", surveillance |-> 0, turnsLeft |-> 0]

Blocked(r) == [r EXCEPT !.status = "BLOCKED", !.turnsLeft = 0]

Searched(r) == [r EXCEPT !.surveillance = IF @ < 3 THEN @ + 1 ELSE 3,
                         !.status = IF @ = "OPEN" THEN "THREATENED" ELSE @]

Released(r) == [r EXCEPT !.status = IF r.surveillance > 0 THEN "THREATENED" ELSE "OPEN"]

Opened(r) == [r EXCEPT !.status = "TEMPORARILY_OPEN", !.turnsLeft = 2]

Corrupted(r) == [r EXCEPT !.surveillance = 3]

\* The end of a turn counts for the paths that are open for now, and for no other.
OneTurnLess(r) ==
  IF r.status # "TEMPORARILY_OPEN" THEN r
  ELSE IF r.turnsLeft = 2 THEN [r EXCEPT !.turnsLeft = 1]
  ELSE [r EXCEPT !.status = "BLOCKED", !.turnsLeft = 0]

\* What an order of the path stage, the end of that stage, and an ability may make of r.
ByOrder(r) == {r, Blocked(r), Searched(r)}
ByRelease(r) == {r} \cup (IF r.status = "BLOCKED" THEN {Released(r)} ELSE {})
ByAbility(r) ==
  {r} \cup (IF r.status = "BLOCKED" THEN {Opened(r)} ELSE {})
      \cup (IF r.status # "TEMPORARILY_OPEN" THEN {Corrupted(r)} ELSE {})

Order == stage = "path" /\ UNCHANGED stage /\ \A p \in Path : road'[p] \in ByOrder(road[p])
Release == stage = "path" /\ stage' = "deploy" /\ \A p \in Path : road'[p] \in ByRelease(road[p])
Ability == stage = "maia" /\ UNCHANGED stage /\ \A p \in Path : road'[p] \in ByAbility(road[p])
TurnEnd ==
  /\ stage = "combat"
  /\ stage' = "collect"
  /\ road' = [p \in Path |-> OneTurnLess(road[p])]
NewGame == stage = "collect" /\ UNCHANGED stage /\ road' = [p \in Path |-> Fresh]
NextStage ==
  /\ <<stage, stage'>> \in {<<"collect", "path">>, <<"deploy", "maia">>, <<"maia", "combat">>}
  /\ UNCHANGED road

Next == Order \/ Release \/ Ability \/ TurnEnd \/ NewGame \/ NextStage

Lifecycle ==
  /\ road = [p \in Path |-> Fresh]
  /\ stage = "collect"
  /\ [][Next]_<<road, stage>>
=============================================================================
