----------------------------- MODULE MCTurnBattle -----------------------------
(***************************************************************************)
(* A small world for TurnProcessor in which regions are fought over: a     *)
(* leader and a dwarf face Isengard, held by Saruman and a wraith that     *)
(* respawns there, with Uruks behind them.                                 *)
(***************************************************************************)
EXTENDS TurnProcessor

CONSTANTS frodo, aragorn, gimli, wraith, uruk, saruman,
          shire, rohan, isengard, mordor, fords, eastRoad, southRoad

Base == [class |-> "Army", side |-> "SHADOW", start |-> isengard, strength |-> 1,
         leadershipBonus |-> 0, indestructible |-> FALSE, detectionRange |-> 0,
         respawns |-> FALSE, respawnTurns |-> 0, maia |-> FALSE, abilityPaths |-> {},
         ignoresFortress |-> FALSE, canFortify |-> FALSE, cooldown |-> 0]
Guard == [Base EXCEPT !.class = "FellowshipGuard", !.side = "FREE_PEOPLES", !.start = rohan]

MCUnitCfg ==
  [u \in Unit |->
     CASE u = frodo -> [Guard EXCEPT !.class = "RingBearer", !.start = shire]
       [] u = aragorn -> [Guard EXCEPT !.strength = 3, !.leadershipBonus = 1, !.indestructible = TRUE]
       [] u = gimli -> [Guard EXCEPT !.canFortify = TRUE]
       [] u = wraith -> [Base EXCEPT !.class = "Nazgul", !.detectionRange = 1, !.respawns = TRUE,
                                     !.respawnTurns = 2]
       [] u = uruk -> [Base EXCEPT !.strength = 2, !.start = mordor, !.ignoresFortress = TRUE]
       [] u = saruman -> [Base EXCEPT !.class = "Maia", !.maia = TRUE, !.cooldown = 1,
                                      !.indestructible = TRUE, !.abilityPaths = {fords}]]

MCPathCfg ==
  [p \in Path |-> CASE p = fords -> [from |-> rohan, to |-> isengard, cost |-> 1]
                    [] p = eastRoad -> [from |-> mordor, to |-> isengard, cost |-> 1]
                    [] p = southRoad -> [from |-> rohan, to |-> mordor, cost |-> 1]]

MCTerrainBonus == [r \in Region |-> IF r = isengard THEN 2 ELSE 0]
MCStartControl == [r \in Region |-> IF r \in {shire, rohan} THEN "FREE_PEOPLES" ELSE "SHADOW"]
MCMenu == [u \in Unit |-> CASE u = frodo -> {}
                            [] u = aragorn -> {"ATTACK_REGION", "REINFORCE_REGION"}
                            [] u = gimli -> {"BLOCK_PATH", "FORTIFY_REGION"}
                            [] u = wraith -> {"ATTACK_REGION", "DEPLOY_NAZGUL"}
                            [] u = uruk -> {"ATTACK_REGION"}
                            [] u = saruman -> {"MAIA_ABILITY"}]
=============================================================================
