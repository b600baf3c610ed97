----------------------------- MODULE MCTurnRoads -----------------------------
(***************************************************************************)
(* A small world for TurnProcessor in which roads matter: the Ring Bearer  *)
(* walks from the Shire to Mount Doom, directly or through Bree, Gandalf   *)
(* opens what a wraith blocks, and Saruman corrupts.                       *)
(***************************************************************************)
EXTENDS TurnProcessor

CONSTANTS frodo, gandalf, wraith, saruman, shire, bree, doom, toBree, toDoom, byPass

Base == [class |-> "Army", side |-> "SHADOW", start |-> bree, strength |-> 1,
         leadershipBonus |-> 0, indestructible |-> FALSE, detectionRange |-> 0,
         respawns |-> FALSE, respawnTurns |-> 0, maia |-> FALSE, abilityPaths |-> {},
         ignoresFortress |-> FALSE, canFortify |-> FALSE, cooldown |-> 0]

MCUnitCfg ==
  [u \in Unit |->
     CASE u = frodo -> [Base EXCEPT !.class = "RingBearer", !.side = "FREE_PEOPLES", !.start = shire]
       [] u = gandalf -> [Base EXCEPT !.class = "Maia", !.side = "FREE_PEOPLES", !.maia = TRUE,
                                      !.cooldown = 3]
       [] u = wraith -> [Base EXCEPT !.class = "Nazgul", !.detectionRange = 1, !.start = doom]
       [] u = saruman -> [Base EXCEPT !.class = "Maia", !.maia = TRUE, !.cooldown = 2,
                                      !.abilityPaths = {toDoom}]]

MCPathCfg ==
  [p \in Path |-> CASE p = toBree -> [from |-> shire, to |-> bree, cost |-> 1]
                    [] p = toDoom -> [from |-> doom, to |-> bree, cost |-> 1]
                    [] p = byPass -> [from |-> shire, to |-> doom, cost |-> 2]]

MCTerrainBonus == [r \in Region |-> 0]
MCStartControl == [r \in Region |-> CASE r = shire -> "FREE_PEOPLES" [] r = bree -> "NEUTRAL"
                                      [] r = doom -> "SHADOW"]
MCMenu == [u \in Unit |-> CASE u = frodo -> {"ROUTE", "DESTROY_RING"}
                            [] u = gandalf -> {"MAIA_ABILITY"}
                            [] u = wraith -> {"BLOCK_PATH", "SEARCH_PATH", "DEPLOY_NAZGUL"}
                            [] u = saruman -> {"MAIA_ABILITY"}]
\* Without surveillance, to leave room for late orders and games started elsewhere.
MCLateMenu == [u \in Unit |-> IF u = saruman THEN {} ELSE MCMenu[u] \ {"SEARCH_PATH"}]
=============================================================================
