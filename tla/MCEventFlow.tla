---------------------------- MODULE MCEventFlow ----------------------------
(***************************************************************************)
(* EventFlow for TLC: two regions and a browser of either side.            *)
(***************************************************************************)
EXTENDS EventFlow, TLC

CONSTANTS shire, bree, tab, player

MCPlayerOf == tab :> player
=============================================================================
