---------------------------- MODULE MCLeadership ----------------------------
(***************************************************************************)
(* Leadership for TLC.  A unit of time is one second: 3 s between two      *)
(* elections as in the code, while the heartbeat timeout and the sleep     *)
(* before the GameOver transaction, equal as in the code, are 8 s long     *)
(* instead of 15.  That leaves the leader room for two elections and the   *)
(* delay of a record, and lets a standby claim beside a leader that sleeps.*)
(* Nothing in the lease run reads game.broadcast: there every produce of   *)
(* a GameOver message fails.                                               *)
(***************************************************************************)
EXTENDS Leadership, TLC

CONSTANTS go1, go2, go3

\* go3's ticker is out of step with the two others.
MCPhase == [i \in Instance |-> IF i = go3 THEN 1 ELSE 0]

\* Three instances, of which a crashed one does not come back; two, with a turn that is not the
\* last; or two that come back, where the preferred one may find the other one leading.
MCDeployments ==
  {[running |-> {go1, go2, go3}, restartable |-> {}, maxTurns |-> 1],
   [running |-> {go1, go2}, restartable |-> {}, maxTurns |-> 2],
   [running |-> {go1, go2}, restartable |-> {go1, go2}, maxTurns |-> 1]}

MCPair == {[running |-> {go1, go2}, restartable |-> {}, maxTurns |-> 1]}
=============================================================================
