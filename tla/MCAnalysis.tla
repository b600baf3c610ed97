----------------------------- MODULE MCAnalysis -----------------------------
(***************************************************************************)
(* Analysis for TLC: five regions, one of them an island, two routes and *)
(* two Nazgul.  The cheapest way from shire to mordor has most paths.      *)
(***************************************************************************)
EXTENDS Analysis, TLC

CONSTANTS shire, bree, moria, mordor, island, east, south, down, direct, up,
          short, long, khamul, witchKing

MCPathConfig ==
  (east :> [from |-> shire, to |-> bree, cost |-> 1]) @@
  (south :> [from |-> bree, to |-> moria, cost |-> 1]) @@
  (down :> [from |-> moria, to |-> mordor, cost |-> 1]) @@
  (direct :> [from |-> shire, to |-> mordor, cost |-> 4]) @@
  (up :> [from |-> moria, to |-> shire, cost |-> 3])

MCRoutePaths ==
  (short :> <<direct>>) @@ (long :> <<east, south, down>>)

Quiet ==
  [threat |-> [r \in Region |-> 0], status |-> [p \in Path |-> "OPEN"],
   surveillance |-> [p \in Path |-> 0], at |-> (khamul :> mordor) @@ (witchKing :> Nowhere)]

Watched ==
  [Quiet EXCEPT !.threat[mordor] = 2, !.status[direct] = "BLOCKED", !.status[up] = "THREATENED",
                !.surveillance[south] = 1, !.at = (khamul :> island) @@ (witchKing :> moria)]

MCMaxRequests == [routes |-> 2, intercept |-> 1]

MCWorlds == {Quiet, Watched}
=============================================================================
