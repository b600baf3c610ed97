---------------------------- MODULE MCOrderFlow ----------------------------
(***************************************************************************)
(* OrderFlow for TLC: two instances and one unit, whose orders meet each   *)
(* other and their own copies.  All that is kept of an order on its way is *)
(* kept by unit (seenByTurn, seen-orders-store, the buffer's duplicate     *)
(* check), and the theorems of OrderFlowProofs are about any set of units. *)
(***************************************************************************)
EXTENDS OrderFlow, TLC

CONSTANTS go1, go2, u1
=============================================================================
