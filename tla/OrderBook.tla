----------------------------- MODULE OrderBook -----------------------------
(***************************************************************************)
(* What a player may rely on, whatever happens to the orders on their way, *)
(* as long as the game is calm, that is, as long as the leader acts on all *)
(* that was published before: turns are played one after the other, a turn *)
(* executes at most one order of each unit, and an order is executed in    *)
(* the turn it names or, when it came in while that turn was being played, *)
(* in the next.                                                            *)
(***************************************************************************)
EXTENDS Integers, Sequences, SequencesExt

VARIABLES
  book,  \* the orders executed in this game, in order
  turn,  \* the turn that accepts orders
  calm   \* has the leader always acted on all that was published before?

Distinct(s) == \A j, k \in DOMAIN s : s[j].unit = s[k].unit => j = k

Init == book = <<>> /\ turn = 1 /\ calm = TRUE

\* Play the current turn.
Play ==
  /\ turn' = turn + 1
  /\ IsPrefix(book, book')
  /\ LET played == SubSeq(book', Len(book) + 1, Len(book')) IN
       /\ Distinct(played)
       /\ \A k \in DOMAIN played :
            played[k].at = turn /\ played[k].turn \in {turn - 1, turn}

NewGame == book' = <<>> /\ turn' = 1

\* A crash forgets the turn that was being played, never a finished one.
Next == calm' => calm /\ (Play \/ NewGame \/ UNCHANGED <<book, turn>>)

Spec == Init /\ [][Next]_<<book, turn, calm>>
=============================================================================
