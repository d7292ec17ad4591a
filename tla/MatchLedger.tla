---------------------------- MODULE MatchLedger ----------------------------
(***************************************************************************)
(* What the Versus score promises its players, with no flag word, scene or *)
(* latch: a match is open or decided; deciding it gives one point to one   *)
(* side, or none when it was drawn; a decided match gives nothing more     *)
(* until another one is open; the table is cleared as a whole.             *)
(***************************************************************************)
EXTENDS Naturals

CONSTANT Limit           \* the largest value a counter holds

VARIABLES table, match

Player == {0, 1}
Point(n) == IF n < Limit THEN n + 1 ELSE n

Init == table = [p \in Player |-> 0] /\ match = "open"

\* A match is decided for one side.
DecideFor(p) == /\ match = "open"
                /\ match' = "decided"
                /\ table' = [table EXCEPT ![p] = Point(@)]

\* A match is decided, and nobody scores.
DecideDrawn == /\ match = "open"
               /\ match' = "decided"
               /\ UNCHANGED table

\* The next match begins.
Reopen == /\ match = "decided"
          /\ match' = "open"
          /\ UNCHANGED table

\* Both counters are zeroed, whatever match is on then.
Clear == /\ table' = [p \in Player |-> 0]
         /\ match' \in {"open", "decided"}

Next == (\E p \in Player : DecideFor(p)) \/ DecideDrawn \/ Reopen \/ Clear

Spec == Init /\ [][Next]_<<table, match>>

=============================================================================
