-------------------------- MODULE MCRollbackScore --------------------------
(***************************************************************************)
(* RollbackScore for TLC with a game that has what matters to the score:   *)
(* won and drawn results that are held, also through the character select  *)
(* and the mode menu, and cleared when the next match starts.              *)
(***************************************************************************)
EXTENDS RollbackScore

NoResult == [result |-> FALSE, draw |-> FALSE, winner |-> 0]
Won(s)   == [result |-> TRUE, draw |-> FALSE, winner |-> s]
Drawn    == [result |-> TRUE, draw |-> TRUE, winner |-> 0]

Mem(sc, f) == [scene |-> sc, mode |-> Versus, flags |-> f]

MCBoot   == Mem(MatchScene, NoResult)
MCMemory == {MCBoot} \cup { Mem(sc, f) : sc \in {CharSelect, MatchScene, ModeSelect},
                                         f \in {Won(0), Won(1), Drawn} }
MCInput == {"idle", "hit"}
MCIdle  == "idle"

\* A hit in a match decides it; after it one pad goes to the character select,
\* the other to the next match, both to the menu; a hit there leads back to
\* the match scene with the old result still up.
MCRun == [x \in MCMemory \X MCInput \X MCInput |->
    LET m == x[1]
        left == x[2] = "hit"
        right == x[3] = "hit"
    IN IF ~left /\ ~right THEN m
       ELSE IF m.scene # MatchScene
            THEN [m EXCEPT !.scene = IF m.scene = ModeSelect THEN CharSelect
                                                             ELSE MatchScene]
       ELSE IF ~m.flags.result
            THEN [m EXCEPT !.flags = IF left /\ right THEN Drawn
                                     ELSE IF left THEN Won(0) ELSE Won(1)]
       ELSE IF left /\ right THEN [m EXCEPT !.scene = ModeSelect]
       ELSE IF left THEN [m EXCEPT !.scene = CharSelect]
       ELSE MCBoot]

=============================================================================
