---------------------------- MODULE MCNameplates ----------------------------
(***************************************************************************)
(* Instances of Nameplates for TLC: the mode menu, the character select,   *)
(* a Versus match with and without a result, and a match of another mode.  *)
(***************************************************************************)
EXTENDS Nameplates

Memory(sc, md, res) ==
    [scene |-> sc, mode |-> md,
     flags |-> [result |-> res, draw |-> FALSE, winner |-> 1]]

MCEnv == { Memory(ModeSelect, Versus, FALSE), Memory(CharSelect, Versus, FALSE),
           Memory(MatchScene, Versus, FALSE), Memory(MatchScene, Versus, TRUE),
           Memory(MatchScene, 5, FALSE) }

=============================================================================
