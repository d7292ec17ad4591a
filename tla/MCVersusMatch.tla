--------------------------- MODULE MCVersusMatch ---------------------------
(***************************************************************************)
(* Instances of VersusMatch for TLC: two rounds to win so that a match can *)
(* be drawn at match point for one side and for both; counters that        *)
(* saturate after three wins, and native points that stop one earlier.     *)
(***************************************************************************)
EXTENDS VersusMatch

MCModes == {0, Versus}
MCOtherScenes == {CharSelect, MatchScene, 2}

=============================================================================
