---------------------------- MODULE VersusScore ----------------------------
(***************************************************************************)
(* The cumulative Versus score, VersusScoreState of versus_score_state.h:  *)
(* two win counters and the latch that consumes each match result once.    *)
(* The module has no behaviour of its own.  The host calls these operators *)
(* from the guest's frame loop (VersusMatch), from the nameplate provider  *)
(* (Nameplates) and from the rollback driver (RollbackScore).              *)
(***************************************************************************)
EXTENDS Naturals

CONSTANT MaxWins         \* std::numeric_limits<uint32_t>::max() in the code

ASSUME MaxWinsAssumption == MaxWins \in Nat \ {0}

Side == {0, 1}           \* 0 = P1, 1 = P2: the value of flag bit 4
Other(s) == 1 - s

\* Scene bytes (0x801D39B8) and mode bytes (0x801DC9D0) the code tells apart.
CharSelect == 0
MatchScene == 1
ModeSelect == 7
Versus     == 1

Wins  == [Side -> 0 .. MaxWins]
Score == [wins : Wins, latched : BOOLEAN]

NoWins == [s \in Side |-> 0]

\* Bug: the counter is not compared with its limit.
WrapAround(n) == n + 1

\* ++value unless it is already the largest uint32_t.
Saturate(n) == IF n < MaxWins THEN n + 1 ELSE n

\* Bug: a result that is still in the flags stays unconsumed.
ResetIgnoresFlags(result) == [wins |-> NoWins, latched |-> FALSE]

\* reset(flags): both counters to zero; a result that is already in the flags
\* counts as consumed.  The default argument of the code is flags = 0.
ResetScore(result) == [wins |-> NoWins, latched |-> result]

\* Bug: leaving the match scene clears the score.
OutsideMatchScene(scene, mode) == scene # MatchScene \/ mode # Versus

\* The frames on which step() resets instead of counting.
OutsideVersus(scene, mode) == scene = ModeSelect \/ mode # Versus

\* The latch after its re-arming statement: a cleared 0x400 opens it.
Rearmed(st, flags) == st.latched /\ flags.result

\* Bug: the latch is not consulted.
ConsumesAgain(st, scene, flags) == scene = MatchScene /\ flags.result

\* A result is consumed on the first match frame that shows it.
ConsumesResult(st, scene, flags) ==
    scene = MatchScene /\ flags.result /\ ~Rearmed(st, flags)

\* Bug: the non-scoring bit 0x40 is not looked at.
StepScoresDraws(st, scene, mode, flags) ==
    IF OutsideVersus(scene, mode)
    THEN ResetScore(flags.result)
    ELSE [ wins    |-> IF ConsumesResult(st, scene, flags)
                       THEN [st.wins EXCEPT ![flags.winner] = Saturate(@)]
                       ELSE st.wins,
           latched |-> Rearmed(st, flags) \/ ConsumesResult(st, scene, flags) ]

\* step(scene, mode, flags): called once per simulated frame.
StepScore(st, scene, mode, flags) ==
    IF OutsideVersus(scene, mode)
    THEN ResetScore(flags.result)
    ELSE [ wins    |-> IF ConsumesResult(st, scene, flags) /\ ~flags.draw
                       THEN [st.wins EXCEPT ![flags.winner] = Saturate(@)]
                       ELSE st.wins,
           latched |-> Rearmed(st, flags) \/ ConsumesResult(st, scene, flags) ]

=============================================================================
