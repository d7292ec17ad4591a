---------------------------- MODULE VersusMatch ----------------------------
(***************************************************************************)
(* The game and its cumulative score together: the host calls              *)
(* simulation_tick() (player_nameplates.cpp) once at the end of every      *)
(* simulated frame, so each frame of GuestMatch is followed by StepScore   *)
(* on the scene, mode and flags that frame leaves in guest memory.         *)
(*                                                                         *)
(* `awarded' counts the points the game's own routine func_80109864 gave   *)
(* each side since the score was last cleared; that routine runs many      *)
(* frames after the result the score reads, and stops at 999.  `voided' is *)
(* set while the flags hold a result that reset_score() has written off.   *)
(***************************************************************************)
EXTENDS GuestMatch

CONSTANT NativeMax       \* 999 in func_80109864

ASSUME NativeAssumption == NativeMax \in Nat \ {0} /\ NativeMax <= MaxWins

VARIABLES score,         \* the provider's VersusScoreState
          awarded,       \* history: native points since the last clearing
          voided         \* history: the result in the flags is written off

vars == <<scene, mode, stage, rw, flags, cursor, score, awarded, voided>>

VInit == Init /\ score = ResetScore(FALSE) /\ awarded = NoWins
         /\ voided = FALSE

\* simulation_tick().
Tick == /\ score' = StepScore(score, scene', mode', flags')
        /\ voided' = (voided /\ flags'.result)

\* A frame that clears the score, by step()'s first statement.
Cleared == OutsideVersus(scene', mode')

\* The increment of func_80109864: nothing at 999 and above.
NativePoint(n) == IF n < NativeMax THEN n + 1 ELSE n
Award(a, sides) == [s \in Side |-> IF s \in sides THEN NativePoint(a[s])
                                                  ELSE a[s]]

\* One frame of the game in which func_80109864 runs, and any other frame.
ConsumerFrame == /\ VerdictConsumer \/ PoseConsumer
                 /\ awarded' = Award(awarded, IF voided THEN {} ELSE Awarded)
                 /\ Tick

MatchFrame == /\ \/ MatchInit \/ RoundInit \/ Intro \/ EndFight \/ ToPose
                 \/ NextRound \/ WinnerScreen \/ OpenPrompt
              /\ UNCHANGED awarded
              /\ Tick

OtherFrame == /\ OutsideMatch \/ Prompted \/ Wait
              /\ awarded' = IF Cleared THEN NoWins ELSE awarded
              /\ Tick

\* A new run of the program: guest memory as after power-on, begin_session().
NewRun == /\ scene' = CharSelect /\ mode' = 0 /\ stage' = "title"
          /\ rw' = NoWins /\ flags' = NoFlags /\ cursor' = 0
          /\ score' = ResetScore(FALSE)
          /\ awarded' = NoWins
          /\ voided' = FALSE

\* reset_score(), which the driver calls between two frames when the peers
\* disconnect: the score is zeroed and a result already in the flags consumed.
ClearScore == /\ score' = ResetScore(flags.result)
              /\ awarded' = NoWins
              /\ voided' = flags.result
              /\ UNCHANGED guestVars

VNext == ConsumerFrame \/ MatchFrame \/ OtherFrame \/ NewRun \/ ClearScore

VSpec == VInit /\ [][VNext]_vars

\* Every handler of a running match counts a timer down each frame (intro,
\* fight clock, messages, poses): it cannot stay in one stage for ever.
VFairSpec == VSpec /\ WF_vars(ConsumerFrame \/ MatchFrame)

-----------------------------------------------------------------------------
(***************************************************************************)
(* Properties.                                                             *)
(***************************************************************************)

VTypeOK == /\ TypeOK
           /\ score \in Score
           /\ awarded \in [Side -> 0 .. NativeMax]
           /\ voided \in BOOLEAN /\ (voided => flags.result)

\* The latch is closed exactly while the guest's result flag is up, on every
\* path of the game, including those that keep a result while they leave the
\* match scene: closed too long it would lose the next match, opened too early
\* it would count the same one again (VersusScoreState::step and ::reset).
LatchMirrorsResult == score.latched = flags.result

\* The point of a result the native routine has not reached yet.
Pending(s) == IF /\ stage \in Judging /\ ~voided
                 /\ flags.result /\ ~flags.draw /\ flags.winner = s
              THEN 1 ELSE 0

Least(a, b) == IF a < b THEN a ELSE b

\* Both scores tell the same story although they are kept by different code at
\* different moments: up to the native limit, each side's counter is what the
\* game's own routine awarded since the last clearing, plus the one result it
\* has still to consume (VersusScoreState::step against func_80109864), results
\* that reset_score() wrote off in the meantime excepted.  The frame after a
\* soft reset is left out: the score keeps a point there that the game will
\* never award, until the title clears it.
ScoreAgreesWithGame ==
    stage # "leave" =>
        \A s \in Side : Least(score.wins[s], NativeMax)
                            = Least(awarded[s] + Pending(s), NativeMax)

\* A counter moves only on the frame that ends a fight and leaves the match
\* decided, by one, for the side that has just reached its rounds; otherwise
\* the whole score is cleared.
PointOnlyForWonMatch ==
    [][ \/ score'.wins = score.wins
        \/ score'.wins = NoWins
        \/ \E s \in Side :
              /\ score'.wins = [score.wins EXCEPT ![s] = @ + 1]
              /\ stage = "fight" /\ stage' = "verdict"
              /\ ~flags.result /\ rw[s] <= RoundsToWin /\ rw'[s] = rw[s] + 1
              /\ rw'[s] >= RoundsToWin /\ rw'[s] > rw'[Other(s)] ]_vars

\* Rematches, character changes and everything else that stays in Versus keep
\* the score: only the mode menu, another mode, a disconnection or a new run
\* lose it (VERSUS_SCORE.md, "Preserva revanche e troca de personagens").
ScoreSurvivesVersus ==
    [][ (\E s \in Side : score'.wins[s] < score.wins[s])
        => \/ scene' = ModeSelect \/ mode' # Versus
           \/ stage' = "title" \/ ClearScore ]_vars

-----------------------------------------------------------------------------
\* The score implements the ledger: a match is decided while the guest's
\* result flag is up.
Ledger == INSTANCE MatchLedger
              WITH Limit <- MaxWins,
                   table <- score.wins,
                   match <- IF flags.result THEN "decided" ELSE "open"

\* Every frame of the game is one step of the ledger, or none
\* (VERSUS_SCORE.md: each result is consumed once, a draw does not add).
ImplementsLedger == Ledger!Spec

=============================================================================
