------------------------- MODULE VersusMatchProofs -------------------------
(***************************************************************************)
(* The game's scene machine and the cumulative score against it, for every *)
(* number of rounds to win, every set of modes, every counter width and    *)
(* every native limit.                                                     *)
(***************************************************************************)
EXTENDS VersusMatch, TLAPS

-----------------------------------------------------------------------------
(***************************************************************************)
(* The scene machine (GuestMatch).  The conjunction GuestInv of its        *)
(* invariants is inductive as it stands: the rounds of a fight are bounded *)
(* because the match is at most at match point (FightIsOpen), which a      *)
(* judged round keeps because it either commits a result or is             *)
(* UndecidedGoesOn.                                                        *)
(***************************************************************************)
GuestInv == TypeOK /\ FightIsOpen /\ ScoringResultHasWinner /\ UndecidedGoesOn

\* Power-on satisfies the invariant (the guest's memory before func_8018C880).
LEMMA GuestInit == Init => GuestInv
BY RoundsAssumption, ModesAssumption, ScenesAssumption
   DEF Init, GuestInv, TypeOK, FightIsOpen, ScoringResultHasWinner,
       UndecidedGoesOn, Flags, NoFlags, NoWins, Side, Stages, MatchStages,
       GoesOn, Judging, Decided, CharSelect, MatchScene, ModeSelect, Versus,
       ToSelect, Rematch, ToMenu

\* What a drawn round may leave: with neither side past match point, either no
\* result, and then the extra round only as a draw, or a result that does not
\* score (func_80108E58, equal health).
LEMMA DrawnRoundOutcome ==
    ASSUME NEW r \in [Side -> 0 .. RoundsToWin], NEW f \in Flags,
           ~f.result,
           IF f.final THEN \A s \in Side : r[s] = RoundsToWin
                      ELSE Reached(r) = {}
    PROVE  /\ DrawnRound(r, f).rw \in [Side -> 0 .. RoundsToWin + 1]
           /\ DrawnRound(r, f).flags \in Flags
           /\ DrawnRound(r, f).flags.draw
           /\ ~DrawnRound(r, f).flags.result =>
                 IF DrawnRound(r, f).flags.final
                 THEN \A s \in Side : DrawnRound(r, f).rw[s] = RoundsToWin
                 ELSE Reached(DrawnRound(r, f).rw) = {}
<1> DEFINE both == [s \in Side |-> r[s] + 1]
           drawn == [f EXCEPT !.draw = TRUE]
           w == IF f.champ \in Reached(both) THEN f.champ ELSE Other(f.champ)
<1>1. /\ both \in [Side -> 0 .. RoundsToWin + 1]
      /\ \A s \in Side : both[s] = r[s] + 1
  BY RoundsAssumption DEF Side
<1>2. drawn \in Flags /\ drawn.draw /\ ~drawn.result /\ drawn.final = f.final
  BY DEF Flags
<1>3. w \in Side
  BY DEF Flags, Side, Other
<1>4. CASE Reached(both) = {}
  <2>1. DrawnRound(r, f).rw = both /\ DrawnRound(r, f).flags = drawn
    BY <1>4 DEF DrawnRound
  <2>2. ~f.final
    <3>1. 0 \in Side /\ both[0] = r[0] + 1 /\ r[0] \in 0 .. RoundsToWin
      BY <1>1 DEF Side
    <3>2. ~(both[0] >= RoundsToWin)
      BY <3>1, <1>4 DEF Reached
    <3> QED BY <3>1, <3>2, RoundsAssumption
  <2> QED BY <1>1, <1>2, <1>4, <2>1, <2>2
<1>5. CASE Reached(both) = Side /\ ~f.final
  <2>1. /\ DrawnRound(r, f).rw = both
        /\ DrawnRound(r, f).flags = [drawn EXCEPT !.final = TRUE]
    BY <1>5 DEF DrawnRound, Side
  <2>2. \A s \in Side : both[s] = RoundsToWin
    <3> SUFFICES ASSUME NEW s \in Side PROVE both[s] = RoundsToWin
      OBVIOUS
    <3>1. both[s] = r[s] + 1 /\ r[s] \in 0 .. RoundsToWin
      BY <1>1
    <3>2. both[s] >= RoundsToWin
      BY <1>5 DEF Reached
    <3>3. ~(r[s] >= RoundsToWin)
      BY <1>5 DEF Reached
    <3> QED BY <3>1, <3>2, <3>3, RoundsAssumption
  <2> QED BY <1>1, <1>2, <2>1, <2>2 DEF Flags
<1>6. CASE Reached(both) # {} /\ ~(Reached(both) = Side /\ ~f.final)
  <2>1. /\ DrawnRound(r, f).rw = both
        /\ DrawnRound(r, f).flags = Commit(drawn, w)
    BY <1>6 DEF DrawnRound
  <2>2. /\ Commit(drawn, w) \in Flags
        /\ Commit(drawn, w).draw /\ Commit(drawn, w).result
    BY <1>2, <1>3 DEF Commit, Flags
  <2> QED BY <1>1, <2>1, <2>2
<1> QED BY <1>4, <1>5, <1>6

\* What a won round leaves: a result only for the side that won it, which then
\* has its rounds and more of them than the other (func_80108E58, unequal).
LEMMA WonRoundOutcome ==
    ASSUME NEW r \in [Side -> 0 .. RoundsToWin], NEW f \in Flags,
           NEW w \in Side, ~f.result,
           IF f.final THEN \A s \in Side : r[s] = RoundsToWin
                      ELSE Reached(r) = {}
    PROVE  /\ WonRound(r, f, w).rw[w] = r[w] + 1
           /\ WonRound(r, f, w).rw \in [Side -> 0 .. RoundsToWin + 1]
           /\ WonRound(r, f, w).flags \in Flags
           /\ WonRound(r, f, w).flags.draw = f.draw
           /\ WonRound(r, f, w).flags.result =>
                 /\ WonRound(r, f, w).flags.winner = w
                 /\ WonRound(r, f, w).rw[w] >= RoundsToWin
                 /\ WonRound(r, f, w).rw[w] > WonRound(r, f, w).rw[Other(w)]
           /\ ~WonRound(r, f, w).flags.result =>
                 /\ ~WonRound(r, f, w).flags.final
                 /\ Reached(WonRound(r, f, w).rw) = {}
<1> DEFINE won == [r EXCEPT ![w] = @ + 1]
<1>1. /\ won \in [Side -> 0 .. RoundsToWin + 1]
      /\ won[w] = r[w] + 1
      /\ Other(w) \in Side /\ Other(w) # w /\ won[Other(w)] = r[Other(w)]
      /\ \A s \in Side : s = w \/ s = Other(w)
  BY RoundsAssumption DEF Side, Other
<1>2. CASE w \in Reached(won)
  <2>1. WonRound(r, f, w).rw = won /\ WonRound(r, f, w).flags = Commit(f, w)
    BY <1>2 DEF WonRound
  <2>2. /\ Commit(f, w) \in Flags
        /\ Commit(f, w).draw = f.draw
        /\ Commit(f, w).result /\ Commit(f, w).winner = w
    BY DEF Commit, Flags
  <2>3. won[w] >= RoundsToWin /\ r[Other(w)] <= r[w]
    BY <1>1, <1>2, RoundsAssumption DEF Reached
  <2> QED BY <1>1, <2>1, <2>2, <2>3, RoundsAssumption
<1>3. CASE w \notin Reached(won)
  <2>1. WonRound(r, f, w).rw = won /\ WonRound(r, f, w).flags = f
    BY <1>3 DEF WonRound
  <2>2. ~f.final
    BY <1>1, <1>3, RoundsAssumption DEF Reached
  <2>3. Reached(won) = {}
    BY <1>1, <1>3, <2>2, RoundsAssumption DEF Reached
  <2> QED BY <1>1, <2>1, <2>2, <2>3
<1> QED BY <1>2, <1>3

\* The end of a fight keeps the invariant, by the two lemmas above.
LEMMA EndFightStep == GuestInv /\ EndFight => GuestInv'
<1> SUFFICES ASSUME GuestInv, EndFight PROVE GuestInv'
  OBVIOUS
<1> USE DEF GuestInv
<1>1. /\ stage = "fight" /\ stage' = "verdict"
      /\ UNCHANGED <<scene, mode, cursor>>
  BY DEF EndFight, FightWon, FightDrawn, RoundEnds
<1>2. ~flags.result /\ AtMostMatchPoint
  BY <1>1 DEF FightIsOpen, GoesOn
<1>3. rw \in [Side -> 0 .. RoundsToWin]
  <2>1. \A s \in Side : rw[s] \in 0 .. RoundsToWin
    BY <1>2, RoundsAssumption DEF AtMostMatchPoint, Reached, TypeOK
  <2> QED BY <2>1 DEF TypeOK
<1>4. PICK timeUp \in BOOLEAN :
          FightDrawn(timeUp) \/ \E w \in Side : FightWon(w, timeUp)
  BY DEF EndFight
<1> DEFINE f == ClockFlags(timeUp)
<1>5. /\ f \in Flags /\ ~f.result
      /\ f.final = flags.final
      /\ IF f.final THEN \A s \in Side : rw[s] = RoundsToWin
                    ELSE Reached(rw) = {}
  BY <1>2 DEF TypeOK, Flags, ClockFlags, AtMostMatchPoint
<1>6. CASE FightDrawn(timeUp)
  <2>1. rw' = DrawnRound(rw, f).rw /\ flags' = DrawnRound(rw, f).flags
    BY <1>6 DEF FightDrawn, RoundEnds
  <2>2. /\ rw' \in [Side -> 0 .. RoundsToWin + 1]
        /\ flags' \in Flags /\ flags'.draw
        /\ ~flags'.result =>
              IF flags'.final THEN \A s \in Side : rw'[s] = RoundsToWin
                              ELSE Reached(rw') = {}
    BY <1>3, <1>5, <2>1, DrawnRoundOutcome
  <2> HIDE DEF f
  <2>3. TypeOK'
    BY <1>1, <2>2 DEF TypeOK, Stages, MatchStages
  <2>4. FightIsOpen' /\ ScoringResultHasWinner' /\ UndecidedGoesOn'
    BY <1>1, <2>2 DEF FightIsOpen, ScoringResultHasWinner, UndecidedGoesOn,
                      AtMostMatchPoint, Reached, GoesOn
  <2> QED BY <2>3, <2>4
<1>7. ASSUME NEW w \in Side, FightWon(w, timeUp) PROVE GuestInv'
  <2>1. rw' = WonRound(rw, f, w).rw /\ flags' = WonRound(rw, f, w).flags
    BY <1>7 DEF FightWon, RoundEnds
  <2> HIDE DEF f
  <2> DEFINE over == WonRound(rw, f, w)
  <2>2. /\ over.rw \in [Side -> 0 .. RoundsToWin + 1]
        /\ over.flags \in Flags
        /\ over.flags.result => /\ over.flags.winner = w
                                /\ over.rw[w] >= RoundsToWin
                                /\ over.rw[w] > over.rw[Other(w)]
        /\ ~over.flags.result => ~over.flags.final /\ Reached(over.rw) = {}
    BY <1>3, <1>5, WonRoundOutcome
  <2>3. /\ rw' \in [Side -> 0 .. RoundsToWin + 1]
        /\ flags' \in Flags
        /\ flags'.result => /\ flags'.winner = w
                            /\ rw'[w] >= RoundsToWin
                            /\ rw'[w] > rw'[Other(w)]
        /\ ~flags'.result => ~flags'.final /\ Reached(rw') = {}
    BY <2>1, <2>2
  <2>4. TypeOK'
    BY <1>1, <2>3 DEF TypeOK, Stages, MatchStages
  <2>5. FightIsOpen' /\ ScoringResultHasWinner' /\ UndecidedGoesOn'
    BY <1>1, <2>3 DEF FightIsOpen, ScoringResultHasWinner, UndecidedGoesOn,
                      AtMostMatchPoint, Reached, GoesOn
  <2> QED BY <2>4, <2>5
<1> QED BY <1>4, <1>6, <1>7

\* Every handler keeps the invariant.
LEMMA GuestStep == GuestInv /\ [Next]_guestVars => GuestInv'
<1> SUFFICES ASSUME GuestInv, [Next]_guestVars PROVE GuestInv'
  OBVIOUS
<1> USE RoundsAssumption, ModesAssumption, ScenesAssumption
    DEF GuestInv, TypeOK, FightIsOpen, ScoringResultHasWinner,
        UndecidedGoesOn, AtMostMatchPoint, Reached, Stages, MatchStages,
        GoesOn, Judging, Decided, CharSelect, MatchScene, ModeSelect, Versus,
        ToSelect, Rematch, ToMenu
<1>1. CASE OutsideMatch
  <2>1. CASE GameInit
    BY <2>1 DEF GameInit
  <2>2. ASSUME NEW m \in Modes, MenuConfirm(m) PROVE GuestInv'
    BY <2>2 DEF MenuConfirm
  <2>3. CASE SelectBack
    BY <2>3 DEF SelectBack
  <2>4. CASE SelectStart
    BY <2>4 DEF SelectStart
  <2>5. CASE OtherModeFrame
    BY <2>5 DEF OtherModeFrame
  <2>6. CASE OtherModeEnd
    BY <2>6 DEF OtherModeEnd
  <2>7. CASE SoftReset
    BY <2>7 DEF SoftReset, NoFlags, Flags, Side
  <2>8. CASE TitleInit
    BY <2>8 DEF TitleInit, NoFlags, Flags, Side
  <2> QED BY <1>1, <2>1, <2>2, <2>3, <2>4, <2>5, <2>6, <2>7, <2>8
          DEF OutsideMatch
<1>2. CASE MatchRuns
  <2>1. CASE MatchInit
    <3>1. /\ flags' \in Flags /\ ~flags'.result /\ ~flags'.final
          /\ \A s \in Side : rw'[s] = 0
      BY <2>1 DEF MatchInit, RoundFlags, Flags, NoWins
    <3> QED BY <2>1, <3>1 DEF MatchInit, NoWins
  <2>2. CASE RoundInit
    <3>1. /\ flags' \in Flags /\ flags'.result = flags.result
          /\ flags'.final = flags.final
      BY <2>2 DEF RoundInit, RoundFlags, Flags
    <3> QED BY <2>2, <3>1 DEF RoundInit
  <2>3. CASE Intro
    BY <2>3 DEF Intro
  <2>4. CASE EndFight
    BY <2>4, EndFightStep
  <2>5. CASE ToPose
    BY <2>5 DEF ToPose
  <2>6. ASSUME stage \in Judging, Consumer PROVE GuestInv'
    <3>1. CASE flags.result
      <4>1. /\ flags' \in Flags
            /\ flags'.result /\ flags'.draw = flags.draw
            /\ flags'.winner = flags.winner
        BY <2>6, <3>1 DEF Consumer, Flags
      <4> QED BY <2>6, <3>1, <4>1 DEF Consumer, Other
    <3>2. CASE ~flags.result
      BY <2>6, <3>2 DEF Consumer
    <3> QED BY <3>1, <3>2
  <2>7. CASE VerdictConsumer
    BY <2>6, <2>7 DEF VerdictConsumer
  <2>8. CASE PoseConsumer
    BY <2>6, <2>8 DEF PoseConsumer
  <2>9. CASE NextRound
    BY <2>9 DEF NextRound
  <2>10. CASE WinnerScreen
    BY <2>10 DEF WinnerScreen
  <2>11. CASE OpenPrompt
    BY <2>11 DEF OpenPrompt
  <2> QED BY <1>2, <2>1, <2>2, <2>3, <2>4, <2>5, <2>7, <2>8, <2>9, <2>10,
             <2>11 DEF MatchRuns
<1>3. CASE Prompted
  <2>1. ASSUME NEW line \in {ToSelect, Rematch, ToMenu}, stage = "prompt",
               GoTo(line)
        PROVE  GuestInv'
    BY <2>1 DEF GoTo
  <2>2. ASSUME NEW c \in {ToSelect, Rematch, ToMenu}, PromptMove(c)
        PROVE  GuestInv'
    BY <2>2 DEF PromptMove
  <2>3. CASE PromptConfirm
    BY <2>1, <2>3 DEF PromptConfirm
  <2>4. CASE PromptExpire
    BY <2>1, <2>4 DEF PromptExpire
  <2> QED BY <1>3, <2>2, <2>3, <2>4 DEF Prompted
<1>4. CASE UNCHANGED guestVars
  BY <1>4 DEF guestVars
<1> QED BY <1>1, <1>2, <1>3, <1>4 DEF Next, Wait

\* The game never leaves the invariant, whatever the number of rounds to win.
THEOREM GuestInvariant == Spec => []GuestInv
BY GuestInit, GuestStep, PTL DEF Spec

\* The types of the game's variables, the round counters' bound included.
THEOREM GuestTyped == Spec => []TypeOK
BY GuestInvariant, PTL DEF GuestInv

\* No round is fought with a result set, nor after somebody has won the match
\* (func_801043B8, func_80108E58, func_80109864).
THEOREM FightsAreOpen == Spec => []FightIsOpen
BY GuestInvariant, PTL DEF GuestInv

\* The winner a scoring result names has won the match (func_80109400).
THEOREM ScoringResultsHaveWinners == Spec => []ScoringResultHasWinner
BY GuestInvariant, PTL DEF GuestInv

\* A match is left open only while nobody has won it (func_80108E58).
THEOREM UndecidedMatchesGoOn == Spec => []UndecidedGoesOn
BY GuestInvariant, PTL DEF GuestInv

\* The bits the score and the native routine both read do not change between
\* their two readings (func_80109400 is the only writer while a result is up).
THEOREM HeldResultsAreStable == Spec => HeldResultIsStable
<1> DEFINE Held == (mode = Versus /\ stage \in MatchStages \cup {"select"}
                      /\ flags.result /\ flags'.result)
                   => flags'.winner = flags.winner /\ flags'.draw = flags.draw
<1>1. ASSUME GuestInv, [Next]_guestVars PROVE Held
  <2> SUFFICES ASSUME stage \in MatchStages \cup {"select"},
                      flags.result, flags'.result, flags' # flags
               PROVE  /\ flags'.winner = flags.winner
                      /\ flags'.draw = flags.draw
    OBVIOUS
  <2>1. stage \notin GoesOn /\ flags \in Flags
    BY <1>1 DEF GuestInv, TypeOK, FightIsOpen
  <2>2. CASE MatchRuns
    <3>1. ~MatchInit
      <4>1. MatchInit => ~flags'.result
        BY <2>1 DEF MatchInit, RoundFlags, Flags
      <4> QED BY <4>1
    <3>2. CASE Consumer
      BY <2>1, <3>2 DEF Consumer, Flags
    <3>3. CASE ToPose \/ WinnerScreen \/ OpenPrompt
      BY <3>3 DEF ToPose, WinnerScreen, OpenPrompt
    <3>4. stage # "round" /\ stage # "fight" /\ stage # "intro"
            /\ stage # "next"
      BY <2>1 DEF GoesOn
    <3>5. ~RoundInit /\ ~Intro /\ ~EndFight /\ ~NextRound
      BY <3>4 DEF RoundInit, Intro, EndFight, FightWon, FightDrawn,
                  RoundEnds, NextRound
    <3> QED BY <2>2, <3>1, <3>2, <3>3, <3>5
            DEF MatchRuns, VerdictConsumer, PoseConsumer
  <2>3. CASE OutsideMatch
    BY <2>3 DEF OutsideMatch, GameInit, MenuConfirm, SelectBack, SelectStart,
                OtherModeFrame, OtherModeEnd, SoftReset, TitleInit, NoFlags,
                MatchStages
  <2>4. CASE Prompted
    BY <2>4 DEF Prompted, PromptMove, PromptConfirm, PromptExpire, GoTo
  <2> QED BY <1>1, <2>2, <2>3, <2>4 DEF Next, Wait, guestVars
<1>2. GuestInv /\ [Next]_guestVars => [Held]_guestVars
  BY <1>1
<1> QED BY <1>2, GuestInvariant, PTL DEF Spec, HeldResultIsStable

-----------------------------------------------------------------------------
(***************************************************************************)
(* The score: the latch mirrors the result flag, the counters agree with   *)
(* the game's own, points are given for won matches only, and the whole    *)
(* implements MatchLedger.                                                 *)
(***************************************************************************)
VInv == GuestInv /\ VTypeOK /\ LatchMirrorsResult /\ ScoreAgreesWithGame

\* A result appears, on a frame that does not clear the score, only when a
\* fight ends in the match scene.
LEMMA ResultRises ==
    ASSUME GuestInv, Next, ~flags.result, flags'.result, ~Cleared
    PROVE  EndFight /\ scene' = MatchScene
<1>1. ~OutsideMatch
  BY DEF OutsideMatch, GameInit, MenuConfirm, SelectBack, SelectStart,
         OtherModeFrame, OtherModeEnd, SoftReset, TitleInit, NoFlags,
         Cleared, OutsideVersus, GuestInv, TypeOK
<1>2. ~Prompted /\ ~Wait
  BY DEF Prompted, PromptMove, PromptConfirm, PromptExpire, GoTo, Wait,
         guestVars
<1>3. MatchRuns
  BY <1>1, <1>2 DEF Next
<1>4. flags \in Flags
  BY DEF GuestInv, TypeOK
<1>5. MatchInit => ~flags'.result
  BY <1>4 DEF MatchInit, RoundFlags, Flags
<1>6. RoundInit => flags'.result = flags.result
  BY <1>4 DEF RoundInit, RoundFlags, Flags
<1>7. EndFight
  BY <1>3, <1>5, <1>6 DEF MatchRuns, Intro, ToPose, VerdictConsumer,
     PoseConsumer, Consumer, NextRound, WinnerScreen, OpenPrompt
<1>8. scene' = scene /\ stage = "fight"
  BY <1>7 DEF EndFight, FightWon, FightDrawn, RoundEnds
<1> QED BY <1>7, <1>8 DEF GuestInv, TypeOK, MatchStages

\* What one call of step() does to a score whose latch mirrors the result.
LEMMA TickOutcome ==
    ASSUME GuestInv, VTypeOK, LatchMirrorsResult, Next, flags' \in Flags, Tick
    PROVE  /\ score' \in Score
           /\ LatchMirrorsResult'
           /\ Cleared => score'.wins = NoWins
           /\ (~Cleared /\ (flags'.result => flags.result))
                 => score'.wins = score.wins
           /\ (~Cleared /\ flags'.result /\ ~flags.result)
                 => score'.wins =
                       IF flags'.draw THEN score.wins
                       ELSE [score.wins EXCEPT ![flags'.winner] = Saturate(@)]
<1>1. CASE Cleared
  <2>1. score' = ResetScore(flags'.result)
    BY <1>1 DEF Tick, StepScore, Cleared
  <2>2. NoWins \in Wins
    BY MaxWinsAssumption DEF NoWins, Wins
  <2> QED BY <1>1, <2>1, <2>2 DEF ResetScore, Score, LatchMirrorsResult, Flags
<1>2. CASE ~Cleared
  <2> DEFINE takes == ConsumesResult(score, scene', flags')
             won == [score.wins EXCEPT ![flags'.winner] = Saturate(@)]
  <2>1. /\ score'.wins = IF takes /\ ~flags'.draw THEN won ELSE score.wins
        /\ score'.latched = (Rearmed(score, flags') \/ takes)
        /\ score' = [wins |-> score'.wins, latched |-> score'.latched]
    BY <1>2 DEF Tick, StepScore, Cleared
  <2>2. /\ score.wins \in Wins
        /\ score.latched = flags.result /\ flags.result \in BOOLEAN
        /\ flags'.result \in BOOLEAN /\ flags'.draw \in BOOLEAN
    BY DEF VTypeOK, TypeOK, Score, Flags, LatchMirrorsResult
  <2>3. won \in Wins
    <3>1. flags'.winner \in Side
      BY DEF Flags
    <3>2. \A n \in 0 .. MaxWins : Saturate(n) \in 0 .. MaxWins
      BY MaxWinsAssumption DEF Saturate
    <3> QED BY <2>2, <3>1, <3>2 DEF Wins
  <2>4. takes <=> flags'.result /\ ~flags.result
    <3>1. flags'.result /\ ~flags.result => scene' = MatchScene
      BY <1>2, ResultRises
    <3> QED BY <2>2, <3>1 DEF ConsumesResult, Rearmed
  <2>5. score'.latched = flags'.result
    BY <2>1, <2>2, <2>4 DEF Rearmed
  <2>6. score'.wins \in Wins
    BY <2>1, <2>2, <2>3
  <2>7. score' \in Score
    BY <2>1, <2>2, <2>5, <2>6 DEF Score
  <2>8. (flags'.result => flags.result) => score'.wins = score.wins
    BY <2>1, <2>4
  <2>9. (flags'.result /\ ~flags.result)
           => score'.wins = IF flags'.draw THEN score.wins ELSE won
    BY <2>1, <2>4
  <2> QED BY <1>2, <2>5, <2>7, <2>8, <2>9 DEF LatchMirrorsResult
<1> QED BY <1>1, <1>2

\* Every frame is one handler call of the game and one call of step().
LEMMA FrameIsGuestStep == VNext => (Next /\ Tick) \/ NewRun \/ ClearScore
BY DEF VNext, ConsumerFrame, MatchFrame, OtherFrame, Next, MatchRuns

\* The power-on state of a new run.
LEMMA NewRunOutcome == NewRun => VInv'
<1> SUFFICES ASSUME NewRun PROVE VInv'
  OBVIOUS
<1>1. GuestInv'
  BY RoundsAssumption, ModesAssumption, ScenesAssumption
     DEF NewRun, GuestInv, TypeOK, FightIsOpen, ScoringResultHasWinner,
         UndecidedGoesOn, Flags, NoFlags, NoWins, Side, Stages, MatchStages,
         GoesOn, Judging, Decided, CharSelect, MatchScene, ModeSelect, Versus,
         ToSelect, Rematch, ToMenu
<1>2. /\ score' = [wins |-> NoWins, latched |-> FALSE] /\ awarded' = NoWins
      /\ stage' = "title" /\ flags'.result = FALSE /\ voided' = FALSE
  BY DEF NewRun, ResetScore, NoFlags
<1>3. /\ NoWins \in Wins /\ NoWins \in [Side -> 0 .. NativeMax]
      /\ \A s \in Side : NoWins[s] = 0
  BY MaxWinsAssumption, NativeAssumption DEF NoWins, Wins
<1>4. VTypeOK' /\ LatchMirrorsResult'
  BY <1>1, <1>2, <1>3 DEF VTypeOK, GuestInv, Score, LatchMirrorsResult
<1>5. ScoreAgreesWithGame'
  <2>1. \A s \in Side : Pending(s)' = 0
    BY <1>2 DEF Pending, Judging
  <2> QED BY <1>2, <1>3, <2>1 DEF ScoreAgreesWithGame, Least
<1> QED BY <1>1, <1>4, <1>5 DEF VInv

LEMMA VInit_VInv == VInit => VInv
<1> SUFFICES ASSUME VInit PROVE VInv
  OBVIOUS
<1>1. GuestInv
  BY GuestInit DEF VInit
<1>2. /\ score = [wins |-> NoWins, latched |-> FALSE] /\ awarded = NoWins
      /\ stage = "title" /\ flags.result = FALSE /\ voided = FALSE
  BY DEF VInit, Init, ResetScore, NoFlags
<1>3. /\ NoWins \in Wins /\ NoWins \in [Side -> 0 .. NativeMax]
      /\ \A s \in Side : NoWins[s] = 0
  BY MaxWinsAssumption, NativeAssumption DEF NoWins, Wins
<1>4. VTypeOK /\ LatchMirrorsResult
  BY <1>1, <1>2, <1>3 DEF VTypeOK, GuestInv, Score, LatchMirrorsResult
<1>5. ScoreAgreesWithGame
  <2>1. \A s \in Side : Pending(s) = 0
    BY <1>2 DEF Pending, Judging
  <2> QED BY <1>2, <1>3, <2>1 DEF ScoreAgreesWithGame, Least
<1> QED BY <1>1, <1>4, <1>5 DEF VInv

\* A frame that does not end a fight: what is pending stays pending unless the
\* native routine has just awarded it.
LEMMA AgreesElsewhere ==
    ASSUME VInv, GuestInv', VTypeOK', Tick, flags' \in Flags,
           (ConsumerFrame \/ MatchFrame \/ OtherFrame) /\ ~EndFight
    PROVE  ScoreAgreesWithGame'
<1>1. /\ score.wins \in [Side -> 0 .. MaxWins]
      /\ awarded \in [Side -> 0 .. NativeMax]
      /\ NativeMax \in Nat \ {0} /\ NativeMax <= MaxWins
      /\ MaxWins \in Nat
  BY NativeAssumption, MaxWinsAssumption DEF VInv, VTypeOK, Score, Wins
<1>2. Next
  BY DEF ConsumerFrame, MatchFrame, OtherFrame, Next, MatchRuns
<1>3. flags.result \in BOOLEAN /\ flags'.result \in BOOLEAN
  BY DEF Flags, VInv, GuestInv, TypeOK
<1>4. ~Cleared => score'.wins = score.wins
  BY <1>2, <1>3, ResultRises, TickOutcome DEF VInv
<1>5. flags' = flags => (flags.result => voided' = voided)
  BY DEF Tick, VInv, VTypeOK
<1>6. CASE ConsumerFrame
  <2>1. /\ stage \in Judging /\ stage' \notin Judging /\ scene' = scene
        /\ mode' = mode
        /\ awarded' = Award(awarded, IF voided THEN {} ELSE Awarded)
    BY <1>6 DEF ConsumerFrame, VerdictConsumer, PoseConsumer, Consumer,
                Judging
  <2>2. ~Cleared
    BY <2>1 DEF Cleared, OutsideVersus, VInv, GuestInv, TypeOK, Judging,
                MatchStages, MatchScene, ModeSelect
  <2> SUFFICES ASSUME NEW s \in Side
               PROVE  Least(score'.wins[s], NativeMax)
                         = Least(awarded'[s] + Pending(s)', NativeMax)
    BY DEF ScoreAgreesWithGame
  <2>3. Pending(s)' = 0
    BY <2>1 DEF Pending
  <2>4. Pending(s) = IF ~voided /\ s \in Awarded THEN 1 ELSE 0
    BY <2>1 DEF Pending, Awarded
  <2>5. awarded'[s] = IF ~voided /\ s \in Awarded
                      THEN NativePoint(awarded[s]) ELSE awarded[s]
    BY <2>1 DEF Award
  <2>6. Least(score.wins[s], NativeMax)
           = Least(awarded[s] + Pending(s), NativeMax)
    BY <2>1 DEF VInv, ScoreAgreesWithGame, Judging
  <2> QED BY <1>1, <1>4, <2>2, <2>3, <2>4, <2>5, <2>6 DEF Least, NativePoint
<1>7. CASE MatchFrame
  <2>1. /\ awarded' = awarded /\ scene' = scene /\ mode' = mode
        /\ stage \in MatchStages /\ stage' # "leave" /\ stage # "leave"
    BY <1>7 DEF MatchFrame, MatchInit, RoundInit, Intro, EndFight, FightWon,
       FightDrawn, RoundEnds, ToPose, NextRound, WinnerScreen, OpenPrompt,
       MatchStages
  <2>2. ~Cleared
    BY <2>1 DEF Cleared, OutsideVersus, VInv, GuestInv, TypeOK,
                MatchScene, ModeSelect
  <2>3. \A s \in Side : Pending(s)' = Pending(s)
    <3>1. CASE ToPose
      BY <1>5, <3>1 DEF ToPose, Pending, Judging
    <3>2. CASE ~ToPose
      BY <1>7, <3>2 DEF MatchFrame, MatchInit, RoundInit, Intro, NextRound,
                        WinnerScreen, OpenPrompt, Pending, Judging
    <3> QED BY <3>1, <3>2
  <2> QED BY <1>4, <2>1, <2>2, <2>3 DEF ScoreAgreesWithGame, VInv
<1>8. CASE OtherFrame
  <2>1. CASE Cleared
    <3>1. awarded' = NoWins /\ score'.wins = NoWins
      BY <1>2, <1>8, <2>1, TickOutcome DEF OtherFrame, VInv
    <3>2. stage' \notin MatchStages
      BY <2>1 DEF Cleared, OutsideVersus, GuestInv, TypeOK, MatchScene,
                  ModeSelect
    <3>3. \A s \in Side : Pending(s)' = 0
      BY <3>2 DEF Pending, Judging, MatchStages
    <3>4. \A s \in Side : NoWins[s] = 0
      BY DEF NoWins
    <3> QED BY <3>1, <3>3, <3>4 DEF ScoreAgreesWithGame
  <2>2. CASE ~Cleared
    <3>1. awarded' = awarded /\ score'.wins = score.wins
      BY <1>4, <1>8, <2>2 DEF OtherFrame
    <3>2. \/ UNCHANGED <<stage, flags>>
          \/ stage' = "leave"
          \/ stage # "leave" /\ stage \notin Judging /\ stage' \notin Judging
      <4>1. TitleInit => Cleared
        BY DEF TitleInit, Cleared, OutsideVersus, Versus
      <4>2. CASE OutsideMatch
        BY <2>2, <4>1, <4>2
           DEF OutsideMatch, GameInit, MenuConfirm, SelectBack, SelectStart,
               OtherModeFrame, OtherModeEnd, SoftReset, Judging
      <4>3. CASE Prompted
        BY <4>3 DEF Prompted, PromptMove, PromptConfirm, PromptExpire, GoTo,
                    Judging
      <4> QED BY <1>8, <4>2, <4>3 DEF OtherFrame, Wait, guestVars
    <3>3. stage' # "leave" => /\ stage # "leave"
                              /\ \A s \in Side : Pending(s)' = Pending(s)
      BY <1>5, <3>2 DEF Pending
    <3> QED BY <3>1, <3>3 DEF ScoreAgreesWithGame, VInv
  <2> QED BY <2>1, <2>2
<1> QED BY <1>6, <1>7, <1>8

\* What the end of a fight does to the score: a won match is one point, one
\* pending point and one round for the same side; anything else is none.
LEMMA FightOutcome ==
    ASSUME VInv, EndFight, Tick, flags' \in Flags
    PROVE  /\ stage = "fight" /\ stage' = "verdict"
           /\ ~Cleared /\ ~flags.result
           /\ ~(flags'.result /\ ~flags'.draw) => score'.wins = score.wins
           /\ (flags'.result /\ ~flags'.draw) =>
                 /\ flags'.winner \in Side
                 /\ score'.wins
                       = [score.wins EXCEPT ![flags'.winner] = Saturate(@)]
                 /\ rw[flags'.winner] \in 0 .. RoundsToWin
                 /\ rw'[flags'.winner] = rw[flags'.winner] + 1
                 /\ rw'[flags'.winner] >= RoundsToWin
                 /\ rw'[flags'.winner] > rw'[Other(flags'.winner)]
<1>1. /\ stage = "fight" /\ stage' = "verdict"
      /\ scene' = scene /\ mode' = mode
  BY DEF EndFight, FightWon, FightDrawn, RoundEnds
<1>2. ~Cleared
  BY <1>1 DEF Cleared, OutsideVersus, VInv, GuestInv, TypeOK, MatchStages,
              MatchScene, ModeSelect
<1>3. ~flags.result /\ AtMostMatchPoint /\ flags \in Flags
  BY <1>1 DEF VInv, GuestInv, TypeOK, FightIsOpen, GoesOn
<1>4. Next /\ flags'.result \in BOOLEAN
  BY DEF Next, MatchRuns, Flags
<1>5. /\ ~flags'.result => score'.wins = score.wins
      /\ flags'.result => score'.wins =
            IF flags'.draw THEN score.wins
            ELSE [score.wins EXCEPT ![flags'.winner] = Saturate(@)]
  BY <1>2, <1>3, <1>4, TickOutcome DEF VInv
<1>6. rw \in [Side -> 0 .. RoundsToWin]
  <2>1. \A s \in Side : rw[s] \in 0 .. RoundsToWin
    BY <1>3, RoundsAssumption
       DEF AtMostMatchPoint, Reached, VInv, GuestInv, TypeOK
  <2> QED BY <2>1 DEF VInv, GuestInv, TypeOK
<1>7. ASSUME flags'.result, ~flags'.draw
      PROVE  /\ rw'[flags'.winner] = rw[flags'.winner] + 1
             /\ rw'[flags'.winner] >= RoundsToWin
             /\ rw'[flags'.winner] > rw'[Other(flags'.winner)]
  <2>1. PICK timeUp \in BOOLEAN :
          FightDrawn(timeUp) \/ \E w \in Side : FightWon(w, timeUp)
    BY DEF EndFight
  <2> DEFINE f == ClockFlags(timeUp)
  <2>2. /\ f \in Flags /\ ~f.result
        /\ IF f.final THEN \A s \in Side : rw[s] = RoundsToWin
                      ELSE Reached(rw) = {}
    BY <1>3 DEF Flags, ClockFlags, AtMostMatchPoint
  <2>3. FightDrawn(timeUp) => flags' = DrawnRound(rw, f).flags
    BY DEF FightDrawn, RoundEnds
  <2>4. DrawnRound(rw, f).flags.draw
    BY <1>6, <2>2, DrawnRoundOutcome
  <2>5. PICK w \in Side : FightWon(w, timeUp)
    BY <1>7, <2>1, <2>3, <2>4
  <2>6. flags' = WonRound(rw, f, w).flags /\ rw' = WonRound(rw, f, w).rw
    BY <2>5 DEF FightWon, RoundEnds
  <2> HIDE DEF f
  <2>7. /\ WonRound(rw, f, w).rw[w] = rw[w] + 1
        /\ WonRound(rw, f, w).flags.result =>
              /\ WonRound(rw, f, w).flags.winner = w
              /\ WonRound(rw, f, w).rw[w] >= RoundsToWin
              /\ WonRound(rw, f, w).rw[w] > WonRound(rw, f, w).rw[Other(w)]
    BY <1>6, <2>2, WonRoundOutcome
  <2> QED BY <1>7, <2>6, <2>7
<1>8. flags'.winner \in Side
  BY DEF Flags
<1> QED BY <1>1, <1>2, <1>3, <1>4, <1>5, <1>6, <1>7, <1>8

\* The frame that ends a fight: the point it gives is pending until the native
\* routine gives its own.
LEMMA AgreesAfterFight ==
    ASSUME VInv, EndFight, Tick, flags' \in Flags, awarded' = awarded
    PROVE  ScoreAgreesWithGame'
<1>1. /\ score.wins \in [Side -> 0 .. MaxWins]
      /\ awarded \in [Side -> 0 .. NativeMax]
      /\ NativeMax \in Nat \ {0} /\ NativeMax <= MaxWins
      /\ MaxWins \in Nat
  BY NativeAssumption, MaxWinsAssumption DEF VInv, VTypeOK, Score, Wins
<1> SUFFICES ASSUME NEW s \in Side
             PROVE  Least(score'.wins[s], NativeMax)
                       = Least(awarded[s] + Pending(s)', NativeMax)
  BY DEF ScoreAgreesWithGame
<1>2. stage = "fight" /\ stage' = "verdict"
  BY FightOutcome
<1>3. Least(score.wins[s], NativeMax) = Least(awarded[s], NativeMax)
  <2>1. Pending(s) = 0
    BY <1>2 DEF Pending, Judging
  <2>2. Least(score.wins[s], NativeMax) = Least(awarded[s] + 0, NativeMax)
    BY <1>2, <2>1 DEF VInv, ScoreAgreesWithGame
  <2> QED BY <1>1, <2>2
<1>4. CASE flags'.result /\ ~flags'.draw /\ flags'.winner = s
  <2>1. score'.wins = [score.wins EXCEPT ![s] = Saturate(@)]
    BY <1>4, FightOutcome
  <2>2. score'.wins[s] = Saturate(score.wins[s])
    BY <1>1, <2>1
  <2>3. Pending(s)' = 1
    <3>1. ~voided'
      BY FightOutcome DEF Tick, VInv, VTypeOK
    <3> QED BY <1>2, <1>4, <3>1 DEF Pending, Judging
  <2> QED BY <1>1, <1>3, <2>2, <2>3 DEF Least, Saturate
<1>5. CASE ~(flags'.result /\ ~flags'.draw /\ flags'.winner = s)
  <2>1. score'.wins[s] = score.wins[s]
    BY <1>1, <1>5, FightOutcome
  <2>2. Pending(s)' = 0
    BY <1>5 DEF Pending
  <2> QED BY <1>1, <1>3, <2>1, <2>2
<1> QED BY <1>4, <1>5

\* Every frame keeps the invariant.
LEMMA VersusStep == VInv /\ [VNext]_vars => VInv'
<1> SUFFICES ASSUME VInv, [VNext]_vars PROVE VInv'
  OBVIOUS
<1>1. CASE NewRun
  BY <1>1, NewRunOutcome
<1>2. CASE ClearScore
  <2>1. UNCHANGED guestVars
    BY <1>2 DEF ClearScore
  <2>2. GuestInv'
    BY <2>1, GuestStep DEF VInv
  <2>3. /\ score' = [wins |-> NoWins, latched |-> flags.result]
        /\ awarded' = NoWins /\ voided' = flags.result /\ flags' = flags
    BY <1>2 DEF ClearScore, ResetScore, guestVars
  <2>4. /\ NoWins \in Wins /\ NoWins \in [Side -> 0 .. NativeMax]
        /\ \A s \in Side : NoWins[s] = 0
    BY MaxWinsAssumption, NativeAssumption DEF NoWins, Wins
  <2>5. flags.result \in BOOLEAN
    BY DEF VInv, GuestInv, TypeOK, Flags
  <2>6. VTypeOK' /\ LatchMirrorsResult'
    BY <2>2, <2>3, <2>4, <2>5
       DEF VTypeOK, GuestInv, Score, LatchMirrorsResult
  <2>7. \A s \in Side : Pending(s)' = 0
    BY <2>3 DEF Pending
  <2>8. ScoreAgreesWithGame'
    BY <2>3, <2>4, <2>7 DEF ScoreAgreesWithGame
  <2> QED BY <2>2, <2>6, <2>8 DEF VInv
<1>3. CASE VNext /\ ~NewRun /\ ~ClearScore
  <2>1. Next /\ Tick
    BY <1>3, FrameIsGuestStep
  <2>2. GuestInv'
    BY <2>1, GuestStep DEF VInv
  <2>3. flags' \in Flags /\ TypeOK'
    BY <2>2 DEF GuestInv, TypeOK
  <2>4. score' \in Score /\ LatchMirrorsResult'
    BY <2>1, <2>3, TickOutcome DEF VInv
  <2>5. ConsumerFrame \/ MatchFrame \/ OtherFrame
    BY <1>3 DEF VNext
  <2>6. awarded' \in [Side -> 0 .. NativeMax]
    <3>1. awarded \in [Side -> 0 .. NativeMax]
      BY DEF VInv, VTypeOK
    <3>2. \A n \in 0 .. NativeMax : NativePoint(n) \in 0 .. NativeMax
      BY NativeAssumption DEF NativePoint
    <3>3. NoWins \in [Side -> 0 .. NativeMax]
      BY NativeAssumption DEF NoWins
    <3>4. \A sides : Award(awarded, sides) \in [Side -> 0 .. NativeMax]
      BY <3>1, <3>2 DEF Award
    <3> QED BY <2>5, <3>1, <3>3, <3>4
            DEF ConsumerFrame, MatchFrame, OtherFrame
  <2>7. VTypeOK'
    <3>1. voided' \in BOOLEAN /\ (voided' => flags'.result)
      BY <2>1, <2>3 DEF Tick, Flags
    <3> QED BY <2>3, <2>4, <2>6, <3>1 DEF VTypeOK
  <2>8. ScoreAgreesWithGame'
    <3>1. CASE ~EndFight
      BY <2>1, <2>2, <2>3, <2>5, <2>7, <3>1, AgreesElsewhere
    <3>2. CASE EndFight
      <4>1. stage = "fight" /\ stage' = "verdict"
        BY <3>2 DEF EndFight, FightWon, FightDrawn, RoundEnds
      <4>2. ~ConsumerFrame
        BY <4>1 DEF ConsumerFrame, VerdictConsumer, PoseConsumer
      <4>3. ~Cleared
        BY <2>1, <2>3, <3>2, FightOutcome
      <4>4. awarded' = awarded
        BY <2>5, <4>2, <4>3 DEF MatchFrame, OtherFrame
      <4> QED BY <2>1, <2>3, <3>2, <4>4, AgreesAfterFight
    <3> QED BY <3>1, <3>2
  <2> QED BY <2>2, <2>4, <2>7, <2>8 DEF VInv
<1>4. CASE UNCHANGED vars
  <2>1. UNCHANGED guestVars
    BY <1>4 DEF vars, guestVars
  <2>2. GuestInv'
    BY <2>1, GuestStep DEF VInv
  <2>3. \A s \in Side : Pending(s)' = Pending(s)
    BY <1>4 DEF vars, Pending
  <2> QED BY <1>4, <2>2, <2>3
          DEF vars, VInv, VTypeOK, GuestInv, LatchMirrorsResult,
              ScoreAgreesWithGame
<1> QED BY <1>1, <1>3, <1>4, <1>2

\* The composition never leaves its invariant.
THEOREM VersusInvariant == VSpec => []VInv
BY VInit_VInv, VersusStep, PTL DEF VSpec

\* The types, with the counters never above their width.
THEOREM VersusTyped == VSpec => []VTypeOK
BY VersusInvariant, PTL DEF VInv

\* The latch of versus_score_state.h mirrors bit 0x400 on every path.
THEOREM LatchAlwaysMirrors == VSpec => []LatchMirrorsResult
BY VersusInvariant, PTL DEF VInv

\* The score and the game's own points (func_80109864) never disagree by more
\* than the one result the game has still to consume.
THEOREM ScoreAlwaysAgrees == VSpec => []ScoreAgreesWithGame
BY VersusInvariant, PTL DEF VInv

-----------------------------------------------------------------------------
\* What any frame does to the score, by what it does to the result flag.
LEMMA FrameOutcome ==
    ASSUME VInv, VNext
    PROVE  \/ score'.wins = NoWins /\ (Cleared \/ NewRun \/ ClearScore)
           \/ /\ score'.wins = score.wins
              /\ flags'.result => flags.result
           \/ /\ ~flags.result /\ flags'.result /\ EndFight
              /\ stage = "fight" /\ stage' = "verdict"
              /\ \/ flags'.draw /\ score'.wins = score.wins
                 \/ \E s \in Side :
                       /\ score'.wins = [score.wins EXCEPT ![s] = Saturate(@)]
                       /\ rw[s] <= RoundsToWin /\ rw'[s] = rw[s] + 1
                       /\ rw'[s] >= RoundsToWin /\ rw'[s] > rw'[Other(s)]
<1>1. CASE NewRun
  BY <1>1 DEF NewRun, ResetScore
<1>2. CASE ClearScore
  BY <1>2 DEF ClearScore, ResetScore
<1>3. CASE ~NewRun /\ ~ClearScore
  <2>1. Next /\ Tick
    BY <1>3, FrameIsGuestStep
  <2>2. flags' \in Flags
    BY <2>1, GuestStep DEF VInv, GuestInv, TypeOK
  <2>3. Cleared => score'.wins = NoWins
    BY <2>1, <2>2, TickOutcome DEF VInv
  <2>4. (~Cleared /\ (flags'.result => flags.result))
           => score'.wins = score.wins
    BY <2>1, <2>2, TickOutcome DEF VInv
  <2>5. CASE ~Cleared /\ ~flags.result /\ flags'.result
    <3>1. EndFight
      BY <2>1, <2>5, ResultRises DEF VInv
    <3>2. stage = "fight" /\ stage' = "verdict"
      BY <3>1 DEF EndFight, FightWon, FightDrawn, RoundEnds
    <3>3. CASE flags'.draw
      BY <2>1, <2>2, <2>5, <3>1, <3>2, <3>3, FightOutcome
    <3>4. CASE ~flags'.draw
      <4> DEFINE s == flags'.winner
      <4>1. /\ s \in Side
            /\ score'.wins = [score.wins EXCEPT ![s] = Saturate(@)]
            /\ rw[s] \in 0 .. RoundsToWin /\ rw'[s] = rw[s] + 1
            /\ rw'[s] >= RoundsToWin /\ rw'[s] > rw'[Other(s)]
        BY <2>1, <2>2, <2>5, <3>1, <3>4, FightOutcome
      <4>2. rw[s] <= RoundsToWin
        BY <4>1, RoundsAssumption
      <4> HIDE DEF s
      <4> QED BY <2>5, <3>1, <3>2, <4>1, <4>2
    <3> QED BY <3>3, <3>4
  <2> QED BY <2>3, <2>4, <2>5
<1> QED BY <1>1, <1>3, <1>2

\* Points are only given for matches that were won (VersusScoreState::step).
THEOREM PointsAreForWonMatches == VSpec => PointOnlyForWonMatch
<1> DEFINE Body ==
      \/ score'.wins = score.wins
      \/ score'.wins = NoWins
      \/ \E s \in Side :
            /\ score'.wins = [score.wins EXCEPT ![s] = @ + 1]
            /\ stage = "fight" /\ stage' = "verdict"
            /\ ~flags.result /\ rw[s] <= RoundsToWin /\ rw'[s] = rw[s] + 1
            /\ rw'[s] >= RoundsToWin /\ rw'[s] > rw'[Other(s)]
<1>1. ASSUME VInv, VNext PROVE Body
  <2>1. \A s \in Side :
           score'.wins = [score.wins EXCEPT ![s] = Saturate(@)]
             => \/ score'.wins = score.wins
                \/ score'.wins = [score.wins EXCEPT ![s] = @ + 1]
    BY <1>1 DEF VInv, VTypeOK, Score, Wins, Saturate
  <2> QED BY <1>1, <2>1, FrameOutcome
<1>2. VInv /\ [VNext]_vars => [Body]_vars
  BY <1>1
<1> QED BY <1>2, VersusInvariant, PTL DEF VSpec, PointOnlyForWonMatch

\* The score is only lost outside Versus or by a new run (VERSUS_SCORE.md).
THEOREM ScoreAlwaysSurvives == VSpec => ScoreSurvivesVersus
<1> DEFINE Body == (\E s \in Side : score'.wins[s] < score.wins[s])
                   => \/ scene' = ModeSelect \/ mode' # Versus
                      \/ stage' = "title" \/ ClearScore
<1>1. ASSUME VInv, VNext PROVE Body
  <2>1. score.wins \in [Side -> 0 .. MaxWins] /\ MaxWins \in Nat
    BY <1>1, MaxWinsAssumption DEF VInv, VTypeOK, Score, Wins
  <2>2. \A s, t \in Side :
           ~([score.wins EXCEPT ![t] = Saturate(@)][s] < score.wins[s])
    BY <2>1 DEF Saturate
  <2>3. \A s \in Side : ~(score.wins[s] < score.wins[s])
    BY <2>1
  <2>4. NewRun => stage' = "title"
    BY DEF NewRun
  <2>5. Cleared => scene' = ModeSelect \/ mode' # Versus
    BY DEF Cleared, OutsideVersus
  <2> QED BY <1>1, <2>2, <2>3, <2>4, <2>5, FrameOutcome
<1>2. VInv /\ [VNext]_vars => [Body]_vars
  BY <1>1
<1> QED BY <1>2, VersusInvariant, PTL DEF VSpec, ScoreSurvivesVersus

\* The score implements the ledger: each match decided once, a drawn one for
\* nobody (VERSUS_SCORE.md, "Uma trava consome cada resultado uma vez").
THEOREM VersusImplementsLedger == VSpec => ImplementsLedger
<1>1. VInit => Ledger!Init
  BY DEF VInit, Init, ResetScore, NoWins, NoFlags, Side, Ledger!Init,
         Ledger!Player
<1>2. ASSUME VInv, [VNext]_vars
      PROVE  [Ledger!Next]_<<score.wins,
                             IF flags.result THEN "decided" ELSE "open">>
  <2>1. CASE UNCHANGED vars
    BY <2>1 DEF vars
  <2>2. CASE score'.wins = NoWins
    <3>1. Ledger!Clear
      BY <2>2 DEF Ledger!Clear, Ledger!Player, NoWins, Side
    <3> QED BY <3>1 DEF Ledger!Next
  <2>3. CASE score'.wins = score.wins /\ (flags'.result => flags.result)
    <3>1. CASE flags.result /\ ~flags'.result
      BY <2>3, <3>1 DEF Ledger!Next, Ledger!Reopen
    <3>2. CASE flags.result = flags'.result
      BY <2>3, <3>2
    <3>3. flags.result \in BOOLEAN /\ flags'.result \in BOOLEAN
      <4>1. GuestInv'
        BY <1>2, VersusStep DEF VInv
      <4> QED BY <1>2, <4>1 DEF VInv, GuestInv, TypeOK, Flags
    <3> QED BY <2>3, <3>1, <3>2, <3>3
  <2>4. CASE ~flags.result /\ flags'.result /\ score'.wins = score.wins
    BY <2>4 DEF Ledger!Next, Ledger!DecideDrawn
  <2>5. ASSUME NEW s \in Side, ~flags.result, flags'.result,
               score'.wins = [score.wins EXCEPT ![s] = Saturate(@)]
        PROVE  Ledger!Next
    <3>1. Ledger!DecideFor(s)
      BY <2>5 DEF Ledger!DecideFor, Ledger!Point, Saturate
    <3> QED BY <2>5, <3>1 DEF Ledger!Next, Ledger!Player, Side
  <2> QED BY <1>2, <2>1, <2>2, <2>3, <2>4, <2>5, FrameOutcome
<1> QED BY <1>1, <1>2, VersusInvariant, PTL
        DEF VSpec, ImplementsLedger, Ledger!Spec

=============================================================================
