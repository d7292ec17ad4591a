----------------------------- MODULE GuestMatch -----------------------------
(***************************************************************************)
(* The game's own scene machine, as the recompiled program runs it         *)
(* (generated/SLUS_005.48_full.c): the mode menu, the character select and *)
(* the Versus match with its rounds, its result and the prompt after it.   *)
(*                                                                         *)
(* The main loop func_80103D58 runs the handler of the current scene and   *)
(* yields for one frame, so one action here is one handler call, and one   *)
(* frame.  Handlers that only count a timer down are Wait.                 *)
(*                                                                         *)
(* `stage' names the handler the next frame runs: the scene, and in the    *)
(* match scene also the bytes S1 (0x801D39B9) and S2 (0x801D39BA).  The    *)
(* table at 0x801AF994 that maps S1 to a handler is data of the disc; the  *)
(* correspondence is read off the values the handlers write.               *)
(***************************************************************************)
EXTENDS VersusScore

CONSTANTS RoundsToWin,   \* the menu setting func_80108E58 reads into r18
          Modes,         \* mode bytes a menu confirmation may store
          OtherScenes    \* scene bytes of the modes that are not Versus

ASSUME RoundsAssumption == RoundsToWin \in Nat \ {0}
ASSUME ModesAssumption  == Modes \subseteq Nat /\ {0, Versus} \subseteq Modes
ASSUME ScenesAssumption ==
    OtherScenes \subseteq Nat /\ {CharSelect, MatchScene} \subseteq OtherScenes
                              /\ ModeSelect \notin OtherScenes

VARIABLES
    scene,   \* byte 0x801D39B8
    mode,    \* byte 0x801DC9D0
    stage,   \* the handler the next frame runs
    rw,      \* bytes 0x801D39C6 and 39C7: rounds won in this match
    flags,   \* word 0x801D39E4, the bits that matter here
    cursor   \* byte 0x801DCA3C: the line of the prompt after a match

guestVars == <<scene, mode, stage, rw, flags, cursor>>

\* Bits 0x400, 0x40, 0x20, 0x01000000, 0x10 and 0x4 of the flags word.
Flags == [result : BOOLEAN, draw : BOOLEAN, timeout : BOOLEAN,
          final : BOOLEAN, winner : Side, champ : Side]

NoFlags == [result |-> FALSE, draw |-> FALSE, timeout |-> FALSE,
            final |-> FALSE, winner |-> 0, champ |-> 0]

MatchStages == {"init", "round", "intro", "fight", "verdict", "pose",
                "next", "winner", "open", "prompt"}
Stages == MatchStages \cup {"leave", "title", "menu", "select", "other"}

\* The lines of the prompt.
ToSelect == 0
Rematch  == 1
ToMenu   == 2

Init == /\ scene = CharSelect
        /\ mode = 0
        /\ stage = "title"
        /\ rw = NoWins
        /\ flags = NoFlags
        /\ cursor = 0

-----------------------------------------------------------------------------
(***************************************************************************)
(* Outside the match.                                                      *)
(***************************************************************************)

\* func_80103E74, from the title: the mode menu, the result bits kept.
GameInit == /\ stage = "title"
            /\ stage' = "menu"
            /\ scene' = ModeSelect
            /\ UNCHANGED <<mode, rw, flags, cursor>>

\* func_80175F60: a mode is confirmed and the character select comes up.
MenuConfirm(m) == /\ stage = "menu"
                  /\ mode' = m
                  /\ scene' = CharSelect
                  /\ stage' = IF m = Versus THEN "select" ELSE "other"
                  /\ UNCHANGED <<rw, flags, cursor>>

\* func_801774A0: cancel returns to the menu ...
SelectBack == /\ stage = "select"
              /\ scene' = ModeSelect
              /\ stage' = "menu"
              /\ UNCHANGED <<mode, rw, flags, cursor>>

\* ... and both characters chosen start the match.  0x400 is not touched.
SelectStart == /\ stage = "select"
               /\ scene' = MatchScene
               /\ stage' = "init"
               /\ UNCHANGED <<mode, rw, flags, cursor>>

\* The modes that are not Versus use the same scene byte and flags word in
\* ways this module does not follow: any scene, any flags.
OtherModeFrame == /\ stage = "other"
                  /\ scene' \in OtherScenes
                  /\ flags' \in Flags
                  /\ UNCHANGED <<mode, stage, rw, cursor>>

OtherModeEnd == /\ stage = "other"
                /\ scene' = ModeSelect
                /\ stage' = "menu"
                /\ UNCHANGED <<mode, rw, flags, cursor>>

\* func_80103D58: the soft-reset combination clears the flags word and
\* leaves the main loop; scene and mode keep their values for the moment ...
SoftReset == /\ stage \notin {"title", "leave"}
             /\ stage' = "leave"
             /\ flags' = NoFlags
             /\ UNCHANGED <<scene, mode, rw, cursor>>

\* ... until func_8018C880 starts the title.
TitleInit == /\ stage = "leave"
             /\ stage' = "title"
             /\ scene' = CharSelect
             /\ mode' = 0
             /\ flags' = NoFlags
             /\ UNCHANGED <<rw, cursor>>

-----------------------------------------------------------------------------
(***************************************************************************)
(* The match: func_801040E8 runs one of the following each frame.          *)
(***************************************************************************)

\* func_80104938: the bits of the round before are cleared.
RoundFlags(f) == [f EXCEPT !.draw = FALSE, !.timeout = FALSE]

\* Bug: 0x400 is not among the bits cleared.
MatchInitKeepsResult == /\ stage = "init"
                        /\ rw' = NoWins
                        /\ flags' = RoundFlags([flags EXCEPT !.final = FALSE])
                        /\ stage' = "intro"
                        /\ UNCHANGED <<scene, mode, cursor>>

\* func_801043B8, which calls func_80104938: a new match, no round won, and
\* the only place on the way to a fight that clears 0x400.
MatchInit == /\ stage = "init"
             /\ rw' = NoWins
             /\ flags' = RoundFlags([flags EXCEPT !.result = FALSE,
                                                  !.final = FALSE])
             /\ stage' = "intro"
             /\ UNCHANGED <<scene, mode, cursor>>

RoundInit == /\ stage = "round"
             /\ flags' = RoundFlags(flags)
             /\ stage' = "intro"
             /\ UNCHANGED <<scene, mode, rw, cursor>>

\* func_80104D10.
Intro == /\ stage = "intro"
         /\ stage' = "fight"
         /\ UNCHANGED <<scene, mode, rw, flags, cursor>>

\* func_80109400: one store that replaces the winner and sets 0x400.
Commit(f, w) == [f EXCEPT !.result = TRUE, !.winner = w]

Reached(r) == {s \in Side : r[s] >= RoundsToWin}

\* Bug: a drawn round counts for nobody.
DrawnRoundForNobody(r, f) == [rw |-> r, flags |-> [f EXCEPT !.draw = TRUE]]

\* Bug: 0x40 is not set, so a match drawn at match point looks won.
DrawnRoundUnmarked(r, f) ==
    LET both == [s \in Side |-> r[s] + 1]
    IN [ rw    |-> both,
         flags |-> IF Reached(both) = {} THEN f
                   ELSE IF Reached(both) = Side /\ ~f.final
                   THEN [f EXCEPT !.final = TRUE]
                   ELSE Commit(f, IF f.champ \in Reached(both)
                                  THEN f.champ ELSE Other(f.champ)) ]

\* func_80108E58, equal health: both sides get the round.  At match point
\* for both a last round is added, once; otherwise a side that has its rounds
\* takes the match, the leading side first.
DrawnRound(r, f) ==
    LET both == [s \in Side |-> r[s] + 1]
        drawn == [f EXCEPT !.draw = TRUE]
    IN [ rw    |-> both,
         flags |-> IF Reached(both) = {} THEN drawn
                   ELSE IF Reached(both) = Side /\ ~f.final
                   THEN [drawn EXCEPT !.final = TRUE]
                   ELSE Commit(drawn, IF f.champ \in Reached(both)
                                      THEN f.champ ELSE Other(f.champ)) ]

\* func_80108E58, w has more health left: w gets the round and, with enough
\* rounds, the match.
WonRound(r, f, w) ==
    LET won == [r EXCEPT ![w] = @ + 1]
    IN [ rw    |-> won,
         flags |-> IF w \in Reached(won) THEN Commit(f, w) ELSE f ]

RoundEnds(over, f) ==
    /\ stage = "fight"
    /\ rw' = over.rw
    /\ flags' = over.flags
    /\ stage' = "verdict"
    /\ UNCHANGED <<scene, mode, cursor>>

\* func_80105A80: the fight ends by a knock-out, or when the round's time is
\* over, which sets 0x20 first.
ClockFlags(timeUp) == [flags EXCEPT !.timeout = timeUp \/ @]

FightWon(w, timeUp) ==
    LET f == ClockFlags(timeUp) IN RoundEnds(WonRound(rw, f, w), f)
FightDrawn(timeUp) ==
    LET f == ClockFlags(timeUp) IN RoundEnds(DrawnRound(rw, f), f)

\* func_80109864, which reads what the fight left in the flags: no result
\* means another round; a result crowns its winner and goes to the winner
\* screen, or straight to the prompt when the last round was drawn as well.
Consumer ==
    /\ IF flags.result
       THEN /\ flags' = [flags EXCEPT !.champ = flags.winner]
            /\ stage' = IF flags.draw /\ flags.final THEN "open" ELSE "winner"
       ELSE /\ stage' = IF flags.draw THEN "round" ELSE "next"
            /\ UNCHANGED flags
    /\ UNCHANGED <<scene, mode, rw, cursor>>

\* The side func_80109864 gives a native point to, if any.
Awarded == IF flags.result /\ ~flags.draw THEN {flags.winner} ELSE {}

\* func_80105D20: a draw or a time-over skips the winning pose.
ToPose == /\ stage = "verdict"
          /\ ~flags.draw /\ ~flags.timeout
          /\ stage' = "pose"
          /\ UNCHANGED <<scene, mode, rw, flags, cursor>>

VerdictConsumer == /\ stage = "verdict"
                   /\ flags.draw \/ flags.timeout
                   /\ Consumer

\* func_801060FC.
PoseConsumer == stage = "pose" /\ Consumer

\* func_801065DC.
NextRound == /\ stage = "next"
             /\ stage' = "round"
             /\ UNCHANGED <<scene, mode, rw, flags, cursor>>

\* func_80106BD4 up to S2 = 5, and the frame that opens the prompt.
WinnerScreen == /\ stage = "winner"
                /\ stage' = "open"
                /\ UNCHANGED <<scene, mode, rw, flags, cursor>>

OpenPrompt == /\ stage = "open"
              /\ stage' = "prompt"
              /\ cursor' = Rematch
              /\ UNCHANGED <<scene, mode, rw, flags>>

\* func_80107A74: a player moves the cursor, confirms a line, or lets the
\* timer run out, which first moves the cursor to the last line.
PromptMove(c) == /\ stage = "prompt"
                 /\ cursor' = c
                 /\ UNCHANGED <<scene, mode, stage, rw, flags>>

GoTo(line) ==
    /\ \/ line = ToSelect /\ stage' = "select" /\ scene' = CharSelect
       \/ line = Rematch  /\ stage' = "init"   /\ scene' = scene
       \/ line = ToMenu   /\ stage' = "menu"   /\ scene' = ModeSelect
    /\ UNCHANGED <<mode, rw, flags, cursor>>

PromptConfirm == stage = "prompt" /\ GoTo(cursor)

PromptExpire == /\ stage = "prompt"
                /\ IF cursor = ToMenu
                   THEN GoTo(ToMenu)
                   ELSE /\ cursor' = ToMenu
                        /\ UNCHANGED <<scene, mode, stage, rw, flags>>

\* A frame on which the handler only counts, animates or waits for a pad.
Wait == UNCHANGED guestVars

-----------------------------------------------------------------------------
OutsideMatch == \/ GameInit \/ SelectBack \/ SelectStart
                \/ \E m \in Modes : MenuConfirm(m)
                \/ OtherModeFrame \/ OtherModeEnd
                \/ SoftReset \/ TitleInit

EndFight == \E timeUp \in BOOLEAN :
                FightDrawn(timeUp) \/ \E w \in Side : FightWon(w, timeUp)

\* The handlers of the match scene whose own timers make them end.
MatchRuns == \/ MatchInit \/ RoundInit \/ Intro \/ EndFight
             \/ ToPose \/ VerdictConsumer \/ PoseConsumer
             \/ NextRound \/ WinnerScreen \/ OpenPrompt

Prompted == \/ \E c \in {ToSelect, Rematch, ToMenu} : PromptMove(c)
            \/ PromptConfirm
            \/ PromptExpire

Next == OutsideMatch \/ MatchRuns \/ Prompted \/ Wait

Spec == Init /\ [][Next]_guestVars

-----------------------------------------------------------------------------
(***************************************************************************)
(* Properties.                                                             *)
(***************************************************************************)

\* The types of the variables, with the scene each stage runs in.
TypeOK == /\ scene \in OtherScenes \cup {ModeSelect}
          /\ mode \in Modes
          /\ stage \in Stages
          /\ rw \in [Side -> 0 .. RoundsToWin + 1]
          /\ flags \in Flags
          /\ cursor \in {ToSelect, Rematch, ToMenu}
          /\ stage \in MatchStages => scene = MatchScene /\ mode = Versus
          /\ stage = "select" => scene = CharSelect /\ mode = Versus
          /\ stage = "menu" => scene = ModeSelect
          /\ stage = "other" => scene # ModeSelect /\ mode # Versus

\* Stages that judge the round just fought, those that follow a result, and
\* those from a round without a result to the end of the next one.
Judging == {"verdict", "pose"}
Decided == {"winner", "open", "prompt"}
GoesOn  == {"next", "round", "intro", "fight"}

\* The match is not decided yet: nobody has the rounds, or both have exactly
\* the rounds and the one extra round has been added.
AtMostMatchPoint == IF flags.final THEN \A s \in Side : rw[s] = RoundsToWin
                                   ELSE Reached(rw) = {}

\* No round is prepared or fought with a result still set, not even that of
\* the match before, and none after somebody has won: the only round beyond
\* RoundsToWin is the single extra one (func_801043B8 clears, func_80108E58
\* decides, func_80109864 chooses the way).
FightIsOpen == stage \in GoesOn => ~flags.result /\ AtMostMatchPoint

\* A result that scores names the side that really won: it has the rounds and
\* strictly more of them than the other (func_80108E58 and func_80109400
\* against the reader of the flags in func_80109864).
ScoringResultHasWinner ==
    (stage \in Judging \cup Decided /\ flags.result /\ ~flags.draw) =>
        /\ rw[flags.winner] >= RoundsToWin
        /\ rw[flags.winner] > rw[Other(flags.winner)]

\* A round is judged to leave the match open only when that is so, and the
\* extra round is only added by a draw (func_80108E58).
UndecidedGoesOn ==
    (stage \in Judging /\ ~flags.result) =>
        AtMostMatchPoint /\ (flags.final => flags.draw)

\* While a Versus result stays in the flags its winner and its draw bit do not
\* change: the score reads them on the first frame, the native routine many
\* frames later, and both must read the same.
HeldResultIsStable ==
    [][ (mode = Versus /\ stage \in MatchStages \cup {"select"}
           /\ flags.result /\ flags'.result)
        => flags'.winner = flags.winner /\ flags'.draw = flags.draw ]_guestVars

\* A match that began comes to its prompt, whatever sequence of drawn rounds it
\* goes through, unless the players soft-reset it or the program is started
\* again: drawn rounds count for both sides, so they cannot go on for ever.
MatchEnds ==
    (stage \in MatchStages) ~> (stage \in {"prompt", "leave", "title"})

=============================================================================
