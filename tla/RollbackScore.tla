--------------------------- MODULE RollbackScore ---------------------------
(***************************************************************************)
(* The score under rollback netplay.  Each of two peers simulates frames   *)
(* ahead of the other's inputs, guessing those it has not received; when   *)
(* an input arrives that it guessed wrong, it restores the snapshot before *)
(* that frame, the score by load_state(), and simulates the frames again   *)
(* with simulation_tick() after each one, as VERSUS_SCORE.md describes.    *)
(*                                                                         *)
(* The rollback driver itself belongs to the psxrecomp framework, which is *)
(* not part of the repository: it is modelled from the provider functions  *)
(* it calls.  The game is a function Run from guest memory and both        *)
(* players' inputs to guest memory, the same on both sides.                *)
(***************************************************************************)
EXTENDS ScoreSection

CONSTANTS Memory,        \* guest memory: records with scene, mode and flags
          Boot,          \* the memory both peers start from
          Input, Idle,   \* what a pad may hold; Idle is also the first guess
          Run,           \* the game: [Memory \X Input \X Input -> Memory]
          MaxFrames,     \* bound: frames of a session
          AloneWins,     \* bound: a game played on alone stops at this score
          Window         \* how far a peer may run ahead of the other's inputs

ASSUME GameAssumption ==
    /\ Boot \in Memory /\ Idle \in Input
    /\ Run \in [Memory \X Input \X Input -> Memory]
    /\ ~Boot.flags.result
ASSUME MemoryAssumption ==
    \A m \in Memory : m.flags.result \in BOOLEAN /\ m.flags.draw \in BOOLEAN
                        /\ m.flags.winner \in Side
\* What VersusMatch shows of the game: a new result appears in the match scene,
\* or where the score is cleared.
ASSUME ResultAssumption ==
    \A m \in Memory, i, j \in Input :
        LET n == Run[ <<m, i, j>> ]
        IN n.flags.result => \/ m.flags.result \/ n.scene = MatchScene
                             \/ OutsideVersus(n.scene, n.mode)
ASSUME BoundAssumption ==
    /\ MaxFrames \in Nat \ {0} /\ Window \in Nat \ {0} /\ AloneWins \in Nat

Peer == {0, 1}           \* peer p plays side p

VARIABLES
    inputs,    \* each peer's own inputs so far, one per new frame
    got,       \* how many of the other's inputs each peer has received
    mem,       \* guest memory of each peer
    score,     \* the provider's score of each peer
    used,      \* the other's inputs each peer's frames were simulated with
    snap,      \* snapshots: [mem, section] before frame 1, 2, ...
    online     \* FALSE once a peer has disconnected

vars == <<inputs, got, mem, score, used, snap, online>>

Frame(p) == Len(used[p])

Snapshot(m, st) == [mem |-> m, section |-> Save(st)]

Init == /\ inputs = [p \in Peer |-> << >>]
        /\ got = [p \in Peer |-> 0]
        /\ mem = [p \in Peer |-> Boot]
        /\ score = [p \in Peer |-> ResetScore(FALSE)]
        /\ used = [p \in Peer |-> << >>]
        /\ snap = [p \in Peer |-> << Snapshot(Boot, ResetScore(FALSE)) >>]
        /\ online = [p \in Peer |-> TRUE]

-----------------------------------------------------------------------------
\* The other's input for p's next frame: the real one if it has come, else the
\* last one that has.
OtherInput(p) ==
    LET q == Other(p)
    IN IF got[p] > Frame(p) THEN inputs[q][Frame(p) + 1]
       ELSE IF got[p] > 0 THEN inputs[q][got[p]] ELSE Idle

\* The memory a frame leaves when p's pad holds i and the other's j.
Played(p, i, j) == Run[ <<mem[p], IF p = 0 THEN i ELSE j,
                                  IF p = 0 THEN j ELSE i>> ]

\* simulation_tick(): after every simulated frame, simulated again or not.
TickScore(st, m) == StepScore(st, m.scene, m.mode, m.flags)

\* One frame, and the snapshot after it.
Simulate(p, i, j) ==
    LET m  == Played(p, i, j)
        st == TickScore(score[p], m)
    IN /\ mem' = [mem EXCEPT ![p] = m]
       /\ score' = [score EXCEPT ![p] = st]
       /\ used' = [used EXCEPT ![p] = Append(@, j)]
       /\ snap' = [snap EXCEPT ![p] = Append(@, Snapshot(m, st))]

\* A new frame with a new input of p's own player ...
NewFrame(p, i) == /\ online[p]
                  /\ Frame(p) = Len(inputs[p])
                  /\ Frame(p) < MaxFrames
                  /\ Frame(p) < got[p] + Window
                  /\ inputs' = [inputs EXCEPT ![p] = Append(@, i)]
                  /\ Simulate(p, i, OtherInput(p))
                  /\ UNCHANGED <<got, online>>

\* ... or one simulated again, with the input already given.
Resimulate(p) == /\ online[p]
                 /\ Frame(p) < Len(inputs[p])
                 /\ Simulate(p, inputs[p][Frame(p) + 1], OtherInput(p))
                 /\ UNCHANGED <<inputs, got, online>>

\* Bug: the snapshots of the discarded frames are kept.
RollbackKeepsSnapshots(p, n) ==
    /\ mem' = [mem EXCEPT ![p] = snap[p][n].mem]
    /\ score' = [score EXCEPT ![p] = Load(snap[p][n].section)]
    /\ used' = [used EXCEPT ![p] = SubSeq(@, 1, n - 1)]
    /\ UNCHANGED snap

\* The frames whose guess an input just received shows to be wrong begin at n:
\* the snapshot before n is restored and the later ones are dropped.
Rollback(p, n) ==
    /\ mem' = [mem EXCEPT ![p] = snap[p][n].mem]
    /\ score' = [score EXCEPT ![p] = Load(snap[p][n].section)]
    /\ used' = [used EXCEPT ![p] = SubSeq(@, 1, n - 1)]
    /\ snap' = [snap EXCEPT ![p] = SubSeq(@, 1, n)]

Receive(p) ==
    LET n == got[p] + 1
    IN /\ online[p]
       /\ n <= Len(inputs[Other(p)])
       /\ got' = [got EXCEPT ![p] = n]
       /\ IF n <= Frame(p) /\ used[p][n] # inputs[Other(p)][n]
          THEN Rollback(p, n)
          ELSE UNCHANGED <<mem, score, used, snap>>
       /\ UNCHANGED <<inputs, online>>

\* reset_score(): a result that is already there is consumed.
Forget(p, m) == score' = [score EXCEPT ![p] = ResetScore(m.flags.result)]

\* The session ends for p: its snapshots are of no more use, the score is
\* cleared and the game goes on alone.
Disconnect(p) == /\ online[p]
                 /\ online' = [online EXCEPT ![p] = FALSE]
                 /\ Forget(p, mem[p])
                 /\ got' = [got EXCEPT ![p] = 0]
                 /\ used' = [used EXCEPT ![p] = << >>]
                 /\ snap' = [snap EXCEPT ![p] = << @[1] >>]
                 /\ UNCHANGED <<inputs, mem>>

AloneFrame(p, i, j) ==
    LET m == Played(p, i, j)
    IN /\ ~online[p]
       /\ \A s \in Side : score[p].wins[s] < AloneWins
       /\ mem' = [mem EXCEPT ![p] = m]
       /\ score' = [score EXCEPT ![p] = TickScore(@, m)]
       /\ UNCHANGED <<inputs, got, used, snap, online>>

\* A manual load, out of session: load_state(), then reset_score() against the
\* flags of the memory just restored, whatever score the file held.
ManualLoad(p, m) == /\ ~online[p]
                    /\ mem' = [mem EXCEPT ![p] = m]
                    /\ Forget(p, m)
                    /\ UNCHANGED <<inputs, got, used, snap, online>>

PeerSteps(p) == \/ \E i \in Input : NewFrame(p, i)
                \/ Resimulate(p)
                \/ Receive(p)

Next == \E p \in Peer :
           \/ PeerSteps(p)
           \/ Disconnect(p)
           \/ \E i, j \in Input : AloneFrame(p, i, j)
           \/ \E m \in Memory : ManualLoad(p, m)

Spec == Init /\ [][Next]_vars

\* The frame loop runs and inputs are delivered in the end.
FairSpec == Spec /\ \A p \in Peer : WF_vars(PeerSteps(p))

-----------------------------------------------------------------------------
(***************************************************************************)
(* Properties.                                                             *)
(***************************************************************************)

TypeOK == /\ \A p \in Peer : /\ inputs[p] \in Seq(Input)
                             /\ got[p] \in 0 .. Len(inputs[Other(p)])
                             /\ mem[p] \in Memory
                             /\ score[p] \in Score
                             /\ Frame(p) <= Len(inputs[p])
                             /\ Len(snap[p]) = Frame(p) + 1
          /\ online \in [Peer -> BOOLEAN]

\* The frames both players' inputs are known for.
Known == IF Len(inputs[0]) < Len(inputs[1]) THEN Len(inputs[0])
                                            ELSE Len(inputs[1])

\* What a single machine with both pads makes of the same inputs.
Timeline[n \in 0 .. Known] ==
    IF n = 0 THEN [mem |-> Boot, score |-> ResetScore(FALSE)]
    ELSE LET before == Timeline[n - 1]
             m == Run[ <<before.mem, inputs[0][n], inputs[1][n]>> ]
         IN [mem |-> m, score |-> TickScore(before.score, m)]

\* Once the inputs of a frame have arrived, the snapshot after it is the one an
\* undisturbed game would have made, score and latch included, however often
\* the frames before were guessed wrong and counted a result that never was.
\* Both peers' snapshots of the frame are therefore equal.
ConfirmedIsTrue ==
    \A p \in Peer :
        online[p] =>
            \A n \in 0 .. got[p] :
                n <= Frame(p) =>
                    /\ snap[p][n + 1].mem = Timeline[n].mem
                    /\ snap[p][n + 1].section = Save(Timeline[n].score)

\* The latch mirrors the guest's result flag, across restored snapshots,
\* disconnections and manual loads too: that is what keeps a held result from
\* being counted again and lets the next one count (VERSUS_SCORE.md, "Rollback
\* restaura os contadores e a trava", "Reset manual consome o resultado").
LatchFollowsMemory == \A p \in Peer : score[p].latched = mem[p].flags.result

\* A session ends with both peers at the last frame with the score of the
\* undisturbed game, unless somebody disconnects: nobody waits for the other
\* for ever at the end of the window, and no wrong guess stays on the board.
SettlesOnTruth ==
    <>[]((\A p \in Peer : online[p]) =>
            /\ Known = MaxFrames
            /\ \A p \in Peer : /\ Frame(p) = MaxFrames
                               /\ score[p] = Timeline[MaxFrames].score)

=============================================================================
