----------------------------- MODULE Nameplates -----------------------------
(***************************************************************************)
(* The nameplate provider of player_nameplates.cpp and the two threads     *)
(* that share it.  The simulation thread makes the calls of the provider   *)
(* table: each first updates the provider's private state and then, under  *)
(* snapshot_mutex, writes fields of `published' one after another.  The    *)
(* renderer copies `published', field by field and under the same mutex,   *)
(* whenever it draws.                                                      *)
(*                                                                         *)
(* The game is any sequence of the scene, mode and flags in Env; the       *)
(* driver calls simulation_tick() for every simulated frame and tick() for *)
(* every presented one, and may restore an earlier or later state between  *)
(* two presented frames.                                                   *)
(***************************************************************************)
EXTENDS VersusScore, Sequences

CONSTANTS Env,        \* what guest memory may hold at a frame: records with
                      \* scene, mode and flags
          MaxFrame,   \* bound on the frame numbers
          Back        \* restores only go to earlier frame numbers

ASSUME EnvAssumption ==
    \A e \in Env : /\ e.scene \in Nat /\ e.mode \in Nat
                   /\ e.flags.result \in BOOLEAN /\ e.flags.draw \in BOOLEAN
                   /\ e.flags.winner \in Side
ASSUME FrameAssumption == MaxFrame \in Nat \ {0} /\ Back \in BOOLEAN

VARIABLES
    guest,       \* the guest memory the provider reads
    frame,       \* the number the driver passes to tick()
    phase,       \* "end" after tick(), "restored", "run" while simulating
    score, enabled, hudSeen, hudPacket, prevFrame,  \* the provider's globals
    published,   \* PsxHostNameplates, shared
    lock,        \* snapshot_mutex: "free", or who holds it
    job,         \* the simulation thread's critical sections still to do
    out, copied, \* the renderer's copy, and how many fields it has
    shown,       \* the last whole copy: what is drawn
    committed,   \* history: `published' when it was last unlocked by a writer
    hudInStay    \* history: a life HUD was drawn in this stay in a match

private == <<enabled, hudSeen, hudPacket, prevFrame>>
renders == <<out, copied, shown>>
vars == <<guest, frame, phase, score, private, published, lock, job, renders,
          committed, hudInStay>>

Fields == <<"visible", "name0", "name1", "wins0", "wins1">>
FieldSet == {Fields[i] : i \in 1 .. Len(Fields)}

\* published = {}: an empty name is a blank plate.
Empty == [f \in FieldSet |->
            IF f = "visible" THEN FALSE
            ELSE IF f \in {"name0", "name1"} THEN "blank" ELSE 0]

InMatch(g) == g.scene = MatchScene /\ ~OutsideVersus(g.scene, g.mode)

Init == /\ guest \in {e \in Env : ~InMatch(e) /\ ~e.flags.result}
        /\ frame = 0 /\ phase = "end"
        /\ score = ResetScore(FALSE)
        /\ enabled = FALSE /\ hudSeen = FALSE /\ hudPacket = FALSE
        /\ prevFrame = 0
        /\ published = Empty /\ lock = "free" /\ job = << >>
        /\ out = Empty /\ copied = 0 /\ shown = Empty
        /\ committed = Empty /\ hudInStay = FALSE

-----------------------------------------------------------------------------
(***************************************************************************)
(* The simulation thread: calls, and the critical sections they queue.     *)
(***************************************************************************)

Put(f, v) == [field |-> f, value |-> v]

\* Bug: only the first counter is published.
ScoreWritesFirst(st) == << Put("wins0", st.wins[0]) >>

\* publish_score().
ScoreWrites(st) == << Put("wins0", st.wins[0]), Put("wins1", st.wins[1]) >>

\* Bug: an empty name stays empty.
NameWritesAsGiven(left, right) == << Put("name0", left), Put("name1", right) >>

\* set_names(): an empty name becomes the default one.
NameWrites(left, right) ==
    << Put("name0", IF left = "blank" THEN "Play 1" ELSE left),
       Put("name1", IF right = "blank" THEN "Play 2" ELSE right) >>

\* Bug: the plate stays up while the names are wiped.
ClearWritesNames == << Put("name0", "blank"), Put("name1", "blank") >>

\* published = {}, field by field.
ClearWrites == [i \in 1 .. Len(Fields) |-> Put(Fields[i], Empty[Fields[i]])]

\* A call starts when the one before has returned.
Called == job = << >>
Queue(sections) == job' = sections /\ UNCHANGED <<published, lock, committed>>
NoWrites == UNCHANGED <<job, published, lock, committed>>

\* A frame is simulated: the guest runs and may draw its life HUD, which
\* observe() sees, and simulation_tick() looks at the memory it leaves.  A
\* match is not left and another one entered between two presented frames.
SimulatedFrame(e, hud) ==
    /\ Called
    /\ phase' = "run"
    /\ phase = "run" /\ InMatch(e) => InMatch(guest)
    /\ guest' = e
    /\ hud => InMatch(e)
    /\ hudPacket' = (hudPacket \/ (enabled /\ hud))
    /\ hudInStay' = ((hudInStay /\ InMatch(guest) /\ InMatch(e))
                      \/ (enabled /\ hud))
    /\ score' = StepScore(score, e.scene, e.mode, e.flags)
    /\ NoWrites
    /\ UNCHANGED <<frame, enabled, hudSeen, prevFrame, renders>>

\* Bug: the latch outlives the match.
LeavesMatchNever(f) == f < prevFrame

\* tick(frame): one presented frame.
LeavesMatch(f) == ~InMatch(guest) \/ f < prevFrame
SeesHud(f) == \/ hudSeen /\ ~LeavesMatch(f)
              \/ InMatch(guest) /\ hudPacket

Tick == /\ Called
        /\ phase = "run"
        /\ phase' = "end"
        /\ frame < MaxFrame
        /\ frame' = frame + 1
        /\ IF enabled
           THEN /\ hudSeen' = SeesHud(frame')
                /\ hudPacket' = FALSE
                /\ prevFrame' = frame'
                /\ Queue(<< <<Put("visible", InMatch(guest) /\ SeesHud(frame'))>>
                             \o ScoreWrites(score) >>)
           ELSE UNCHANGED <<hudSeen, hudPacket, prevFrame>> /\ NoWrites
        /\ UNCHANGED <<guest, score, enabled, renders, hudInStay>>

\* configure(): two critical sections, the second one in set_names().
Configure(on) ==
    /\ Called
    /\ enabled' = on
    /\ hudSeen' = FALSE /\ hudPacket' = FALSE /\ prevFrame' = 0
    /\ hudInStay' = FALSE
    /\ Queue(<< ClearWrites, NameWrites("blank", "blank") >>)
    /\ UNCHANGED <<guest, frame, phase, score, renders>>

SetNames(left, right) ==
    /\ Called
    /\ Queue(<< NameWrites(left, right) >>)
    /\ UNCHANGED <<guest, frame, phase, score, private, renders, hudInStay>>

\* reset_score() reads the flags; begin_session() does not.
NewScore(st) ==
    /\ Called
    /\ score' = st
    /\ Queue(<< ScoreWrites(st) >>)

ClearScore == /\ NewScore(ResetScore(guest.flags.result))
              /\ UNCHANGED <<guest, frame, phase, private, renders, hudInStay>>

BeginSession == /\ NewScore(ResetScore(FALSE))
                /\ UNCHANGED <<guest, frame, phase, private, renders,
                               hudInStay>>

\* The driver restores a state between two presented frames: guest memory, the
\* frame number, and the score by load_state().
Restore(e, f, st) ==
    /\ phase = "end" /\ phase' = "restored"
    /\ Back => f + 1 < prevFrame
    /\ guest' = e
    /\ frame' = f
    /\ hudInStay' = FALSE
    /\ NewScore(st)
    /\ UNCHANGED <<private, renders>>

\* std::lock_guard and the writes under it.
Acquire == /\ job # << >> /\ lock = "free"
           /\ lock' = "sim"
           /\ UNCHANGED <<guest, frame, phase, score, private, published, job,
                          renders, committed, hudInStay>>

WriteField ==
    /\ lock = "sim" /\ Head(job) # << >>
    /\ LET w == Head(Head(job))
       IN published' = [published EXCEPT ![w.field] = w.value]
    /\ job' = <<Tail(Head(job))>> \o Tail(job)
    /\ UNCHANGED <<guest, frame, phase, score, private, lock, renders,
                   committed, hudInStay>>

Release == /\ lock = "sim" /\ Head(job) = << >>
           /\ lock' = "free"
           /\ job' = Tail(job)
           /\ committed' = published
           /\ UNCHANGED <<guest, frame, phase, score, private, published,
                          renders, hudInStay>>

-----------------------------------------------------------------------------
(***************************************************************************)
(* The renderer: snapshot().                                               *)
(***************************************************************************)
NotRenderer == UNCHANGED <<guest, frame, phase, score, private, published, job,
                           committed, hudInStay>>

\* Bug: the copy is made without the lock.
SnapshotUnlocked == /\ copied = 0
                    /\ copied' = 1
                    /\ out' = [out EXCEPT ![Fields[1]] = published[Fields[1]]]
                    /\ UNCHANGED <<lock, shown>>
                    /\ NotRenderer

SnapshotBegin == /\ lock = "free" /\ copied = 0
                 /\ lock' = "render"
                 /\ copied' = 1
                 /\ out' = [out EXCEPT ![Fields[1]] = published[Fields[1]]]
                 /\ UNCHANGED shown
                 /\ NotRenderer

SnapshotField ==
    /\ copied \in 1 .. Len(Fields) - 1
    /\ copied' = copied + 1
    /\ out' = [out EXCEPT ![Fields[copied']] = published[Fields[copied']]]
    /\ UNCHANGED <<lock, shown>>
    /\ NotRenderer

SnapshotEnd == /\ copied = Len(Fields)
               /\ copied' = 0
               /\ lock' = "free"
               /\ shown' = out
               /\ UNCHANGED out
               /\ NotRenderer

-----------------------------------------------------------------------------
Calls == \/ \E e \in Env, hud \in BOOLEAN : SimulatedFrame(e, hud)
         \/ Tick
         \/ \E on \in BOOLEAN : Configure(on)
         \/ SetNames("Fred", "blank")
         \/ ClearScore \/ BeginSession
         \/ \E e \in Env, f \in 0 .. MaxFrame, w \in Wins :
               Restore(e, f, [wins |-> w, latched |-> e.flags.result])

Critical == Acquire \/ WriteField \/ Release
Renderer == SnapshotBegin \/ SnapshotField \/ SnapshotEnd

Next == Calls \/ Critical \/ Renderer

Spec == Init /\ [][Next]_vars

-----------------------------------------------------------------------------
(***************************************************************************)
(* Properties.                                                             *)
(***************************************************************************)

TypeOK == /\ guest \in Env
          /\ frame \in 0 .. MaxFrame /\ prevFrame \in 0 .. MaxFrame
          /\ phase \in {"end", "restored", "run"}
          /\ score \in Score
          /\ {enabled, hudSeen, hudPacket, hudInStay} \subseteq BOOLEAN
          /\ lock \in {"free", "sim", "render"}
          /\ \A p \in {published, out, shown, committed} :
                /\ DOMAIN p = FieldSet
                /\ p["visible"] \in BOOLEAN
                /\ p["wins0"] \in 0 .. MaxWins /\ p["wins1"] \in 0 .. MaxWins
          /\ copied \in 0 .. Len(Fields)

\* The renderer draws plates that were `published' at one moment: never half
\* of one update and half of the next, nor an update still being written
\* (snapshot() against the writers, all under snapshot_mutex).
SnapshotIsWhole == [][(copied # 0 /\ copied' = 0) => shown' = committed]_vars

\* The plate is never drawn with an empty name, not even between the two
\* critical sections of configure(), the first of which empties both.
PlatesAreNamed ==
    shown["visible"] => shown["name0"] # "blank" /\ shown["name1"] # "blank"

\* A presented frame has been handed to the renderer.
AtRest == phase = "end" /\ job = << >>

\* What is up after a presented frame is up for a reason: the option is on,
\* guest memory is in a Versus match, and the life HUD was drawn since this
\* stay in it began, or since the last restore to an earlier frame (tick()
\* and observe(), whose latches see presented frames only).
VisibleIsJustified ==
    (AtRest /\ committed["visible"]) => enabled /\ InMatch(guest) /\ hudInStay

\* A visible board shows the score the provider holds, although most calls that
\* change it do not publish it (simulation_tick) and ticks without the option
\* publish nothing.
VisibleScoreIsCurrent ==
    (AtRest /\ committed["visible"]) =>
        committed["wins0"] = score.wins[0] /\ committed["wins1"] = score.wins[1]

\* With the option off nothing stays up (configure, tick).
DisabledIsHidden == (job = << >> /\ ~enabled) => ~committed["visible"]

\* VERSUS_NAMEPLATES.md asks of a restored state that no visibility is left
\* over: the plates are up only if the HUD was drawn since the restore.
NoResidualVisibility == (AtRest /\ committed["visible"]) => hudInStay

=============================================================================
