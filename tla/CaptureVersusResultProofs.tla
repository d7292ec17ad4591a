----------------------- MODULE CaptureVersusResultProofs -----------------------
(***************************************************************************)
(* What a capture that calls itself complete has, whatever the game, its   *)
(* user and other observers do between two requests, for rings, pages and  *)
(* windows of any size.                                                    *)
(***************************************************************************)
EXTENDS CaptureVersusResult, FiniteSetTheorems, SequenceTheorems,
        WellFoundedInduction, TLAPS

-----------------------------------------------------------------------------
(***************************************************************************)
(* The elements of a sequence that are in a set.                           *)
(***************************************************************************)
Ascending(s) == \A i, j \in 1 .. Len(s) : i < j => s[i] < s[j]

\* Induction over the natural numbers, for a set instead of a predicate.
LEMMA SetInduction ==
    ASSUME NEW S \in SUBSET Nat, 0 \in S, \A n \in S : n + 1 \in S
    PROVE  S = Nat
<1> DEFINE R == OpToRel(<, Nat)
           T == Nat \ S
<1>1. IsWellFoundedOn(R, Nat)
  BY NatLessThanWellFounded
<1>2. SUFFICES ASSUME T # {} PROVE FALSE
  OBVIOUS
<1>3. PICK x \in T : \A y \in T : ~(<<y, x>> \in R)
  <2> HIDE DEF R, T
  <2>1. T \subseteq Nat
    BY DEF T
  <2> QED
    BY <1>1, <1>2, <2>1, WFMin
<1>4. x # 0 /\ x - 1 \in Nat /\ x - 1 \in T
  <2>1. x - 1 \in Nat
    OBVIOUS
  <2> QED
    BY <2>1, x - 1 \in S => (x - 1) + 1 \in S
<1>5. <<x - 1, x>> \in R
  BY <1>4 DEF OpToRel
<1> QED
  BY <1>3, <1>4, <1>5

\* What Those has taken over after i elements.
Taken(f, s, S, i) == IF i = 0 THEN << >>
                     ELSE IF s[i] \in S THEN Append(f[i - 1], s[i]) ELSE f[i - 1]

IsTaking(f, s, S, k) == f = [i \in 0 .. k |-> Taken(f, s, S, i)]

LEMMA TakingAt ==
    ASSUME NEW f, NEW s, NEW S, NEW k, IsTaking(f, s, S, k), NEW i \in 0 .. k
    PROVE  f[i] = Taken(f, s, S, i)
<1> DEFINE T(j) == Taken(f, s, S, j)
<1>1. f = [j \in 0 .. k |-> T(j)]
  BY DEF IsTaking
<1> HIDE DEF T
<1>2. f[i] = T(i)
  BY <1>1
<1> QED
  BY <1>2 DEF T

\* The function in the definition of Those exists.
LEMMA TakingExists ==
    ASSUME NEW s, NEW S, NEW n \in Nat
    PROVE  \E f : IsTaking(f, s, S, n)
<1> DEFINE K == {k \in Nat : \E f : IsTaking(f, s, S, k)}
<1>1. 0 \in K
  <2> DEFINE f == [i \in 0 .. 0 |-> << >>]
  <2>1. IsTaking(f, s, S, 0)
    BY DEF IsTaking, Taken
  <2> HIDE DEF f
  <2> QED
    BY <2>1
<1>2. ASSUME NEW k \in K PROVE k + 1 \in K
  <2>1. k \in Nat
    OBVIOUS
  <2>2. PICK f : IsTaking(f, s, S, k)
    OBVIOUS
  <2> HIDE DEF K
  <2> DEFINE g == [i \in 0 .. k + 1 |-> IF i = k + 1 THEN Taken(f, s, S, k + 1) ELSE f[i]]
  <2>3. /\ g = [i \in 0 .. k + 1 |-> g[i]]
        /\ g[k + 1] = Taken(f, s, S, k + 1) /\ \A i \in 0 .. k : g[i] = f[i]
    BY <2>1
  <2> HIDE DEF g
  <2>4. ASSUME NEW i \in 0 .. k + 1 PROVE g[i] = Taken(g, s, S, i)
    <3>1. i = 0 \/ (i \in 1 .. k /\ i - 1 \in 0 .. k) \/ (i = k + 1 /\ i - 1 \in 0 .. k)
      BY <2>1
    <3>2. CASE i = 0
      <4>1. g[0] = f[0] /\ f[0] = Taken(f, s, S, 0)
        BY <2>1, <2>2, <2>3, TakingAt
      <4> QED
        BY <3>2, <4>1 DEF Taken
    <3>3. CASE i \in 1 .. k /\ i - 1 \in 0 .. k
      <4>1. g[i] = f[i] /\ g[i - 1] = f[i - 1] /\ f[i] = Taken(f, s, S, i)
        <5>1. f[i] = Taken(f, s, S, i)
          <6>1. i \in 0 .. k
            BY <2>1, <3>3
          <6> QED
            BY <2>2, <6>1, TakingAt
        <5> QED
          <6>1. g[i] = f[i] /\ g[i - 1] = f[i - 1]
            <7>1. i \in 0 .. k /\ i - 1 \in 0 .. k
              BY <2>1, <3>3
            <7> QED
              BY <2>3, <7>1
          <6> QED
            BY <5>1, <6>1
      <4> QED
        BY <3>3, <4>1 DEF Taken
    <3>4. CASE i = k + 1 /\ i - 1 \in 0 .. k
      <4>1. g[i] = Taken(f, s, S, i) /\ g[i - 1] = f[i - 1]
        BY <2>3, <3>4
      <4> QED
        BY <2>1, <3>4, <4>1 DEF Taken
    <3> QED
      BY <3>1, <3>2, <3>3, <3>4
  <2>5. IsTaking(g, s, S, k + 1)
    BY <2>3, <2>4 DEF IsTaking
  <2> QED
    BY <2>1, <2>5 DEF K
<1>3. K = Nat
  <2> HIDE DEF K
  <2>1. K \in SUBSET Nat
    BY DEF K
  <2> QED
    BY <1>1, <1>2, <2>1, SetInduction
<1> QED
  BY <1>3

LEMMA ThoseIsTaken ==
    ASSUME NEW s, NEW S, Len(s) \in Nat
    PROVE  \E f : IsTaking(f, s, S, Len(s)) /\ Those(s, S) = f[Len(s)]
<1> DEFINE u == CHOOSE g : g = [i \in 0 .. Len(s) |->
                     IF i = 0 THEN << >>
                     ELSE IF s[i] \in S THEN Append(g[i - 1], s[i]) ELSE g[i - 1]]
<1>1. u = [i \in 0 .. Len(s) |->
              IF i = 0 THEN << >>
              ELSE IF s[i] \in S THEN Append(u[i - 1], s[i]) ELSE u[i - 1]]
  <2>1. PICK f : f = [i \in 0 .. Len(s) |-> Taken(f, s, S, i)]
    BY TakingExists DEF IsTaking
  <2>2. f = [i \in 0 .. Len(s) |->
                IF i = 0 THEN << >>
                ELSE IF s[i] \in S THEN Append(f[i - 1], s[i]) ELSE f[i - 1]]
    BY <2>1 DEF Taken
  <2> QED
    BY <2>2
<1>2. Those(s, S) = u[Len(s)]
  BY DEF Those
<1> QED
  BY <1>1, <1>2 DEF IsTaking, Taken

\* Those keeps the order and drops nothing that is in the set.
LEMMA ThoseProperties ==
    ASSUME NEW s \in Seq(Nat), NEW S, Ascending(s)
    PROVE  /\ Those(s, S) \in Seq(Nat) /\ Ascending(Those(s, S))
           /\ \A i \in 1 .. Len(Those(s, S)) :
                 Those(s, S)[i] \in S /\ \E j \in 1 .. Len(s) : Those(s, S)[i] = s[j]
           /\ \A j \in 1 .. Len(s) :
                 s[j] \in S => \E i \in 1 .. Len(Those(s, S)) : Those(s, S)[i] = s[j]
<1>1. Len(s) \in Nat
  OBVIOUS
<1>2. PICK f : IsTaking(f, s, S, Len(s)) /\ Those(s, S) = f[Len(s)]
  BY <1>1, ThoseIsTaken
<1> DEFINE n == Len(s)
           Good(t, k) ==
              /\ t \in Seq(Nat) /\ Ascending(t)
              /\ \A i \in 1 .. Len(t) : t[i] \in S /\ \E j \in 1 .. k : t[i] = s[j]
              /\ \A j \in 1 .. k : s[j] \in S => \E i \in 1 .. Len(t) : t[i] = s[j]
           K == {k \in Nat : k <= n => Good(f[k], k)}
<1>3. 0 \in K
  <2>1. f[0] = << >>
    BY <1>1, <1>2 DEF IsTaking, Taken
  <2>2. Good(<< >>, 0)
    BY DEF Ascending
  <2> HIDE DEF Good
  <2> QED
    BY <2>1, <2>2
<1>4. ASSUME NEW k \in K PROVE k + 1 \in K
  <2> SUFFICES ASSUME k + 1 <= n PROVE Good(f[k + 1], k + 1)
    OBVIOUS
  <2>1. k \in Nat /\ Good(f[k], k) /\ k + 1 \in 1 .. n
    <3> HIDE DEF Good
    <3> QED
      BY <1>1
  <2> DEFINE t == f[k]
             x == s[k + 1]
  <2>2. f[k + 1] = IF x \in S THEN Append(t, x) ELSE t
    <3>1. f[k + 1] = Taken(f, s, S, k + 1)
      <4>1. k + 1 \in 0 .. Len(s)
        BY <1>1, <2>1
      <4> QED
        BY <1>2, <4>1, TakingAt
    <3>2. (k + 1) - 1 = k /\ k + 1 # 0
      BY <2>1
    <3> QED
      BY <3>1, <3>2 DEF Taken
  <2>3. x \in Nat /\ \A j \in 1 .. k : s[j] < x
    <3> HIDE DEF Good, K
    <3>1. k + 1 \in 1 .. Len(s) /\ \A j \in 1 .. k : j \in 1 .. Len(s) /\ j < k + 1
      BY <1>1, <2>1
    <3> QED
      BY <3>1 DEF Ascending
  <2>4. t \in Seq(Nat) /\ Len(t) \in Nat /\ \A i \in 1 .. Len(t) : t[i] < x
    BY <2>1, <2>3
  <2> HIDE DEF t, x
  <2>5. CASE x \notin S
    <3>1. f[k + 1] = t
      BY <2>2, <2>5
    <3>2. Good(t, k + 1)
      <4>1. \A j \in 1 .. k + 1 : j \in 1 .. k \/ s[j] = x
        BY <2>1 DEF x
      <4>2. \A j \in 1 .. k : j \in 1 .. k + 1
        BY <2>1
      <4> QED
        BY <2>1, <2>5, <4>1, <4>2 DEF t
    <3> QED
      BY <3>1, <3>2
  <2>6. CASE x \in S
    <3> DEFINE u == Append(t, x)
    <3>1. /\ u \in Seq(Nat) /\ Len(u) = Len(t) + 1 /\ u[Len(t) + 1] = x
          /\ \A i \in 1 .. Len(t) : u[i] = t[i]
      BY <2>3, <2>4
    <3>2. f[k + 1] = u
      BY <2>2, <2>6
    <3> HIDE DEF u, Good, K
    <3>3. Ascending(u)
      <4> SUFFICES ASSUME NEW i \in 1 .. Len(u), NEW j \in 1 .. Len(u), i < j
                   PROVE  u[i] < u[j]
        BY DEF Ascending
      <4>1. CASE j = Len(t) + 1
        <5>1. i \in 1 .. Len(t)
          BY <2>4, <3>1, <4>1
        <5> QED
          BY <2>4, <3>1, <4>1, <5>1
      <4>2. CASE j # Len(t) + 1
        <5>1. i \in 1 .. Len(t) /\ j \in 1 .. Len(t)
          <6>1. Len(u) = Len(t) + 1 /\ Len(t) \in Nat
            BY <2>4, <3>1
          <6> QED
            BY <4>2, <6>1
        <5>2. t[i] < t[j]
          BY <2>1, <5>1 DEF Ascending, t, Good
        <5> QED
          BY <3>1, <5>1, <5>2
      <4> QED
        BY <4>1, <4>2
    <3>4. ASSUME NEW i \in 1 .. Len(u)
          PROVE  u[i] \in S /\ \E j \in 1 .. k + 1 : u[i] = s[j]
      <4>1. CASE i = Len(t) + 1
        <5>1. u[i] = s[k + 1] /\ k + 1 \in 1 .. k + 1
          BY <2>1, <3>1, <4>1 DEF x
        <5> QED
          BY <2>6, <5>1 DEF x
      <4>2. CASE i # Len(t) + 1
        <5>1. i \in 1 .. Len(t)
          BY <2>4, <3>1, <4>2
        <5>2. t[i] \in S /\ \E j \in 1 .. k : t[i] = s[j]
          BY <2>1, <5>1 DEF t, Good
        <5>3. \A j \in 1 .. k : j \in 1 .. k + 1
          BY <2>1
        <5> QED
          BY <3>1, <5>1, <5>2, <5>3
      <4> QED
        BY <4>1, <4>2
    <3>5. ASSUME NEW j \in 1 .. k + 1, s[j] \in S
          PROVE  \E i \in 1 .. Len(u) : u[i] = s[j]
      <4>1. CASE j = k + 1
        <5>1. Len(t) + 1 \in 1 .. Len(u) /\ u[Len(t) + 1] = s[j]
          BY <2>4, <3>1, <4>1 DEF x
        <5> QED
          BY <5>1
      <4>2. CASE j # k + 1
        <5>1. j \in 1 .. k
          BY <2>1, <4>2
        <5>2. PICK i \in 1 .. Len(t) : t[i] = s[j]
          BY <2>1, <3>5, <5>1 DEF t, Good
        <5>3. i \in 1 .. Len(u) /\ u[i] = s[j]
          BY <2>4, <3>1, <5>2
        <5> QED
          BY <5>3
      <4> QED
        BY <4>1, <4>2
    <3>6. Good(u, k + 1)
      BY <3>1, <3>3, <3>4, <3>5 DEF Good
    <3> QED
      BY <3>2, <3>6
  <2> QED
    BY <2>5, <2>6
<1>5. K = Nat
  <2> HIDE DEF K
  <2>1. K \in SUBSET Nat
    BY DEF K
  <2> QED
    BY <1>3, <1>4, <2>1, SetInduction
<1>6. Good(f[n], n)
  <2> HIDE DEF Good
  <2> QED
    BY <1>1, <1>5
<1> QED
  BY <1>2, <1>6

-----------------------------------------------------------------------------
(***************************************************************************)
(* The invariant.                                                          *)
(***************************************************************************)
\* The frames there are, and when each is played: those after a loaded state
\* come after all others.
FrameSet == 0 .. Frames \cup FirstFrame .. FirstFrame + Frames
Time(f) == IF f >= FirstFrame THEN f - FirstFrame ELSE Frames + 1 + f

Types == /\ slot \in {"free", "ours", "other"}
         /\ pc \in {"ranges", "arm", "stats0", "regs0", "poll", "stats", "dump",
                    "after", "finally", "disarm", "report", "done"}
         /\ report \in {"none", "error", "partial", "complete"}
         /\ covered \in BOOLEAN /\ loaded \in BOOLEAN /\ added \in BOOLEAN
         /\ closing \in BOOLEAN /\ warned \in BOOLEAN /\ error \in BOOLEAN
         /\ frame \in FrameSet /\ log \in Seq(FrameSet) /\ IsFiniteSet(missed)
         /\ startSeq \in Nat /\ lastTotal \in Nat
         /\ startFrame \in FrameSet /\ nextFrame \in FrameSet /\ endFrame \in Int
         /\ work \in Seq(Nat \X Nat) /\ entries \in Seq(Nat)

\* Records are in the order of the frames they were made in.
LogInOrder == /\ Len(log) <= MaxWrites
              /\ \A i, j \in 1 .. Len(log) : i <= j => Time(log[i]) <= Time(log[j])
              /\ \A i \in 1 .. Len(log) : Time(log[i]) <= Time(frame)

\* What holds of the collector's data whatever goes wrong.
Data == /\ startSeq <= lastTotal /\ lastTotal <= Len(log)
        /\ \A i \in 1 .. Len(entries) : entries[i] \in startSeq + 1 .. Len(log)
        /\ \A i \in 1 .. Len(work) : work[i][1] <= work[i][2]
        /\ Ascending(entries)

\* The cursor is in the same stretch of frames as the start, and not ahead of
\* the game.
Starting == pc \in {"ranges", "arm", "stats0", "regs0"}
Cursor == /\ startFrame <= nextFrame
          /\ startFrame >= FirstFrame \/ nextFrame <= Frames
          /\ Time(nextFrame) <= Time(frame)
          /\ pc = "stats" => /\ endFrame + 1 \in FrameSet
                             /\ Time(nextFrame) <= Time(endFrame + 1)
                             /\ Time(endFrame + 1) <= Time(frame)
          /\ pc \in {"dump", "after", "finally", "disarm", "report", "done"} =>
                endFrame = nextFrame - 1

\* The spans still to be dumped follow each other up to the cursor.
Spans == /\ pc # "dump" => work = << >>
         /\ \A i \in 1 .. Len(work) : /\ startFrame <= work[i][1]
                                      /\ work[i][2] < nextFrame
         /\ \A i \in 1 .. Len(work) - 1 : work[i + 1][1] = work[i][2] + 1
         /\ work # << >> => work[Len(work)][2] = nextFrame - 1

\* The frame up to which the records have been collected.
Reached == IF work = << >> THEN nextFrame ELSE work[1][1]

\* Nothing but what has been reached is collected, and without a warning all of
\* it but what the ring has overwritten.
Got == /\ \A i \in 1 .. Len(entries) : log[entries[i]] \in startFrame .. Reached - 1
       /\ ~warned => \A s \in startSeq + 1 .. Len(log) :
                        (log[s] \in startFrame .. Reached - 1) =>
                           (s <= Oldest \/ \E i \in 1 .. Len(entries) : entries[i] = s)

\* A loaded state puts the frame so far back that the next look at it raises.
Back == loaded => /\ frame <= Frames /\ nextFrame >= FirstFrame
                  /\ pc \in {"poll", "stats", "dump"}
                  /\ closing => (pc = "stats" /\ endFrame + 1 < nextFrame)

\* The range: it is ours until somebody takes it, and a write is missed only
\* once it has been taken.
Armed == /\ slot = "ours" => added \/ error
         /\ missed # {} => ~covered /\ slot # "ours"
         /\ pc \in {"ranges", "arm"} => missed = {}
         /\ pc \in {"disarm", "report", "done"} /\ ~error /\ ~warned => missed = {}
         /\ pc \in {"report", "done"} /\ ~error /\ ~warned => slot # "ours"
         /\ pc \notin {"ranges", "arm"} /\ ~error => covered \/ added
         /\ report # "none" => pc = "done"
         /\ report = "complete" => ~error /\ ~warned
         /\ pc \in {"ranges", "arm", "stats0", "regs0", "poll"} => ~closing
         /\ pc \notin {"finally", "disarm", "report", "done"} => ~error

Idle == entries = << >> /\ work = << >> /\ ~loaded

Regular == IF Starting THEN Idle ELSE Cursor /\ Spans /\ Got /\ Back

Inv == Types /\ LogInOrder /\ Data /\ Armed /\ (~error => Regular)

\* Frames and their times: one stretch before a state is loaded, one after.
LEMMA TimeFacts ==
    /\ \A f \in FrameSet : f \in Nat /\ Time(f) \in Nat
    /\ \A f \in FrameSet : f <= Frames \/ f >= FirstFrame
    /\ \A f, g \in FrameSet : Time(f) <= Time(g) =>
                                 f <= g \/ (f >= FirstFrame /\ g <= Frames)
    /\ \A f, g \in FrameSet : f <= g /\ (f >= FirstFrame \/ g <= Frames) =>
                                 Time(f) <= Time(g)
    /\ \A f, g \in FrameSet : f < g /\ (f >= FirstFrame \/ g <= Frames) =>
                                 Time(f) < Time(g)
    /\ FirstFrame \in Nat /\ Frames \in Nat /\ FirstFrame > Frames + 1
    /\ 0 \in FrameSet /\ FirstFrame \in FrameSet
BY CaptureAssumption, LoadAssumption DEF FrameSet, Time

LEMMA OldestFacts ==
    ASSUME Types
    PROVE  Oldest \in 0 .. Len(log) /\ Total = Len(log)
BY CaptureAssumption DEF Types, Oldest, Total

LEMMA InitInv == Init => Inv
<1> SUFFICES ASSUME Init PROVE Inv
  OBVIOUS
<1>1. FirstFrame \in FrameSet /\ 0 \in FrameSet
  BY TimeFacts
<1>2. IsFiniteSet(missed)
  BY FS_EmptySet DEF Init
<1>3. log = << >> /\ work = << >> /\ entries = << >>
  BY DEF Init
<1>4. log \in Seq(FrameSet) /\ work \in Seq(Nat \X Nat) /\ entries \in Seq(Nat)
      /\ Len(log) = 0 /\ Len(work) = 0 /\ Len(entries) = 0
  BY <1>3
<1>5. Types
  <2>1. /\ slot = "free" /\ pc = "ranges" /\ report = "none"
        /\ covered \in BOOLEAN /\ loaded = FALSE /\ added = FALSE
        /\ closing = FALSE /\ warned = FALSE /\ error = FALSE
        /\ frame = FirstFrame /\ startSeq = 0 /\ lastTotal = 0
        /\ startFrame = 0 /\ nextFrame = 0 /\ endFrame = 0
    BY DEF Init
  <2>2. /\ frame \in FrameSet /\ startFrame \in FrameSet /\ nextFrame \in FrameSet
        /\ startSeq \in Nat /\ lastTotal \in Nat /\ endFrame \in Int
    BY <1>1, <2>1
  <2>3. /\ slot \in {"free", "ours", "other"}
        /\ pc \in {"ranges", "arm", "stats0", "regs0", "poll", "stats", "dump",
                  "after", "finally", "disarm", "report", "done"}
        /\ report \in {"none", "error", "partial", "complete"}
    BY <2>1
  <2>4. /\ covered \in BOOLEAN /\ loaded \in BOOLEAN /\ added \in BOOLEAN
        /\ closing \in BOOLEAN /\ warned \in BOOLEAN /\ error \in BOOLEAN
    BY <2>1
  <2> QED
    BY <1>2, <1>4, <2>2, <2>3, <2>4 DEF Types
<1>6. LogInOrder
  BY <1>4, CaptureAssumption DEF LogInOrder
<1>7. Data
  BY <1>4 DEF Init, Data, Ascending
<1>8. Armed
  BY DEF Init, Armed
<1>9. Regular
  BY <1>3 DEF Init, Regular, Starting, Idle
<1> QED
  BY <1>5, <1>6, <1>7, <1>8, <1>9 DEF Inv

-----------------------------------------------------------------------------
(***************************************************************************)
(* The game, its user and the other observer.                              *)
(***************************************************************************)
\* A frame that is played now is not among those that were reached.
LEMMA NowIsBeyond ==
    ASSUME Types, Data, Cursor, Spans
    PROVE  /\ Reached <= nextFrame /\ Reached \in Nat
           /\ frame \notin startFrame .. Reached - 1
<1>1. Reached \in Nat /\ Reached <= nextFrame /\ nextFrame \in Nat
  <2>1. CASE work = << >>
    BY <2>1, TimeFacts DEF Reached, Types
  <2>2. CASE work # << >>
    <3>1. 1 \in 1 .. Len(work) /\ work[1] \in Nat \X Nat
      BY <2>2 DEF Types
    <3>2. work[1][2] < nextFrame /\ nextFrame \in Nat
      BY <3>1, TimeFacts DEF Spans, Types
    <3>3. work[1][1] <= work[1][2]
      BY <3>1 DEF Data
    <3> QED
      BY <2>2, <3>1, <3>2, <3>3 DEF Reached
  <2> QED
    BY <2>1, <2>2
<1>2. nextFrame <= frame \/ (nextFrame >= FirstFrame /\ frame <= Frames)
  BY TimeFacts DEF Types, Cursor
<1>3. CASE nextFrame <= frame
  BY <1>1, <1>3, TimeFacts DEF Types
<1>4. CASE nextFrame >= FirstFrame /\ frame <= Frames
  <2>1. startFrame >= FirstFrame
    BY <1>4, TimeFacts DEF Cursor, Types
  <2> QED
    BY <1>1, <1>4, <2>1, TimeFacts DEF Types
<1> QED
  BY <1>1, <1>2, <1>3, <1>4

LEMMA WriteInv == ASSUME Inv, Write PROVE Inv'
<1>1. /\ UNCHANGED <<frame, slot, covered, loaded, pc, added, startSeq, startFrame,
                     nextFrame, lastTotal, endFrame, closing, work, entries,
                     warned, error, report>>
  BY DEF Write, collector, cursor, span, result
<1>2. Types /\ LogInOrder /\ Data /\ Armed
  BY DEF Inv
<1>3. CASE log' = log /\ ~Recording
  <2>1. missed' = missed \/ (missed' = missed \cup {frame} /\ Collecting)
    BY <1>3 DEF Write
  <2>2. IsFiniteSet(missed')
    <3>1. IsFiniteSet(missed)
      BY <1>2 DEF Types
    <3>2. IsFiniteSet(missed \cup {frame})
      BY <3>1, FS_AddElement
    <3> QED
      BY <2>1, <3>1, <3>2
  <2>3. Types' /\ LogInOrder' /\ Data'
    BY <1>1, <1>2, <1>3, <2>2 DEF Types, LogInOrder, Data
  <2>4. Armed'
    BY <1>1, <1>2, <1>3, <2>1 DEF Armed, Recording, Collecting
  <2>5. ~error => Regular'
    BY <1>1, <1>3 DEF Inv, Regular, Starting, Idle, Cursor, Spans, Got, Back, Reached,
       Oldest, Total
  <2> QED
    BY <1>1, <2>3, <2>4, <2>5 DEF Inv
<1>4. CASE log' = Append(log, frame) /\ Recording
  <2>1. missed' = missed /\ Len(log) + Cardinality(missed) < MaxWrites
    BY <1>4 DEF Write
  <2>2. /\ frame \in FrameSet /\ log \in Seq(FrameSet) /\ Len(log) \in Nat
        /\ log' \in Seq(FrameSet) /\ Len(log') = Len(log) + 1
        /\ log'[Len(log) + 1] = frame
        /\ \A i \in 1 .. Len(log) : log'[i] = log[i] /\ i \in 1 .. Len(log')
    BY <1>2, <1>4 DEF Types
  <2>3. Types'
    BY <1>1, <1>2, <2>1, <2>2 DEF Types
  <2>4. LogInOrder'
    <3>1. Len(log') <= MaxWrites
      <4>1. Cardinality(missed) \in Nat
        BY <1>2, FS_CardinalityType DEF Types
      <4> QED
        BY <2>1, <2>2, <4>1, CaptureAssumption
    <3>2. \A i \in 1 .. Len(log') : i \in 1 .. Len(log) \/ i = Len(log) + 1
      BY <2>2
    <3>3. \A i \in 1 .. Len(log') : Time(log'[i]) <= Time(frame)
      <4>1. Time(frame) \in Nat
        BY <2>2, TimeFacts
      <4> QED
        BY <1>2, <2>2, <3>2, <4>1 DEF LogInOrder
    <3>4. ASSUME NEW i \in 1 .. Len(log'), NEW j \in 1 .. Len(log'), i <= j
          PROVE  Time(log'[i]) <= Time(log'[j])
      <4>1. CASE j = Len(log) + 1
        BY <2>2, <3>3, <4>1
      <4>2. CASE j # Len(log) + 1
        <5>1. i \in 1 .. Len(log) /\ j \in 1 .. Len(log)
          BY <2>2, <3>2, <3>4, <4>2
        <5> QED
          BY <1>2, <2>2, <3>4, <5>1 DEF LogInOrder
      <4> QED
        BY <4>1, <4>2
    <3> QED
      BY <1>1, <3>1, <3>3, <3>4 DEF LogInOrder, Time
  <2>5. Data'
    <3>1. startSeq \in Nat /\ lastTotal \in Nat
      BY <1>2 DEF Types
    <3>2. \A i \in 1 .. Len(entries) : entries[i] \in startSeq + 1 .. Len(log')
      BY <1>2, <2>2, <3>1 DEF Data
    <3> QED
      BY <1>1, <1>2, <2>2, <3>1, <3>2 DEF Data
  <2>6. Armed'
    BY <1>1, <1>2, <2>1 DEF Armed
  <2>7. ASSUME ~error PROVE Regular'
    <3>1. CASE Starting
      BY <1>1, <2>7, <3>1 DEF Inv, Regular, Starting, Idle
    <3>2. CASE ~Starting
      <4>1. Cursor /\ Spans /\ Got /\ Back
        BY <2>7, <3>2 DEF Inv, Regular
      <4>2. Cursor' /\ Spans' /\ Back' /\ Reached' = Reached
        BY <1>1, <4>1 DEF Cursor, Spans, Back, Reached, Time
      <4>3. frame \notin startFrame .. Reached - 1
        BY <1>2, <4>1, NowIsBeyond
      <4>4. Oldest \in Nat /\ Oldest' \in Nat /\ Oldest <= Oldest'
        BY <2>2, CaptureAssumption DEF Oldest, Total
      <4>5. startSeq \in Nat
        BY <1>2 DEF Types
      <4>6. Got'
        <5>1. \A i \in 1 .. Len(entries) : log'[entries[i]] = log[entries[i]]
          <6>1. \A i \in 1 .. Len(entries) : entries[i] \in 1 .. Len(log)
            BY <1>2, <2>2, <4>5 DEF Data
          <6> QED
            BY <2>2, <6>1
        <5>2. ASSUME ~warned, NEW s \in startSeq + 1 .. Len(log'),
                     log'[s] \in startFrame .. Reached - 1
              PROVE  s <= Oldest' \/ \E i \in 1 .. Len(entries) : entries[i] = s
          <6>1. s # Len(log) + 1
            BY <2>2, <4>3, <5>2
          <6>2. s \in startSeq + 1 .. Len(log) /\ s \in 1 .. Len(log)
            BY <2>2, <4>5, <6>1
          <6>3. log'[s] = log[s]
            BY <2>2, <6>2
          <6>4. s <= Oldest \/ \E i \in 1 .. Len(entries) : entries[i] = s
            BY <4>1, <5>2, <6>2, <6>3 DEF Got
          <6> QED
            BY <4>4, <6>2, <6>4
        <5>3. \A i \in 1 .. Len(entries) : log[entries[i]] \in startFrame .. Reached - 1
          BY <4>1 DEF Got
        <5> QED
          BY <1>1, <4>2, <5>1, <5>2, <5>3 DEF Got
      <4> QED
        BY <1>1, <3>2, <4>2, <4>6 DEF Regular, Starting
    <3> QED
      BY <3>1, <3>2
  <2> QED
    BY <1>1, <2>3, <2>4, <2>5, <2>6, <2>7 DEF Inv
<1> QED
  BY <1>3, <1>4 DEF Write

\* Time goes on, also where the frame number goes back.
LEMMA FrameMoves ==
    ASSUME Inv, frame' \in FrameSet, Time(frame) <= Time(frame'),
           UNCHANGED <<log, slot, covered, missed, pc, added, startSeq, startFrame,
                       nextFrame, lastTotal, endFrame, closing, work, entries,
                       warned, error, report>>,
           loaded' \in BOOLEAN,
           ~error /\ Starting => ~loaded',
           ~error /\ ~Starting => Back'
    PROVE  Inv'
<1>1. Types /\ LogInOrder /\ Data /\ Armed
  BY DEF Inv
<1>2. Types'
  BY <1>1 DEF Types
<1>3. Time(frame) \in Nat /\ Time(frame') \in Nat
  BY <1>1, <1>2, TimeFacts DEF Types
<1>4. LogInOrder'
  <2>1. \A i \in 1 .. Len(log) : Time(log[i]) <= Time(frame) /\ Time(log[i]) \in Nat
    <3>1. \A i \in 1 .. Len(log) : log[i] \in FrameSet
      BY <1>1 DEF Types
    <3> QED
      BY <1>1, <3>1, TimeFacts DEF LogInOrder
  <2>2. \A i \in 1 .. Len(log) : Time(log[i]) <= Time(frame')
    BY <1>3, <2>1
  <2> QED
    BY <1>1, <2>2 DEF LogInOrder, Time
<1>5. Data' /\ Armed'
  BY <1>1 DEF Data, Armed
<1>6. ASSUME ~error PROVE Regular'
  <2>1. CASE Starting
    BY <1>6, <2>1 DEF Inv, Regular, Starting, Idle
  <2>2. CASE ~Starting
    <3>1. Cursor /\ Spans /\ Got
      BY <1>6, <2>2 DEF Inv, Regular
    <3>2. Spans' /\ Got'
      BY <3>1 DEF Spans, Got, Reached, Oldest, Total
    <3>3. Cursor'
      <4>1. Time(nextFrame) \in Nat
        BY <1>1, TimeFacts DEF Types
      <4>2. Time(nextFrame) <= Time(frame')
        BY <1>3, <3>1, <4>1 DEF Cursor
      <4>3. pc = "stats" => Time(endFrame + 1) <= Time(frame')
        <5>1. pc = "stats" => Time(endFrame + 1) \in Nat /\ Time(endFrame + 1) <= Time(frame)
          BY <3>1, TimeFacts DEF Cursor
        <5> QED
          BY <1>3, <5>1
      <4> QED
        BY <3>1, <4>2, <4>3 DEF Cursor, Time
    <3> QED
      BY <1>6, <2>2, <3>2, <3>3 DEF Regular, Starting
  <2> QED
    BY <2>1, <2>2
<1> QED
  BY <1>2, <1>4, <1>5, <1>6 DEF Inv

LEMMA NextFrameInv == ASSUME Inv, NextFrame PROVE Inv'
<1>1. /\ frame \notin {Frames, FirstFrame + Frames} /\ frame' = frame + 1
      /\ UNCHANGED <<log, slot, covered, missed, loaded, pc, added, startSeq,
                     startFrame, nextFrame, lastTotal, endFrame, closing, work,
                     entries, warned, error, report>>
  BY DEF NextFrame, collector, cursor, span, result
<1>2. Types
  BY DEF Inv
<1>3. /\ frame' \in FrameSet /\ Time(frame) <= Time(frame')
      /\ frame <= Frames => frame' <= Frames
  <2>1. frame \in FrameSet /\ FirstFrame \in Nat /\ Frames \in Nat
        /\ FirstFrame > Frames + 1
    BY <1>2, TimeFacts DEF Types
  <2> QED
    BY <1>1, <2>1 DEF FrameSet, Time
<1>4. ~error /\ Starting => ~loaded'
  BY <1>1 DEF Inv, Regular, Idle
<1>5. ~error /\ ~Starting => Back'
  BY <1>1, <1>3 DEF Inv, Regular, Back
<1> QED
  BY <1>1, <1>2, <1>3, <1>4, <1>5, FrameMoves DEF Types

LEMMA LoadStateInv == ASSUME Inv, LoadState PROVE Inv'
<1>1. /\ frame >= FirstFrame /\ frame' = 0
      /\ loaded' = (loaded \/ (Collecting /\ ~closing))
      /\ UNCHANGED <<log, slot, covered, missed, pc, added, startSeq,
                     startFrame, nextFrame, lastTotal, endFrame, closing, work,
                     entries, warned, error, report>>
  BY DEF LoadState, collector, cursor, span, result
<1>2. Types
  BY DEF Inv
<1>3. frame' \in FrameSet /\ Time(frame) <= Time(frame') /\ frame' <= Frames
  BY <1>1, <1>2, CaptureAssumption, LoadAssumption DEF Types, FrameSet, Time
<1>4. loaded' \in BOOLEAN
  BY <1>1, <1>2 DEF Types
<1>5. ~error /\ Starting => ~loaded'
  BY <1>1 DEF Inv, Regular, Idle, Starting, Collecting
<1>6. ASSUME ~error, ~Starting PROVE Back'
  <2>1. Cursor /\ Back
    BY <1>6 DEF Inv, Regular
  <2>2. ~loaded
    BY <1>1, <1>2, <2>1, TimeFacts DEF Back, Types
  <2>3. nextFrame >= FirstFrame
    <3>1. Time(nextFrame) <= Time(frame)
      BY <2>1 DEF Cursor
    <3> QED
      BY <1>1, <1>2, <3>1, CaptureAssumption, LoadAssumption
         DEF Types, FrameSet, Time
  <2> QED
    BY <1>1, <1>3, <2>2, <2>3 DEF Back, Collecting
<1> QED
  BY <1>1, <1>3, <1>4, <1>5, <1>6, FrameMoves

LEMMA MeddleInv == ASSUME Inv, NEW r \in {"free", "other"}, Meddle(r) PROVE Inv'
<1>1. /\ ~covered /\ slot' = r
      /\ UNCHANGED <<frame, log, covered, missed, loaded, pc, added, startSeq,
                     startFrame, nextFrame, lastTotal, endFrame, closing, work,
                     entries, warned, error, report>>
  BY DEF Meddle, collector, cursor, span, result
<1>2. Types' /\ LogInOrder' /\ Data'
  BY <1>1 DEF Inv, Types, LogInOrder, Data, Time
<1>3. Armed'
  BY <1>1 DEF Inv, Armed
<1>4. ~error => Regular'
  BY <1>1 DEF Inv, Regular, Starting, Idle, Cursor, Spans, Got, Back, Reached,
     Oldest, Total, Time
<1> QED
  BY <1>1, <1>2, <1>3, <1>4 DEF Inv

-----------------------------------------------------------------------------
(***************************************************************************)
(* The collector.                                                          *)
(***************************************************************************)
\* A request that fails leaves the data as they are.
LEMMA RaiseInv ==
    ASSUME Inv, pc' = "finally", error' = TRUE, slot' \in {slot, "ours"},
           slot' = slot \/ missed = {},
           UNCHANGED <<frame, log, covered, missed, loaded, added, startSeq,
                       startFrame, nextFrame, lastTotal, endFrame, closing, work,
                       entries, warned, report>>,
           report = "none"
    PROVE  Inv'
<1>1. Types' /\ LogInOrder' /\ Data'
  BY DEF Inv, Types, LogInOrder, Data, Time
<1>2. Armed'
  BY DEF Inv, Armed
<1> QED
  BY <1>1, <1>2 DEF Inv

LEMMA UnansweredInv == ASSUME Inv, Unanswered PROVE Inv'
<1>1. /\ pc \in {"ranges", "arm", "stats0", "regs0", "poll", "stats", "dump", "after"}
      /\ pc' = "finally" /\ error' = TRUE
      /\ UNCHANGED <<frame, log, slot, covered, missed, loaded, added, startSeq,
                     startFrame, nextFrame, lastTotal, endFrame, closing, work,
                     entries, warned, report>>
  BY DEF Unanswered, server, cursor, span
<1>2. report = "none"
  BY <1>1 DEF Inv, Armed
<1> QED
  BY <1>1, <1>2, RaiseInv

LEMMA RangesInv == ASSUME Inv, Ranges PROVE Inv'
<1>1. /\ pc = "ranges" /\ pc' = IF covered THEN "stats0" ELSE "arm"
      /\ UNCHANGED <<frame, log, slot, covered, missed, loaded, added, startSeq,
                     startFrame, nextFrame, lastTotal, endFrame, closing, work,
                     entries, warned, error, report>>
  BY DEF Ranges, server, cursor, span, result
<1>2. pc' \in {"stats0", "arm"} /\ (pc' = "stats0" => covered)
  BY <1>1
<1>3. Types' /\ LogInOrder' /\ Data'
  BY <1>1, <1>2 DEF Inv, Types, LogInOrder, Data, Time
<1>4. Armed'
  BY <1>1, <1>2 DEF Inv, Armed
<1>5. ~error => Regular'
  BY <1>1, <1>2 DEF Inv, Regular, Starting, Idle
<1> QED
  BY <1>1, <1>3, <1>4, <1>5 DEF Inv

LEMMA ArmInv == ASSUME Inv, Arm PROVE Inv'
<1>1. /\ pc = "arm" /\ slot' = "ours"
      /\ UNCHANGED <<frame, log, covered, missed, loaded, startSeq,
                     startFrame, nextFrame, lastTotal, endFrame, closing, work,
                     entries, warned, report>>
  BY DEF Arm, cursor, span
<1>2. missed = {} /\ report = "none" /\ ~closing
  BY <1>1 DEF Inv, Armed
<1>3. CASE pc' = "stats0" /\ added' = TRUE /\ UNCHANGED error
  <2>1. Types' /\ LogInOrder' /\ Data'
    BY <1>1, <1>3 DEF Inv, Types, LogInOrder, Data, Time
  <2>2. Armed'
    BY <1>1, <1>2, <1>3 DEF Inv, Armed
  <2>3. ~error => Regular'
    BY <1>1, <1>3 DEF Inv, Regular, Starting, Idle
  <2> QED
    BY <1>3, <2>1, <2>2, <2>3 DEF Inv
<1>4. CASE pc' = "finally" /\ error' = TRUE /\ UNCHANGED added
  BY <1>1, <1>2, <1>4, RaiseInv
<1> QED
  BY <1>3, <1>4 DEF Arm

LEMMA StartStatsInv == ASSUME Inv, StartStats PROVE Inv'
<1>1. /\ pc = "stats0" /\ pc' = "regs0" /\ startSeq' = Len(log) /\ lastTotal' = Len(log)
      /\ UNCHANGED <<frame, log, slot, covered, missed, loaded, added,
                     startFrame, nextFrame, endFrame, closing, work,
                     entries, warned, error, report>>
  BY DEF StartStats, server, span, result, Total
<1>2. Types' /\ LogInOrder'
  <2>1. Len(log) \in Nat
    BY DEF Inv, Types
  <2> QED
    BY <1>1, <2>1 DEF Inv, Types, LogInOrder, Time
<1>3. Armed'
  BY <1>1 DEF Inv, Armed
<1>4. Idle \/ error
  BY <1>1 DEF Inv, Regular, Starting
<1>5. ~error => Regular'
  BY <1>1, <1>4 DEF Regular, Starting, Idle
<1>6. ~error
  BY <1>1 DEF Inv, Armed, Types
<1>7. Data'
  <2>1. entries = << >> /\ work = << >>
    BY <1>4, <1>6 DEF Idle
  <2>2. Len(entries) = 0 /\ Len(work) = 0
    BY <2>1
  <2>3. startSeq' <= lastTotal' /\ lastTotal' <= Len(log')
    BY <1>1 DEF Inv, Types
  <2> QED
    BY <1>1, <2>2, <2>3 DEF Data, Ascending
<1> QED
  BY <1>1, <1>2, <1>3, <1>5, <1>7 DEF Inv
LEMMA StartFrameInv == ASSUME Inv, StartFrame PROVE Inv'
<1>1. /\ pc = "regs0" /\ pc' = "poll" /\ startFrame' = frame /\ nextFrame' = frame
      /\ UNCHANGED <<frame, log, slot, covered, missed, loaded, added, startSeq,
                     lastTotal, endFrame, closing, work, entries, warned, error,
                     report>>
  BY DEF StartFrame, server, span, result
<1>2. Types' /\ LogInOrder' /\ Data'
  BY <1>1 DEF Inv, Types, LogInOrder, Data, Time
<1>3. Armed'
  BY <1>1 DEF Inv, Armed
<1>4. ASSUME ~error PROVE Regular'
  <2>1. entries = << >> /\ work = << >> /\ ~loaded
    BY <1>1, <1>4 DEF Inv, Regular, Starting, Idle
  <2>2. frame \in FrameSet /\ frame \in Nat /\ Time(frame) \in Nat
    BY TimeFacts DEF Inv, Types
  <2>3. Cursor'
    BY <1>1, <2>2, TimeFacts DEF Cursor, Time
  <2>4. Spans' /\ Back' /\ Reached' = frame
    BY <1>1, <2>1 DEF Spans, Back, Reached
  <2>5. Got'
    BY <1>1, <2>1, <2>2, <2>4 DEF Got
  <2> QED
    BY <1>1, <2>3, <2>4, <2>5 DEF Regular, Starting
<1> QED
  BY <1>1, <1>2, <1>3, <1>4 DEF Inv

LEMMA PollInv == ASSUME Inv, NEW last \in BOOLEAN, Poll(last) PROVE Inv'
<1>1. /\ pc = "poll" /\ pc' = "stats" /\ closing' = last /\ endFrame' = frame - 1
      /\ warned' = (warned \/ (last /\ frame <= startFrame))
      /\ UNCHANGED <<frame, log, slot, covered, missed, loaded, added, startSeq,
                     startFrame, nextFrame, lastTotal, work, entries, error, report>>
  BY DEF Poll, server, cursor, LastComplete
<1>2. frame \in FrameSet /\ frame \in Nat /\ Time(frame) \in Nat /\ endFrame' + 1 = frame
  BY <1>1, TimeFacts DEF Inv, Types
<1>3. Types' /\ LogInOrder' /\ Data'
  <2>1. warned' \in BOOLEAN
    BY <1>1 DEF Inv, Types
  <2>2. endFrame' \in Int
    BY <1>1, <1>2
  <2>3. Types'
    BY <1>1, <2>1, <2>2 DEF Inv, Types
  <2>4. LogInOrder' /\ Data'
    BY <1>1 DEF Inv, LogInOrder, Data, Time
  <2> QED
    BY <2>3, <2>4
<1>4. Armed'
  BY <1>1 DEF Inv, Armed
<1>5. ASSUME ~error PROVE Regular'
  <2>1. Cursor /\ Spans /\ Got /\ Back
    BY <1>1, <1>5 DEF Inv, Regular, Starting
  <2>2. Cursor'
    BY <1>1, <1>2, <2>1 DEF Cursor, Time
  <2>3. Spans' /\ Reached' = Reached
    BY <1>1, <2>1 DEF Spans, Reached
  <2>4. Got'
    BY <1>1, <2>1, <2>3 DEF Got, Oldest, Total
  <2>5. Back'
    <3>1. nextFrame \in Nat
      BY TimeFacts DEF Inv, Types
    <3> QED
      BY <1>1, <1>2, <2>1, <3>1, TimeFacts DEF Back
  <2> QED
    BY <1>1, <2>2, <2>3, <2>4, <2>5 DEF Regular, Starting
<1> QED
  BY <1>1, <1>3, <1>4, <1>5 DEF Inv

LEMMA StatsInv == ASSUME Inv, Stats PROVE Inv'
<1>1. /\ pc = "stats" /\ report = "none" /\ ~error
      /\ UNCHANGED <<frame, log, slot, covered, missed, loaded, added, report>>
  BY DEF Stats, server, Inv, Armed
<1>2. CASE Raise
  <2>1. /\ pc' = "finally" /\ error' = TRUE
        /\ UNCHANGED <<startSeq, startFrame, nextFrame, lastTotal, endFrame, closing,
                       work, entries, warned>>
    BY <1>2 DEF Raise, cursor, span
  <2> QED
    BY <1>1, <2>1, RaiseInv
<1>3. CASE ~(Total < lastTotal \/ FrameWentBack(endFrame))
  <2>1. /\ pc' = "dump" /\ warned' = (warned \/ Overrun)
        /\ work' = IF endFrame < nextFrame THEN << >> ELSE << <<nextFrame, endFrame>> >>
        /\ nextFrame' = endFrame + 1 /\ lastTotal' = Len(log)
        /\ UNCHANGED <<startSeq, startFrame, endFrame, closing, entries, error>>
    BY <1>3 DEF Stats, After, Total
  <2>2. Types /\ LogInOrder /\ Data /\ Armed
    BY DEF Inv
  <2>3. Cursor /\ Spans /\ Got /\ Back
    BY <1>1 DEF Inv, Regular, Starting
  <2>4. /\ Len(log) \in Nat /\ lastTotal \in Nat /\ startSeq \in Nat
        /\ lastTotal <= Len(log) /\ endFrame \in Int
        /\ nextFrame \in FrameSet /\ nextFrame \in Nat
        /\ startFrame \in FrameSet /\ startFrame \in Nat
        /\ endFrame + 1 \in FrameSet /\ nextFrame <= endFrame + 1
    BY <1>1, <1>3, <2>2, <2>3, TimeFacts DEF Types, Cursor, FrameWentBack, Total
  <2>5. \/ endFrame < nextFrame /\ work' = << >>
        \/ /\ endFrame \in Nat /\ nextFrame <= endFrame
           /\ work' = << <<nextFrame, endFrame>> >>
    BY <2>1, <2>4
  <2>6. /\ work' \in Seq(Nat \X Nat) /\ Len(work') \in {0, 1}
        /\ \A i \in 1 .. Len(work') :
              i = 1 /\ work'[i][1] = nextFrame /\ work'[i][2] = endFrame
        /\ work' # << >> => Len(work') = 1 /\ nextFrame <= endFrame
    <3>1. CASE endFrame < nextFrame /\ work' = << >>
      BY <3>1
    <3>2. CASE endFrame \in Nat /\ nextFrame <= endFrame
               /\ work' = << <<nextFrame, endFrame>> >>
      BY <2>4, <3>2
    <3> QED
      BY <2>5, <3>1, <3>2
  <2>7. Types' /\ LogInOrder' /\ Data' /\ Armed'
    <3>1. warned' \in BOOLEAN
      BY <2>1, <2>2 DEF Types
    <3>2. Types'
      BY <1>1, <2>1, <2>2, <2>4, <2>6, <3>1 DEF Types
    <3>3. LogInOrder' /\ Armed'
      BY <1>1, <2>1, <2>2 DEF LogInOrder, Armed, Time
    <3>4. Data'
      BY <1>1, <2>1, <2>2, <2>4, <2>6 DEF Data
    <3> QED
      BY <3>2, <3>3, <3>4
  <2>8. Cursor'
    <3>1. startFrame >= FirstFrame \/ endFrame + 1 <= Frames
      <4>1. Time(nextFrame) <= Time(endFrame + 1)
        BY <1>1, <2>3 DEF Cursor
      <4>2. nextFrame <= Frames => endFrame + 1 <= Frames
        BY <2>4, <4>1, CaptureAssumption, LoadAssumption DEF Time, FrameSet
      <4> QED
        BY <2>3, <4>2 DEF Cursor
    <3> QED
      BY <1>1, <2>1, <2>3, <2>4, <3>1 DEF Cursor, Time
  <2>9. Spans'
    BY <1>1, <2>1, <2>3, <2>4, <2>6 DEF Spans, Cursor
  <2>10. Reached' = Reached
    <3>1. Reached = nextFrame
      BY <1>1, <2>3 DEF Spans, Reached
    <3>2. CASE work' = << >>
      BY <2>1, <2>4, <2>5, <3>1, <3>2 DEF Reached
    <3>3. CASE work' # << >>
      BY <2>6, <3>1, <3>3 DEF Reached
    <3> QED
      BY <3>2, <3>3
  <2>11. Got'
    BY <1>1, <2>1, <2>3, <2>10 DEF Got, Oldest, Total
  <2>12. Back'
    BY <1>1, <2>1, <2>3, <2>4, TimeFacts DEF Back
  <2> QED
    BY <1>1, <2>1, <2>7, <2>8, <2>9, <2>11, <2>12 DEF Inv, Regular, Starting
<1> QED
  BY <1>2, <1>3 DEF Stats
\* A page has records of its frames only, in their order, and unless it is full
\* all of them that are in the ring.
LEMMA PageFacts ==
    ASSUME Types, NEW lo \in Nat, NEW hi \in Nat
    PROVE  /\ Page(lo, hi) \in Seq(Nat) /\ Ascending(Page(lo, hi))
           /\ \A i \in 1 .. Len(Page(lo, hi)) :
                 Page(lo, hi)[i] \in 1 .. Len(log) /\ log[Page(lo, hi)[i]] \in lo .. hi
           /\ Len(Page(lo, hi)) # PageSize =>
                 \A s \in Oldest + 1 .. Len(log) : log[s] \in lo .. hi =>
                    \E i \in 1 .. Len(Page(lo, hi)) : Page(lo, hi)[i] = s
<1> DEFINE ring == [i \in 1 .. Total - Oldest |-> Oldest + i]
           those == {s \in 1 .. Total : log[s] \in lo .. hi}
           all == InRing(lo, hi)
           page == Page(lo, hi)
<1>1. /\ Total = Len(log) /\ Total \in Nat /\ Oldest \in Nat /\ Oldest <= Total
      /\ Total - Oldest \in Nat /\ PageSize \in Nat /\ PageSize >= 1
  BY CaptureAssumption DEF Types, Total, Oldest
<1>2. /\ ring \in Seq(Nat) /\ Len(ring) = Total - Oldest
      /\ \A i \in 1 .. Len(ring) : ring[i] = Oldest + i
  BY <1>1
<1>3. all = Those(ring, those)
  BY DEF InRing
<1> HIDE DEF ring, those, all
<1>4. Ascending(ring)
  BY <1>1, <1>2 DEF Ascending
<1>5. /\ all \in Seq(Nat) /\ Ascending(all)
      /\ \A i \in 1 .. Len(all) : all[i] \in those
      /\ \A j \in 1 .. Len(ring) :
            ring[j] \in those => \E i \in 1 .. Len(all) : all[i] = ring[j]
  <2>1. ring \in Seq(Nat) /\ Ascending(ring)
    BY <1>2, <1>4
  <2>2. /\ Those(ring, those) \in Seq(Nat) /\ Ascending(Those(ring, those))
        /\ \A i \in 1 .. Len(Those(ring, those)) :
              Those(ring, those)[i] \in those /\ \E j \in 1 .. Len(ring) : Those(ring, those)[i] = ring[j]
        /\ \A j \in 1 .. Len(ring) :
              ring[j] \in those => \E i \in 1 .. Len(Those(ring, those)) : Those(ring, those)[i] = ring[j]
    BY <2>1, ThoseProperties
  <2> QED
    BY <1>3, <2>2
<1>6. page = IF Len(all) <= PageSize THEN all ELSE SubSeq(all, 1, PageSize)
  BY DEF Page, all
<1> HIDE DEF page
<1>7. /\ page \in Seq(Nat) /\ Len(page) <= Len(all)
      /\ \A i \in 1 .. Len(page) : page[i] = all[i] /\ i \in 1 .. Len(all)
      /\ Len(page) # PageSize => page = all
  <2>1. CASE Len(all) <= PageSize
    BY <1>5, <1>6, <2>1
  <2>2. CASE Len(all) > PageSize
    <3>1. 1 .. PageSize \subseteq 1 .. Len(all) /\ Len(all) \in Nat
      BY <1>1, <1>5, <2>2
    <3>2. page = SubSeq(all, 1, PageSize)
      BY <1>1, <1>6, <2>2, <3>1
    <3>3. /\ page \in Seq(Nat) /\ Len(page) = PageSize
          /\ \A i \in 1 .. PageSize : page[i] = all[i]
      BY <1>1, <1>5, <2>2, <3>1, <3>2
    <3> QED
      BY <2>2, <3>1, <3>3
  <2> QED
    BY <1>1, <1>5, <2>1, <2>2
<1>8. Ascending(page)
  <2> SUFFICES ASSUME NEW i \in 1 .. Len(page), NEW j \in 1 .. Len(page), i < j
               PROVE  page[i] < page[j]
    BY DEF Ascending
  <2> QED
    BY <1>5, <1>7 DEF Ascending
<1>9. \A i \in 1 .. Len(page) : page[i] \in 1 .. Len(log) /\ log[page[i]] \in lo .. hi
  <2>1. \A i \in 1 .. Len(page) : page[i] \in those
    BY <1>5, <1>7
  <2> QED
    BY <1>1, <2>1 DEF those
<1>10. ASSUME Len(page) # PageSize,
              NEW s \in Oldest + 1 .. Len(log), log[s] \in lo .. hi
       PROVE  \E i \in 1 .. Len(page) : page[i] = s
  <2>1. s - Oldest \in 1 .. Len(ring) /\ ring[s - Oldest] = s
    BY <1>1, <1>2
  <2>2. s \in those
    BY <1>1, <1>10 DEF those
  <2> QED
    BY <1>5, <1>7, <1>10, <2>1, <2>2
<1> QED
  BY <1>7, <1>8, <1>9, <1>10 DEF page

\* Of a page the records of the capture are kept.
LEMMA KeptFacts ==
    ASSUME Types, NEW lo \in Nat, NEW hi \in Nat
    PROVE  LET kept == Kept(Page(lo, hi))
           IN /\ kept \in Seq(Nat) /\ Ascending(kept)
              /\ \A i \in 1 .. Len(kept) : /\ kept[i] \in startSeq + 1 .. Len(log)
                                           /\ kept[i] \in 1 .. Len(log)
                                           /\ log[kept[i]] \in lo .. hi
              /\ Len(Page(lo, hi)) # PageSize =>
                    \A s \in startSeq + 1 .. Len(log) : log[s] \in lo .. hi =>
                       (s <= Oldest \/ \E i \in 1 .. Len(kept) : kept[i] = s)
<1> DEFINE kept == Kept(Page(lo, hi))
           page == Page(lo, hi)
           window == startSeq + 1 .. Total
<1>1. kept = Those(page, window)
  BY DEF Kept
<1>2. /\ page \in Seq(Nat) /\ Ascending(page)
      /\ \A i \in 1 .. Len(page) : page[i] \in 1 .. Len(log) /\ log[page[i]] \in lo .. hi
      /\ Len(page) # PageSize =>
            \A s \in Oldest + 1 .. Len(log) : log[s] \in lo .. hi =>
               \E i \in 1 .. Len(page) : page[i] = s
  BY PageFacts
<1>3. window = startSeq + 1 .. Len(log) /\ startSeq \in Nat /\ Len(log) \in Nat
      /\ Oldest \in Nat
  BY CaptureAssumption DEF Types, Total, Oldest
<1> HIDE DEF page, window, kept
<1>4. /\ kept \in Seq(Nat) /\ Ascending(kept)
      /\ \A i \in 1 .. Len(kept) :
            kept[i] \in window /\ \E j \in 1 .. Len(page) : kept[i] = page[j]
      /\ \A j \in 1 .. Len(page) :
            page[j] \in window => \E i \in 1 .. Len(kept) : kept[i] = page[j]
  <2>1. page \in Seq(Nat) /\ Ascending(page)
    BY <1>2
  <2>2. /\ Those(page, window) \in Seq(Nat) /\ Ascending(Those(page, window))
        /\ \A i \in 1 .. Len(Those(page, window)) :
              Those(page, window)[i] \in window /\ \E j \in 1 .. Len(page) : Those(page, window)[i] = page[j]
        /\ \A j \in 1 .. Len(page) :
              page[j] \in window => \E i \in 1 .. Len(Those(page, window)) : Those(page, window)[i] = page[j]
    BY <2>1, ThoseProperties
  <2> QED
    BY <1>1, <2>2
<1>5. \A i \in 1 .. Len(kept) : /\ kept[i] \in startSeq + 1 .. Len(log)
                                /\ kept[i] \in 1 .. Len(log)
                                /\ log[kept[i]] \in lo .. hi
  BY <1>2, <1>3, <1>4
<1>6. ASSUME Len(page) # PageSize,
             NEW s \in startSeq + 1 .. Len(log), log[s] \in lo .. hi, ~(s <= Oldest)
      PROVE  \E i \in 1 .. Len(kept) : kept[i] = s
  <2>1. s \in Oldest + 1 .. Len(log) /\ s \in window
    BY <1>3, <1>6
  <2>2. PICK j \in 1 .. Len(page) : page[j] = s
    BY <1>2, <1>6, <2>1
  <2> QED
    BY <1>4, <2>1, <2>2
<1> QED
  BY <1>4, <1>5, <1>6 DEF page, kept
\* What is next to be dumped.
LEMMA HeadFacts ==
    ASSUME Inv, pc = "dump", work # << >>
    PROVE  /\ ~error /\ Types /\ LogInOrder /\ Data /\ Armed
           /\ Cursor /\ Spans /\ Got /\ Back
           /\ Head(work) = work[1] /\ Len(work) \in Nat /\ Len(work) >= 1
           /\ work[1][1] \in Nat /\ work[1][2] \in Nat /\ work[1][1] <= work[1][2]
           /\ startFrame \in Nat /\ nextFrame \in Nat
           /\ startFrame <= work[1][1] /\ work[1][2] < nextFrame
           /\ Reached = work[1][1]
           /\ Tail(work) \in Seq(Nat \X Nat) /\ Len(Tail(work)) = Len(work) - 1
           /\ \A i \in 1 .. Len(work) - 1 : Tail(work)[i] = work[i + 1]
<1>1. ~error /\ Types /\ LogInOrder /\ Data /\ Armed
  BY DEF Inv, Armed
<1>2. Cursor /\ Spans /\ Got /\ Back
  BY <1>1 DEF Inv, Regular, Starting
<1>3. work \in Seq(Nat \X Nat) /\ startFrame \in Nat /\ nextFrame \in Nat
  BY <1>1, TimeFacts DEF Types
<1>4. /\ Head(work) = work[1] /\ Len(work) \in Nat /\ Len(work) >= 1
      /\ work[1] \in Nat \X Nat
      /\ Tail(work) \in Seq(Nat \X Nat) /\ Len(Tail(work)) = Len(work) - 1
      /\ \A i \in 1 .. Len(work) - 1 : Tail(work)[i] = work[i + 1]
  BY <1>3
<1>5. 1 \in 1 .. Len(work)
  BY <1>4
<1>6. startFrame <= work[1][1] /\ work[1][2] < nextFrame /\ work[1][1] <= work[1][2]
  BY <1>1, <1>2, <1>5 DEF Spans, Data
<1> QED
  BY <1>1, <1>2, <1>3, <1>4, <1>6 DEF Reached

\* Two spans take the place of the first.
LEMMA InTwo ==
    ASSUME NEW S, NEW w \in Seq(S), Len(w) >= 1, NEW x \in S, NEW y \in S
    PROVE  LET v == << x, y >> \o Tail(w)
           IN /\ v \in Seq(S) /\ Len(v) = Len(w) + 1 /\ v[1] = x /\ v[2] = y
              /\ \A i \in 3 .. Len(w) + 1 : v[i] = w[i - 1]
<1> DEFINE h == << x, y >>
           t == Tail(w)
<1>1. h \in Seq(S) /\ Len(h) = 2 /\ h[1] = x /\ h[2] = y
  OBVIOUS
<1>2. /\ t \in Seq(S) /\ Len(t) = Len(w) - 1 /\ Len(w) \in Nat
      /\ \A i \in 1 .. Len(w) - 1 : t[i] = w[i + 1]
  OBVIOUS
<1> HIDE DEF h, t
<1>3. /\ h \o t \in Seq(S) /\ Len(h \o t) = Len(h) + Len(t)
      /\ \A i \in 1 .. Len(h) + Len(t) :
            (h \o t)[i] = IF i <= Len(h) THEN h[i] ELSE t[i - Len(h)]
  BY <1>1, <1>2, ConcatProperties
<1> DEFINE v == h \o t
<1> HIDE DEF v
<1>4. v \in Seq(S) /\ Len(v) = Len(w) + 1 /\ v[1] = x /\ v[2] = y
  <2>1. Len(h) + Len(t) = Len(w) + 1 /\ 1 \in 1 .. Len(w) + 1 /\ 2 \in 1 .. Len(w) + 1
    BY <1>1, <1>2
  <2> QED
    BY <1>1, <1>2, <1>3, <2>1 DEF v
<1>5. ASSUME NEW i \in 3 .. Len(w) + 1 PROVE v[i] = w[i - 1]
  <2>1. /\ i - 2 \in 1 .. Len(w) - 1 /\ (i - 2) + 1 = i - 1 /\ ~(i <= 2)
        /\ i \in 1 .. Len(h) + Len(t)
    BY <1>1, <1>2
  <2>2. v[i] = t[i - 2]
    BY <1>1, <1>3, <2>1 DEF v
  <2> QED
    BY <1>2, <2>1, <2>2
<1> QED
  BY <1>4, <1>5 DEF v, h, t

\* The n spans of w follow each other, from first on and up to next.
Follow(w, n, first, next) ==
    /\ \A i \in 1 .. n : /\ first <= w[i][1] /\ w[i][1] <= w[i][2]
                         /\ w[i][2] < next
    /\ \A i \in 1 .. n - 1 : w[i + 1][1] = w[i][2] + 1
    /\ w[n][2] = next - 1

\* v is w with its first span split after mid.
IsSplit(v, w, n, mid) ==
    /\ w[1][1] \in Nat /\ w[1][2] \in Nat /\ w[1][1] <= mid /\ mid < w[1][2]
    /\ v[1][1] = w[1][1] /\ v[1][2] = mid /\ v[2][1] = mid + 1 /\ v[2][2] = w[1][2]
    /\ \A i \in 3 .. n + 1 : v[i] = w[i - 1]

LEMMA SplitSpans ==
    ASSUME NEW first \in Nat, NEW next \in Nat, NEW n \in Nat, n >= 1, NEW w, NEW v,
           NEW mid \in Nat, Follow(w, n, first, next), IsSplit(v, w, n, mid)
    PROVE  Follow(v, n + 1, first, next)
<1> USE DEF Follow, IsSplit
<1>1. ASSUME NEW i \in 1 .. n + 1
      PROVE  first <= v[i][1] /\ v[i][1] <= v[i][2] /\ v[i][2] < next
  <2>1. CASE i = 1 \/ i = 2
    <3>1. first <= w[1][1] /\ w[1][2] < next
      OBVIOUS
    <3> QED
      BY <2>1, <3>1
  <2>2. CASE i # 1 /\ i # 2
    <3>1. i \in 3 .. n + 1 /\ i - 1 \in 1 .. n
      BY <2>2
    <3>2. v[i] = w[i - 1]
      BY <3>1
    <3>3. first <= w[i - 1][1] /\ w[i - 1][1] <= w[i - 1][2] /\ w[i - 1][2] < next
      BY <3>1
    <3> QED
      BY <3>2, <3>3
  <2> QED
    BY <2>1, <2>2
<1>2. ASSUME NEW i \in 1 .. n PROVE v[i + 1][1] = v[i][2] + 1
  <2>1. CASE i = 1
    BY <2>1
  <2>2. CASE i = 2
    <3>1. 3 \in 3 .. n + 1 /\ 1 \in 1 .. n - 1 /\ 3 - 1 = 2 /\ 1 + 1 = 2 /\ 2 + 1 = 3
      BY <2>2
    <3>2. v[3] = w[2]
      BY <3>1
    <3>3. w[2][1] = w[1][2] + 1
      BY <3>1
    <3> QED
      BY <2>2, <3>1, <3>2, <3>3
  <2>3. CASE i # 1 /\ i # 2
    <3>1. /\ i \in 3 .. n + 1 /\ i + 1 \in 3 .. n + 1
          /\ (i + 1) - 1 = i /\ i - 1 \in 1 .. n - 1 /\ (i - 1) + 1 = i
      BY <2>3
    <3>2. v[i] = w[i - 1] /\ v[i + 1] = w[(i + 1) - 1]
      BY <3>1
    <3>3. w[(i - 1) + 1][1] = w[i - 1][2] + 1
      BY <3>1
    <3> QED
      BY <3>1, <3>2, <3>3
  <2> QED
    BY <2>1, <2>2, <2>3
<1>3. v[n + 1][2] = next - 1
  <2>1. CASE n = 1
    <3>1. v[2][2] = w[1][2] /\ w[1][2] = next - 1
      BY <2>1
    <3> QED
      BY <2>1, <3>1
  <2>2. CASE n # 1
    <3>1. n + 1 \in 3 .. n + 1 /\ (n + 1) - 1 = n
      BY <2>2
    <3>2. v[n + 1] = w[(n + 1) - 1]
      BY <3>1
    <3> QED
      BY <3>1, <3>2
  <2> QED
    BY <2>1, <2>2
<1>4. (n + 1) - 1 = n
  OBVIOUS
<1> QED
  BY <1>1, <1>2, <1>3, <1>4

\* The two ends of a pair.
LEMMA Ends == \A a, b : <<a, b>>[1] = a /\ <<a, b>>[2] = b
OBVIOUS

\* The midpoint of a span of two or more lies in it, short of its end.
LEMMA Middle ==
    \A a, b \in Nat : a < b => /\ (a + b) \div 2 \in Nat
                               /\ a <= (a + b) \div 2 /\ (a + b) \div 2 < b
BY SMT

\* A span that is split is followed by the same spans as before.
LEMMA SplitInv ==
    ASSUME Inv, pc = "dump", work # << >>,
           NEW lo, NEW hi, lo = work[1][1], hi = work[1][2], lo # hi,
           work' = Halves(lo, hi) \o Tail(work),
           UNCHANGED <<frame, log, slot, covered, missed, loaded, pc, added, startSeq,
                       startFrame, nextFrame, lastTotal, endFrame, closing, entries,
                       warned, error, report>>
    PROVE  Inv'
<1> DEFINE mid == (lo + hi) \div 2
<1>1. ~error /\ Types /\ LogInOrder /\ Data /\ Armed /\ Cursor /\ Spans /\ Got /\ Back
  BY HeadFacts
<1>2. /\ Len(work) \in Nat /\ Len(work) >= 1
      /\ lo \in Nat /\ hi \in Nat /\ lo <= hi
      /\ startFrame \in Nat /\ nextFrame \in Nat
      /\ Reached = lo
  BY HeadFacts
<1>3. mid \in Nat /\ lo <= mid /\ mid < hi
  <2>1. lo < hi
    BY <1>2
  <2> QED
    BY <1>2, <2>1, Middle
<1> HIDE DEF mid
<1>4. /\ work' \in Seq(Nat \X Nat) /\ Len(work') = Len(work) + 1
      /\ work'[1] = <<lo, mid>> /\ work'[2] = <<mid + 1, hi>>
      /\ \A i \in 3 .. Len(work) + 1 : work'[i] = work[i - 1]
  <2>1. work' = << <<lo, mid>>, <<mid + 1, hi>> >> \o Tail(work)
    BY DEF Halves, mid
  <2>2. work \in Seq(Nat \X Nat) /\ <<lo, mid>> \in Nat \X Nat
        /\ <<mid + 1, hi>> \in Nat \X Nat
    <3>1. work \in Seq(Nat \X Nat)
      BY <1>1 DEF Types
    <3>2. lo \in Nat /\ mid \in Nat /\ mid + 1 \in Nat /\ hi \in Nat
      BY <1>2, <1>3
    <3> QED
      BY <3>1, <3>2
  <2> DEFINE x == <<lo, mid>>
             y == <<mid + 1, hi>>
             S == Nat \X Nat
             v == << x, y >> \o Tail(work)
  <2>3. /\ v \in Seq(S) /\ Len(v) = Len(work) + 1 /\ v[1] = x /\ v[2] = y
        /\ \A i \in 3 .. Len(work) + 1 : v[i] = work[i - 1]
    <3>1. x \in S /\ y \in S /\ work \in Seq(S) /\ Len(work) >= 1
      BY <1>2, <2>2
    <3> HIDE DEF x, y, S
    <3> QED
      BY <3>1, InTwo
  <2> QED
    BY <2>1, <2>3
<1>5. Follow(work, Len(work), startFrame, nextFrame)
  BY <1>1 DEF Follow, Spans, Data
<1>6. /\ work'[1][1] = lo /\ work'[1][2] = mid
      /\ work'[2][1] = mid + 1 /\ work'[2][2] = hi
  <2>1. work'[1] = <<lo, mid>> /\ work'[2] = <<mid + 1, hi>>
    BY <1>4
  <2> DEFINE x == work'[1]
             y == work'[2]
  <2>2. x = <<lo, mid>> /\ y = <<mid + 1, hi>>
    BY <2>1
  <2> HIDE DEF x, y
  <2>3. x[1] = lo /\ x[2] = mid /\ y[1] = mid + 1 /\ y[2] = hi
    BY <2>2, Ends
  <2> QED
    BY <2>3 DEF x, y
<1>7. Follow(work', Len(work) + 1, startFrame, nextFrame)
  <2>1. IsSplit(work', work, Len(work), mid)
    BY <1>2, <1>3, <1>4, <1>6 DEF IsSplit
  <2> QED
    BY <1>2, <1>3, <1>5, <2>1, SplitSpans
<1>8. Types' /\ LogInOrder' /\ Data' /\ Armed'
  <2>1. Types'
    BY <1>1, <1>4 DEF Types
  <2>2. Data'
    BY <1>1, <1>4, <1>7 DEF Data, Follow
  <2> QED
    BY <1>1, <2>1, <2>2 DEF LogInOrder, Armed, Time
<1>9. Spans'
  <2>1. Len(work') - 1 = Len(work)
    <3>1. Len(work') = Len(work) + 1 /\ Len(work) \in Nat
      BY <1>2, <1>4
    <3> QED
      BY <3>1
  <2> QED
    BY <1>1, <1>4, <1>7, <2>1 DEF Spans, Follow
<1>10. Reached' = Reached
  <2>1. work' # << >>
    <3>1. Len(work') = Len(work) + 1 /\ Len(work) \in Nat
      BY <1>2, <1>4
    <3>2. Len(work') # 0
      BY <3>1
    <3> QED
      BY <3>2
  <2> QED
    BY <1>2, <1>6, <2>1 DEF Reached
<1>11. Cursor' /\ Got' /\ Back'
  BY <1>1, <1>10 DEF Cursor, Got, Back, Time, Oldest, Total
<1> QED
  BY <1>1, <1>8, <1>9, <1>11 DEF Inv, Regular, Starting
\* What has been collected before, and then the new records.
LEMMA Joined ==
    ASSUME NEW a \in Seq(Nat), NEW b \in Seq(Nat)
    PROVE  /\ a \o b \in Seq(Nat)
           /\ \A k \in 1 .. Len(a \o b) :
                 \/ k \in 1 .. Len(a) /\ (a \o b)[k] = a[k]
                 \/ \E m \in 1 .. Len(b) : k = Len(a) + m /\ (a \o b)[k] = b[m]
           /\ \A k \in 1 .. Len(a) : \E l \in 1 .. Len(a \o b) : (a \o b)[l] = a[k]
           /\ \A m \in 1 .. Len(b) : \E l \in 1 .. Len(a \o b) : (a \o b)[l] = b[m]
           /\ Ascending(a) /\ Ascending(b)
              /\ (\A k \in 1 .. Len(a), m \in 1 .. Len(b) : a[k] < b[m])
              => Ascending(a \o b)
<1> DEFINE c == a \o b
<1> HIDE DEF c
<1>1. /\ c \in Seq(Nat) /\ Len(c) = Len(a) + Len(b) /\ Len(a) \in Nat /\ Len(b) \in Nat
      /\ \A i \in 1 .. Len(a) + Len(b) :
            c[i] = IF i <= Len(a) THEN a[i] ELSE b[i - Len(a)]
  BY ConcatProperties DEF c
<1>2. ASSUME NEW k \in 1 .. Len(c)
      PROVE  \/ k \in 1 .. Len(a) /\ c[k] = a[k]
             \/ \E m \in 1 .. Len(b) : k = Len(a) + m /\ c[k] = b[m]
  <2>1. CASE k <= Len(a)
    BY <1>1, <2>1
  <2>2. CASE k > Len(a)
    <3>1. k - Len(a) \in 1 .. Len(b) /\ k = Len(a) + (k - Len(a))
      BY <1>1, <2>2
    <3>2. c[k] = b[k - Len(a)]
      BY <1>1, <2>2
    <3> QED
      BY <3>1, <3>2
  <2> QED
    BY <1>1, <2>1, <2>2
<1>3. ASSUME NEW k \in 1 .. Len(a) PROVE \E l \in 1 .. Len(c) : c[l] = a[k]
  <2>1. k \in 1 .. Len(c) /\ c[k] = a[k]
    BY <1>1
  <2> QED
    BY <2>1
<1>4. ASSUME NEW m \in 1 .. Len(b) PROVE \E l \in 1 .. Len(c) : c[l] = b[m]
  <2>1. /\ Len(a) + m \in 1 .. Len(a) + Len(b) /\ Len(a) + m \in 1 .. Len(c)
        /\ ~(Len(a) + m <= Len(a)) /\ (Len(a) + m) - Len(a) = m
    BY <1>1
  <2>2. c[Len(a) + m] = b[m]
    BY <1>1, <2>1
  <2> QED
    BY <2>1, <2>2
<1>5. ASSUME Ascending(a), Ascending(b),
             \A k \in 1 .. Len(a), m \in 1 .. Len(b) : a[k] < b[m],
             NEW k \in 1 .. Len(c), NEW l \in 1 .. Len(c), k < l
      PROVE  c[k] < c[l]
  <2>1. CASE l \in 1 .. Len(a) /\ c[l] = a[l]
    <3>1. k \in 1 .. Len(a) /\ c[k] = a[k]
      BY <1>1, <1>5, <2>1
    <3> QED
      BY <1>5, <2>1, <3>1 DEF Ascending
  <2>2. ASSUME NEW m \in 1 .. Len(b), l = Len(a) + m, c[l] = b[m]
        PROVE  c[k] < c[l]
    <3>1. CASE k \in 1 .. Len(a) /\ c[k] = a[k]
      BY <1>5, <2>2, <3>1
    <3>2. ASSUME NEW n \in 1 .. Len(b), k = Len(a) + n, c[k] = b[n]
          PROVE  c[k] < c[l]
      <4>1. n < m
        BY <1>1, <1>5, <2>2, <3>2
      <4> QED
        BY <1>5, <2>2, <3>2, <4>1 DEF Ascending
    <3> QED
      BY <1>2, <3>1, <3>2
  <2> QED
    BY <1>2, <2>1, <2>2
<1>6. Ascending(a) /\ Ascending(b)
         /\ (\A k \in 1 .. Len(a), m \in 1 .. Len(b) : a[k] < b[m])
         => Ascending(c)
  BY <1>5 DEF Ascending
<1> QED
  BY <1>1, <1>2, <1>3, <1>4, <1>6 DEF c

\* A record of an earlier frame of the capture was made before one of a later.
LEMMA EarlierFrames ==
    ASSUME Types, LogInOrder, Cursor,
           NEW e \in 1 .. Len(log), NEW k \in 1 .. Len(log),
           startFrame <= log[e], log[e] < log[k], log[k] < nextFrame
    PROVE  e < k
<1>1. log[e] \in FrameSet /\ log[k] \in FrameSet
  BY DEF Types
<1>2. log[e] >= FirstFrame \/ log[k] <= Frames
  <2>1. startFrame >= FirstFrame \/ nextFrame <= Frames
    BY DEF Cursor
  <2>2. /\ startFrame \in Nat /\ nextFrame \in Nat /\ log[e] \in Nat /\ log[k] \in Nat
        /\ FirstFrame \in Nat /\ Frames \in Nat
    BY <1>1, TimeFacts DEF Types
  <2> QED
    BY <2>1, <2>2
<1>3. Time(log[e]) < Time(log[k]) /\ Time(log[e]) \in Nat /\ Time(log[k]) \in Nat
  BY <1>1, <1>2, TimeFacts
<1>4. k <= e => Time(log[k]) <= Time(log[e])
  BY DEF LogInOrder
<1>5. Len(log) \in Nat
  BY DEF Types
<1> QED
  BY <1>3, <1>4, <1>5
\* A page that is kept: the new records follow those collected so far.
Keep(lo, hi, full) ==
    /\ pc = "dump" /\ work # << >> /\ lo = work[1][1] /\ hi = work[1][2]
    /\ full = (Len(Page(lo, hi)) = PageSize)
    /\ work' = Tail(work) /\ entries' = entries \o Kept(Page(lo, hi))
    /\ warned' = (warned \/ full)
    /\ UNCHANGED <<frame, log, slot, covered, missed, loaded, pc, added, startSeq,
                   startFrame, nextFrame, lastTotal, endFrame, closing, error, report>>

LEMMA KeepInv == ASSUME Inv, NEW lo, NEW hi, NEW full, Keep(lo, hi, full) PROVE Inv'
<1> DEFINE kept == Kept(Page(lo, hi))
<1>. /\ UNCHANGED <<frame, log, slot, covered, missed, loaded, pc, added, startSeq,
                    startFrame, nextFrame, lastTotal, endFrame, closing, error, report>>
     /\ pc = "dump"
  BY DEF Keep
<1>1. ~error /\ Types /\ LogInOrder /\ Data /\ Armed /\ Cursor /\ Spans /\ Got /\ Back
  BY HeadFacts DEF Keep
<1>2. /\ Len(work) \in Nat /\ Len(work) >= 1
      /\ lo \in Nat /\ hi \in Nat /\ lo <= hi
      /\ startFrame \in Nat /\ nextFrame \in Nat /\ startFrame <= lo /\ hi < nextFrame
      /\ Reached = lo /\ work # << >> /\ lo = work[1][1] /\ hi = work[1][2]
  BY HeadFacts DEF Keep
<1>3. /\ work' \in Seq(Nat \X Nat) /\ Len(work') = Len(work) - 1
      /\ \A i \in 1 .. Len(work) - 1 : work'[i] = work[i + 1]
  BY HeadFacts DEF Keep
<1>4. /\ kept \in Seq(Nat) /\ Ascending(kept)
      /\ \A i \in 1 .. Len(kept) : /\ kept[i] \in startSeq + 1 .. Len(log)
                                   /\ kept[i] \in 1 .. Len(log)
                                   /\ log[kept[i]] \in lo .. hi
      /\ ~full => \A s \in startSeq + 1 .. Len(log) : log[s] \in lo .. hi =>
                     (s <= Oldest \/ \E i \in 1 .. Len(kept) : kept[i] = s)
  <2>1. full = (Len(Page(lo, hi)) = PageSize)
    BY DEF Keep
  <2>2. /\ kept \in Seq(Nat) /\ Ascending(kept)
        /\ \A i \in 1 .. Len(kept) : /\ kept[i] \in startSeq + 1 .. Len(log)
                                     /\ kept[i] \in 1 .. Len(log)
                                     /\ log[kept[i]] \in lo .. hi
        /\ Len(Page(lo, hi)) # PageSize =>
              \A s \in startSeq + 1 .. Len(log) : log[s] \in lo .. hi =>
                 (s <= Oldest \/ \E i \in 1 .. Len(kept) : kept[i] = s)
    BY <1>1, <1>2, KeptFacts
  <2> HIDE DEF kept
  <2> QED
    BY <2>1, <2>2
<1> HIDE DEF kept
<1>5. entries \in Seq(Nat) /\ entries' = entries \o kept
  BY <1>1 DEF Types, kept, Keep
<1>6. /\ \A i \in 1 .. Len(entries) : entries[i] \in startSeq + 1 .. Len(log)
      /\ \A i \in 1 .. Len(entries) : entries[i] \in 1 .. Len(log)
      /\ \A i \in 1 .. Len(entries) : log[entries[i]] \in startFrame .. lo - 1
  <2>1. startSeq \in Nat /\ Len(log) \in Nat
    BY <1>1 DEF Types
  <2>2. \A i \in 1 .. Len(entries) : entries[i] \in startSeq + 1 .. Len(log)
    BY <1>1 DEF Data
  <2>3. \A i \in 1 .. Len(entries) : entries[i] \in 1 .. Len(log)
    BY <2>1, <2>2
  <2> QED
    BY <1>1, <1>2, <2>2, <2>3 DEF Got
<1>7. /\ entries' \in Seq(Nat)
      /\ \A k \in 1 .. Len(entries') :
            \/ k \in 1 .. Len(entries) /\ entries'[k] = entries[k]
            \/ \E m \in 1 .. Len(kept) : entries'[k] = kept[m]
      /\ \A k \in 1 .. Len(entries) : \E l \in 1 .. Len(entries') : entries'[l] = entries[k]
      /\ \A m \in 1 .. Len(kept) : \E l \in 1 .. Len(entries') : entries'[l] = kept[m]
  <2> DEFINE c == entries \o kept
  <2>1. /\ c \in Seq(Nat)
        /\ \A k \in 1 .. Len(c) :
              \/ k \in 1 .. Len(entries) /\ c[k] = entries[k]
              \/ \E m \in 1 .. Len(kept) : k = Len(entries) + m /\ c[k] = kept[m]
        /\ \A k \in 1 .. Len(entries) : \E l \in 1 .. Len(c) : c[l] = entries[k]
        /\ \A m \in 1 .. Len(kept) : \E l \in 1 .. Len(c) : c[l] = kept[m]
    BY <1>4, <1>5, Joined
  <2>2. c = entries'
    BY <1>5
  <2> HIDE DEF c
  <2> QED
    BY <2>1, <2>2
<1>8. Ascending(entries')
  <2>1. \A k \in 1 .. Len(entries), m \in 1 .. Len(kept) : entries[k] < kept[m]
    <3> SUFFICES ASSUME NEW k \in 1 .. Len(entries), NEW m \in 1 .. Len(kept)
                 PROVE  entries[k] < kept[m]
      OBVIOUS
    <3> DEFINE x == entries[k]
               y == kept[m]
    <3>1. /\ x \in 1 .. Len(log) /\ y \in 1 .. Len(log)
          /\ log[x] \in startFrame .. lo - 1 /\ log[y] \in lo .. hi
      BY <1>4, <1>6
    <3> HIDE DEF x, y
    <3>2. startFrame <= log[x] /\ log[x] < log[y] /\ log[y] < nextFrame
      <4> DEFINE p == log[x]
                 r == log[y]
      <4>1. /\ p \in startFrame .. lo - 1 /\ r \in lo .. hi
            /\ lo \in Nat /\ hi \in Nat /\ startFrame \in Nat /\ nextFrame \in Nat
            /\ hi < nextFrame
        BY <1>2, <3>1
      <4> HIDE DEF p, r
      <4>2. startFrame <= p /\ p < r /\ r < nextFrame
        BY <4>1
      <4> QED
        BY <4>2 DEF p, r
    <3>3. x < y
      BY <1>1, <3>1, <3>2, EarlierFrames
    <3> QED
      BY <3>3 DEF x, y
  <2>2. Ascending(entries)
    BY <1>1 DEF Data
  <2>3. Ascending(entries \o kept)
    BY <1>4, <1>5, <2>1, <2>2, Joined
  <2> QED
    BY <1>5, <2>3
<1>9. Types' /\ LogInOrder' /\ Armed'
  <2>1. warned' \in BOOLEAN
    BY <1>1 DEF Types, Keep
  <2>2. Types'
    BY <1>1, <1>3, <1>7, <2>1 DEF Types
  <2> QED
    BY <1>1, <2>2 DEF LogInOrder, Armed, Time
<1>10. Data'
  <2>1. \A i \in 1 .. Len(work') : work'[i][1] <= work'[i][2]
    <3> SUFFICES ASSUME NEW i \in 1 .. Len(work') PROVE work'[i][1] <= work'[i][2]
      OBVIOUS
    <3>1. i \in 1 .. Len(work) - 1 /\ i + 1 \in 1 .. Len(work)
      BY <1>2, <1>3
    <3> QED
      BY <1>1, <1>3, <3>1 DEF Data
  <2>2. \A k \in 1 .. Len(entries') : entries'[k] \in startSeq + 1 .. Len(log)
    BY <1>4, <1>6, <1>7
  <2> QED
    BY <1>1, <1>8, <2>1, <2>2 DEF Data
<1>11. Spans'
  <2>1. ASSUME NEW i \in 1 .. Len(work')
        PROVE  startFrame <= work'[i][1] /\ work'[i][2] < nextFrame
    <3>1. i \in 1 .. Len(work) - 1 /\ i + 1 \in 1 .. Len(work)
      BY <1>2, <1>3
    <3> QED
      BY <1>1, <1>3, <3>1 DEF Spans
  <2>2. ASSUME NEW i \in 1 .. Len(work') - 1
        PROVE  work'[i + 1][1] = work'[i][2] + 1
    <3>1. /\ i \in 1 .. Len(work) - 1 /\ i + 1 \in 1 .. Len(work) - 1
      BY <1>2, <1>3
    <3>2. work'[i] = work[i + 1] /\ work'[i + 1] = work[(i + 1) + 1]
      BY <1>3, <3>1
    <3>3. work[(i + 1) + 1][1] = work[i + 1][2] + 1
      BY <1>1, <3>1 DEF Spans
    <3> QED
      BY <3>2, <3>3
  <2>3. work' # << >> => work'[Len(work')][2] = nextFrame - 1
    <3>1. work[Len(work)][2] = nextFrame - 1
      BY <1>1, <1>2 DEF Spans
    <3> SUFFICES ASSUME work' # << >> PROVE work'[Len(work')][2] = nextFrame - 1
      OBVIOUS
    <3>2. Len(work') \in 1 .. Len(work) - 1 /\ Len(work') + 1 = Len(work)
      <4>1. Len(work') # 0
        BY <1>3, EmptySeq
      <4> QED
        BY <1>2, <1>3, <4>1
    <3>3. work'[Len(work')] = work[Len(work') + 1]
      BY <1>3, <3>2
    <3> QED
      BY <3>1, <3>2, <3>3
  <2> QED
    BY <1>1, <2>1, <2>2, <2>3 DEF Spans
<1>12. Reached' = hi + 1
  <2>1. CASE work' = << >>
    <3>1. Len(work) = 1
      <4>1. Len(work') = 0
        BY <2>1
      <4> QED
        BY <1>2, <1>3, <4>1
    <3>2. work[1][2] = nextFrame - 1
      BY <1>1, <1>2, <3>1 DEF Spans
    <3> QED
      BY <1>2, <2>1, <3>2 DEF Reached
  <2>2. CASE work' # << >>
    <3>1. 1 \in 1 .. Len(work) - 1
      <4>1. Len(work') # 0
        BY <1>3, <2>2, EmptySeq
      <4> QED
        BY <1>2, <1>3, <4>1
    <3>2. work'[1] = work[1 + 1] /\ work[1 + 1][1] = work[1][2] + 1
      BY <1>1, <1>3, <3>1 DEF Spans
    <3> QED
      BY <1>2, <2>2, <3>2 DEF Reached
  <2> QED
    BY <2>1, <2>2
<1>13. Got'
  <2>1. \A k \in 1 .. Len(entries') : log[entries'[k]] \in startFrame .. hi
    <3>0. startFrame \in Nat /\ lo \in Nat /\ hi \in Nat /\ startFrame <= lo /\ lo <= hi
      BY <1>2
    <3>1. ASSUME NEW k \in 1 .. Len(entries) PROVE log[entries[k]] \in startFrame .. hi
      <4>1. log[entries[k]] \in startFrame .. lo - 1
        BY <1>6
      <4> QED
        BY <3>0, <4>1
    <3>2. ASSUME NEW m \in 1 .. Len(kept) PROVE log[kept[m]] \in startFrame .. hi
      <4>1. log[kept[m]] \in lo .. hi
        BY <1>4
      <4> QED
        BY <3>0, <4>1
    <3> QED
      BY <1>7, <3>1, <3>2
  <2>2. ASSUME ~warned', NEW s \in startSeq + 1 .. Len(log), log[s] \in startFrame .. hi,
               ~(s <= Oldest)
        PROVE  \E l \in 1 .. Len(entries') : entries'[l] = s
    <3>1. ~warned /\ ~full
      BY <2>2 DEF Keep
    <3>2. CASE log[s] \in startFrame .. lo - 1
      <4>1. \E i \in 1 .. Len(entries) : entries[i] = s
        BY <1>1, <1>2, <2>2, <3>1, <3>2 DEF Got
      <4> QED
        BY <1>7, <4>1
    <3>3. CASE log[s] \in lo .. hi
      <4>1. \E i \in 1 .. Len(kept) : kept[i] = s
        BY <1>4, <2>2, <3>1, <3>3
      <4> QED
        BY <1>7, <4>1
    <3> QED
      BY <1>2, <2>2, <3>2, <3>3
  <2>3. (hi + 1) - 1 = hi
    BY <1>2
  <2> QED
    BY <1>12, <2>1, <2>2, <2>3 DEF Got, Oldest, Total
<1>14. Cursor' /\ Back'
  BY <1>1 DEF Cursor, Back, Time
<1> QED
  BY <1>1, <1>9, <1>10, <1>11, <1>13, <1>14 DEF Inv, Regular, Starting

LEMMA DumpInv == ASSUME Inv, Dump PROVE Inv'
<1> DEFINE lo == Head(work)[1]
           hi == Head(work)[2]
           full == Len(Page(lo, hi)) = PageSize
<1>1. /\ pc = "dump" /\ work # << >>
      /\ UNCHANGED <<frame, log, slot, covered, missed, loaded, pc, added, startSeq,
                     startFrame, nextFrame, lastTotal, endFrame, closing, error,
                     report>>
  BY DEF Dump, server, cursor
<1>2. Head(work) = work[1]
  BY <1>1, HeadFacts
<1>3. \/ /\ full /\ lo # hi /\ work' = Halves(lo, hi) \o Tail(work)
         /\ UNCHANGED <<entries, warned>>
      \/ /\ work' = Tail(work) /\ entries' = entries \o Kept(Page(lo, hi))
         /\ warned' = (warned \/ full)
  BY DEF Dump
<1> HIDE DEF full
<1>4. CASE /\ lo # hi /\ work' = Halves(lo, hi) \o Tail(work)
           /\ UNCHANGED <<entries, warned>>
  BY <1>1, <1>2, <1>4, SplitInv
<1>5. CASE /\ work' = Tail(work) /\ entries' = entries \o Kept(Page(lo, hi))
           /\ warned' = (warned \/ full)
  <2>1. full = (Len(Page(lo, hi)) = PageSize)
    BY DEF full
  <2>2. lo = work[1][1] /\ hi = work[1][2]
    BY <1>2
  <2>3. Keep(lo, hi, full)
    BY <1>1, <1>5, <2>1, <2>2 DEF Keep
  <2> QED
    BY <2>3, KeepInv
<1> QED
  BY <1>3, <1>4, <1>5
LEMMA CollectedInv == ASSUME Inv, Collected PROVE Inv'
<1>1. /\ pc = "dump" /\ work = << >> /\ pc' = IF closing THEN "after" ELSE "poll"
      /\ UNCHANGED <<frame, log, slot, covered, missed, loaded, added, startSeq,
                     startFrame, nextFrame, lastTotal, endFrame, closing, work,
                     entries, warned, error, report>>
  BY DEF Collected, server, cursor, span, result
<1>2. Types /\ LogInOrder /\ Data /\ Armed /\ ~error
  BY <1>1 DEF Inv, Armed
<1>3. Cursor /\ Spans /\ Got /\ Back
  BY <1>1, <1>2 DEF Inv, Regular, Starting
<1>4. pc' \in {"after", "poll"} /\ (pc' = "poll" <=> ~closing)
  BY <1>1
<1>5. Types' /\ LogInOrder' /\ Data'
  BY <1>1, <1>2, <1>4 DEF Types, LogInOrder, Data, Time
<1>6. Armed'
  BY <1>1, <1>2, <1>4 DEF Armed
<1>7. Cursor' /\ Spans' /\ Got' /\ Reached' = Reached
  BY <1>1, <1>3, <1>4 DEF Cursor, Spans, Got, Reached, Time, Oldest, Total
<1>8. Back'
  BY <1>1, <1>3, <1>4 DEF Back
<1> QED
  BY <1>4, <1>5, <1>6, <1>7, <1>8 DEF Inv, Regular, Starting

\* From the end of the window on only the slot and the warning change.
LEMMA EndInv ==
    ASSUME Inv, pc \in {"after", "finally", "disarm", "report"},
           pc' \in {"finally", "disarm", "report", "done"},
           UNCHANGED <<frame, log, covered, missed, loaded, added, startSeq, startFrame,
                       nextFrame, lastTotal, endFrame, closing, work, entries, error>>,
           warned' \in {warned, TRUE}, slot' \in {"free", "ours", "other"},
           report' \in {"none", "error", "partial", "complete"},
           Armed'
    PROVE  Inv'
<1>1. Types /\ LogInOrder /\ Data
  BY DEF Inv
<1>2. Types' /\ LogInOrder' /\ Data'
  <2>1. warned' \in BOOLEAN
    BY <1>1 DEF Types
  <2>2. Types'
    BY <1>1, <2>1 DEF Types
  <2> QED
    BY <1>1, <2>2 DEF LogInOrder, Data, Time
<1>3. ASSUME ~error PROVE Regular'
  <2>1. Cursor /\ Spans /\ Got /\ Back
    BY <1>3 DEF Inv, Regular, Starting
  <2>2. ~loaded /\ work = << >>
    BY <2>1 DEF Back, Spans
  <2>3. Spans' /\ Back' /\ Reached' = Reached
    BY <2>1, <2>2 DEF Spans, Back, Reached
  <2>4. Cursor'
    <3>1. pc = "after" \/ pc \in {"finally", "disarm", "report"}
      OBVIOUS
    <3> QED
      BY <2>1, <3>1 DEF Cursor, Time
  <2>5. Got'
    BY <2>1, <2>3 DEF Got, Oldest, Total
  <2> QED
    BY <2>3, <2>4, <2>5 DEF Regular, Starting
<1> QED
  BY <1>2, <1>3 DEF Inv

LEMMA ReadAfterInv == ASSUME Inv, ReadAfter PROVE Inv'
<1>1. /\ pc = "after" /\ pc' = "finally"
      /\ UNCHANGED <<frame, log, slot, covered, missed, loaded, added, startSeq,
                     startFrame, nextFrame, lastTotal, endFrame, closing, work,
                     entries, warned, error, report>>
  BY DEF ReadAfter, server, cursor, span, result
<1>2. Armed' /\ slot \in {"free", "ours", "other"}
         /\ report \in {"none", "error", "partial", "complete"}
  BY <1>1 DEF Inv, Armed, Types
<1> QED
  BY <1>1, <1>2, EndInv

LEMMA CheckRangesInv == ASSUME Inv, CheckRanges PROVE Inv'
<1>1. /\ pc = "finally"
      /\ UNCHANGED <<frame, log, slot, covered, missed, loaded, added, startSeq,
                     startFrame, nextFrame, lastTotal, endFrame, closing, work,
                     entries, error, report>>
  BY DEF CheckRanges, server, cursor, span
<1>2. \/ ~added /\ pc' = "report" /\ warned' = warned
      \/ added /\ slot = "ours" /\ pc' = "disarm" /\ warned' = warned
      \/ added /\ pc' = "report" /\ warned' = TRUE
  BY DEF CheckRanges
<1>3. Armed /\ slot \in {"free", "ours", "other"}
         /\ report \in {"none", "error", "partial", "complete"}
  BY DEF Inv, Types
<1>4. Armed'
  <2>1. CASE ~added /\ pc' = "report" /\ warned' = warned
    BY <1>1, <1>3, <2>1 DEF Armed
  <2>2. CASE added /\ slot = "ours" /\ pc' = "disarm" /\ warned' = warned
    BY <1>1, <1>3, <2>2 DEF Armed
  <2>3. CASE added /\ pc' = "report" /\ warned' = TRUE
    BY <1>1, <1>3, <2>3 DEF Armed
  <2> QED
    BY <1>2, <2>1, <2>2, <2>3
<1> QED
  BY <1>1, <1>2, <1>3, <1>4, EndInv

LEMMA DisarmInv == ASSUME Inv, Disarm PROVE Inv'
<1>1. /\ pc = "disarm" /\ pc' = "report"
      /\ UNCHANGED <<frame, log, covered, missed, loaded, added, startSeq,
                     startFrame, nextFrame, lastTotal, endFrame, closing, work,
                     entries, error, report>>
  BY DEF Disarm, cursor, span
<1>2. \/ slot' = "free" /\ warned' \in {warned, TRUE}
      \/ slot' = slot /\ warned' = TRUE
  BY DEF Disarm
<1>3. Armed /\ slot \in {"free", "ours", "other"}
         /\ report \in {"none", "error", "partial", "complete"}
  BY DEF Inv, Types
<1>4. Armed'
  <2>1. CASE slot' = "free" /\ warned' \in {warned, TRUE}
    BY <1>1, <1>3, <2>1 DEF Armed
  <2>2. CASE slot' = slot /\ warned' = TRUE
    BY <1>1, <1>3, <2>2 DEF Armed
  <2> QED
    BY <1>2, <2>1, <2>2
<1> QED
  BY <1>1, <1>2, <1>3, <1>4, EndInv

LEMMA ReportInv == ASSUME Inv, Report PROVE Inv'
<1>1. /\ pc = "report" /\ pc' = "done"
      /\ UNCHANGED <<frame, log, slot, covered, missed, loaded, added, startSeq,
                     startFrame, nextFrame, lastTotal, endFrame, closing, work,
                     entries, warned, error>>
  BY DEF Report, server, cursor, span
<1>2. /\ report' \in {"error", "partial", "complete"}
      /\ report' = "complete" => ~error /\ ~warned
  BY DEF Report
<1>3. Armed /\ slot \in {"free", "ours", "other"}
  BY DEF Inv, Types
<1>4. Armed'
  BY <1>1, <1>2, <1>3 DEF Armed
<1> QED
  BY <1>1, <1>2, <1>3, <1>4, EndInv

LEMMA NextInv == Inv /\ [Next]_vars => Inv'
<1> SUFFICES ASSUME Inv, [Next]_vars PROVE Inv'
  OBVIOUS
<1>1. CASE Game
  BY <1>1, WriteInv, NextFrameInv, LoadStateInv, MeddleInv DEF Game
<1>2. CASE Collector
  BY <1>2, RangesInv, ArmInv, StartStatsInv, StartFrameInv, PollInv, StatsInv,
     DumpInv, CollectedInv, ReadAfterInv, CheckRangesInv, DisarmInv, ReportInv
     DEF Collector
<1>3. CASE Unanswered
  BY <1>3, UnansweredInv
<1>4. CASE UNCHANGED vars
  <2>1. UNCHANGED <<frame, log, slot, covered, missed, loaded, pc, added, startSeq,
                    startFrame, nextFrame, lastTotal, endFrame, closing, work,
                    entries, warned, error, report>>
    BY <1>4 DEF vars, server, cursor, span, result
  <2>2. Types' /\ LogInOrder' /\ Data' /\ Armed'
    BY <2>1 DEF Inv, Types, LogInOrder, Data, Armed, Time
  <2>3. ~error => Regular'
    BY <2>1 DEF Inv, Regular, Starting, Idle, Cursor, Spans, Got, Back, Reached,
       Oldest, Total, Time
  <2> QED
    BY <2>1, <2>2, <2>3 DEF Inv
<1> QED
  BY <1>1, <1>2, <1>3, <1>4 DEF Next

-----------------------------------------------------------------------------
(***************************************************************************)
(* What follows.                                                           *)
(***************************************************************************)
\* Every reachable state is one of the invariant.
THEOREM AlwaysInv == Spec => []Inv
BY InitInv, NextInv, PTL DEF Spec

\* Whatever the game does between two requests and whichever of them fails, the
\* records collected are records of the ring, the total the collector compares
\* with never exceeds the server's and no span asked for is empty.
THEOREM CaptureTyped == Spec => []TypeOK
<1>1. Inv => TypeOK
  <2> SUFFICES ASSUME Inv PROVE TypeOK
    OBVIOUS
  <2>1. Types /\ Data
    BY DEF Inv
  <2>2. /\ startSeq \in Nat /\ lastTotal \in Nat /\ Len(log) \in Nat
        /\ entries \in Seq(Nat) /\ work \in Seq(Nat \X Nat)
    BY <2>1 DEF Types
  <2>3. ToSet(entries) \subseteq 1 .. Total
    BY <2>1, <2>2 DEF Data, ToSet, Total
  <2>4. lastTotal \in startSeq .. Total
    BY <2>1, <2>2 DEF Data, Total
  <2>5. \A i \in DOMAIN work : work[i][1] <= work[i][2]
    <3>1. DOMAIN work = 1 .. Len(work)
      BY <2>2
    <3>2. \A i \in 1 .. Len(work) : work[i][1] <= work[i][2]
      BY <2>1 DEF Data
    <3> QED
      BY <3>1, <3>2
  <2> QED
    BY <2>1, <2>3, <2>4, <2>5 DEF TypeOK, Types
<1> QED
  BY <1>1, AlwaysInv, PTL

\* frame_entries splits its spans and dumps them one after the other, yet the
\* records come out in the order the game made them and each of them once:
\* spans that follow each other, and frames that are in order until a state is
\* loaded.
THEOREM EntriesAlwaysInOrder == Spec => []EntriesOnceInOrder
<1>1. Inv => EntriesOnceInOrder
  <2> SUFFICES ASSUME Inv PROVE EntriesOnceInOrder
    OBVIOUS
  <2>1. entries \in Seq(Nat) /\ Ascending(entries)
    BY DEF Inv, Types, Data
  <2> QED
    BY <2>1 DEF EntriesOnceInOrder, Ascending
<1> QED
  BY <1>1, AlwaysInv, PTL

\* A capture that says it is complete has removed the range it armed.
THEOREM LeftArmedIsAlwaysReported == Spec => []LeftArmedIsReported
<1>1. Inv => LeftArmedIsReported
  BY DEF Inv, Armed, LeftArmedIsReported
<1> QED
  BY <1>1, AlwaysInv, PTL

\* A complete capture has only records of its window, and of those all but the
\* ones that the ring has overwritten since; no write of the window went
\* unrecorded and no state was loaded in it.
CompleteMisses ==
    report = "complete" => /\ ToSet(entries) \subseteq Window
                           /\ Window \ ToSet(entries) \subseteq 1 .. Oldest
                           /\ missed = {} /\ ~loaded

LEMMA InvComplete == Inv => CompleteMisses
<1> SUFFICES ASSUME Inv, report = "complete"
             PROVE  /\ ToSet(entries) \subseteq Window
                    /\ Window \ ToSet(entries) \subseteq 1 .. Oldest
                    /\ missed = {} /\ ~loaded
  BY DEF CompleteMisses
<1>1. pc = "done" /\ ~error /\ ~warned /\ missed = {}
  BY DEF Inv, Armed
<1>2. Types /\ Data /\ Cursor /\ Spans /\ Got /\ Back
  BY <1>1 DEF Inv, Regular, Starting
<1>3. /\ startSeq \in Nat /\ Len(log) \in Nat /\ entries \in Seq(Nat)
      /\ startFrame \in Nat /\ nextFrame \in Nat /\ endFrame \in Int
  BY <1>2, TimeFacts DEF Types
<1>4. ~loaded /\ work = << >> /\ Reached = nextFrame /\ endFrame = nextFrame - 1
  BY <1>1, <1>2 DEF Back, Spans, Cursor, Reached
<1>5. ToSet(entries) \subseteq Window
  <2>1. \A i \in 1 .. Len(entries) : /\ entries[i] \in startSeq + 1 .. Len(log)
                                     /\ log[entries[i]] \in startFrame .. endFrame
    BY <1>2, <1>4 DEF Data, Got
  <2> QED
    BY <1>3, <2>1 DEF ToSet, Window, Total
<1>6. ASSUME NEW s \in Window, s \notin ToSet(entries) PROVE s \in 1 .. Oldest
  <2>1. s \in startSeq + 1 .. Len(log) /\ log[s] \in startFrame .. Reached - 1
    BY <1>3, <1>4 DEF Window, Total
  <2>2. ~(\E i \in 1 .. Len(entries) : entries[i] = s)
    BY <1>3, <1>6 DEF ToSet
  <2>3. s <= Oldest
    BY <1>1, <1>2, <2>1, <2>2 DEF Got
  <2>4. Oldest \in Nat
    BY <1>3, CaptureAssumption DEF Oldest, Total
  <2> QED
    BY <1>3, <2>1, <2>3, <2>4
<1> QED
  BY <1>1, <1>4, <1>5, <1>6

\* For every size of the ring, the pages and the window: what a complete capture
\* lacks, the ring has overwritten.  That is as much as the code achieves, for
\* collect() looks at the ring's oldest record before it dumps, not after.
THEOREM OnlyTheOverwrittenIsLost == Spec => []CompleteMisses
BY AlwaysInv, InvComplete, PTL

\* With a ring that the game cannot fill, a capture that says it is complete has
\* every write of its window, whatever else happens.  Without that hypothesis it
\* does not hold: the run capture_overrun has the counterexample.
THEOREM CompleteAlwaysHasAll ==
    ASSUME Capacity >= MaxWrites PROVE Spec => []CompleteHasAll
<1>1. Inv => CompleteHasAll
  <2> SUFFICES ASSUME Inv, report = "complete"
               PROVE  /\ ToSet(entries) = Window
                      /\ missed \cap (startFrame .. endFrame) = {} /\ ~loaded
    BY DEF CompleteHasAll
  <2>1. /\ ToSet(entries) \subseteq Window /\ Window \ ToSet(entries) \subseteq 1 .. Oldest
        /\ missed = {} /\ ~loaded
    BY InvComplete DEF CompleteMisses
  <2>2. Oldest = 0
    <3>1. Len(log) \in Nat /\ Len(log) <= MaxWrites
      BY DEF Inv, Types, LogInOrder
    <3> QED
      BY <3>1, CaptureAssumption DEF Oldest, Total
  <2> QED
    BY <2>1, <2>2
<1> QED
  BY <1>1, AlwaysInv, PTL
================================================================================
