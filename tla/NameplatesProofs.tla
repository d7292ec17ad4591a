-------------------------- MODULE NameplatesProofs --------------------------
(***************************************************************************)
(* Proofs about Nameplates: its type invariant and its safety properties,  *)
(* for every limit of the counters, every set of guest memories and every  *)
(* bound on the frame numbers.                                             *)
(***************************************************************************)
EXTENDS Nameplates, SequenceTheorems, TLAPS

(***************************************************************************)
(* Writes.                                                                 *)
(***************************************************************************)
Name == {"blank", "Play 1", "Play 2", "Fred"}

Write == [field : {"visible"}, value : BOOLEAN]
         \cup [field : {"name0", "name1"}, value : Name]
         \cup [field : {"wins0", "wins1"}, value : 0 .. MaxWins]

\* The writes of one critical section, and of all those that are queued.
WritesOf(s) == {s[j] : j \in DOMAIN s}
PendingOf(q) == UNION {WritesOf(q[i]) : i \in DOMAIN q}
Pending == PendingOf(job)

\* Field f will hold v when everything queued has been written.
Settles(q, p, f, v) ==
    /\ \A w \in PendingOf(q) : w.field = f => w.value = v
    /\ (\A w \in PendingOf(q) : w.field # f) => p[f] = v
WillBe(f, v) == Settles(job, published, f, v)

LEMMA FieldFacts ==
    /\ Len(Fields) = 5
    /\ FieldSet = {"visible", "name0", "name1", "wins0", "wins1"}
    /\ Fields[1] = "visible" /\ Fields[2] = "name0" /\ Fields[3] = "name1"
    /\ Fields[4] = "wins0" /\ Fields[5] = "wins1"
BY DEF Fields, FieldSet

LEMMA EmptyFacts ==
    /\ DOMAIN Empty = FieldSet
    /\ Empty["visible"] = FALSE
    /\ Empty["name0"] = "blank" /\ Empty["name1"] = "blank"
    /\ Empty["wins0"] = 0 /\ Empty["wins1"] = 0
<1>1. DOMAIN Empty = FieldSet /\ Empty["name0"] = "blank"
      /\ Empty["name1"] = "blank"
    BY FieldFacts DEF Empty
<1>2. Empty["wins0"] = 0 /\ Empty["wins1"] = 0
    BY FieldFacts DEF Empty
<1>3. Empty["visible"] = FALSE
    BY FieldFacts, Zenon DEF Empty
<1> QED BY <1>1, <1>2, <1>3

LEMMA OneSection ==
    ASSUME NEW a PROVE PendingOf(<<a>>) = WritesOf(a)
BY DEF PendingOf

LEMMA TwoSections ==
    ASSUME NEW a, NEW b PROVE PendingOf(<<a, b>>) = WritesOf(a) \cup WritesOf(b)
<1>1. DOMAIN <<a, b>> = {1, 2} /\ <<a, b>>[1] = a /\ <<a, b>>[2] = b
    OBVIOUS
<1> DEFINE q == <<a, b>>
<1>2. DOMAIN q = {1, 2} /\ q[1] = a /\ q[2] = b BY <1>1
<1> HIDE DEF q
<1>3. PendingOf(q) = WritesOf(a) \cup WritesOf(b)
    BY <1>2 DEF PendingOf
<1> QED BY <1>3 DEF q

LEMMA NoSection == PendingOf(<< >>) = {}
BY DEF PendingOf

LEMMA ScoreWritten ==
    ASSUME NEW st
    PROVE  WritesOf(ScoreWrites(st)) = {Put("wins0", st.wins[0]), Put("wins1", st.wins[1])}
<1> DEFINE q == ScoreWrites(st)
<1>2. DOMAIN q = {1, 2} /\ q[1] = Put("wins0", st.wins[0]) /\ q[2] = Put("wins1", st.wins[1]) BY DEF ScoreWrites
<1> HIDE DEF q
<1>3. WritesOf(q) = {Put("wins0", st.wins[0]), Put("wins1", st.wins[1])}
    BY <1>2 DEF WritesOf
<1> QED BY <1>3 DEF q

LEMMA TickWritten ==
    ASSUME NEW b, NEW st
    PROVE  WritesOf(<<Put("visible", b)>> \o ScoreWrites(st))
             = {Put("visible", b), Put("wins0", st.wins[0]), Put("wins1", st.wins[1])}
<1> DEFINE q == <<Put("visible", b)>> \o ScoreWrites(st)
<1>2. /\ DOMAIN q = {1, 2, 3}
      /\ q[1] = Put("visible", b)
      /\ q[2] = Put("wins0", st.wins[0]) /\ q[3] = Put("wins1", st.wins[1])
    BY DEF ScoreWrites
<1> HIDE DEF q
<1>3. WritesOf(q) = {Put("visible", b), Put("wins0", st.wins[0]), Put("wins1", st.wins[1])}
    BY <1>2 DEF WritesOf
<1> QED BY <1>3 DEF q

LEMMA NamesWritten ==
    ASSUME NEW l, NEW r
    PROVE  WritesOf(NameWrites(l, r)) =
             {Put("name0", IF l = "blank" THEN "Play 1" ELSE l),
              Put("name1", IF r = "blank" THEN "Play 2" ELSE r)}
<1> DEFINE q == NameWrites(l, r)
           a == Put("name0", IF l = "blank" THEN "Play 1" ELSE l)
           b == Put("name1", IF r = "blank" THEN "Play 2" ELSE r)
<1>2. DOMAIN q = {1, 2} /\ q[1] = a /\ q[2] = b BY DEF NameWrites
<1> HIDE DEF q, a, b
<1>3. WritesOf(q) = {a, b}
    BY <1>2 DEF WritesOf
<1> QED BY <1>3 DEF q, a, b

LEMMA ClearWritten ==
    WritesOf(ClearWrites) =
        {Put("visible", FALSE), Put("name0", "blank"), Put("name1", "blank"),
         Put("wins0", 0), Put("wins1", 0)}
<1> DEFINE q == ClearWrites
<1>1. /\ DOMAIN q = 1 .. 5
      /\ \A i \in 1 .. 5 : q[i] = Put(Fields[i], Empty[Fields[i]])
    BY FieldFacts DEF ClearWrites
<1>2. /\ q[1] = Put("visible", FALSE)
      /\ q[2] = Put("name0", "blank") /\ q[3] = Put("name1", "blank")
      /\ q[4] = Put("wins0", 0) /\ q[5] = Put("wins1", 0)
  <2>1. 1 \in 1 .. 5 /\ 2 \in 1 .. 5 /\ 3 \in 1 .. 5 /\ 4 \in 1 .. 5 /\ 5 \in 1 .. 5
      OBVIOUS
  <2>2. /\ q[1] = Put(Fields[1], Empty[Fields[1]])
        /\ q[2] = Put(Fields[2], Empty[Fields[2]])
        /\ q[3] = Put(Fields[3], Empty[Fields[3]])
        /\ q[4] = Put(Fields[4], Empty[Fields[4]])
        /\ q[5] = Put(Fields[5], Empty[Fields[5]])
      BY <1>1, <2>1
  <2> QED BY <2>2, FieldFacts, EmptyFacts, Zenon
<1>3. 1 .. 5 = {1, 2, 3, 4, 5}
    OBVIOUS
<1> HIDE DEF q
<1>4. WritesOf(q) = {q[1], q[2], q[3], q[4], q[5]}
    BY <1>1, <1>3 DEF WritesOf
<1> QED BY <1>2, <1>4 DEF q

\* Sections with at least one more write, the sequence of them, and types.
LEMMA WriteTypes ==
    /\ \A b \in BOOLEAN : Put("visible", b) \in Write
    /\ \A n \in Name : Put("name0", n) \in Write /\ Put("name1", n) \in Write
    /\ \A k \in 0 .. MaxWins : Put("wins0", k) \in Write /\ Put("wins1", k) \in Write
BY DEF Put, Write

LEMMA WriteFacts ==
    ASSUME NEW w \in Write
    PROVE  /\ w.field \in FieldSet
           /\ w.field = "visible" => w.value \in BOOLEAN
           /\ w.field \in {"wins0", "wins1"} => w.value \in 0 .. MaxWins
BY FieldFacts DEF Write

LEMMA ScoreTypes ==
    ASSUME NEW st \in Score
    PROVE  st.wins[0] \in 0 .. MaxWins /\ st.wins[1] \in 0 .. MaxWins
BY DEF Score, Wins, Side

LEMMA SectionTypes ==
    /\ ClearWrites \in Seq(Write)
    /\ \A l, r \in Name : NameWrites(l, r) \in Seq(Write)
    /\ \A st \in Score : ScoreWrites(st) \in Seq(Write)
    /\ \A st \in Score, b \in BOOLEAN :
          <<Put("visible", b)>> \o ScoreWrites(st) \in Seq(Write)
<1>1. ClearWrites \in Seq(Write)
  <2>1. \A i \in 1 .. 5 : Put(Fields[i], Empty[Fields[i]]) \in Write
    <3>1. 0 \in 0 .. MaxWins /\ "blank" \in Name
        BY MaxWinsAssumption DEF Name
    <3>2. \A i \in 1 .. 5 : i \in {1, 2, 3, 4, 5}
        OBVIOUS
    <3>3. /\ Put("visible", FALSE) \in Write
          /\ Put("name0", "blank") \in Write /\ Put("name1", "blank") \in Write
          /\ Put("wins0", 0) \in Write /\ Put("wins1", 0) \in Write
        BY <3>1, WriteTypes
    <3>4. \A i \in {1, 2, 3, 4, 5} : Put(Fields[i], Empty[Fields[i]]) \in Write
        BY <3>3, FieldFacts, EmptyFacts, Zenon
    <3> QED BY <3>2, <3>4
  <2>2. ClearWrites = [i \in 1 .. 5 |-> Put(Fields[i], Empty[Fields[i]])]
      BY FieldFacts DEF ClearWrites
  <2>3. ClearWrites \in [1 .. 5 -> Write]
      BY <2>1, <2>2
  <2> QED BY <2>3
<1>2. ASSUME NEW l \in Name, NEW r \in Name
      PROVE  NameWrites(l, r) \in Seq(Write)
  <2> DEFINE a == IF l = "blank" THEN "Play 1" ELSE l
             b == IF r = "blank" THEN "Play 2" ELSE r
  <2>1. a \in Name /\ b \in Name
      BY DEF Name
  <2>2. Put("name0", a) \in Write /\ Put("name1", b) \in Write
      BY <2>1, WriteTypes
  <2>3. NameWrites(l, r) = <<Put("name0", a), Put("name1", b)>>
      BY DEF NameWrites
  <2> HIDE DEF a, b
  <2> QED BY <2>2, <2>3
<1>3. ASSUME NEW st \in Score
      PROVE  ScoreWrites(st) \in Seq(Write)
  <2>1. Put("wins0", st.wins[0]) \in Write /\ Put("wins1", st.wins[1]) \in Write
      BY ScoreTypes, WriteTypes
  <2> QED BY <2>1 DEF ScoreWrites
<1>4. ASSUME NEW st \in Score, NEW b \in BOOLEAN
      PROVE  <<Put("visible", b)>> \o ScoreWrites(st) \in Seq(Write)
  <2>1. Put("visible", b) \in Write
      BY WriteTypes
  <2>2. <<Put("visible", b)>> \in Seq(Write)
      BY <2>1
  <2> QED BY <2>2, <1>3
<1> QED BY <1>1, <1>2, <1>3, <1>4

\* One write of the first section is done.
LEMMA OneWrite ==
    ASSUME NEW q \in Seq(Seq(Write)), q # << >>, Head(q) # << >>
    PROVE  LET w == Head(Head(q))
               t == <<Tail(Head(q))>> \o Tail(q)
           IN /\ w \in Write
              /\ t \in Seq(Seq(Write)) /\ t # << >>
              /\ PendingOf(q) = {w} \cup PendingOf(t)
<1> DEFINE h == Head(q)
           w == Head(h)
           t == <<Tail(h)>> \o Tail(q)
<1>1. h \in Seq(Write) /\ Tail(q) \in Seq(Seq(Write))
      /\ Len(Tail(q)) = Len(q) - 1
      /\ \A i \in 1 .. Len(q) - 1 : Tail(q)[i] = q[i + 1]
    BY HeadTailProperties
<1>2. /\ w \in Write /\ Tail(h) \in Seq(Write)
      /\ Len(Tail(h)) = Len(h) - 1
      /\ \A i \in 1 .. Len(h) - 1 : Tail(h)[i] = h[i + 1]
    BY <1>1, HeadTailProperties
<1>3. Len(q) \in Nat \ {0} /\ Len(h) \in Nat \ {0}
      /\ DOMAIN q = 1 .. Len(q) /\ DOMAIN h = 1 .. Len(h)
      /\ DOMAIN Tail(h) = 1 .. Len(h) - 1
      /\ h = q[1] /\ w = h[1]
    BY <1>1, <1>2, EmptySeq, LenProperties
<1>4. WritesOf(h) = {w} \cup WritesOf(Tail(h))
  <2>1. \A j \in 1 .. Len(h) : j = 1 \/ (j - 1 \in 1 .. Len(h) - 1 /\ h[j] = Tail(h)[j - 1])
      BY <1>2, <1>3
  <2>2. \A j \in 1 .. Len(h) - 1 : j + 1 \in 1 .. Len(h) /\ h[j + 1] = Tail(h)[j]
      BY <1>2, <1>3
  <2>3. 1 \in 1 .. Len(h)
      BY <1>3
  <2> HIDE DEF h, w, t
  <2>4. \A x : x \in WritesOf(h) <=> \E j \in 1 .. Len(h) : x = h[j]
      BY <1>3 DEF WritesOf
  <2>5. \A x : x \in WritesOf(Tail(h))
                 <=> \E j \in 1 .. Len(h) - 1 : x = Tail(h)[j]
      BY <1>3 DEF WritesOf
  <2>6. \A x : x \in WritesOf(h) <=> x = w \/ x \in WritesOf(Tail(h))
    <3>1. ASSUME NEW x, x \in WritesOf(h)
          PROVE  x = w \/ x \in WritesOf(Tail(h))
      <4>1. PICK j \in 1 .. Len(h) : x = h[j]
          BY <3>1, <2>4
      <4>2. CASE j = 1
          BY <4>1, <4>2, <1>3
      <4>3. CASE j - 1 \in 1 .. Len(h) - 1 /\ h[j] = Tail(h)[j - 1]
          BY <4>1, <4>3, <2>5
      <4> QED BY <4>1, <4>2, <4>3, <2>1
    <3>2. ASSUME NEW x, x \in WritesOf(Tail(h))
          PROVE  x \in WritesOf(h)
      <4>1. PICK j \in 1 .. Len(h) - 1 : x = Tail(h)[j]
          BY <3>2, <2>5
      <4> QED BY <4>1, <2>2, <2>4
    <3>3. w \in WritesOf(h)
        BY <1>3, <2>3, <2>4
    <3> QED BY <3>1, <3>2, <3>3
  <2> QED BY <2>6
<1>5. <<Tail(h)>> \in Seq(Seq(Write)) /\ Len(<<Tail(h)>>) = 1 /\ <<Tail(h)>>[1] = Tail(h)
    BY <1>2
<1>6. /\ t \in Seq(Seq(Write)) /\ Len(t) = Len(q)
      /\ t[1] = Tail(h)
      /\ \A i \in 2 .. Len(q) : t[i] = q[i]
  <2>1. /\ t \in Seq(Seq(Write)) /\ Len(t) = 1 + (Len(q) - 1)
        /\ \A i \in 1 .. 1 + (Len(q) - 1) :
              t[i] = IF i <= 1 THEN <<Tail(h)>>[i] ELSE Tail(q)[i - 1]
      BY <1>1, <1>5, ConcatProperties
  <2> HIDE DEF t
  <2>2. \A i \in 2 .. Len(q) : t[i] = q[i]
      BY <1>1, <1>3, <2>1
  <2> QED BY <1>3, <1>5, <2>1, <2>2
<1>7. DOMAIN t = 1 .. Len(q) /\ t # << >>
    BY <1>3, <1>6, LenProperties, EmptySeq
<1>8. PendingOf(q) = {w} \cup PendingOf(t)
  <2>1. 1 \in 1 .. Len(q) /\ \A i \in 1 .. Len(q) : i = 1 \/ i \in 2 .. Len(q)
      BY <1>3
  <2>2. \A i \in 2 .. Len(q) : i \in 1 .. Len(q)
      BY <1>3
  <2> HIDE DEF h, w, t
  <2>3. \A x : x \in PendingOf(q) <=> \E i \in 1 .. Len(q) : x \in WritesOf(q[i])
      BY <1>3 DEF PendingOf
  <2>4. \A x : x \in PendingOf(t) <=> \E i \in 1 .. Len(q) : x \in WritesOf(t[i])
      BY <1>7 DEF PendingOf
  <2>5. \A x : x \in PendingOf(q)
                 <=> x \in WritesOf(h) \/ \E i \in 2 .. Len(q) : x \in WritesOf(q[i])
      BY <1>3, <2>1, <2>2, <2>3
  <2>6. \A x : x \in PendingOf(t)
                 <=> x \in WritesOf(Tail(h)) \/ \E i \in 2 .. Len(q) : x \in WritesOf(q[i])
      BY <1>6, <2>1, <2>2, <2>4
  <2>7. \A x : x \in PendingOf(q) <=> x = w \/ x \in PendingOf(t)
      BY <1>4, <2>5, <2>6
  <2> QED BY <2>7
<1> QED BY <1>2, <1>6, <1>7, <1>8

\* An empty first section is left.
LEMMA OneRelease ==
    ASSUME NEW q \in Seq(Seq(Write)), q # << >>, Head(q) = << >>
    PROVE  /\ Tail(q) \in Seq(Seq(Write))
           /\ PendingOf(Tail(q)) = PendingOf(q)
<1>1. /\ Tail(q) \in Seq(Seq(Write)) /\ Len(Tail(q)) = Len(q) - 1
      /\ \A i \in 1 .. Len(q) - 1 : Tail(q)[i] = q[i + 1]
    BY HeadTailProperties
<1>2. /\ Len(q) \in Nat \ {0} /\ DOMAIN q = 1 .. Len(q)
      /\ DOMAIN Tail(q) = 1 .. Len(q) - 1 /\ q[1] = << >>
    BY <1>1, LenProperties, EmptySeq
<1>3. WritesOf(q[1]) = {}
    BY <1>2 DEF WritesOf
<1>4. \A i \in 1 .. Len(q) : i = 1 \/ (i - 1 \in 1 .. Len(q) - 1 /\ q[i] = Tail(q)[i - 1])
    BY <1>1, <1>2
<1>5. \A i \in 1 .. Len(q) - 1 : i + 1 \in 1 .. Len(q) /\ q[i + 1] = Tail(q)[i]
    BY <1>1, <1>2
<1> DEFINE t == Tail(q)
<1> HIDE DEF t
<1>6. PendingOf(t) = PendingOf(q)
  <2>1. \A x : x \in PendingOf(q) <=> \E i \in 1 .. Len(q) : x \in WritesOf(q[i])
      BY <1>2 DEF PendingOf
  <2>2. \A x : x \in PendingOf(t) <=> \E i \in 1 .. Len(q) - 1 : x \in WritesOf(t[i])
      BY <1>2 DEF PendingOf, t
  <2>3. \A i \in 1 .. Len(q) - 1 : i + 1 \in 1 .. Len(q) /\ q[i + 1] = t[i]
      BY <1>5 DEF t
  <2>4. \A i \in 1 .. Len(q) : i = 1 \/ (i - 1 \in 1 .. Len(q) - 1 /\ q[i] = t[i - 1])
      BY <1>4 DEF t
  <2>5. \A x : x \in PendingOf(q) <=> x \in PendingOf(t)
      BY <1>3, <2>1, <2>2, <2>3, <2>4
  <2> QED BY <2>5
<1> QED BY <1>1, <1>6 DEF t

-----------------------------------------------------------------------------
(***************************************************************************)
(* The shape of the state.                                                 *)
(***************************************************************************)
PlateOK(p) == /\ DOMAIN p = FieldSet
              /\ p["visible"] \in BOOLEAN
              /\ p["wins0"] \in 0 .. MaxWins /\ p["wins1"] \in 0 .. MaxWins

IsPlate(p) == p = [f \in FieldSet |-> p[f]]

\* The lock says who may touch what.
Locking == /\ job \in Seq(Seq(Write))
           /\ lock = "sim" => job # << >>
           /\ lock = "render" <=> copied # 0
           /\ lock # "sim" => published = committed
           /\ copied # 0 => \A i \in 1 .. copied : out[Fields[i]] = published[Fields[i]]
           /\ IsPlate(published) /\ IsPlate(out)

Typed == TypeOK /\ Locking

LEMMA PlateWrite ==
    ASSUME NEW p, IsPlate(p), NEW f, NEW v
    PROVE  IsPlate([p EXCEPT ![f] = v])
BY DEF IsPlate

\* One step of the simulation thread's critical sections settles nothing anew.
LEMMA WriteFieldFacts ==
    ASSUME Typed, WriteField
    PROVE  /\ Typed'
           /\ \E w \in Write :
                 /\ Pending = {w} \cup Pending'
                 /\ published' = [published EXCEPT ![w.field] = w.value]
<1> DEFINE w == Head(Head(job))
           t == <<Tail(Head(job))>> \o Tail(job)
<1>1. /\ w \in Write /\ t \in Seq(Seq(Write)) /\ t # << >>
      /\ PendingOf(job) = {w} \cup PendingOf(t)
    BY OneWrite DEF Typed, Locking, WriteField
<1>2. /\ job' = t /\ published' = [published EXCEPT ![w.field] = w.value]
      /\ lock = "sim"
      /\ UNCHANGED <<guest, frame, phase, score, enabled, hudSeen, hudPacket,
                     prevFrame, lock, out, copied, shown, committed, hudInStay>>
    BY DEF WriteField, private, renders
<1> HIDE DEF w, t
<1>3. PlateOK(published')
    BY <1>1, <1>2, WriteFacts, FieldFacts DEF PlateOK, Typed, TypeOK
<1>4. TypeOK'
    BY <1>2, <1>3 DEF Typed, TypeOK, PlateOK
<1>5. Locking'
  <2>1. IsPlate(published')
      BY <1>2, PlateWrite DEF Typed, Locking
  <2> QED BY <1>1, <1>2, <2>1 DEF Typed, Locking
<1> QED BY <1>1, <1>2, <1>4, <1>5 DEF Typed, Pending

LEMMA ReleaseFacts ==
    ASSUME Typed, Release
    PROVE  /\ Typed'
           /\ Pending' = Pending /\ published' = published
           /\ committed' = published /\ lock' = "free"
<1>1. /\ Tail(job) \in Seq(Seq(Write)) /\ PendingOf(Tail(job)) = PendingOf(job)
    BY OneRelease DEF Typed, Locking, Release
<1>2. TypeOK'
    BY DEF Typed, TypeOK, Release, private, renders
<1>3. Locking'
    BY <1>1 DEF Typed, Locking, Release, private, renders
<1> QED BY <1>1, <1>2, <1>3 DEF Typed, Release, Pending

LEMMA AcquireFacts ==
    ASSUME Typed, Acquire
    PROVE  Typed' /\ Pending' = Pending /\ published' = published /\ committed' = committed
BY DEF Typed, TypeOK, Locking, Acquire, private, renders, Pending

LEMMA RendererFacts ==
    ASSUME Typed, Renderer
    PROVE  /\ Typed' /\ Pending' = Pending
           /\ UNCHANGED <<guest, frame, phase, score, private, published, job,
                          committed, hudInStay>>
           /\ shown' = shown \/ SnapshotEnd
<1>1. UNCHANGED <<guest, frame, phase, score, private, published, job,
                  committed, hudInStay>>
    BY DEF Renderer, SnapshotBegin, SnapshotField, SnapshotEnd, NotRenderer
<1>2. CASE SnapshotBegin
  <2>1. PlateOK(out')
      BY <1>2, FieldFacts DEF SnapshotBegin, Typed, TypeOK, PlateOK
  <2>2. TypeOK'
      BY <1>1, <1>2, <2>1, FieldFacts DEF SnapshotBegin, Typed, TypeOK, PlateOK, private
  <2>3. Locking'
    <3>1. IsPlate(out')
        BY <1>2, PlateWrite DEF SnapshotBegin, Typed, Locking
    <3> QED BY <1>1, <1>2, <3>1, FieldFacts DEF SnapshotBegin, Typed, TypeOK, Locking
  <2> QED BY <1>1, <1>2, <2>2, <2>3 DEF Typed, Pending, SnapshotBegin
<1>3. CASE SnapshotField
  <2>1. PlateOK(out')
      BY <1>3, FieldFacts DEF SnapshotField, Typed, TypeOK, PlateOK
  <2>2. TypeOK'
      BY <1>1, <1>3, <2>1, FieldFacts DEF SnapshotField, Typed, TypeOK, PlateOK, private
  <2>3. Locking'
    <3>1. IsPlate(out')
        BY <1>3, PlateWrite DEF SnapshotField, Typed, Locking
    <3>2. /\ copied \in 1 .. 4 /\ copied' = copied + 1
          /\ out' = [out EXCEPT ![Fields[copied']] = published[Fields[copied']]]
          /\ DOMAIN out = FieldSet /\ lock' = lock
        BY <1>3, FieldFacts DEF SnapshotField, Typed, TypeOK
    <3>3. \A i \in 1 .. 5 : Fields[i] \in FieldSet
        BY FieldFacts DEF FieldSet
    <3>4. ASSUME NEW i \in 1 .. copied' PROVE out'[Fields[i]] = published[Fields[i]]
      <4>1. i \in 1 .. 5 /\ (i = copied' \/ i \in 1 .. copied)
          BY <3>2
      <4>2. i \in 1 .. copied => out[Fields[i]] = published[Fields[i]]
          BY <3>2 DEF Typed, Locking
      <4> QED BY <3>2, <3>3, <4>1, <4>2
    <3>5. copied' # 0 /\ copied # 0
        BY <3>2
    <3> QED BY <1>1, <3>1, <3>2, <3>4, <3>5 DEF Typed, Locking
  <2> QED BY <1>1, <1>3, <2>2, <2>3 DEF Typed, Pending, SnapshotField
<1>4. CASE SnapshotEnd
  <2>2. TypeOK'
      BY <1>1, <1>4, FieldFacts DEF SnapshotEnd, Typed, TypeOK, private
  <2>3. Locking'
      BY <1>1, <1>4, FieldFacts DEF SnapshotEnd, Typed, TypeOK, Locking
  <2> QED BY <1>1, <1>4, <2>2, <2>3 DEF Typed, Pending
<1> QED BY <1>2, <1>3, <1>4 DEF Renderer

LEMMA Idle == ASSUME Typed, Called
              PROVE  Pending = {} /\ lock # "sim" /\ published = committed
BY NoSection DEF Typed, Locking, Called, Pending

\* StepScore and ResetScore keep a score a score.
LEMMA ScoreSteps ==
    ASSUME NEW st \in Score, NEW e \in Env
    PROVE  /\ StepScore(st, e.scene, e.mode, e.flags) \in Score
           /\ ResetScore(e.flags.result) \in Score /\ ResetScore(FALSE) \in Score
           /\ \A w \in Wins : [wins |-> w, latched |-> e.flags.result] \in Score
<1>1. NoWins \in Wins
    BY MaxWinsAssumption DEF NoWins, Wins
<1>2. e.flags.result \in BOOLEAN /\ e.flags.winner \in Side
    BY EnvAssumption
<1>3. ResetScore(e.flags.result) \in Score /\ ResetScore(FALSE) \in Score
      /\ \A w \in Wins : [wins |-> w, latched |-> e.flags.result] \in Score
    BY <1>1, <1>2 DEF ResetScore, Score
<1>4. st.wins \in Wins /\ st.latched \in BOOLEAN
    BY DEF Score
<1>5. \A k \in 0 .. MaxWins : Saturate(k) \in 0 .. MaxWins
    BY MaxWinsAssumption DEF Saturate
<1>6. [st.wins EXCEPT ![e.flags.winner] = Saturate(@)] \in Wins
    BY <1>2, <1>4, <1>5 DEF Wins
<1>7. StepScore(st, e.scene, e.mode, e.flags) \in Score
  <2> DEFINE w == IF ConsumesResult(st, e.scene, e.flags) /\ ~e.flags.draw
                  THEN [st.wins EXCEPT ![e.flags.winner] = Saturate(@)]
                  ELSE st.wins
             l == Rearmed(st, e.flags) \/ ConsumesResult(st, e.scene, e.flags)
  <2>1. w \in Wins /\ l \in BOOLEAN
      BY <1>4, <1>6
  <2>2. StepScore(st, e.scene, e.mode, e.flags) =
          IF OutsideVersus(e.scene, e.mode) THEN ResetScore(e.flags.result)
          ELSE [wins |-> w, latched |-> l]
      BY DEF StepScore
  <2> HIDE DEF w, l
  <2>3. [wins |-> w, latched |-> l] \in Score
      BY <2>1 DEF Score
  <2> QED BY <1>3, <2>2, <2>3
<1> QED BY <1>3, <1>7

\* What each call of the provider table queues.
LEMMA SimulatedFrameFacts ==
    ASSUME Typed, NEW e \in Env, NEW hud \in BOOLEAN, SimulatedFrame(e, hud)
    PROVE  Typed' /\ UNCHANGED <<Pending, published, committed, shown>>
<1>1. hudPacket' \in BOOLEAN /\ hudInStay' \in BOOLEAN
    BY DEF SimulatedFrame
<1>2. score' \in Score /\ guest' \in Env /\ phase' = "run"
    BY ScoreSteps DEF SimulatedFrame, Typed, TypeOK
<1>3. TypeOK'
    BY <1>1, <1>2 DEF SimulatedFrame, Typed, TypeOK, NoWrites, renders
<1>4. Locking'
    BY DEF SimulatedFrame, Typed, Locking, NoWrites, renders
<1> QED BY <1>3, <1>4 DEF Typed, SimulatedFrame, NoWrites, renders, Pending

LEMMA QueueFacts ==
    ASSUME Typed, Called, NEW q \in Seq(Seq(Write)), Queue(q),
           UNCHANGED <<out, copied>>
    PROVE  Locking' /\ Pending' = PendingOf(q) /\ UNCHANGED <<published, committed, lock>>
BY DEF Typed, Called, Queue, Locking, Pending

LEMMA TickFacts ==
    ASSUME Typed, Tick
    PROVE  /\ Typed' /\ UNCHANGED <<published, committed, shown, guest, score, enabled, hudInStay>>
           /\ ~enabled => Pending' = Pending /\ UNCHANGED <<hudSeen, hudPacket, prevFrame>>
           /\ enabled => /\ Pending' = {Put("visible", InMatch(guest) /\ SeesHud(frame')),
                                       Put("wins0", score.wins[0]), Put("wins1", score.wins[1])}
                         /\ hudSeen' = SeesHud(frame') /\ hudPacket' = FALSE /\ prevFrame' = frame'
<1> DEFINE b == InMatch(guest) /\ SeesHud(frame')
           a == <<Put("visible", b)>> \o ScoreWrites(score)
<1>1. b \in BOOLEAN /\ score \in Score
    BY DEF Typed, TypeOK
<1>2. a \in Seq(Write)
    BY <1>1, SectionTypes
<1>3. WritesOf(a) = {Put("visible", b), Put("wins0", score.wins[0]), Put("wins1", score.wins[1])}
    BY TickWritten
<1>4. /\ enabled => Queue(<<a>>) /\ hudSeen' = SeesHud(frame') /\ hudPacket' = FALSE
                    /\ prevFrame' = frame'
      /\ ~enabled => NoWrites /\ UNCHANGED <<hudSeen, hudPacket, prevFrame>>
      /\ UNCHANGED <<guest, score, enabled, out, copied, shown, hudInStay>>
      /\ Called /\ frame' = frame + 1 /\ frame < MaxFrame /\ phase' = "end"
    BY DEF Tick, renders
<1>5. SeesHud(frame') \in BOOLEAN
    BY DEF SeesHud, LeavesMatch, InMatch, Typed, TypeOK
<1>6. frame' \in 0 .. MaxFrame
    BY <1>4, FrameAssumption DEF Typed, TypeOK
<1> HIDE DEF a, b
<1>7. CASE enabled
  <2>1. <<a>> \in Seq(Seq(Write))
      BY <1>2
  <2>2. Locking' /\ Pending' = PendingOf(<<a>>) /\ UNCHANGED <<published, committed, lock>>
      BY <1>4, <1>7, <2>1, QueueFacts
  <2>3. TypeOK'
      BY <1>4, <1>5, <1>6, <1>7, <2>2 DEF Typed, TypeOK
  <2> QED BY <1>3, <1>4, <1>7, <2>2, <2>3, OneSection DEF Typed, b
<1>8. CASE ~enabled
  <2>1. Locking' /\ Pending' = Pending /\ UNCHANGED <<published, committed, lock>>
      BY <1>4, <1>8 DEF Typed, Locking, NoWrites, Pending
  <2>2. TypeOK'
      BY <1>4, <1>6, <1>8, <2>1 DEF Typed, TypeOK
  <2> QED BY <1>4, <1>8, <2>1, <2>2 DEF Typed
<1> QED BY <1>7, <1>8 DEF Typed, TypeOK

LEMMA ConfigureFacts ==
    ASSUME Typed, NEW on \in BOOLEAN, Configure(on)
    PROVE  /\ Typed' /\ UNCHANGED <<published, committed, shown>>
           /\ Len(job') = 2 /\ job'[2] = NameWrites("blank", "blank")
           /\ Head(job') = ClearWrites
           /\ Pending' = WritesOf(ClearWrites) \cup WritesOf(NameWrites("blank", "blank"))
<1> DEFINE a == ClearWrites
           b == NameWrites("blank", "blank")
<1>1. a \in Seq(Write) /\ b \in Seq(Write)
    BY SectionTypes DEF Name
<1>2. Queue(<<a, b>>) /\ Called /\ enabled' = on /\ prevFrame' = 0
      /\ hudSeen' = FALSE /\ hudPacket' = FALSE /\ hudInStay' = FALSE
      /\ UNCHANGED <<guest, frame, phase, score, out, copied, shown>>
    BY DEF Configure, renders
<1> HIDE DEF a, b
<1>3. <<a, b>> \in Seq(Seq(Write)) /\ Len(<<a, b>>) = 2 /\ <<a, b>>[2] = b /\ Head(<<a, b>>) = a
    BY <1>1
<1>4. Locking' /\ Pending' = PendingOf(<<a, b>>) /\ UNCHANGED <<published, committed, lock>>
    BY <1>2, <1>3, QueueFacts
<1>5. TypeOK'
  <2>1. {enabled, hudSeen, hudPacket, hudInStay}' \subseteq BOOLEAN
      BY <1>2
  <2>2. prevFrame' \in 0 .. MaxFrame
      BY <1>2, FrameAssumption
  <2> QED BY <1>2, <1>4, <2>1, <2>2 DEF Typed, TypeOK
<1> QED BY <1>2, <1>3, <1>4, <1>5, TwoSections DEF Typed, Queue, a, b

LEMMA SetNamesFacts ==
    ASSUME Typed, SetNames("Fred", "blank")
    PROVE  /\ Typed'
           /\ UNCHANGED <<guest, frame, phase, score, private, hudInStay, published, committed, shown>>
           /\ Pending' = {Put("name0", "Fred"), Put("name1", "Play 2")}
<1> DEFINE a == NameWrites("Fred", "blank")
<1>1. a \in Seq(Write)
    BY SectionTypes DEF Name
<1>2. WritesOf(a) = {Put("name0", "Fred"), Put("name1", "Play 2")}
    BY NamesWritten
<1>3. Queue(<<a>>) /\ Called
      /\ UNCHANGED <<guest, frame, phase, score, private, hudInStay, out, copied, shown>>
    BY DEF SetNames, renders
<1> HIDE DEF a
<1>4. <<a>> \in Seq(Seq(Write))
    BY <1>1
<1>5. Locking' /\ Pending' = PendingOf(<<a>>) /\ UNCHANGED <<published, committed, lock>>
    BY <1>3, <1>4, QueueFacts
<1>6. TypeOK'
    BY <1>3, <1>5 DEF Typed, TypeOK, private
<1> QED BY <1>2, <1>3, <1>5, <1>6, OneSection DEF Typed

LEMMA NewScoreFacts ==
    ASSUME Typed, NEW st \in Score, NewScore(st),
           UNCHANGED <<out, copied, shown>>
    PROVE  /\ Locking' /\ Pending = {} /\ score' = st
           /\ UNCHANGED <<published, committed, lock>>
           /\ Pending' = {Put("wins0", st.wins[0]), Put("wins1", st.wins[1])}
<1> DEFINE a == ScoreWrites(st)
<1>1. a \in Seq(Write)
    BY SectionTypes
<1>2. WritesOf(a) = {Put("wins0", st.wins[0]), Put("wins1", st.wins[1])}
    BY ScoreWritten
<1>3. Queue(<<a>>) /\ Called /\ score' = st
    BY DEF NewScore
<1> HIDE DEF a
<1>4. <<a>> \in Seq(Seq(Write))
    BY <1>1
<1>5. Locking' /\ Pending' = PendingOf(<<a>>) /\ UNCHANGED <<published, committed, lock>>
    BY <1>3, <1>4, QueueFacts
<1> QED BY <1>2, <1>3, <1>5, OneSection, Idle

\* reset_score(), begin_session() and a restore.
ScoreCall(st) == /\ Typed' /\ Pending = {} /\ score' = st
                 /\ UNCHANGED <<private, published, committed, shown>>
                 /\ Pending' = {Put("wins0", st.wins[0]), Put("wins1", st.wins[1])}

LEMMA ResetFacts ==
    ASSUME Typed, ClearScore \/ BeginSession
    PROVE  /\ \E st \in Score : ScoreCall(st)
           /\ UNCHANGED <<guest, frame, phase, hudInStay>>
<1>1. PICK st \in Score : NewScore(st)
    BY ScoreSteps DEF ClearScore, BeginSession, Typed, TypeOK
<1>2. UNCHANGED <<guest, frame, phase, private, out, copied, shown, hudInStay>>
    BY DEF ClearScore, BeginSession, renders
<1>3. /\ Locking' /\ Pending = {} /\ score' = st
      /\ UNCHANGED <<published, committed, lock>>
      /\ Pending' = {Put("wins0", st.wins[0]), Put("wins1", st.wins[1])}
    BY <1>1, <1>2, NewScoreFacts
<1>4. TypeOK'
    BY <1>2, <1>3 DEF Typed, TypeOK, private
<1> QED BY <1>2, <1>3, <1>4 DEF ScoreCall, Typed

LEMMA RestoreFacts ==
    ASSUME Typed, NEW e \in Env, NEW f \in 0 .. MaxFrame, NEW w \in Wins,
           Restore(e, f, [wins |-> w, latched |-> e.flags.result])
    PROVE  /\ ScoreCall([wins |-> w, latched |-> e.flags.result])
           /\ phase = "end" /\ phase' = "restored" /\ guest' = e /\ frame' = f
           /\ hudInStay' = FALSE /\ (Back => f + 1 < prevFrame)
<1> DEFINE st == [wins |-> w, latched |-> e.flags.result]
<1>1. st \in Score
    BY ScoreSteps DEF Typed, TypeOK
<1>2. /\ NewScore(st) /\ UNCHANGED <<private, out, copied, shown>>
      /\ phase = "end" /\ phase' = "restored" /\ guest' = e /\ frame' = f
      /\ hudInStay' = FALSE /\ (Back => f + 1 < prevFrame)
    BY DEF Restore, renders
<1> HIDE DEF st
<1>3. /\ Locking' /\ Pending = {} /\ score' = st
      /\ UNCHANGED <<published, committed, lock>>
      /\ Pending' = {Put("wins0", st.wins[0]), Put("wins1", st.wins[1])}
    BY <1>1, <1>2, NewScoreFacts
<1>4. TypeOK'
    BY <1>1, <1>2, <1>3 DEF Typed, TypeOK, private
<1> QED BY <1>2, <1>3, <1>4 DEF ScoreCall, Typed, st

-----------------------------------------------------------------------------
(***************************************************************************)
(* Types, and the renderer's copy.                                         *)
(***************************************************************************)
LEMMA InitTyped == Init => Typed
<1> SUFFICES ASSUME Init PROVE Typed
    OBVIOUS
<1>1. NoWins \in Wins
    BY MaxWinsAssumption DEF NoWins, Wins
<1>2. score \in Score
    BY <1>1 DEF Init, ResetScore, Score
<1>3. PlateOK(Empty)
  <2>1. Empty["visible"] \in BOOLEAN
      BY EmptyFacts, Zenon
  <2>2. 0 \in 0 .. MaxWins
      BY MaxWinsAssumption
  <2> QED BY <2>1, <2>2, EmptyFacts DEF PlateOK
<1>4. TypeOK
  <2>1. {enabled, hudSeen, hudPacket, hudInStay} \subseteq BOOLEAN
      BY DEF Init
  <2>2. \A p \in {published, out, shown, committed} : PlateOK(p)
      BY <1>3 DEF Init
  <2>3. /\ guest \in Env /\ frame \in 0 .. MaxFrame /\ prevFrame \in 0 .. MaxFrame
        /\ phase \in {"end", "restored", "run"} /\ lock \in {"free", "sim", "render"}
        /\ copied \in 0 .. Len(Fields)
      BY FieldFacts, FrameAssumption DEF Init
  <2> QED BY <1>2, <2>1, <2>2, <2>3 DEF TypeOK, PlateOK
<1>5. Locking
  <2>1. IsPlate(Empty)
      BY EmptyFacts, Zenon DEF Empty, IsPlate
  <2> QED BY <2>1 DEF Init, Locking
<1> QED BY <1>4, <1>5 DEF Typed

LEMMA NextTyped == Typed /\ [Next]_vars => Typed'
<1> SUFFICES ASSUME Typed, [Next]_vars PROVE Typed'
    OBVIOUS
<1>1. CASE Calls
    BY <1>1, SimulatedFrameFacts, TickFacts, ConfigureFacts, SetNamesFacts,
       ResetFacts, RestoreFacts DEF Calls, ScoreCall
<1>2. CASE Critical
    BY <1>2, WriteFieldFacts, ReleaseFacts, AcquireFacts DEF Critical
<1>3. CASE Renderer
    BY <1>3, RendererFacts
<1>4. CASE UNCHANGED vars
    BY <1>4 DEF vars, private, renders, Typed, TypeOK, Locking
<1> QED BY <1>1, <1>2, <1>3, <1>4 DEF Next

(***************************************************************************)
(* TypeOK: the provider's globals, the shared plates, the renderer's copy  *)
(* and the lock keep their types whatever the limit, the guest and the     *)
(* frame bound.                                                            *)
(***************************************************************************)
THEOREM NameplatesTyped == Spec => []TypeOK
<1>1. Typed => TypeOK
    BY DEF Typed
<1> QED BY <1>1, InitTyped, NextTyped, PTL DEF Spec

\* A whole copy is what was published when it was made.
LEMMA WholeCopy ==
    ASSUME Typed, SnapshotEnd
    PROVE  shown' = committed
<1>1. /\ copied = 5 /\ shown' = out
    BY FieldFacts DEF SnapshotEnd
<1>2. /\ published = committed
      /\ \A i \in 1 .. 5 : out[Fields[i]] = published[Fields[i]]
    BY <1>1 DEF Typed, Locking
<1>3. /\ 1 \in 1 .. 5 /\ 2 \in 1 .. 5 /\ 3 \in 1 .. 5 /\ 4 \in 1 .. 5 /\ 5 \in 1 .. 5
    OBVIOUS
<1>4. \A f \in FieldSet : out[f] = published[f]
    BY <1>2, <1>3, FieldFacts
<1>5. IsPlate(out) /\ IsPlate(published)
    BY DEF Typed, Locking
<1>6. out = published
    BY <1>4, <1>5 DEF IsPlate
<1> QED BY <1>1, <1>2, <1>6

(***************************************************************************)
(* SnapshotIsWhole: snapshot() hands over plates that were published at    *)
(* one moment, never a mixture of two updates.                             *)
(***************************************************************************)
THEOREM SnapshotsAreWhole == Spec => SnapshotIsWhole
<1>1. Typed /\ [Next]_vars => [(copied # 0 /\ copied' = 0) => shown' = committed]_vars
  <2> SUFFICES ASSUME Typed, Next, copied # 0, copied' = 0 PROVE shown' = committed
      OBVIOUS
  <2>1. CASE Calls
      BY <2>1 DEF Calls, SimulatedFrame, Tick, Configure, SetNames, ClearScore,
         BeginSession, Restore, renders
  <2>2. CASE Critical
      BY <2>2 DEF Critical, Acquire, WriteField, Release, renders
  <2>3. CASE SnapshotEnd
      BY <2>3, WholeCopy
  <2>4. ~SnapshotBegin /\ ~SnapshotField
      BY FieldFacts DEF SnapshotBegin, SnapshotField
  <2> QED BY <2>1, <2>2, <2>3, <2>4 DEF Next, Renderer
<1> QED BY <1>1, InitTyped, NextTyped, PTL DEF Spec, SnapshotIsWhole

-----------------------------------------------------------------------------
(***************************************************************************)
(* What stays up.                                                          *)
(***************************************************************************)

\* The plates will be down when everything queued has been written.
WillHide == /\ \A w \in Pending : w.field = "visible" => ~w.value
            /\ (\A w \in Pending : w.field # "visible") => ~published["visible"]

ScoreSettles(st) == WillBe("wins0", st.wins[0]) /\ WillBe("wins1", st.wins[1])

\* Critical sections settle what they were queued to settle.
LEMMA CriticalSettles ==
    ASSUME Typed, Critical
    PROVE  /\ \A f \in FieldSet : \A v : WillBe(f, v) => WillBe(f, v)'
           /\ WillHide => WillHide'
           /\ UNCHANGED <<guest, frame, phase, score, private, hudInStay>>
<1>1. CASE WriteField
  <2>1. PICK w \in Write : /\ Pending = {w} \cup Pending'
                           /\ published' = [published EXCEPT ![w.field] = w.value]
      BY <1>1, WriteFieldFacts
  <2>2. w.field \in FieldSet /\ DOMAIN published = FieldSet
      BY WriteFacts DEF Typed, TypeOK
  <2>3. WillHide => WillHide'
      BY <2>1, <2>2, FieldFacts DEF WillHide
  <2>4. ASSUME NEW f \in FieldSet, NEW v, WillBe(f, v) PROVE WillBe(f, v)'
      BY <2>1, <2>2, <2>4 DEF WillBe, Settles, Pending
  <2> QED BY <1>1, <2>3, <2>4 DEF WriteField
<1>2. CASE Release \/ Acquire
  <2>1. Pending' = Pending /\ published' = published
      BY <1>2, ReleaseFacts, AcquireFacts
  <2> QED BY <1>2, <2>1 DEF WillHide, WillBe, Settles, Pending, Release, Acquire
<1> QED BY <1>1, <1>2 DEF Critical

LEMMA RendererSettles ==
    ASSUME Typed, Renderer \/ UNCHANGED vars
    PROVE  /\ \A f, v : WillBe(f, v) => WillBe(f, v)'
           /\ WillHide => WillHide'
           /\ UNCHANGED <<guest, frame, phase, score, private, hudInStay>>
<1>1. /\ Pending' = Pending
      /\ UNCHANGED <<guest, frame, phase, score, private, published, hudInStay>>
    BY RendererFacts DEF vars, Pending
<1> QED BY <1>1 DEF WillHide, WillBe, Settles, Pending

LEMMA PutFacts ==
    /\ \A f, v : Put(f, v).field = f /\ Put(f, v).value = v
    /\ ~Put("visible", FALSE).value
    /\ \A b \in BOOLEAN : ~b => ~Put("visible", b).value
BY DEF Put

LEMMA ClearHides ==
    \A w \in WritesOf(ClearWrites) \cup WritesOf(NameWrites("blank", "blank")) :
        w.field = "visible" => ~w.value
<1> DEFINE v == Put("visible", FALSE)
<1>1. ~v.value
    BY PutFacts
<1>2. \A n : /\ Put("name0", n).field # "visible" /\ Put("name1", n).field # "visible"
             /\ Put("wins0", n).field # "visible" /\ Put("wins1", n).field # "visible"
    BY PutFacts
<1>3. WritesOf(ClearWrites) = {v, Put("name0", "blank"), Put("name1", "blank"),
                               Put("wins0", 0), Put("wins1", 0)}
    BY ClearWritten
<1>4. PICK m, n : WritesOf(NameWrites("blank", "blank")) = {Put("name0", m), Put("name1", n)}
    BY NamesWritten
<1> HIDE DEF v
<1> QED BY <1>1, <1>2, <1>3, <1>4

Hidden == ~enabled => WillHide

Current == phase = "end" => WillHide \/ ScoreSettles(score)

\* Calls that leave the plates' visibility alone.
LEMMA HideKept ==
    ASSUME Typed, Called, WillHide, published' = published,
           \A w \in Pending' : w.field # "visible"
    PROVE  WillHide'
BY Idle DEF WillHide

LEMMA InitHidden == Init => Hidden /\ Current /\ Pending = {}
<1> SUFFICES ASSUME Init PROVE WillHide /\ Pending = {}
    BY DEF Hidden, Current
<1>1. Pending = {}
    BY NoSection DEF Init, Pending
<1>2. ~published["visible"]
    BY EmptyFacts DEF Init
<1> QED BY <1>1, <1>2 DEF WillHide

LEMMA CallHidden ==
    ASSUME Typed, Hidden, Calls PROVE Hidden'
<1>0. Called
    BY DEF Calls, SimulatedFrame, Tick, Configure, SetNames, ClearScore, BeginSession,
       Restore, NewScore
<1>1. CASE \E e \in Env, hud \in BOOLEAN : SimulatedFrame(e, hud)
    BY <1>1, SimulatedFrameFacts DEF SimulatedFrame, Hidden, WillHide, NoWrites, Pending
<1>2. CASE Tick
    BY <1>2, TickFacts DEF Hidden, WillHide
<1>3. CASE \E on \in BOOLEAN : Configure(on)
  <2>1. \A w \in Pending' : w.field = "visible" => ~w.value
      BY <1>3, ConfigureFacts, ClearHides
  <2>2. Put("visible", FALSE) \in Pending' /\ Put("visible", FALSE).field = "visible"
      BY <1>3, ConfigureFacts, ClearWritten, PutFacts
  <2> QED BY <2>1, <2>2 DEF Hidden, WillHide
<1>4. CASE SetNames("Fred", "blank")
  <2>1. \A w \in Pending' : w.field # "visible"
    <3>1. \A n : /\ Put("name0", n).field = "name0"
                 /\ Put("name1", n).field = "name1"
        BY PutFacts
    <3> QED BY <1>4, <3>1, SetNamesFacts
  <2> QED BY <1>0, <1>4, <2>1, SetNamesFacts, HideKept DEF Hidden, private
<1>5. CASE \E st \in Score : ScoreCall(st)
  <2>1. \A w \in Pending' : w.field # "visible"
      BY <1>5, PutFacts DEF ScoreCall
  <2> QED BY <1>0, <1>5, <2>1, HideKept DEF Hidden, private, ScoreCall
<1>6. CASE \E e \in Env, f \in 0 .. MaxFrame, w \in Wins :
              Restore(e, f, [wins |-> w, latched |-> e.flags.result])
    BY <1>5, <1>6, RestoreFacts, ScoreSteps DEF Typed, TypeOK
<1> QED BY <1>1, <1>2, <1>3, <1>4, <1>5, <1>6, ResetFacts DEF Calls

(***************************************************************************)
(* DisabledIsHidden: with the option off no plate stays up, whatever was   *)
(* up when configure() switched it off.                                    *)
(***************************************************************************)
THEOREM DisabledIsAlwaysHidden == Spec => []DisabledIsHidden
<1>1. Typed /\ Hidden => DisabledIsHidden
  <2> SUFFICES ASSUME Typed, Hidden, job = << >>, ~enabled
               PROVE  ~committed["visible"]
      BY DEF DisabledIsHidden
  <2> QED BY Idle DEF Hidden, WillHide, Called
<1>2. Typed /\ Hidden /\ [Next]_vars => Hidden'
  <2> SUFFICES ASSUME Typed, Hidden, [Next]_vars PROVE Hidden'
      OBVIOUS
  <2>1. CASE Critical
      BY <2>1, CriticalSettles DEF Hidden, private
  <2>2. CASE Renderer \/ UNCHANGED vars
      BY <2>2, RendererSettles DEF Hidden, private
  <2> QED BY <2>1, <2>2, CallHidden DEF Next
<1> QED BY <1>1, <1>2, InitTyped, InitHidden, NextTyped, PTL DEF Spec

LEMMA CallCurrent ==
    ASSUME Typed, Hidden, Current, Calls PROVE Current'
<1>0. Called
    BY DEF Calls, SimulatedFrame, Tick, Configure, SetNames, ClearScore, BeginSession,
       Restore, NewScore
<1>1. CASE \E e \in Env, hud \in BOOLEAN : SimulatedFrame(e, hud)
    BY <1>1 DEF SimulatedFrame, Current
<1>2. CASE Tick
  <2>1. CASE ~enabled
      BY <1>2, <2>1, TickFacts DEF Hidden, WillHide, Current
  <2>2. CASE enabled
    <3> DEFINE b == InMatch(guest) /\ SeesHud(frame')
    <3>1. Pending' = {Put("visible", b), Put("wins0", score.wins[0]),
                      Put("wins1", score.wins[1])} /\ score' = score
        BY <1>2, <2>2, TickFacts
    <3> HIDE DEF b
    <3>2. ScoreSettles(score)'
        BY <3>1, PutFacts DEF ScoreSettles, WillBe, Settles, Pending
    <3> QED BY <3>2 DEF Current
  <2> QED BY <2>1, <2>2
<1>3. CASE \E on \in BOOLEAN : Configure(on)
  <2>1. \A w \in Pending' : w.field = "visible" => ~w.value
      BY <1>3, ConfigureFacts, ClearHides
  <2>2. Put("visible", FALSE) \in Pending' /\ Put("visible", FALSE).field = "visible"
      BY <1>3, ConfigureFacts, ClearWritten, PutFacts
  <2> QED BY <2>1, <2>2 DEF Current, WillHide
<1>4. CASE SetNames("Fred", "blank")
  <2>1. /\ \A w \in Pending' : w.field \notin {"visible", "wins0", "wins1"}
        /\ published' = published /\ score' = score /\ phase' = phase
    <3>1. \A n : /\ Put("name0", n).field = "name0"
                 /\ Put("name1", n).field = "name1"
        BY PutFacts
    <3> QED BY <1>4, <3>1, SetNamesFacts
  <2>2. ScoreSettles(score) => ScoreSettles(score)'
      BY <1>0, <2>1, Idle DEF ScoreSettles, WillBe, Settles, Pending
  <2> QED BY <1>0, <2>1, <2>2, HideKept DEF Current
<1>5. CASE \E st \in Score : ScoreCall(st)
  <2>1. ScoreSettles(score)'
      BY <1>5, PutFacts DEF ScoreCall, ScoreSettles, WillBe, Settles, Pending
  <2> QED BY <2>1 DEF Current
<1>6. CASE \E e \in Env, f \in 0 .. MaxFrame, w \in Wins :
              Restore(e, f, [wins |-> w, latched |-> e.flags.result])
    BY <1>6 DEF Restore, Current
<1> QED BY <1>1, <1>2, <1>3, <1>4, <1>5, <1>6, ResetFacts DEF Calls

(***************************************************************************)
(* VisibleScoreIsCurrent: whatever calls changed the score without         *)
(* publishing it, a presented board shows the counters the provider holds. *)
(***************************************************************************)
THEOREM VisibleScoreIsAlwaysCurrent == Spec => []VisibleScoreIsCurrent
<1>1. Typed /\ Current => VisibleScoreIsCurrent
  <2> SUFFICES ASSUME Typed, Current, AtRest, committed["visible"]
               PROVE  committed["wins0"] = score.wins[0] /\ committed["wins1"] = score.wins[1]
      BY DEF VisibleScoreIsCurrent
  <2>1. Pending = {} /\ published = committed /\ phase = "end"
      BY Idle DEF AtRest, Called
  <2> QED BY <2>1 DEF Current, WillHide, ScoreSettles, WillBe, Settles, Pending
<1>2. Typed /\ Hidden /\ Current /\ [Next]_vars => (Hidden /\ Current)'
  <2> SUFFICES ASSUME Typed, Hidden, Current, [Next]_vars PROVE (Hidden /\ Current)'
      OBVIOUS
  <2>1. CASE Critical
    <3>1. ScoreSettles(score) => ScoreSettles(score)'
        BY <2>1, CriticalSettles, FieldFacts DEF ScoreSettles
    <3> QED BY <2>1, <3>1, CriticalSettles DEF Hidden, Current, private
  <2>2. CASE Renderer \/ UNCHANGED vars
    <3>1. ScoreSettles(score) => ScoreSettles(score)'
        BY <2>2, RendererSettles DEF ScoreSettles
    <3> QED BY <2>2, <3>1, RendererSettles DEF Hidden, Current, private
  <2> QED BY <2>1, <2>2, CallHidden, CallCurrent DEF Next
<1> QED BY <1>1, <1>2, InitTyped, InitHidden, NextTyped, PTL DEF Spec

-----------------------------------------------------------------------------
(***************************************************************************)
(* Why it is up: the latches that remember the HUD, and the frames they    *)
(* are about.                                                              *)
(***************************************************************************)
UpForAReason == enabled /\ InMatch(guest) /\ hudInStay

Latches ==
    /\ ~enabled => ~hudPacket /\ ~hudSeen
    /\ hudPacket => phase = "run"
    /\ hudPacket /\ InMatch(guest) => hudInStay
    /\ phase = "end" /\ hudSeen => InMatch(guest)
    /\ hudSeen /\ InMatch(guest) => hudInStay \/ frame + 1 < prevFrame
    /\ phase = "restored" => frame + 1 < prevFrame \/ ~hudSeen

Justified == Latches /\ (phase = "end" => WillHide \/ UpForAReason)

LEMMA CallJustified ==
    ASSUME Back, Typed, Hidden, Justified, Calls PROVE Justified'
<1>0. Called
    BY DEF Calls, SimulatedFrame, Tick, Configure, SetNames, ClearScore, BeginSession,
       Restore, NewScore
<1>1. ASSUME NEW e \in Env, NEW hud \in BOOLEAN, SimulatedFrame(e, hud)
      PROVE  Justified'
  <2>1. /\ phase' = "run" /\ guest' = e
        /\ phase = "run" /\ InMatch(e) => InMatch(guest)
        /\ hud => InMatch(e)
        /\ UNCHANGED <<frame, enabled, hudSeen, prevFrame>>
        /\ hudPacket' <=> hudPacket \/ (enabled /\ hud)
        /\ hudInStay' <=> (hudInStay /\ InMatch(guest) /\ InMatch(e)) \/ (enabled /\ hud)
      BY <1>1 DEF SimulatedFrame
  <2>2. InMatch(guest)' <=> InMatch(e)
      BY <2>1 DEF InMatch
  <2>3. phase \in {"end", "restored", "run"}
      BY DEF Typed, TypeOK
  <2> QED BY <2>1, <2>2, <2>3 DEF Justified, Latches
<1>2. CASE Tick
  <2>1. InMatch(guest)' <=> InMatch(guest)
      BY <1>2 DEF Tick, InMatch
  <2>2. phase' = "end" /\ phase = "run" /\ frame' = frame + 1
      BY <1>2 DEF Tick
  <2>3. /\ UNCHANGED <<published, guest, score, enabled, hudInStay>>
        /\ ~enabled => Pending' = Pending /\ UNCHANGED <<hudSeen, hudPacket, prevFrame>>
      BY <1>2, TickFacts
  <2>4. CASE ~enabled
    <3>1. ~hudSeen' /\ ~hudPacket' /\ ~enabled' /\ WillHide'
        BY <2>3, <2>4 DEF Hidden, WillHide, Justified, Latches
    <3> QED BY <2>2, <3>1 DEF Justified, Latches
  <2>5. CASE enabled
    <3> DEFINE b == InMatch(guest) /\ SeesHud(frame')
    <3>1. /\ Pending' = {Put("visible", b), Put("wins0", score.wins[0]),
                         Put("wins1", score.wins[1])}
          /\ hudSeen' <=> SeesHud(frame')
          /\ ~hudPacket' /\ prevFrame' = frame'
        BY <1>2, <2>5, TickFacts
    <3>2. b \in BOOLEAN
        OBVIOUS
    <3>3. SeesHud(frame') => InMatch(guest) /\ hudInStay
      <4>1. frame \in Nat /\ prevFrame \in Nat
          BY FrameAssumption DEF Typed, TypeOK
      <4>2. CASE hudSeen /\ ~LeavesMatch(frame')
          BY <4>1, <4>2, <2>2 DEF LeavesMatch, Justified, Latches
      <4>3. CASE InMatch(guest) /\ hudPacket
          BY <4>3 DEF Justified, Latches
      <4> QED BY <4>2, <4>3 DEF SeesHud
    <3>4. b => UpForAReason
        BY <3>3, <2>5 DEF UpForAReason
    <3>5. UpForAReason' <=> UpForAReason
        BY <2>1, <2>3 DEF UpForAReason
    <3> HIDE DEF b
    <3>6. ~b => WillHide'
      <4>1. /\ Put("visible", b).field = "visible" /\ (~b => ~Put("visible", b).value)
            /\ Put("wins0", score.wins[0]).field = "wins0"
            /\ Put("wins1", score.wins[1]).field = "wins1"
          BY <3>2, PutFacts
      <4> QED BY <3>1, <4>1 DEF WillHide
    <3>7. Latches'
        BY <2>1, <2>2, <2>3, <2>5, <3>1, <3>3 DEF Latches
    <3> QED BY <3>4, <3>5, <3>6, <3>7 DEF Justified
  <2> QED BY <2>4, <2>5
<1>3. CASE \E on \in BOOLEAN : Configure(on)
  <2>1. \A w \in Pending' : w.field = "visible" => ~w.value
      BY <1>3, ConfigureFacts, ClearHides
  <2>2. Put("visible", FALSE) \in Pending' /\ Put("visible", FALSE).field = "visible"
      BY <1>3, ConfigureFacts, ClearWritten, PutFacts
  <2>3. ~hudSeen' /\ ~hudPacket'
      BY <1>3 DEF Configure
  <2> QED BY <2>1, <2>2, <2>3 DEF Justified, Latches, WillHide
<1>4. CASE SetNames("Fred", "blank")
  <2>1. \A w \in Pending' : w.field # "visible"
    <3>1. \A n : /\ Put("name0", n).field = "name0"
                 /\ Put("name1", n).field = "name1"
        BY PutFacts
    <3> QED BY <1>4, <3>1, SetNamesFacts
  <2>2. /\ published' = published
        /\ UNCHANGED <<guest, frame, phase, enabled, hudSeen, hudPacket, prevFrame, hudInStay>>
      BY <1>4, SetNamesFacts DEF private
  <2>3. (Latches' <=> Latches) /\ (UpForAReason' <=> UpForAReason)
      BY <2>2 DEF Latches, UpForAReason, InMatch
  <2> QED BY <1>0, <2>1, <2>2, <2>3, HideKept DEF Justified
<1>5. CASE ClearScore \/ BeginSession
  <2>1. /\ \A w \in Pending' : w.field # "visible"
        /\ published' = published
        /\ UNCHANGED <<guest, frame, phase, enabled, hudSeen, hudPacket, prevFrame, hudInStay>>
      BY <1>5, ResetFacts, PutFacts DEF ScoreCall, private
  <2>2. (Latches' <=> Latches) /\ (UpForAReason' <=> UpForAReason)
      BY <2>1 DEF Latches, UpForAReason, InMatch
  <2> QED BY <1>0, <2>1, <2>2, HideKept DEF Justified
<1>6. ASSUME NEW e \in Env, NEW f \in 0 .. MaxFrame, NEW w \in Wins,
             Restore(e, f, [wins |-> w, latched |-> e.flags.result])
      PROVE  Justified'
  <2>1. /\ phase = "end" /\ phase' = "restored" /\ frame' = f
        /\ f + 1 < prevFrame
        /\ UNCHANGED <<enabled, hudSeen, hudPacket, prevFrame>>
      BY <1>6, RestoreFacts DEF ScoreCall, private
  <2> QED BY <2>1 DEF Justified, Latches
<1> QED BY <1>1, <1>2, <1>3, <1>4, <1>5, <1>6 DEF Calls

(***************************************************************************)
(* VisibleIsJustified, when restores go to earlier frames only: what is up *)
(* after a presented frame is up because the option is on, the guest is in *)
(* a Versus match, and the HUD was drawn in this stay or since the last    *)
(* restore.                                                                *)
(***************************************************************************)
THEOREM VisibleIsAlwaysJustified == ASSUME Back PROVE Spec => []VisibleIsJustified
<1>1. Typed /\ Justified => VisibleIsJustified
  <2> SUFFICES ASSUME Typed, Justified, AtRest, committed["visible"]
               PROVE  UpForAReason
      BY DEF VisibleIsJustified, UpForAReason
  <2>1. Pending = {} /\ published = committed /\ phase = "end"
      BY Idle DEF AtRest, Called
  <2> QED BY <2>1 DEF Justified, WillHide
<1>2. Init => Justified
  <2> SUFFICES ASSUME Init PROVE Latches /\ WillHide
      BY DEF Justified
  <2>1. ~enabled /\ ~hudSeen /\ ~hudPacket /\ phase = "end"
      BY DEF Init
  <2> QED BY <2>1, InitHidden DEF Hidden, Latches
<1>3. Typed /\ Hidden /\ Justified /\ [Next]_vars => (Hidden /\ Justified)'
  <2> SUFFICES ASSUME Typed, Hidden, Justified, [Next]_vars PROVE (Hidden /\ Justified)'
      OBVIOUS
  <2>1. CASE Critical \/ Renderer \/ UNCHANGED vars
    <3>1. /\ WillHide => WillHide'
          /\ UNCHANGED <<guest, frame, phase, enabled, hudSeen, hudPacket, prevFrame, hudInStay>>
        BY <2>1, CriticalSettles, RendererSettles DEF private
    <3>2. (Latches' <=> Latches) /\ (UpForAReason' <=> UpForAReason)
        BY <3>1 DEF Latches, UpForAReason, InMatch
    <3> QED BY <3>1, <3>2 DEF Hidden, Justified
  <2> QED BY <2>1, CallHidden, CallJustified DEF Next
<1> QED BY <1>1, <1>2, <1>3, InitTyped, InitHidden, NextTyped, PTL DEF Spec

-----------------------------------------------------------------------------
(***************************************************************************)
(* Names.  configure() empties the names in one critical section and gives *)
(* the default ones in the next; in between the plates are down.           *)
(***************************************************************************)
NameFields == {"name0", "name1"}

NamedPlate(p) == p["name0"] # "blank" /\ p["name1"] # "blank"

\* The names are there, and nothing that is queued takes them away.
NamesStay == /\ NamedPlate(published)
             /\ \A w \in Pending : w.field \in NameFields => w.value # "blank"

\* The names will be there.
WillName == \A f \in NameFields :
                /\ \A w \in Pending : w.field = f => w.value # "blank"
                /\ (\A w \in Pending : w.field # f) => published[f] # "blank"

\* The plates are down, and nothing that is queued puts them up.
StaysDown == /\ ~published["visible"]
             /\ \A w \in Pending : w.field = "visible" => ~w.value

\* The first of configure()'s two critical sections is not finished.
Clearing == /\ Len(job) = 2 /\ job[2] = NameWrites("blank", "blank")
            /\ Pending \subseteq WritesOf(ClearWrites)
                                \cup WritesOf(NameWrites("blank", "blank"))
            /\ Head(job) = ClearWrites \/ StaysDown

Naming == NamesStay \/ (StaysDown /\ (~enabled \/ WillName)) \/ Clearing

CommittedNamed == committed["visible"] => NamedPlate(committed)

Named == Naming /\ CommittedNamed /\ PlatesAreNamed

LEMMA DefaultNamesNamed ==
    /\ WritesOf(NameWrites("blank", "blank")) = {Put("name0", "Play 1"), Put("name1", "Play 2")}
    /\ Put("name0", "Play 1").field = "name0" /\ Put("name1", "Play 2").field = "name1"
    /\ Put("name0", "Play 1").value # "blank" /\ Put("name1", "Play 2").value # "blank"
<1>1. \A l, r : l = "blank" /\ r = "blank" =>
          WritesOf(NameWrites(l, r)) = {Put("name0", "Play 1"), Put("name1", "Play 2")}
    BY NamesWritten
<1>2. /\ Put("name0", "Play 1").field = "name0" /\ Put("name1", "Play 2").field = "name1"
      /\ Put("name0", "Play 1").value = "Play 1" /\ Put("name1", "Play 2").value = "Play 2"
    BY PutFacts
<1> QED BY <1>1, <1>2

\* The second of two critical sections.
LEMMA SecondSection ==
    ASSUME NEW q \in Seq(Seq(Write)), Len(q) = 2
    PROVE  Tail(q) \in Seq(Seq(Write)) /\ Len(Tail(q)) = 1 /\ Tail(q)[1] = q[2]
<1>1. q # << >>
  <2>1. Len(<< >>) = 0 /\ 0 # 2
      OBVIOUS
  <2> QED BY <2>1, Zenon
<1>2. /\ Tail(q) \in Seq(Seq(Write)) /\ Len(Tail(q)) = 1
      /\ \A i \in 1 .. 1 : Tail(q)[i] = q[i + 1]
  <2> DEFINE S == Seq(Write)
  <2>1. q \in Seq(S)
      OBVIOUS
  <2> HIDE DEF S
  <2>2. /\ Tail(q) \in Seq(S) /\ Len(Tail(q)) = Len(q) - 1
        /\ \A i \in 1 .. Len(Tail(q)) : Tail(q)[i] = q[i + 1]
      BY <1>1, <2>1, HeadTailProperties
  <2>3. Len(Tail(q)) = 1
      BY <2>2
  <2> QED BY <2>2, <2>3 DEF S
<1>3. 1 \in 1 .. 1 /\ 1 + 1 = 2
    OBVIOUS
<1> QED BY <1>2, <1>3

LEMMA WriteFieldNaming ==
    ASSUME Typed, Naming, WriteField PROVE Naming'
<1>1. PICK w \in Write : /\ Pending = {w} \cup Pending'
                         /\ published' = [published EXCEPT ![w.field] = w.value]
    BY WriteFieldFacts
<1>2. w.field \in FieldSet /\ DOMAIN published = FieldSet /\ enabled' = enabled
    BY WriteFacts DEF Typed, TypeOK, WriteField, private
<1>3. StaysDown => StaysDown'
    BY <1>1, <1>2, FieldFacts DEF StaysDown
<1>4. NamesStay => NamesStay'
    BY <1>1, <1>2, FieldFacts DEF NamesStay, NamedPlate, NameFields
<1>5. WillName => WillName'
    BY <1>1, <1>2, FieldFacts DEF WillName, NameFields
<1>6. CASE Clearing
  <2>1. /\ Len(job') = 2 /\ job'[2] = job[2]
    <3> DEFINE a == <<Tail(Head(job))>>
               b == Tail(job)
    <3>1. a \in Seq(Seq(Write)) /\ Len(a) = 1
      <4>1. Tail(Head(job)) \in Seq(Write)
          BY HeadTailProperties DEF Typed, Locking, WriteField
      <4> QED BY <4>1
    <3>2. b \in Seq(Seq(Write)) /\ Len(b) = 1 /\ b[1] = job[2]
        BY <1>6, SecondSection DEF Typed, Locking, Clearing
    <3>3. job' = a \o b
        BY DEF WriteField
    <3> HIDE DEF a, b
    <3>4. /\ Len(a \o b) = Len(a) + Len(b)
          /\ \A i \in 1 .. Len(a) + Len(b) :
                (a \o b)[i] = IF i <= Len(a) THEN a[i] ELSE b[i - Len(a)]
        BY <3>1, <3>2, ConcatProperties
    <3>5. Len(a \o b) = 2 /\ (a \o b)[2] = b[1]
        BY <3>1, <3>2, <3>4
    <3> QED BY <3>2, <3>3, <3>5
  <2> DEFINE X == WritesOf(ClearWrites) \cup WritesOf(NameWrites("blank", "blank"))
  <2>4. Pending' \subseteq X
      BY <1>1, <1>6 DEF Clearing
  <2>5. job'[2] = NameWrites("blank", "blank")
      BY <1>6, <2>1 DEF Clearing
  <2>6. /\ Len(job') = 2 /\ job'[2] = NameWrites("blank", "blank")
        /\ Pending' \subseteq X /\ StaysDown'
        => Clearing'
      BY DEF Clearing
  <2> HIDE DEF X
  <2>2. CASE StaysDown
    <3>1. StaysDown'
        BY <1>3, <2>2
    <3> QED BY <2>1, <2>4, <2>5, <2>6, <3>1 DEF Naming
  <2>3. CASE Head(job) = ClearWrites
    <3>1. Head(Head(job)) = Put("visible", FALSE)
      <4>1. Head(ClearWrites) = Put(Fields[1], Empty[Fields[1]])
          BY FieldFacts DEF ClearWrites
      <4> QED BY <2>3, <4>1, FieldFacts, EmptyFacts, Zenon
    <3>2. published' = [published EXCEPT !["visible"] = Put("visible", FALSE).value]
      <4>1. Put("visible", FALSE).field = "visible"
          BY PutFacts
      <4> QED BY <3>1, <4>1 DEF WriteField
    <3>3. ~published'["visible"]
        BY <1>2, <3>2, FieldFacts, PutFacts
    <3>4. \A v \in Pending' : v.field = "visible" => ~v.value
        BY <1>1, <1>6, ClearHides DEF Clearing
    <3>5. StaysDown'
        BY <3>3, <3>4 DEF StaysDown
    <3> QED BY <2>1, <2>4, <2>5, <2>6, <3>5 DEF Naming
  <2> QED BY <1>6, <2>2, <2>3 DEF Clearing
<1> QED BY <1>2, <1>3, <1>4, <1>5, <1>6 DEF Naming

LEMMA ReleaseNaming ==
    ASSUME Typed, Naming, Release PROVE Naming' /\ CommittedNamed'
<1>1. Pending' = Pending /\ published' = published /\ committed' = published
      /\ enabled' = enabled
    BY ReleaseFacts DEF Release, private
<1>2. (NamesStay => NamesStay') /\ (StaysDown => StaysDown') /\ (WillName => WillName')
    BY <1>1 DEF NamesStay, StaysDown, WillName
<1>3. CASE Clearing
  <2>1. StaysDown
    <3>1. ClearWrites # << >>
        BY FieldFacts DEF ClearWrites
    <3> QED BY <1>3, <3>1 DEF Clearing, Release
  <2>2. job' = <<NameWrites("blank", "blank")>>
    <3>1. /\ Tail(job) \in Seq(Seq(Write)) /\ Len(Tail(job)) = 1
          /\ Tail(job)[1] = NameWrites("blank", "blank")
        BY <1>3, SecondSection DEF Clearing, Typed, Locking
    <3> DEFINE b == NameWrites("blank", "blank")
               t == Tail(job)
    <3>2. b \in Seq(Write)
        BY SectionTypes DEF Name
    <3>3. t \in Seq(Seq(Write)) /\ Len(t) = 1 /\ t[1] = b
        BY <3>1
    <3> HIDE DEF b, t
    <3>4. t = <<b>>
      <4>1. <<b>> \in Seq(Seq(Write)) /\ Len(<<b>>) = 1 /\ <<b>>[1] = b
          BY <3>2
      <4>2. \A i \in 1 .. Len(t) : t[i] = <<b>>[i]
        <5>1. \A i \in 1 .. 1 : i = 1
            OBVIOUS
        <5> QED BY <3>3, <4>1, <5>1
      <4> QED BY <3>3, <4>1, <4>2, SeqEqual
    <3> QED BY <3>4 DEF b, t, Release
  <2>3. Pending' = WritesOf(NameWrites("blank", "blank"))
      BY <2>2, OneSection DEF Pending
  <2>4. WillName'
      BY <2>3, DefaultNamesNamed DEF WillName, NameFields
  <2> QED BY <1>1, <1>2, <2>1, <2>4 DEF Naming, StaysDown, CommittedNamed
<1>4. CASE NamesStay \/ (StaysDown /\ (~enabled \/ WillName))
  <2>1. Naming'
      BY <1>1, <1>2, <1>4 DEF Naming
  <2>2. CommittedNamed'
      BY <1>1, <1>4 DEF CommittedNamed, NamesStay, NamedPlate, StaysDown
  <2> QED BY <2>1, <2>2
<1> QED BY <1>3, <1>4 DEF Naming

LEMMA CallNaming ==
    ASSUME Typed, Naming, Calls PROVE Naming'
<1>0. /\ Called /\ Pending = {}
      /\ NamesStay \/ (StaysDown /\ (~enabled \/ WillName))
  <2>1. Called
      BY DEF Calls, SimulatedFrame, Tick, Configure, SetNames, ClearScore, BeginSession,
         Restore, NewScore
  <2>2. ~Clearing
      BY <2>1 DEF Clearing, Called
  <2> QED BY <2>1, <2>2, Idle DEF Naming
<1>1. ASSUME published' = published, enabled' = enabled,
             \A w \in Pending' : w.field \notin NameFields \cup {"visible"}
      PROVE  Naming'
    BY <1>0, <1>1 DEF Naming, NamesStay, NamedPlate, StaysDown, WillName, NameFields
<1>2. CASE \E e \in Env, hud \in BOOLEAN : SimulatedFrame(e, hud)
    BY <1>0, <1>1, <1>2, SimulatedFrameFacts DEF SimulatedFrame
<1>3. CASE Tick
  <2>1. CASE ~enabled
      BY <1>0, <1>1, <1>3, <2>1, TickFacts
  <2>2. CASE enabled
    <3>1. NamedPlate(published)
        BY <1>0, <2>2 DEF NamesStay, WillName, NameFields, NamedPlate
    <3>2. \A w \in Pending' : w.field \notin NameFields
        BY <1>3, <2>2, TickFacts, PutFacts DEF NameFields
    <3> QED BY <1>3, <3>1, <3>2, TickFacts DEF Naming, NamesStay
  <2> QED BY <2>1, <2>2
<1>4. CASE \E on \in BOOLEAN : Configure(on)
    BY <1>4, ConfigureFacts DEF Naming, Clearing
<1>5. CASE SetNames("Fred", "blank")
  <2>1. /\ Put("name0", "Fred").field = "name0" /\ Put("name1", "Play 2").field = "name1"
        /\ Put("name0", "Fred").value # "blank" /\ Put("name1", "Play 2").value # "blank"
    <3>1. Put("name0", "Fred").value = "Fred" /\ Put("name1", "Play 2").value = "Play 2"
        BY PutFacts
    <3> QED BY <3>1, PutFacts
  <2>2. Pending' = {Put("name0", "Fred"), Put("name1", "Play 2")} /\ published' = published
      BY <1>5, SetNamesFacts
  <2>3. WillName'
      BY <2>1, <2>2 DEF WillName, NameFields
  <2>4. NamesStay => NamesStay'
      BY <2>1, <2>2 DEF NamesStay, NamedPlate
  <2>5. StaysDown => StaysDown'
      BY <2>1, <2>2 DEF StaysDown
  <2> QED BY <1>0, <2>3, <2>4, <2>5 DEF Naming
<1>6. CASE \E st \in Score : ScoreCall(st)
  <2>1. \A w \in Pending' : w.field \notin NameFields \cup {"visible"}
      BY <1>6, PutFacts DEF ScoreCall, NameFields
  <2> QED BY <1>1, <1>6, <2>1 DEF ScoreCall, private
<1>7. CASE \E e \in Env, f \in 0 .. MaxFrame, w \in Wins :
              Restore(e, f, [wins |-> w, latched |-> e.flags.result])
    BY <1>6, <1>7, RestoreFacts, ScoreSteps DEF Typed, TypeOK
<1> QED BY <1>2, <1>3, <1>4, <1>5, <1>6, <1>7, ResetFacts DEF Calls

(***************************************************************************)
(* PlatesAreNamed: no plate is drawn without a name, not even by a         *)
(* renderer that gets the lock between configure()'s two critical          *)
(* sections.                                                               *)
(***************************************************************************)
THEOREM PlatesAreAlwaysNamed == Spec => []PlatesAreNamed
<1>1. Named => PlatesAreNamed
    BY DEF Named
<1>2. Init => Named
  <2> SUFFICES ASSUME Init PROVE Named
      OBVIOUS
  <2>1. ~published["visible"] /\ ~committed["visible"] /\ ~shown["visible"] /\ ~enabled
      BY EmptyFacts DEF Init
  <2>2. Pending = {}
      BY InitHidden
  <2> QED BY <2>1, <2>2 DEF Named, Naming, StaysDown, CommittedNamed, PlatesAreNamed
<1>3. Typed /\ Named /\ [Next]_vars => Named'
  <2> SUFFICES ASSUME Typed, Named, [Next]_vars PROVE Named'
      OBVIOUS
  <2>1. CASE Calls
    <3>1. UNCHANGED <<committed, shown>>
        BY <2>1, SimulatedFrameFacts, TickFacts, ConfigureFacts, SetNamesFacts,
           ResetFacts, RestoreFacts DEF Calls, ScoreCall
    <3> QED BY <2>1, <3>1, CallNaming DEF Named, CommittedNamed, PlatesAreNamed
  <2>2. CASE WriteField
      BY <2>2, WriteFieldNaming DEF Named, CommittedNamed, PlatesAreNamed, WriteField, renders
  <2>3. CASE Release
      BY <2>3, ReleaseNaming DEF Named, PlatesAreNamed, Release, renders
  <2>4. CASE Acquire \/ Renderer \/ UNCHANGED vars
    <3>1. UNCHANGED <<published, job, committed, enabled>> /\ Pending' = Pending
      <4>1. UNCHANGED <<published, job, committed, enabled>>
          BY <2>4, RendererFacts DEF Acquire, vars, private
      <4> QED BY <4>1 DEF Pending
    <3>2. Naming' /\ CommittedNamed'
      <4>1. (NamesStay => NamesStay') /\ (StaysDown => StaysDown') /\ (WillName => WillName')
          BY <3>1 DEF NamesStay, StaysDown, WillName
      <4>2. Clearing => Clearing'
          BY <3>1, <4>1 DEF Clearing
      <4> QED BY <3>1, <4>1, <4>2 DEF Named, Naming, CommittedNamed
    <3>3. shown' = shown \/ shown' = committed
        BY <2>4, RendererFacts, WholeCopy DEF Acquire, renders, vars
    <3> QED BY <3>2, <3>3 DEF Named, CommittedNamed, PlatesAreNamed, NamedPlate
  <2> QED BY <2>1, <2>2, <2>3, <2>4 DEF Next, Critical
<1> QED BY <1>1, <1>2, <1>3, InitTyped, NextTyped, PTL DEF Spec

=============================================================================
