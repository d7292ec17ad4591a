------------------------ MODULE NetSyncCaptureProofs ------------------------
(***************************************************************************)
(* For any number of games, any rings, batches and plans: a capture that   *)
(* exits with 0 has no hole and no failed collector, and a timed test has  *)
(* been collected to its last marker.                                      *)
(*                                                                         *)
(* The invariant follows main() from step to step (InMain: what has been   *)
(* written, and who is still collecting) and each collector (InTrace: what *)
(* its trace holds up to its cursor, unless events were lost).             *)
(***************************************************************************)
EXTENDS NetSyncCapture, TLAPS

\* How far the markers are at each step of a timed test.
InMarkers ==
    /\ main = "ready" => markers = 0
    /\ main = "begin" => \E k \in Nat : markers = 2 * k /\ k < Phases
    /\ main = "phase" => \E k \in Nat : markers = 2 * k + 1 /\ k < Phases
    /\ main = "settle" => markers = LastMarker

\* Once the schedule is over, collectors that have ended saw its last marker.
Covered == markers = LastMarker /\ \A p \in Ports : Ended(p) => ranUntil[p] = LastMarker

InMain ==
    /\ InMarkers
    /\ (DragTest /\ main = "join") => Covered
    /\ (DragTest /\ main \in {"result", "summary", "exit"} /\ ~errors /\ ~interrupted) => Covered
    /\ main \in {"summary", "exit"} =>
          /\ \A p \in Ports : Ended(p)
          /\ (\E p \in Ports : Failed(p)) => errors
    /\ main = "exit" => (errors => exit = 1)
    /\ main # "exit" => exit = -1
    /\ exit = 0 => \A p \in Ports : ~lost[p]

Seqs(p) == {e[2] : e \in trace[p]}

InTrace(p) ==
    /\ ~game[p].enabled => game[p].total = 0
    /\ pc[p] = "initial" => trace[p] = {}
    /\ ~lost[p] => /\ Seqs(p) = (start[p] + 1)..cursor[p]
                   /\ \A e, f \in trace[p] : e[2] = f[2] => e = f
    /\ start[p] <= cursor[p]

Inv == /\ TypeOK
       /\ InMain
       /\ \A p \in Ports : InTrace(p)

-----------------------------------------------------------------------------
LEMMA InitInv == Init => Inv
<1> SUFFICES ASSUME Init PROVE Inv
  OBVIOUS
<1> USE CountsAssumption, BooleanAssumption
<1>1. TypeOK
  <2>1. game \in [Ports -> Game]
    BY DEF Init
  <2>2. /\ cursor \in [Ports -> 0..MaxEvents] /\ start \in [Ports -> 0..MaxEvents]
        /\ trace \in [Ports -> SUBSET ((1..MaxLives) \X (1..MaxEvents))]
    BY DEF Init
  <2>3. 0 \in 0..LastMarker /\ -1 \in -1..LastMarker
    BY DEF LastMarker
  <2>4. markers \in 0..LastMarker /\ ranUntil \in [Ports -> -1..LastMarker]
    BY <2>3 DEF Init
  <2>5. pc \in [Ports -> Collecting \cup {"done", "failed"}]
    BY DEF Init, Collecting
  <2> QED
    BY <2>1, <2>2, <2>4, <2>5 DEF Init, TypeOK, Waiting
<1>2. InMain
  BY DEF Init, InMain, InMarkers
<1>3. \A p \in Ports : InTrace(p)
  <2> SUFFICES ASSUME NEW p \in Ports PROVE InTrace(p)
    OBVIOUS
  <2>1. trace[p] = {} /\ start[p] = 0 /\ cursor[p] = 0 /\ game[p].total = 0
    BY DEF Init
  <2>2. Seqs(p) = {} /\ (0 + 1)..0 = {}
    BY <2>1 DEF Seqs
  <2> QED
    BY <2>1, <2>2 DEF InTrace
<1> QED
  BY <1>1, <1>2, <1>3 DEF Inv

\* What a batch adds to the trace when nothing is lost: the numbers from the
\* cursor to the last of the batch.
LEMMA BatchIsNext ==
    ASSUME TypeOK, NEW p \in Ports, ~Loses(p, cursor[p])
    PROVE  /\ Last(p) \in Int /\ cursor[p] <= Last(p) /\ Last(p) <= MaxEvents
           /\ Entries(p, cursor[p]) = (cursor[p] + 1)..Last(p)
<1> USE CountsAssumption
<1> DEFINE c == cursor[p]
           t == game[p].total
           top == IF t <= c THEN c ELSE IF t < c + Batch THEN t ELSE c + Batch
<1>1. c \in 0..MaxEvents /\ t \in 0..MaxEvents
  BY DEF TypeOK, Game
<1>2. First(p, c) = c + 1
  BY <1>1 DEF Loses, First, Later
<1>3. top \in Int /\ c <= top /\ top <= MaxEvents
  BY <1>1
<1>4. Entries(p, c) = (c + 1)..top
  BY <1>1, <1>2 DEF Entries
<1>5. Last(p) = top
  <2>1. top \in Entries(p, c) \cup {c} /\ \A j \in Entries(p, c) : j <= top
    BY <1>1, <1>3, <1>4
  <2>2. \A i \in Entries(p, c) \cup {c} :
            (\A j \in Entries(p, c) : j <= i) => i = top
    BY <1>1, <1>3, <1>4
  <2> QED
    BY <2>1, <2>2 DEF Last
<1> QED
  BY <1>3, <1>4, <1>5

\* Last() is a cursor whatever was lost.
LEMMA LastIsCursor ==
    ASSUME TypeOK, NEW p \in Ports
    PROVE  Last(p) \in 0..MaxEvents /\ cursor[p] <= Last(p)
           /\ Entries(p, cursor[p]) \subseteq 1..MaxEvents
           /\ \A i \in Entries(p, cursor[p]) : cursor[p] < i /\ i <= game[p].total
<1> USE CountsAssumption
<1> DEFINE c == cursor[p]
           t == game[p].total
           b == First(p, c) + Batch - 1
           top == IF t < b THEN t ELSE b
           E == Entries(p, c)
<1>1. c \in 0..MaxEvents /\ t \in 0..MaxEvents
  BY DEF TypeOK, Game
<1>2. First(p, c) \in Int /\ First(p, c) >= c + 1 /\ b \in Int
  BY <1>1 DEF First, Later
<1>3. E = First(p, c)..top
  BY <1>1, <1>2 DEF Entries
<1>4. \E i \in E \cup {c} : \A j \in E : j <= i
  <2>1. top \in Int
    BY <1>1, <1>2
  <2> HIDE DEF top, E
  <2>2. CASE First(p, c) <= top
    <3>1. top \in E /\ \A j \in E : j <= top
      BY <1>2, <1>3, <2>1, <2>2
    <3> QED
      BY <3>1
  <2>3. CASE First(p, c) > top
    <3>1. E = {}
      BY <1>2, <1>3, <2>1, <2>3
    <3> QED
      BY <3>1
  <2> QED
    BY <1>2, <2>1, <2>2, <2>3
<1>5. Last(p) \in E \cup {c}
  BY <1>4 DEF Last
<1> QED
  BY <1>1, <1>2, <1>3, <1>5 DEF Entries

-----------------------------------------------------------------------------
\* Collectors only go on or end; those that have ended stay as they are.
LEMMA CollectMain ==
    ASSUME Inv, NEW p \in Ports, NEW s \in Collecting \cup {"done", "failed"},
           pc[p] \in Collecting, pc' = [pc EXCEPT ![p] = s],
           s \notin Collecting => ranUntil' = [ranUntil EXCEPT ![p] = markers],
           s \in Collecting => UNCHANGED ranUntil,
           UNCHANGED mains,
           exit = 0 => UNCHANGED lost
    PROVE  InMain'
<1>1. UNCHANGED <<main, markers, errors, interrupted, exit>>
  BY DEF mains
<1>2. \A q \in Ports : Ended(q)' => (Ended(q) /\ ranUntil'[q] = ranUntil[q])
                                     \/ ranUntil'[q] = markers
  BY DEF Inv, TypeOK, Ended
<1>3. Covered => Covered'
  BY <1>1, <1>2 DEF Covered, LastMarker
<1>4. main \notin {"summary", "exit"}
  BY DEF Inv, InMain, Ended
<1>5. exit # 0
  BY <1>4 DEF Inv, InMain
<1> QED
  BY <1>1, <1>3, <1>4, <1>5 DEF Inv, InMain, InMarkers, LastMarker

\* What a step of one collector, or of its game, leaves of the other traces.
LEMMA OtherTraces ==
    ASSUME Inv, NEW p \in Ports, InTrace(p)',
           \A q \in Ports \ {p} : /\ game'[q] = game[q] /\ pc'[q] = pc[q]
                                  /\ trace'[q] = trace[q] /\ lost'[q] = lost[q]
                                  /\ start'[q] = start[q] /\ cursor'[q] = cursor[q]
    PROVE  \A q \in Ports : InTrace(q)'
<1> SUFFICES ASSUME NEW q \in Ports \ {p} PROVE InTrace(q)'
  OBVIOUS
<1>1. Seqs(q)' = Seqs(q)
  BY DEF Seqs
<1> QED
  BY <1>1 DEF Inv, InTrace

LEMMA InitialStep == ASSUME Inv, NEW p \in Ports, Initial(p) PROVE Inv'
<1>0. InTrace(p) /\ pc \in [Ports -> Collecting \cup {"done", "failed"}]
  BY DEF Inv, TypeOK
<1>1. CASE Ends(p, "failed") /\ UNCHANGED <<cursor, start>>
  <2> USE <1>1 DEF Initial, Ends
  <2>1. TypeOK'
    BY CountsAssumption DEF Inv, TypeOK, mains, LastMarker, Collecting
  <2>2. InMain'
    BY CollectMain DEF Collecting
  <2>3. InTrace(p)'
    BY <1>0 DEF InTrace, Seqs
  <2>4. \A q \in Ports : InTrace(q)'
    BY <2>3, OtherTraces DEF Inv, TypeOK
  <2> QED
    BY <2>1, <2>2, <2>4 DEF Inv
<1>2. CASE /\ cursor' = [cursor EXCEPT ![p] = game[p].total]
           /\ start' = [start EXCEPT ![p] = game[p].total]
           /\ Goes(p, "head")
  <2> USE <1>2 DEF Initial, Goes
  <2>1. game[p].total \in 0..MaxEvents
    BY DEF Inv, TypeOK, Game
  <2>2. TypeOK'
    BY <2>1 DEF Inv, TypeOK, mains, Collecting
  <2>3. InMain'
    BY CollectMain DEF Collecting
  <2>4. InTrace(p)'
    <3> DEFINE t == game[p].total
    <3>1. start'[p] = t /\ cursor'[p] = t /\ trace'[p] = {} /\ pc'[p] = "head"
      BY <1>0 DEF Inv, TypeOK, InTrace
    <3>2. Seqs(p)' = {} /\ (t + 1)..t = {}
      BY <2>1, <3>1 DEF Seqs
    <3> QED
      BY <1>0, <2>1, <3>1, <3>2 DEF InTrace
  <2>5. \A q \in Ports : InTrace(q)'
    BY <2>4, OtherTraces DEF Inv, TypeOK
  <2> QED
    BY <2>2, <2>3, <2>5 DEF Inv
<1> QED
  BY <1>1, <1>2 DEF Initial

\* Steps of a collector that only say where it goes.
LEMMA GoingStep ==
    ASSUME Inv, NEW p \in Ports, Head(p) \/ Unanswered(p) \/ Slow(p) PROVE Inv'
<1> USE DEF Head, Unanswered, Slow, Goes, Ends
<1>1. PICK s \in Collecting \cup {"done", "failed"} :
          /\ pc' = [pc EXCEPT ![p] = s]
          /\ s # "initial"
          /\ s \notin Collecting => ranUntil' = [ranUntil EXCEPT ![p] = markers]
          /\ s \in Collecting => UNCHANGED ranUntil
  BY DEF Collecting
<1>2. UNCHANGED <<game, late, mains, cursor, start, trace, lost, ready>>
  OBVIOUS
<1>3. pc[p] \in Collecting
  BY DEF Collecting
<1>4. TypeOK'
  BY <1>1, <1>2, CountsAssumption DEF Inv, TypeOK, mains, LastMarker
<1>5. InMain'
  BY <1>1, <1>2, <1>3, CollectMain
<1>6. InTrace(p)'
  BY <1>1, <1>2 DEF Inv, TypeOK, InTrace, Seqs
<1>7. \A q \in Ports : InTrace(q)'
  BY <1>1, <1>2, <1>6, OtherTraces DEF Inv, TypeOK
<1> QED
  BY <1>4, <1>5, <1>7 DEF Inv

\* An answered request.
LEMMA PollStep == ASSUME Inv, NEW p \in Ports, Poll(p) PROVE Inv'
<1> USE DEF Poll, Goes, Ends
<1> DEFINE E == Entries(p, cursor[p])
           L == game[p].life
<1>0. /\ InTrace(p) /\ TypeOK /\ cursor[p] \in 0..MaxEvents /\ start[p] \in 0..MaxEvents
      /\ L \in 1..MaxLives /\ game[p].total \in 0..MaxEvents
  BY DEF Inv, TypeOK, Game
<1>1. PICK s \in Collecting \cup {"done", "failed"} :
          /\ pc' = [pc EXCEPT ![p] = s]
          /\ s # "initial"
          /\ s \notin Collecting => ranUntil' = [ranUntil EXCEPT ![p] = markers]
          /\ s \in Collecting => UNCHANGED ranUntil
  BY DEF Collecting
<1>2. pc[p] \in Collecting
  BY DEF Collecting
<1>3. /\ Last(p) \in 0..MaxEvents /\ cursor[p] <= Last(p) /\ E \subseteq 1..MaxEvents
      /\ \A i \in E : cursor[p] < i /\ i <= game[p].total
  BY <1>0, LastIsCursor
<1>4. trace'[p] = trace[p] \cup {<<L, i>> : i \in E}
      /\ lost'[p] = (lost[p] \/ Loses(p, cursor[p]))
  BY DEF Inv, TypeOK
<1>5. \A q \in Ports \ {p} : /\ game'[q] = game[q] /\ pc'[q] = pc[q]
                             /\ trace'[q] = trace[q] /\ lost'[q] = lost[q]
                             /\ start'[q] = start[q] /\ cursor'[q] = cursor[q]
  BY DEF Inv, TypeOK
<1>6. TypeOK'
  <2>1. trace' \in [Ports -> SUBSET ((1..MaxLives) \X (1..MaxEvents))]
    <3>1. {<<L, i>> : i \in E} \subseteq (1..MaxLives) \X (1..MaxEvents)
      BY <1>0, <1>3
    <3> QED
      BY <3>1 DEF Inv, TypeOK
  <2>2. cursor' \in [Ports -> 0..MaxEvents]
    BY <1>3 DEF Inv, TypeOK
  <2>3. lost' \in [Ports -> BOOLEAN] /\ ready' \in [Ports -> BOOLEAN]
    BY DEF Inv, TypeOK, Loses
  <2>4. ranUntil' \in [Ports -> -1..LastMarker]
    BY <1>1, CountsAssumption DEF Inv, TypeOK, LastMarker
  <2> QED
    BY <1>1, <2>1, <2>2, <2>3, <2>4 DEF Inv, TypeOK, mains
<1>7. InMain'
  <2>1. exit # 0
    BY <1>2 DEF Inv, InMain, Ended
  <2> QED
    BY <1>1, <1>2, <2>1, CollectMain
<1>8. InTrace(p)'
  <2>1. \/ E = {} /\ cursor'[p] = cursor[p]
        \/ cursor'[p] = Last(p)
    <3>1. ~game[p].enabled => E = {}
      <4>1. ~game[p].enabled => game[p].total = 0
        BY <1>0 DEF InTrace
      <4> HIDE DEF E
      <4> QED
        BY <1>0, <1>3, <4>1
    <3>2. game[p].total < cursor[p] => E = {}
      <4> HIDE DEF E
      <4> QED
        BY <1>0, <1>3
    <3>3. \/ UNCHANGED cursor /\ (~game[p].enabled \/ game[p].total < cursor[p])
          \/ cursor' = [cursor EXCEPT ![p] = Last(p)]
      OBVIOUS
    <3> QED
      BY <3>1, <3>2, <3>3 DEF Inv, TypeOK
  <2>2. cursor[p] <= cursor'[p]
    BY <1>0, <1>3, <2>1
  <2>3. ASSUME ~lost'[p]
        PROVE  /\ Seqs(p)' = (start[p] + 1)..cursor'[p]
               /\ \A e, f \in trace'[p] : e[2] = f[2] => e = f
    <3>1. ~lost[p] /\ ~Loses(p, cursor[p])
      BY <1>4, <2>3
    <3>2. E = (cursor[p] + 1)..cursor'[p]
      <4>1. E = (cursor[p] + 1)..Last(p)
        BY <1>0, <3>1, BatchIsNext
      <4> HIDE DEF E
      <4>2. CASE E = {} /\ cursor'[p] = cursor[p]
        BY <1>0, <4>2
      <4>3. CASE cursor'[p] = Last(p)
        BY <4>1, <4>3
      <4> QED
        BY <2>1, <4>2, <4>3
    <3>3. Seqs(p) = (start[p] + 1)..cursor[p] /\ start[p] <= cursor[p]
      BY <1>0, <3>1 DEF InTrace
    <3>4. Seqs(p)' = Seqs(p) \cup E
      <4> HIDE DEF E, L, Poll
      <4>1. Seqs(p)' = {e[2] : e \in trace[p] \cup {<<L, i>> : i \in E}}
        BY <1>4 DEF Seqs
      <4>2. \A i \in E : <<L, i>>[2] = i
        OBVIOUS
      <4>3. \A i \in E : i \in Seqs(p)'
        BY <4>1, <4>2
      <4>4. Seqs(p) \subseteq Seqs(p)'
        BY <4>1 DEF Seqs
      <4>5. Seqs(p)' \subseteq Seqs(p) \cup E
        BY <4>1, <4>2 DEF Seqs
      <4> QED
        BY <4>3, <4>4, <4>5
    <3>5. Seqs(p) \cup E = (start[p] + 1)..cursor'[p]
      <4>1. cursor'[p] \in Int
        BY <1>6, <1>0 DEF TypeOK
      <4> HIDE DEF E
      <4> QED
        BY <1>0, <2>2, <3>2, <3>3, <4>1
    <3>6. ASSUME NEW e \in trace'[p], NEW f \in trace'[p], e[2] = f[2] PROVE e = f
      <4>1. CASE e \in trace[p] /\ f \in trace[p]
        BY <1>0, <3>1, <3>6, <4>1 DEF InTrace
      <4>2. \A g \in trace[p] : g[2] \in Seqs(p)
        BY DEF Seqs
      <4>3. Seqs(p) \cap E = {}
        BY <1>0, <3>2, <3>3
      <4>4. CASE e \in trace[p] /\ f \notin trace[p]
        BY <1>4, <3>6, <4>2, <4>3, <4>4
      <4>5. CASE e \notin trace[p] /\ f \in trace[p]
        BY <1>4, <3>6, <4>2, <4>3, <4>5
      <4>6. CASE e \notin trace[p] /\ f \notin trace[p]
        BY <1>4, <3>6, <4>6
      <4> QED
        BY <4>1, <4>4, <4>5, <4>6
    <3> QED
      BY <3>4, <3>5, <3>6
  <2>4. pc'[p] # "initial"
    BY <1>1 DEF Inv, TypeOK
  <2>5. start'[p] = start[p] /\ game' = game
    OBVIOUS
  <2>6. start[p] <= cursor'[p]
    <3>1. cursor'[p] \in 0..MaxEvents /\ start[p] <= cursor[p]
      BY <1>0, <1>6 DEF TypeOK, InTrace
    <3> QED
      BY <1>0, <2>2, <3>1
  <2> HIDE DEF Poll
  <2> QED
    BY <1>0, <2>3, <2>4, <2>5, <2>6 DEF InTrace
<1>9. \A q \in Ports : InTrace(q)'
  BY <1>5, <1>8, OtherTraces
<1> QED
  BY <1>6, <1>7, <1>9 DEF Inv

-----------------------------------------------------------------------------
\* The games and the clock change nothing the collectors have written.
LEMMA OutsideStep ==
    ASSUME Inv, Deadline \/ \E p \in Ports : Record(p) \/ Close(p) \/ Open(p)
    PROVE  Inv'
<1> USE CountsAssumption
<1>1. UNCHANGED <<collector, mains>>
  BY DEF Deadline, Record, Close, Open
<1>2. /\ game' \in [Ports -> Game]
      /\ late' \in BOOLEAN
      /\ \A q \in Ports : ~game'[q].enabled => game'[q].total = 0
  <2>1. CASE Deadline
    BY <2>1 DEF Deadline, Inv, TypeOK, InTrace
  <2>2. ASSUME NEW p \in Ports, Record(p) \/ Close(p) \/ Open(p)
        PROVE  /\ game' \in [Ports -> Game]
               /\ late' \in BOOLEAN
               /\ \A q \in Ports : ~game'[q].enabled => game'[q].total = 0
    <3>0. /\ game \in [Ports -> Game] /\ late \in BOOLEAN
          /\ \A q \in Ports : ~game[q].enabled => game[q].total = 0
      BY DEF Inv, TypeOK, InTrace
    <3>1. CASE Record(p)
      BY <3>0, <3>1 DEF Record, Game
    <3>2. CASE Close(p)
      BY <3>0, <3>2 DEF Close, Game
    <3>3. CASE Open(p)
      <4>1. PICK e \in BOOLEAN :
               game' = [game EXCEPT ![p] = [up |-> TRUE, enabled |-> e,
                                            life |-> game[p].life + 1, total |-> 0]]
        BY <3>3 DEF Open
      <4>2. [up |-> TRUE, enabled |-> e, life |-> game[p].life + 1, total |-> 0] \in Game
        BY <3>0, <3>3 DEF Open, Game
      <4> QED
        BY <3>0, <3>3, <4>1, <4>2 DEF Open
    <3> QED
      BY <2>2, <3>1, <3>2, <3>3
  <2> QED
    BY <2>1, <2>2
<1>3. TypeOK'
  BY <1>1, <1>2 DEF Inv, TypeOK, collector, mains
<1>4. InMain'
  BY <1>1 DEF Inv, InMain, InMarkers, Covered, Ended, Failed, collector, mains
<1>5. \A p \in Ports : InTrace(p)'
  BY <1>1, <1>2 DEF Inv, InTrace, Seqs, collector
<1> QED
  BY <1>3, <1>4, <1>5 DEF Inv

\* main() writes nothing of the collectors'.
LEMMA MainStep == ASSUME Inv, Main \/ Interrupt PROVE Inv'
<1> USE CountsAssumption, BooleanAssumption
<1> DEFINE Whole == UNCHANGED <<game, collector, late>>
<1>0. Whole
  BY DEF Main, AwaitReady, BeginPhase, Phase, Settle, Join, Result, Summarize, Interrupt
<1>1. \A p \in Ports : InTrace(p)'
  BY <1>0 DEF Inv, InTrace, Seqs, collector
<1>2. ASSUME TypeOK', InMain' PROVE Inv'
  BY <1>1, <1>2 DEF Inv
<1>3. ASSUME Raise, main \in Waiting PROVE Inv'
  <2>1. TypeOK'
    BY <1>0, <1>3 DEF Raise, Inv, TypeOK, collector
  <2>2. InMain'
    BY <1>0, <1>3 DEF Raise, Inv, InMain, InMarkers, Waiting, collector
  <2> QED
    BY <1>2, <2>1, <2>2
<1>4. CASE AwaitReady
  <2>1. CASE Step("begin")
    <3>1. TypeOK'
      BY <1>0, <2>1 DEF Step, Inv, TypeOK, collector, Waiting
    <3>2. markers' = 2 * 0 /\ 0 < Phases /\ 0 \in Nat
      BY <1>4, <2>1 DEF AwaitReady, Step, Inv, InMain, InMarkers
    <3>3. InMain'
      BY <1>0, <1>4, <2>1, <3>2
         DEF AwaitReady, Step, Inv, InMain, InMarkers, collector
    <3> QED
      BY <1>2, <3>1, <3>3
  <2> QED
    BY <1>3, <1>4, <2>1 DEF AwaitReady, Waiting
<1>5. CASE BeginPhase
  <2>1. PICK k \in Nat : markers = 2 * k /\ k < Phases
    BY <1>5 DEF BeginPhase, Inv, InMain, InMarkers
  <2>2. markers' = 2 * k + 1 /\ markers' \in 0..LastMarker
    BY <1>5, <2>1 DEF BeginPhase, LastMarker
  <2>3. TypeOK'
    BY <1>0, <1>5, <2>2 DEF BeginPhase, Inv, TypeOK, collector, Waiting
  <2>4. InMain'
    BY <1>0, <1>5, <2>1, <2>2 DEF BeginPhase, Inv, InMain, InMarkers, collector
  <2> QED
    BY <1>2, <2>3, <2>4
<1>6. CASE Phase
  <2>1. CASE /\ markers' = markers + 1
             /\ main' = IF markers + 1 = LastMarker THEN "settle" ELSE "begin"
             /\ UNCHANGED <<stop, errors, interrupted, exit>>
    <3>1. PICK k \in Nat : markers = 2 * k + 1 /\ k < Phases
      BY <1>6 DEF Phase, Inv, InMain, InMarkers
    <3>2. markers' = 2 * (k + 1) /\ markers' \in 0..LastMarker
      BY <2>1, <3>1 DEF LastMarker
    <3>3. TypeOK'
      BY <1>0, <2>1, <3>2 DEF Inv, TypeOK, collector, Waiting
    <3>4. InMarkers'
      <4>1. CASE markers + 1 = LastMarker
        BY <2>1, <4>1 DEF InMarkers, LastMarker
      <4>2. CASE markers + 1 # LastMarker
        <5>1. k + 1 \in Nat /\ k + 1 < Phases
          BY <2>1, <3>1, <4>2 DEF LastMarker
        <5> QED
          BY <2>1, <3>2, <4>2, <5>1 DEF InMarkers
      <4> QED
        BY <4>1, <4>2
    <3>5. InMain'
      BY <1>0, <1>6, <2>1, <3>4 DEF Phase, Inv, InMain, collector
    <3> QED
      BY <1>2, <3>3, <3>5
  <2> QED
    BY <1>3, <1>6, <2>1 DEF Phase, Waiting
<1>7. CASE Settle
  <2>1. CASE /\ CheckWorkers
             /\ stop' = TRUE
             /\ main' = "join"
             /\ UNCHANGED <<markers, errors, interrupted, exit>>
    <3>1. TypeOK'
      BY <1>0, <2>1 DEF Inv, TypeOK, collector, Waiting
    <3>2. Covered'
      BY <1>0, <1>7, <2>1
         DEF Settle, CheckWorkers, Covered, Ended, Inv, InMain, InMarkers, collector, LastMarker
    <3>3. InMain'
      BY <1>0, <1>7, <2>1, <3>2 DEF Settle, Inv, InMain, InMarkers, collector
    <3> QED
      BY <1>2, <3>1, <3>3
  <2> QED
    BY <1>3, <1>7, <2>1 DEF Settle, Waiting
<1>8. CASE Join
  <2>1. CASE /\ \A p \in Ports : Ended(p)
             /\ stop' = TRUE
             /\ main' = "result"
             /\ UNCHANGED <<markers, errors, interrupted, exit>>
    <3>1. TypeOK'
      BY <1>0, <2>1 DEF Inv, TypeOK, collector
    <3>2. Covered => Covered'
      BY <1>0, <2>1 DEF Covered, Ended, collector, LastMarker
    <3>3. InMain'
      BY <1>0, <1>8, <2>1, <3>2 DEF Join, Inv, InMain, InMarkers, collector
    <3> QED
      BY <1>2, <3>1, <3>3
  <2> QED
    BY <1>3, <1>8, <2>1 DEF Join, Waiting
<1>9. CASE Interrupt
  <2>1. TypeOK'
    BY <1>0, <1>9 DEF Interrupt, Inv, TypeOK, collector
  <2>2. InMain'
    BY <1>0, <1>9 DEF Interrupt, Inv, InMain, InMarkers, Waiting, collector
  <2> QED
    BY <1>2, <2>1, <2>2
<1>10. CASE Result
  <2>1. TypeOK'
    BY <1>0, <1>10 DEF Result, Inv, TypeOK, collector, Failed
  <2>2. Covered => Covered'
    BY <1>0, <1>10 DEF Result, Covered, Ended, collector, LastMarker
  <2>3. InMain'
    BY <1>0, <1>10, <2>2
       DEF Result, Inv, InMain, InMarkers, Ended, Failed, collector
  <2> QED
    BY <1>2, <2>1, <2>3
<1>11. CASE Summarize
  <2>1. exit' \in {0, 1} /\ (errors => exit' = 1) /\ (exit' = 0 => \A p \in Ports : ~lost[p])
    BY <1>11 DEF Summarize
  <2>2. TypeOK'
    BY <1>0, <1>11, <2>1 DEF Summarize, Inv, TypeOK, collector
  <2>3. Covered => Covered'
    BY <1>0, <1>11 DEF Summarize, Covered, Ended, collector, LastMarker
  <2>4. InMain'
    BY <1>0, <1>11, <2>1, <2>3
       DEF Summarize, Inv, InMain, InMarkers, Ended, Failed, collector
  <2> QED
    BY <1>2, <2>2, <2>4
<1> QED
  BY <1>4, <1>5, <1>6, <1>7, <1>8, <1>9, <1>10, <1>11 DEF Main

LEMMA StepInv == Inv /\ [Next]_vars => Inv'
<1> SUFFICES ASSUME Inv, [Next]_vars PROVE Inv'
  OBVIOUS
<1>1. ASSUME NEW p \in Ports, Collect(p) PROVE Inv'
  BY <1>1, InitialStep, GoingStep, PollStep DEF Collect
<1>2. CASE UNCHANGED vars
  <2> USE <1>2 DEF vars, collector, mains
  <2>1. TypeOK'
    BY DEF Inv, TypeOK
  <2>2. InMain'
    BY DEF Inv, InMain, InMarkers, Covered, Ended, Failed
  <2>3. \A p \in Ports : InTrace(p)'
    BY DEF Inv, InTrace, Seqs
  <2> QED
    BY <2>1, <2>2, <2>3 DEF Inv
<1> QED
  BY <1>1, <1>2, OutsideStep, MainStep DEF Next

LEMMA Invariant == Spec => []Inv
BY InitInv, StepInv, PTL DEF Spec

-----------------------------------------------------------------------------
\* Types, and not more markers than the plan asks for.
THEOREM NetSyncTyped == Spec => []TypeOK
BY Invariant, PTL DEF Inv

\* A timed test that counts was collected to its last marker, for any plan.
THEOREM StudiesAreCovered == Spec => []StudyIsCovered
<1>1. Inv => StudyIsCovered
  BY BooleanAssumption DEF Inv, InMain, Covered, StudyIsCovered, Study
<1> QED
  BY <1>1, Invariant, PTL

\* A failed collector shows in the exit code, for any number of collectors.
THEOREM FailuresAreReported == Spec => []FailureIsReported
<1>1. Inv => FailureIsReported
  BY DEF Inv, InMain, FailureIsReported
<1> QED
  BY <1>1, Invariant, PTL

\* What exits with 0 has no hole, for any ring and any batch.
THEOREM StudiesHaveNoHole == Spec => []StudyHasNoHole
<1>1. Inv => StudyHasNoHole
  BY DEF Inv, InMain, InTrace, Seqs, StudyHasNoHole
<1> QED
  BY <1>1, Invariant, PTL
=============================================================================
