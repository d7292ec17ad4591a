--------------------------- MODULE NetSyncCapture ---------------------------
(***************************************************************************)
(* tools/capture_net_sync.py: two threads copy the synchronisation history *)
(* of two running games, each over a debug port, while the main thread     *)
(* waits, or writes the markers of a timed test.  At the end the exit code *)
(* says whether the capture is a study or not.                             *)
(*                                                                         *)
(* A game may be closed and opened again at any moment.  It numbers its    *)
(* events from 1 in each life and keeps the last Ring of them; that side   *)
(* of the port is not in this repository and is taken from how collect()   *)
(* uses it.  A request fails whenever it likes.                            *)
(***************************************************************************)
EXTENDS Integers, FiniteSets

CONSTANTS Ports,      \* the games' debug ports
          DragTest,   \* --drag-test: a timed test with markers
          Phases,     \* length of the plan (drag_plan)
          Ring,       \* events a game keeps
          Batch,      \* events a request asks for (count)
          MaxEvents,  \* bound: events of one life
          MaxLives    \* bound: lives of a game

ASSUME BooleanAssumption == DragTest \in BOOLEAN
ASSUME CountsAssumption ==
    Phases \in Nat \ {0} /\ Ring \in Nat \ {0} /\ Batch \in Nat \ {0}
      /\ MaxEvents \in Nat /\ MaxLives \in Nat \ {0}

VARIABLES
    game,      \* [up, enabled, life, total] of each game
    pc,        \* what a collector does next
    cursor,    \* collect()'s cursor
    start,     \* the cursor it began with (trace_start)
    trace,     \* events written to peer-*.jsonl, <<life, seq>>
    lost,      \* has a batch said that events are lost?
    ready,     \* the readiness events
    stop,      \* the stop event
    late,      \* has the deadline passed?
    main,      \* what main() does next
    markers,   \* lines of markers.jsonl
    errors,    \* is main()'s list of errors not empty?
    interrupted,  \* Ctrl+C
    exit,      \* the exit code, or -1
    ranUntil   \* history: markers there were when a collector ended

collector == <<pc, cursor, start, trace, lost, ready, ranUntil>>
mains == <<stop, main, markers, errors, interrupted, exit>>
vars == <<game, collector, late, mains>>

Game == [up : BOOLEAN, enabled : BOOLEAN, life : 1..MaxLives, total : 0..MaxEvents]
Collecting == {"initial", "head", "poll", "slow"}
Waiting == {"ready", "begin", "phase", "settle", "join"}
LastMarker == 2 * Phases

Init == /\ game \in [Ports -> {g \in Game : g.life = 1 /\ g.total = 0}]
        /\ pc = [p \in Ports |-> IF DragTest THEN "initial" ELSE "head"]
        /\ cursor = [p \in Ports |-> 0] /\ start = cursor
        /\ trace = [p \in Ports |-> {}]
        /\ lost = [p \in Ports |-> FALSE]
        /\ ready = [p \in Ports |-> FALSE]
        /\ stop = FALSE /\ late = FALSE
        /\ main = IF DragTest THEN "ready" ELSE "join"
        /\ markers = 0 /\ errors = FALSE /\ interrupted = FALSE /\ exit = -1
        /\ ranUntil = [p \in Ports |-> -1]

-----------------------------------------------------------------------------
(***************************************************************************)
(* The games.                                                              *)
(***************************************************************************)
Record(p) == /\ game[p].up /\ game[p].enabled /\ game[p].total < MaxEvents
             /\ game' = [game EXCEPT ![p].total = @ + 1]
             /\ UNCHANGED <<collector, late, mains>>

Close(p) == /\ game[p].up
            /\ game' = [game EXCEPT ![p].up = FALSE]
            /\ UNCHANGED <<collector, late, mains>>

Open(p) == /\ ~game[p].up /\ game[p].life < MaxLives
           /\ \E e \in BOOLEAN :
                 game' = [game EXCEPT ![p] = [up |-> TRUE, enabled |-> e,
                                              life |-> @.life + 1, total |-> 0]]
           /\ UNCHANGED <<collector, late, mains>>

\* What net_sync_trace answers to "after": the first Batch of the events that
\* are still there.
Later(a, b) == IF a > b THEN a ELSE b
First(p, after) == Later(after + 1, game[p].total - Ring + 1)
Entries(p, after) == {i \in 1..MaxEvents :
    i >= First(p, after) /\ i < First(p, after) + Batch /\ i <= game[p].total}
Loses(p, after) == First(p, after) > after + 1

-----------------------------------------------------------------------------
(***************************************************************************)
(* collect().                                                              *)
(***************************************************************************)
Ends(p, how) == /\ pc' = [pc EXCEPT ![p] = how]
                /\ ranUntil' = [ranUntil EXCEPT ![p] = markers]
Goes(p, to) == pc' = [pc EXCEPT ![p] = to] /\ UNCHANGED ranUntil

\* The request before the loop, of a timed test only; nothing retries it.
Initial(p) ==
    /\ pc[p] = "initial"
    /\ \/ /\ Ends(p, "failed")
          /\ UNCHANGED <<cursor, start>>
       \/ /\ game[p].up /\ game[p].enabled
          /\ cursor' = [cursor EXCEPT ![p] = game[p].total]
          /\ start' = [start EXCEPT ![p] = game[p].total]
          /\ Goes(p, "head")
    /\ UNCHANGED <<game, late, mains, trace, lost, ready>>

\* Bug: the deadline is main()'s alone.
HeadUntilStopped(p) ==
    /\ pc[p] = "head"
    /\ IF stop THEN Ends(p, "done") ELSE Goes(p, "poll")
    /\ UNCHANGED <<game, late, mains, cursor, start, trace, lost, ready>>

\* The loop's condition.
Head(p) ==
    /\ pc[p] = "head"
    /\ IF stop \/ late THEN Ends(p, "done") ELSE Goes(p, "poll")
    /\ UNCHANGED <<game, late, mains, cursor, start, trace, lost, ready>>

\* An OSError is written down and the loop goes on.
Unanswered(p) ==
    /\ pc[p] = "poll"
    /\ Goes(p, "head")
    /\ UNCHANGED <<game, late, mains, cursor, start, trace, lost, ready>>

\* Bug: the cursor goes to the game's count, past what was asked for.
LastOfTotal(p) == game[p].total

\* entries[-1]["seq"], or the cursor as it was.
Last(p) == CHOOSE i \in Entries(p, cursor[p]) \cup {cursor[p]} :
              \A j \in Entries(p, cursor[p]) : j <= i

\* An answered request.  The trace is written before anything is checked.
Poll(p) ==
    /\ pc[p] = "poll" /\ game[p].up
    /\ trace' = [trace EXCEPT ![p] =
                   @ \cup {<<game[p].life, i>> : i \in Entries(p, cursor[p])}]
    /\ lost' = [lost EXCEPT ![p] = @ \/ Loses(p, cursor[p])]
    /\ \/ /\ ~game[p].enabled
          /\ Ends(p, "failed")
          /\ UNCHANGED <<ready, cursor>>
       \/ /\ game[p].enabled /\ game[p].total < cursor[p]
          /\ ready' = [ready EXCEPT ![p] = TRUE]
          /\ Ends(p, "failed")
          /\ UNCHANGED cursor
       \/ /\ game[p].enabled /\ game[p].total >= cursor[p]
          /\ ready' = [ready EXCEPT ![p] = TRUE]
          /\ cursor' = [cursor EXCEPT ![p] = Last(p)]
          /\ \/ Goes(p, "head")
             \/ Last(p) = game[p].total /\ Goes(p, "slow")
    /\ UNCHANGED <<game, late, mains, start>>

\* netplay_status and video_info, not more often than every two seconds.  Of
\* their failures only a refusal ends the collector.
Slow(p) ==
    /\ pc[p] = "slow"
    /\ Goes(p, "head") \/ Ends(p, "failed")
    /\ UNCHANGED <<game, late, mains, cursor, start, trace, lost, ready>>

Collect(p) == Initial(p) \/ Head(p) \/ Unanswered(p) \/ Poll(p) \/ Slow(p)

-----------------------------------------------------------------------------
(***************************************************************************)
(* main().                                                                 *)
(***************************************************************************)
Ended(p) == pc[p] \notin Collecting
Failed(p) == pc[p] = "failed"

\* Bug: the collectors are left to the deadline.
RaiseOnly == /\ errors' = TRUE
             /\ main' = "result"
             /\ UNCHANGED <<stop, markers, interrupted, exit>>

\* except Exception, and finally.
Raise == /\ errors' = TRUE
         /\ stop' = TRUE
         /\ main' = "result"
         /\ UNCHANGED <<markers, interrupted, exit>>

Step(to) == main' = to /\ UNCHANGED <<stop, markers, errors, interrupted, exit>>

\* check_workers(), in a timed test: no collector may end before it does.
CheckWorkers == \A p \in Ports : ~Ended(p)

AwaitReady ==
    /\ main = "ready"
    /\ IF \A p \in Ports : ready[p] THEN Step("begin") ELSE Raise
    /\ UNCHANGED <<game, collector, late>>

BeginPhase ==
    /\ main = "begin"
    /\ markers' = markers + 1
    /\ main' = "phase"
    /\ UNCHANGED <<game, collector, late, stop, errors, interrupted, exit>>

\* Bug: one phase more than the plan has.
PhaseTooMany ==
    /\ main = "phase"
    /\ \/ ~CheckWorkers /\ Raise
       \/ /\ markers' = markers + 1
          /\ main' = IF markers = LastMarker THEN "settle" ELSE "begin"
          /\ UNCHANGED <<stop, errors, interrupted, exit>>
    /\ UNCHANGED <<game, collector, late>>

\* A check found a collector that has ended, or the time is up.
Phase ==
    /\ main = "phase"
    /\ \/ ~CheckWorkers /\ Raise
       \/ /\ markers' = markers + 1
          /\ main' = IF markers + 1 = LastMarker THEN "settle" ELSE "begin"
          /\ UNCHANGED <<stop, errors, interrupted, exit>>
    /\ UNCHANGED <<game, collector, late>>

\* Bug: the last check is left to the phase.
SettleUnchecked ==
    /\ main = "settle"
    /\ stop' = TRUE
    /\ main' = "join"
    /\ UNCHANGED <<game, collector, late, markers, errors, interrupted, exit>>

\* stop.wait(.5), one more check, stop.set().
Settle ==
    /\ main = "settle"
    /\ \/ ~CheckWorkers /\ Raise
       \/ /\ CheckWorkers
          /\ stop' = TRUE
          /\ main' = "join"
          /\ UNCHANGED <<markers, errors, interrupted, exit>>
    /\ UNCHANGED <<game, collector, late>>

\* Until both have ended, or one has failed.
Join ==
    /\ main = "join"
    /\ \/ (\E p \in Ports : Failed(p)) /\ Raise
       \/ /\ \A p \in Ports : Ended(p)
          /\ stop' = TRUE
          /\ main' = "result"
          /\ UNCHANGED <<markers, errors, interrupted, exit>>
    /\ UNCHANGED <<game, collector, late>>

\* KeyboardInterrupt is no error.
Interrupt ==
    /\ main \in Waiting
    /\ interrupted' = TRUE
    /\ stop' = TRUE
    /\ main' = "result"
    /\ UNCHANGED <<game, collector, late, markers, errors, exit>>

\* Bug: f.result() is not asked for.
ResultUnasked ==
    /\ main = "result"
    /\ \A p \in Ports : Ended(p)
    /\ Step("summary")
    /\ UNCHANGED <<game, collector, late>>

\* f.result() waits for its collector and raises what it raised.
Result ==
    /\ main = "result"
    /\ \A p \in Ports : Ended(p)
    /\ errors' = (errors \/ \E p \in Ports : Failed(p))
    /\ main' = "summary"
    /\ UNCHANGED <<game, collector, late, stop, markers, interrupted, exit>>

\* summarize(), and the exit code; whether the sessions can be paired depends
\* on what the events say.
Summarize ==
    /\ main = "summary"
    /\ \E paired \in BOOLEAN :
          exit' = IF \/ errors \/ ~paired
                     \/ \E p \in Ports : lost[p] \/ trace[p] = {}
                  THEN 1 ELSE 0
    /\ main' = "exit"
    /\ UNCHANGED <<game, collector, late, stop, markers, errors, interrupted>>

Main == \/ AwaitReady \/ BeginPhase \/ Phase \/ Settle \/ Join
        \/ Result \/ Summarize

Deadline == ~late /\ late' = TRUE /\ UNCHANGED <<game, collector, mains>>

Next == \/ \E p \in Ports : Record(p) \/ Close(p) \/ Open(p) \/ Collect(p)
        \/ Main \/ Interrupt \/ Deadline

Spec == Init /\ [][Next]_vars

\* The threads run.
Threads == WF_vars(Main) /\ \A p \in Ports : WF_vars(Collect(p))

\* A timed test that nobody's deadline ends.
TestSpec == Spec /\ Threads

\* A capture whose deadline comes.
CaptureSpec == Spec /\ Threads /\ WF_vars(Deadline)

-----------------------------------------------------------------------------
(***************************************************************************)
(* Properties.                                                             *)
(***************************************************************************)
TypeOK == /\ game \in [Ports -> Game]
          /\ pc \in [Ports -> Collecting \cup {"done", "failed"}]
          /\ cursor \in [Ports -> 0..MaxEvents] /\ start \in [Ports -> 0..MaxEvents]
          /\ trace \in [Ports -> SUBSET ((1..MaxLives) \X (1..MaxEvents))]
          /\ lost \in [Ports -> BOOLEAN] /\ ready \in [Ports -> BOOLEAN]
          /\ stop \in BOOLEAN /\ late \in BOOLEAN
          /\ main \in Waiting \cup {"result", "summary", "exit"}
          /\ markers \in 0..LastMarker
          /\ errors \in BOOLEAN /\ interrupted \in BOOLEAN
          /\ exit \in {-1, 0, 1}
          /\ ranUntil \in [Ports -> -1..LastMarker]

Study == exit = 0 /\ ~interrupted

\* A timed test that counts as a study has all its markers, and both
\* collectors were running when the last of them was written.
StudyIsCovered ==
    (Study /\ DragTest) =>
        markers = LastMarker /\ \A p \in Ports : ranUntil[p] = LastMarker

\* A capture that exits with 0 has every event from its start to its cursor,
\* none of them twice: no hole between two batches, no ring overrun.
StudyHasNoHole ==
    exit = 0 => \A p \in Ports :
        /\ {e[2] : e \in trace[p]} = (start[p] + 1)..cursor[p]
        /\ \A e, f \in trace[p] : e[2] = f[2] => e = f

\* A collector that failed shows in the exit code, whenever it failed.
FailureIsReported ==
    (main = "exit" /\ \E p \in Ports : Failed(p)) => exit = 1

\* Every capture ends.
CaptureEnds == <>(main = "exit")
=============================================================================
