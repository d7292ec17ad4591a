------------------------ MODULE CaptureVersusResult ------------------------
(***************************************************************************)
(* The ten-second capture of tools/capture_versus_result.py.  The collector *)
(* asks the debug server of a running game, one request at a time, for the *)
(* frame, for the counters of the ring of write records and for the        *)
(* records of a span of frames; between two requests the game goes on.  At *)
(* the end it removes the range it armed and writes a status that says     *)
(* whether the capture is complete.                                        *)
(*                                                                         *)
(* The server belongs to the psxrecomp framework: it is modelled from the  *)
(* requests the collector makes.  A record is the frame of a changed write *)
(* and its index, the server's seq plus one.                               *)
(***************************************************************************)
EXTENDS Integers, FiniteSets, Sequences, SequencesExt

CONSTANTS Capacity,      \* records the ring holds
          PageSize,      \* PAGE_SIZE, 2048 in the code
          FirstFrame,    \* the game's frame when the collector starts
          Frames,        \* bound: frames the game goes on for
          MaxWrites      \* bound: writes of the game

ASSUME CaptureAssumption ==
    /\ {Capacity, PageSize} \subseteq Nat \ {0}
    /\ {FirstFrame, Frames, MaxWrites} \subseteq Nat
\* A state that is loaded lies further back than the capture is long.
ASSUME LoadAssumption == FirstFrame > Frames + 1

VARIABLES
    frame, log,        \* the server: frame, records so far
    slot,              \* the range in the collector's slot: "free", "ours", "other"
    covered,           \* a range that was there before covers the window
    missed, loaded,    \* history: frames with unrecorded writes; a state loaded
    pc,                \* the collector's next request
    added,             \* the answer of wtrace_arm has arrived
    startSeq, startFrame, nextFrame, lastTotal,
    endFrame, closing, \* the span being collected; is it the last one
    work,              \* spans of frames still to be dumped
    entries,           \* records collected
    warned, error, report

server == <<frame, log, slot, covered, missed, loaded>>
cursor == <<startSeq, startFrame, nextFrame, lastTotal>>
span   == <<endFrame, closing, work>>
result == <<warned, error, report>>
vars == <<server, pc, added, cursor, span, entries, result>>

Init == /\ frame = FirstFrame /\ log = << >> /\ slot = "free"
        /\ covered \in BOOLEAN
        /\ missed = {} /\ loaded = FALSE
        /\ pc = "ranges" /\ added = FALSE
        /\ startSeq = 0 /\ startFrame = 0 /\ nextFrame = 0 /\ lastTotal = 0
        /\ endFrame = 0 /\ closing = FALSE /\ work = << >>
        /\ entries = << >>
        /\ warned = FALSE /\ error = FALSE /\ report = "none"

-----------------------------------------------------------------------------
(***************************************************************************)
(* The game, its debug server and its user.                                *)
(***************************************************************************)
collector == <<pc, added, cursor, span, entries, result>>

Recording == covered \/ slot = "ours"
Collecting == pc \in {"poll", "stats", "dump"}

\* The game writes to the window; nothing is recorded without a range.
Write == /\ Len(log) + Cardinality(missed) < MaxWrites
         /\ IF Recording
            THEN log' = Append(log, frame) /\ UNCHANGED missed
            ELSE /\ missed' = IF Collecting THEN missed \cup {frame} ELSE missed
                 /\ UNCHANGED log
         /\ UNCHANGED <<frame, slot, covered, loaded, collector>>

NextFrame == /\ frame \notin {Frames, FirstFrame + Frames}
             /\ frame' = frame + 1
             /\ UNCHANGED <<log, slot, covered, missed, loaded, collector>>

\* The user loads a state from before the capture.
LoadState == /\ frame >= FirstFrame
             /\ frame' = 0
             /\ loaded' = (loaded \/ (Collecting /\ ~closing))
             /\ UNCHANGED <<log, slot, covered, missed, collector>>

\* Another observer takes the collector's range away, or arms its own.
Meddle(r) == /\ ~covered /\ slot # r
             /\ slot' = r
             /\ UNCHANGED <<frame, log, covered, missed, loaded, collector>>

-----------------------------------------------------------------------------
(***************************************************************************)
(* The collector, one request each.                                        *)
(***************************************************************************)
Total  == Len(log)
Oldest == IF Total > Capacity THEN Total - Capacity ELSE 0

\* A request that is not answered raises: inside the try block the capture is
\* over, and what it has is kept.  The game may have exited.
Unanswered ==
    /\ pc \in {"ranges", "arm", "stats0", "regs0", "poll", "stats", "dump", "after"}
    /\ pc' = "finally"
    /\ error' = TRUE
    /\ UNCHANGED <<server, added, cursor, span, entries, warned, report>>

Raise == /\ pc' = "finally" /\ error' = TRUE
         /\ UNCHANGED <<cursor, span, entries, warned>>

\* wtrace_ranges: a range that covers the window is used, else one is added.
Ranges == /\ pc = "ranges"
          /\ pc' = IF covered THEN "stats0" ELSE "arm"
          /\ UNCHANGED <<server, added, cursor, span, entries, result>>

\* wtrace_arm: the server may arm the range and its answer be lost.
Arm == /\ pc = "arm" /\ slot = "free"
       /\ slot' = "ours"
       /\ \/ pc' = "stats0" /\ added' = TRUE /\ UNCHANGED error
          \/ pc' = "finally" /\ error' = TRUE /\ UNCHANGED added
       /\ UNCHANGED <<frame, log, covered, missed, loaded, cursor, span,
                      entries, warned, report>>

StartStats == /\ pc = "stats0"
              /\ pc' = "regs0"
              /\ startSeq' = Total /\ lastTotal' = Total
              /\ UNCHANGED <<server, added, startFrame, nextFrame, span, entries,
                             result>>

StartFrame == /\ pc = "regs0"
              /\ pc' = "poll"
              /\ startFrame' = frame /\ nextFrame' = frame
              /\ UNCHANGED <<server, added, startSeq, lastTotal, span, entries,
                             result>>

\* Bug: the frame that is still running is taken for complete.
LastStarted == frame

\* Only frames before the current one are complete.
LastComplete == frame - 1

\* get_registers, every 50 ms and once more when the ten seconds are over.
Poll(last) ==
    /\ pc = "poll"
    /\ pc' = "stats"
    /\ closing' = last
    /\ endFrame' = LastComplete
    /\ warned' = (warned \/ (last /\ frame <= startFrame))
    /\ UNCHANGED <<server, added, cursor, work, entries, error, report>>

\* Bug: the frame after the span is not skipped.
SpanAgain(lo, hi) == hi

\* collect: next_frame = end_frame + 1.
After(lo, hi) == hi + 1

\* The ring went round since the last look at it.
Overrun == Oldest > lastTotal

FrameWentBack(hi) == hi + 1 < nextFrame

\* wtrace_stats, and the checks collect() makes before it dumps.
Stats ==
    /\ pc = "stats"
    /\ IF Total < lastTotal \/ FrameWentBack(endFrame)
       THEN Raise
       ELSE /\ pc' = "dump"
            /\ warned' = (warned \/ Overrun)
            /\ work' = IF endFrame < nextFrame THEN << >>
                       ELSE << <<nextFrame, endFrame>> >>
            /\ nextFrame' = After(nextFrame, endFrame)
            /\ lastTotal' = Total
            /\ UNCHANGED <<startSeq, startFrame, endFrame, closing, entries, error>>
    /\ UNCHANGED <<server, added, report>>

\* The elements of s that are in S, in their order: SelectSeq, of a set.
Those(s, S) ==
    LET upTo[i \in 0 .. Len(s)] ==
            IF i = 0 THEN << >>
            ELSE IF s[i] \in S THEN Append(upTo[i - 1], s[i]) ELSE upTo[i - 1]
    IN upTo[Len(s)]

\* The records of frames lo .. hi that are still in the ring, oldest first.
InRing(lo, hi) == Those([i \in 1 .. Total - Oldest |-> Oldest + i],
                        {s \in 1 .. Total : log[s] \in lo .. hi})
Page(lo, hi) == LET all == InRing(lo, hi)
                IN IF Len(all) <= PageSize THEN all ELSE SubSeq(all, 1, PageSize)

\* Bug: the frame after the middle is in neither.
HalvesApart(lo, hi) ==
    LET mid == (lo + hi) \div 2 IN << <<lo, mid>>, <<mid + 2, hi>> >>

Halves(lo, hi) ==
    LET mid == (lo + hi) \div 2 IN << <<lo, mid>>, <<mid + 1, hi>> >>

Kept(page) == Those(page, startSeq + 1 .. Total)

\* frame_entries, one wtrace_dump: a full page of several frames is split, one
\* of a single frame is kept with a warning.
Dump ==
    /\ pc = "dump" /\ work # << >>
    /\ LET lo == Head(work)[1]
           hi == Head(work)[2]
           page == Page(lo, hi)
           full == Len(page) = PageSize
       IN IF full /\ lo # hi
          THEN /\ work' = Halves(lo, hi) \o Tail(work)
               /\ UNCHANGED <<entries, warned>>
          ELSE /\ work' = Tail(work)
               /\ entries' = entries \o Kept(page)
               /\ warned' = (warned \/ full)
    /\ UNCHANGED <<server, pc, added, cursor, endFrame, closing, error, report>>

Collected == /\ pc = "dump" /\ work = << >>
             /\ pc' = IF closing THEN "after" ELSE "poll"
             /\ UNCHANGED <<server, added, cursor, span, entries, result>>

\* The reads and files after the window.
ReadAfter == /\ pc = "after"
             /\ pc' = "finally"
             /\ UNCHANGED <<server, added, cursor, span, entries, result>>

\* finally: wtrace_ranges, and nothing is removed unless the list is the one
\* the collector left; any exception there becomes a warning.
CheckRanges ==
    /\ pc = "finally"
    /\ \/ ~added /\ pc' = "report" /\ UNCHANGED warned
       \/ added /\ slot = "ours" /\ pc' = "disarm" /\ UNCHANGED warned
       \/ added /\ pc' = "report" /\ warned' = TRUE
    /\ UNCHANGED <<server, added, cursor, span, entries, error, report>>

\* Bug: the failure of the removal is swallowed.
DisarmSilent == /\ pc = "disarm" /\ pc' = "report"
                /\ \/ slot' = "free"
                   \/ UNCHANGED slot
                /\ UNCHANGED <<frame, log, covered, missed, loaded, added,
                               cursor, span, entries, result>>

\* wtrace_disarm by slot; its answer or the request itself may be lost.
Disarm == /\ pc = "disarm" /\ pc' = "report"
          /\ \/ slot' = "free" /\ warned' \in {warned, TRUE}
             \/ UNCHANGED slot /\ warned' = TRUE
          /\ UNCHANGED <<frame, log, covered, missed, loaded, added, cursor,
                         span, entries, error, report>>

\* status.json and the exit code; an archive that cannot be written makes the
\* capture an error after all.
Report == /\ pc = "report" /\ pc' = "done"
          /\ \/ report' = IF error THEN "error"
                          ELSE IF warned THEN "partial" ELSE "complete"
             \/ report' = "error"
          /\ UNCHANGED <<server, added, cursor, span, entries, warned, error>>

-----------------------------------------------------------------------------
Game == \/ Write \/ NextFrame \/ LoadState
        \/ \E r \in {"free", "other"} : Meddle(r)

Collector == \/ Ranges \/ Arm \/ StartStats \/ StartFrame
             \/ \E last \in BOOLEAN : Poll(last)
             \/ Stats \/ Dump \/ Collected \/ ReadAfter
             \/ CheckRanges \/ Disarm \/ Report

Next == Game \/ Collector \/ Unanswered

Spec == Init /\ [][Next]_vars

-----------------------------------------------------------------------------
(***************************************************************************)
(* Properties.                                                             *)
(***************************************************************************)

TypeOK == /\ slot \in {"free", "ours", "other"}
          /\ pc \in {"ranges", "arm", "stats0", "regs0", "poll", "stats", "dump",
                     "after", "finally", "disarm", "report", "done"}
          /\ report \in {"none", "error", "partial", "complete"}
          /\ {covered, loaded, added, closing, warned, error} \subseteq BOOLEAN
          /\ ToSet(entries) \subseteq 1 .. Total
          /\ lastTotal \in startSeq .. Total
          /\ \A i \in DOMAIN work : work[i][1] <= work[i][2]

\* The records of the window: those made after the counters were first read, in
\* the frames that were complete when the ten seconds were over.
Window == {s \in startSeq + 1 .. Total : log[s] \in startFrame .. endFrame}

\* A capture that says it is complete has every write of its window, and no
\* state was loaded in it, however the game went on between the requests and
\* whatever went wrong (VERSUS_RESULT_CAPTURE.md: "Se um unico frame atingir
\* esse limite ou o anel for sobrescrito, marca a captura como incompleta").
CompleteHasAll ==
    report = "complete" => /\ ToSet(entries) = Window
                           /\ missed \cap (startFrame .. endFrame) = {}
                           /\ ~loaded

\* The records are exported in the order the game made them, each of them once,
\* although they are asked for in spans that are split (frame_entries).
EntriesOnceInOrder ==
    \A i, j \in DOMAIN entries : i < j => entries[i] < entries[j]

\* A range the collector may have left armed is never passed over in silence:
\* neither when the answer of the arming was lost nor when the removal failed.
LeftArmedIsReported == (report = "complete") => slot # "ours"

=============================================================================
