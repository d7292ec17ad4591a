-------------------------- MODULE SectionExchange --------------------------
(***************************************************************************)
(* A score that is saved to and restored from sections, its own or those   *)
(* of somebody else: a peer or a save file may hand over any bytes, and    *)
(* validate() decides whether load() may see them.                         *)
(***************************************************************************)
EXTENDS ScoreSection

CONSTANT Foreign         \* the byte strings somebody else may hand over

ASSUME ForeignAssumption == \A p \in Foreign : p \in Seq(Byte)

VARIABLES state, section

ExchangeInit == state = ResetScore(FALSE) /\ section \in Foreign

SaveState == section' = Save(state) /\ UNCHANGED state
LoadState == Validate(section) /\ state' = Load(section) /\ UNCHANGED section

Exchange == ExchangeInit /\ [][SaveState \/ LoadState]_<<state, section>>

-----------------------------------------------------------------------------
\* What save() writes, validate() accepts and load() restores, every counter
\* value up to the limit and the latch included.
RoundTrip == Validate(Save(state)) /\ Load(Save(state)) = state

\* Whatever validate() accepts, load() makes a score of, whose only section it
\* is: two peers whose scores are equal have equal sections, and two accepted
\* sections that differ restore different scores, so comparing snapshots
\* compares scores.
SectionIsCanonical ==
    Validate(section) => Load(section) \in Score /\ Save(Load(section)) = section

=============================================================================
