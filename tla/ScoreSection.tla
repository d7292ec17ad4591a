---------------------------- MODULE ScoreSection ----------------------------
(***************************************************************************)
(* The snapshot section of the score (BS_SEC_NAMEPLATES): four words of    *)
(* four bytes, least significant byte first: version 1, both counters and  *)
(* the latch.  VersusScoreState::save, word, validate and load.            *)
(***************************************************************************)
EXTENDS VersusScore, Integers, Sequences

CONSTANT Base            \* values of a byte: 256 in the code

\* A counter fills its four bytes: UINT32_MAX for Base = 256.
ASSUME BaseAssumption ==
    Base \in Nat /\ Base > 1 /\ MaxWins + 1 = Base * Base * Base * Base

Byte == 0 .. Base - 1
SectionLength == 16

Weight == << 1, Base, Base * Base, Base * Base * Base >>

\* static_cast<uint8_t>(n >> (8 * b)), for b = 0 .. 3.
ByteOf(n, b) == (n \div Weight[b + 1]) % Base

\* Bug: the most significant byte first.
SaveReversed(st) ==
    LET fields == << 1, st.wins[0], st.wins[1], IF st.latched THEN 1 ELSE 0 >>
    IN [i \in 1 .. SectionLength |->
           ByteOf(fields[((i - 1) \div 4) + 1], 3 - ((i - 1) % 4))]

\* save(out).
Save(st) ==
    LET fields == << 1, st.wins[0], st.wins[1], IF st.latched THEN 1 ELSE 0 >>
    IN [i \in 1 .. SectionLength |->
           ByteOf(fields[((i - 1) \div 4) + 1], (i - 1) % 4)]

\* word(p + at).
Word(p, at) == p[at + 1] * Weight[1] + p[at + 2] * Weight[2]
                 + p[at + 3] * Weight[3] + p[at + 4] * Weight[4]

\* Bug: any latch word is accepted.
ValidateHeader(p) == Len(p) = SectionLength /\ Word(p, 0) = 1

\* validate(p, len).
Validate(p) == /\ Len(p) = SectionLength
               /\ Word(p, 0) = 1
               /\ Word(p, 12) <= 1

\* Bug: the latch stays open after a restore.
LoadUnlatched(p) ==
    [ wins |-> [s \in Side |-> Word(p, 4 + 4 * s)], latched |-> FALSE ]

\* load(p): only ever called on a validated section.
Load(p) == [ wins    |-> [s \in Side |-> Word(p, 4 + 4 * s)],
             latched |-> Word(p, 12) # 0 ]

=============================================================================
