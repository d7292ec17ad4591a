------------------------- MODULE MCSectionExchange -------------------------
(***************************************************************************)
(* SectionExchange with bytes of two values, so that all 2^16 sections of  *)
(* the right length can be handed over, and some of the wrong length.      *)
(***************************************************************************)
EXTENDS SectionExchange

MCForeign == {<< >>, [i \in 1 .. 15 |-> 0], [i \in 1 .. 17 |-> 1]}
                \cup [1 .. 16 -> Byte]

=============================================================================
