---------------------------- MODULE MCPlayerName ----------------------------
(***************************************************************************)
(* Names of up to four pieces: characters of every size, a flag's half, an *)
(* accent, separators and controls, and bytes that are malformed alone or  *)
(* because of what comes next.                                             *)
(***************************************************************************)
EXTENDS PlayerName

Pieces == { <<65>>, <<32>>, <<45>>, <<10>>,         \* A, space, -, line feed
            <<195, 163>>, <<204, 129>>,             \* a-tilde, acute accent
            <<194, 160>>, <<226, 128, 148>>,        \* no-break space, em dash
            <<240, 159, 135, 167>>,                 \* regional indicator
            <<192>>, <<224, 129>>, <<237, 160>>,    \* overlong, surrogate
            <<128>>, <<226>>, <<240, 159>> }        \* stray, cut short

MCRaw == {<< >>} \cup Pieces
         \cup {p \o q : p, q \in Pieces}
         \cup {p \o q \o r : p, q, r \in Pieces}
         \cup {p \o q \o r \o s : p, q, r, s \in Pieces}
=============================================================================
