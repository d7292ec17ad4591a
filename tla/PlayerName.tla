----------------------------- MODULE PlayerName -----------------------------
(***************************************************************************)
(* display_player_name() of player_nameplates_text.h: what set_names()     *)
(* makes of the bytes a profile or a peer gives for a name.  The name is   *)
(* read character by character, so that a limit never cuts one in two:     *)
(* leading spaces are dropped, then a flag (two regional indicators) and   *)
(* the separators behind it, and up to MaxChars letters are kept, with     *)
(* their accents.                                                          *)
(*                                                                         *)
(* Bytes are numbers; the kept string is the sequence of its characters,   *)
(* each with its code point and its size in bytes.                         *)
(***************************************************************************)
EXTENDS Integers, Sequences

CONSTANTS Raw,        \* the byte strings that may be given
          MaxChars,   \* 8: letters kept
          MaxBytes    \* 60: bytes kept, accents included

Byte == 0..255

ASSUME RawAssumption == \A r \in Raw : r \in Seq(Byte)
ASSUME LimitsAssumption == MaxChars \in Nat \ {0} /\ MaxBytes \in Nat

Bad == 65533          \* U+FFFD
Surrogate(cp) == cp >= 55296 /\ cp <= 57343

-----------------------------------------------------------------------------
(***************************************************************************)
(* name_codepoint(text, at): `next' is where `at' is left.                 *)
(***************************************************************************)
Extra(first) == IF first \in 240..244 THEN 3
                ELSE IF first \in 224..239 THEN 2
                ELSE IF first \in 194..223 THEN 1 ELSE 0

Continues(c) == c \div 64 = 2

\* How many of the bytes behind `at' continue it, up to Extra.
Taken(text, at, extra) ==
    CHOOSE n \in 0..extra :
        /\ \A i \in 1..n : Continues(text[at + i])
        /\ n < extra => ~Continues(text[at + n + 1])

\* The payload bits, most significant first.
Value(text, at, extra) ==
    LET low(i) == text[at + i] % 64
    IN IF extra = 1 THEN (text[at] % 32) * 64 + low(1)
       ELSE IF extra = 2 THEN ((text[at] % 16) * 64 + low(1)) * 64 + low(2)
       ELSE (((text[at] % 8) * 64 + low(1)) * 64 + low(2)) * 64 + low(3)

\* Bug: overlong forms pass.
SurrogateOnly(cp, extra) == cp > 1114111 \/ Surrogate(cp)

Forbidden(cp, extra) ==
    \/ extra = 1 /\ cp < 128
    \/ extra = 2 /\ cp < 2048
    \/ extra = 3 /\ cp < 65536
    \/ cp > 1114111
    \/ Surrogate(cp)

At(cp, next) == [cp |-> cp, next |-> next]

Decode(text, at) ==
    LET first == text[at]
        extra == Extra(first)
        cp    == Value(text, at, extra)
    IN IF first < 128 THEN At(first, at + 1)
       ELSE IF extra = 0 \/ at + extra > Len(text) THEN At(Bad, at + 1)
       ELSE IF Taken(text, at, extra) < extra
            THEN At(Bad, at + 1 + Taken(text, at, extra))
       ELSE At(IF Forbidden(cp, extra) THEN Bad ELSE cp, at + 1 + extra)

-----------------------------------------------------------------------------
(***************************************************************************)
(* display_player_name(raw), one action per turn of its loops.             *)
(***************************************************************************)
VARIABLES raw,        \* the bytes given
          at,         \* the next byte to read
          stage,      \* the loop that is running
          result,     \* characters kept: [cp, size]
          bytes,      \* result.size()
          characters  \* letters among them

vars == <<raw, at, stage, result, bytes, characters>>

Spaces        == {32, 9, 160}
Separators    == Spaces \cup {45, 8211, 8212, 65039}
Accents       == 768..879
Space(cp)     == cp \in Spaces
Regional(cp)  == cp \in 127462..127487
Separator(cp) == cp \in Separators
Accent(cp)    == cp \in Accents
Dropped(cp)   == cp < 32 \/ cp = 127 \/ cp = Bad

Init == /\ raw \in Raw /\ at = 1 /\ stage = "spaces"
        /\ result = << >> /\ bytes = 0 /\ characters = 0

Unread == at <= Len(raw)
Here == Decode(raw, at)
Kept == UNCHANGED <<result, bytes, characters>>
Enter(s) == stage' = s /\ UNCHANGED <<raw, at>> /\ Kept
Skip == at' = Here.next /\ UNCHANGED <<raw, stage>> /\ Kept

SkipSpace == /\ stage = "spaces"
             /\ IF Unread /\ Space(Here.cp) THEN Skip ELSE Enter("flag")

\* The character at i, and 0 behind the last one.
Peek(i) == IF i <= Len(raw) THEN Decode(raw, i) ELSE At(0, i)

Flag == /\ stage = "flag"
        /\ LET a == Peek(at)
               b == Peek(a.next)
           IN IF Regional(a.cp) /\ Regional(b.cp)
              THEN at' = b.next /\ stage' = "separators" /\ UNCHANGED raw /\ Kept
              ELSE Enter("letters")

SkipSeparator ==
    /\ stage = "separators"
    /\ IF Unread /\ Separator(Here.cp) THEN Skip ELSE Enter("letters")

\* Bug: every code point counts as a letter.
FullCounting(cp) == characters = MaxChars

\* The two ways out of the loop before the end of the name.
Full(cp) == ~Accent(cp) /\ characters = MaxChars
TooLong(size) == bytes + size > MaxBytes

\* One character is skipped, kept, or ends the loop.
Ignored(cp) == Dropped(cp) \/ (Accent(cp) /\ characters = 0)

IgnoreLetter == stage = "letters" /\ Unread /\ Ignored(Here.cp) /\ Skip

AppendLetter ==
    /\ stage = "letters" /\ Unread
    /\ ~Ignored(Here.cp) /\ ~Full(Here.cp) /\ ~TooLong(Here.next - at)
    /\ result' = Append(result, [cp |-> Here.cp, size |-> Here.next - at])
    /\ bytes' = bytes + (Here.next - at)
    /\ characters' = IF Accent(Here.cp) THEN characters ELSE characters + 1
    /\ at' = Here.next
    /\ UNCHANGED <<raw, stage>>

EndLetters ==
    /\ stage = "letters"
    /\ Unread => ~Ignored(Here.cp) /\ (Full(Here.cp) \/ TooLong(Here.next - at))
    /\ Enter("trim")

EndsInSpace == result # << >> /\ result[Len(result)].cp = 32

Trim == /\ stage = "trim"
        /\ IF EndsInSpace
           THEN /\ result' = SubSeq(result, 1, Len(result) - 1)
                /\ bytes' = bytes - 1
                /\ UNCHANGED <<raw, at, stage, characters>>
           ELSE Enter("done")

Next == \/ SkipSpace \/ Flag \/ SkipSeparator
        \/ IgnoreLetter \/ AppendLetter \/ EndLetters \/ Trim

Spec == Init /\ [][Next]_vars

-----------------------------------------------------------------------------
(***************************************************************************)
(* What the name is to be.                                                 *)
(***************************************************************************)

\* The characters of a string, malformed bytes as U+FFFD.
Characters(text) ==
    LET from[i \in 1..Len(text) + 1] ==
            IF i > Len(text) THEN << >>
            ELSE LET d == Decode(text, i)
                 IN <<[cp |-> d.cp, size |-> d.next - i]>> \o from[d.next]
    IN from[1]

\* s without its longest beginning of characters of S.
Stripped(s, S) ==
    LET n == CHOOSE k \in 0..Len(s) : /\ \A i \in 1..k : s[i].cp \in S
                                      /\ k < Len(s) => s[k + 1].cp \notin S
    IN SubSeq(s, n + 1, Len(s))

\* s without the characters of S.
Without(s, S) ==
    LET upTo[i \in 0..Len(s)] ==
            IF i = 0 THEN << >>
            ELSE IF s[i].cp \in S THEN upTo[i - 1] ELSE Append(upTo[i - 1], s[i])
    IN upTo[Len(s)]

Letters(s) == Without(s, Accents)

\* The bytes of s.
Size(s) == LET upTo[i \in 0..Len(s)] == IF i = 0 THEN 0 ELSE upTo[i - 1] + s[i].size
           IN upTo[Len(s)]

\* The name behind spaces, flag and separators.
Body(s) ==
    LET t == Stripped(s, Spaces)
    IN IF Len(t) > 1 /\ Regional(t[1].cp) /\ Regional(t[2].cp)
       THEN Stripped(SubSeq(t, 3, Len(t)), Separators) ELSE t

\* The longest beginning of it that fits, cut between characters.
Fitting(s) ==
    LET n == CHOOSE k \in 0..Len(s) :
                 /\ Len(Letters(SubSeq(s, 1, k))) <= MaxChars
                 /\ Size(SubSeq(s, 1, k)) <= MaxBytes
                 /\ k < Len(s) => \/ Len(Letters(SubSeq(s, 1, k + 1))) > MaxChars
                                  \/ Size(SubSeq(s, 1, k + 1)) > MaxBytes
    IN SubSeq(s, 1, n)

Untrailed(s) == LET n == CHOOSE k \in 0..Len(s) :
                             /\ \A i \in k + 1..Len(s) : s[i].cp = 32
                             /\ k > 0 => s[k].cp # 32
                IN SubSeq(s, 1, n)

Controls == 0..31 \cup {127, Bad}

DisplayName(text) ==
    Untrailed(Fitting(Stripped(Without(Body(Characters(text)), Controls), Accents)))

-----------------------------------------------------------------------------
(***************************************************************************)
(* Properties.                                                             *)
(***************************************************************************)

\* A character is a scalar value in its shortest form.
Utf8Size(cp) == IF cp < 128 THEN 1 ELSE IF cp < 2048 THEN 2
                ELSE IF cp < 65536 THEN 3 ELSE 4
WellFormed(c) == /\ c.cp >= 0 /\ c.cp <= 1114111 /\ ~Surrogate(c.cp)
                 /\ c.size = Utf8Size(c.cp)

\* Whatever bytes come in, malformed ones included, what is kept at any moment
\* is well-formed UTF-8 without control characters, within both limits, and
\* begins with a letter; no byte behind the end is ever due to be read.
NameIsDisplayable ==
    /\ at \in 1..Len(raw) + 1
    /\ \A i \in 1..Len(result) : WellFormed(result[i]) /\ ~Dropped(result[i].cp)
    /\ characters <= MaxChars /\ bytes <= MaxBytes
    /\ result # << >> => ~Accent(result[1].cp)

\* The loops keep what the declarative definition keeps.
NameIsDisplayName == stage = "done" => result = DisplayName(raw)
=============================================================================
