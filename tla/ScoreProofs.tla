----------------------------- MODULE ScoreProofs -----------------------------
(***************************************************************************)
(* The score in sections and snapshots.                                    *)
(*   1. save(), word() and load() are inverse to each other, for bytes of  *)
(*      any size: RoundTrip and SectionIsCanonical of SectionExchange.     *)
(*   2. The latch of a peer follows its guest memory through every         *)
(*      rollback, because it does in every snapshot: LatchFollowsMemory    *)
(*      of RollbackScore.                                                  *)
(*   3. The snapshots of a session form a chain, each the one before it    *)
(*      restored and played on for a frame; as far as the inputs are       *)
(*      confirmed it is the undisturbed game: ConfirmedIsTrue.             *)
(***************************************************************************)
EXTENDS RollbackScore, SectionExchange, SequenceTheorems, WellFoundedInduction,
        TLAPS

-----------------------------------------------------------------------------
(***************************************************************************)
(* Numbers and their bytes.                                                *)
(***************************************************************************)
\* Division with remainder.
LEMMA DivMod ==
    ASSUME NEW n \in Nat, NEW d \in Nat, d > 0
    PROVE  /\ n \div d \in Nat /\ n % d \in Nat /\ n % d < d
           /\ n = d * (n \div d) + (n % d)
BY SMT

\* Whatever splits n like a quotient and its remainder is the quotient.
LEMMA QuotientIsUnique ==
    ASSUME NEW n \in Nat, NEW d \in Nat, d > 0, NEW q \in Nat, NEW r \in Nat,
           r < d, n = d * q + r
    PROVE  n \div d = q
<1>1. n \div d \in Nat /\ n % d \in Nat /\ n % d < d
      /\ n = d * (n \div d) + (n % d)
  BY DivMod
<1> DEFINE x == n \div d
           y == n % d
<1>2. d * (q - x) = y - r
  BY SMT, <1>1
<1>3. CASE q > x
  <2>1. q - x \in Int /\ q - x >= 1
    BY <1>1, <1>3
  <2>2. d * (q - x) >= d
    BY SMT, <2>1
  <2> QED
    BY SMT, <1>1, <1>2, <2>2
<1>4. CASE q < x
  <2>1. x - q \in Int /\ x - q >= 1
    BY <1>1, <1>4
  <2>2. d * (x - q) >= d
    BY SMT, <2>1
  <2>3. d * (x - q) = r - y
    BY SMT, <1>1
  <2> QED
    BY SMT, <1>1, <2>2, <2>3
<1> QED
  BY <1>1, <1>3, <1>4

\* Two shifts in a row are one.
LEMMA DivDiv ==
    ASSUME NEW n \in Nat, NEW a \in Nat, a > 0, NEW b \in Nat, b > 0
    PROVE  n \div (a * b) = (n \div a) \div b
<1> DEFINE q == n \div a
           r == n % a
           x == q \div b
           y == q % b
<1>1. q \in Nat /\ r \in Nat /\ r < a /\ n = a * q + r
  BY DivMod
<1>2. x \in Nat /\ y \in Nat /\ y < b /\ q = b * x + y
  BY <1>1, DivMod
<1>3. a * b \in Nat /\ a * b > 0
  BY SMT
<1> HIDE DEF q, r, x, y
<1>4. n = (a * b) * x + (a * y + r)
  BY SMT, <1>1, <1>2
<1>5. a * y + r \in Nat /\ a * y + r < a * b
  <2>1. y <= b - 1
    BY <1>2
  <2>2. a * y <= a * (b - 1)
    BY SMT, <2>1, <1>2
  <2>3. a * (b - 1) = a * b - a /\ a * y \in Nat
    BY SMT, <1>2
  <2> QED
    BY SMT, <2>2, <2>3, <1>1
<1>6. n \div (a * b) = x
  BY <1>2, <1>3, <1>4, <1>5, QuotientIsUnique
<1> QED
  BY <1>6 DEF q, x

\* The four bytes save() writes of a counter are bytes and add up to it.
LEMMA Digits ==
    ASSUME NEW n \in 0 .. MaxWins
    PROVE  /\ \A b \in 0..3 : ByteOf(n, b) \in Byte
           /\ n = ByteOf(n, 0) * Weight[1] + ByteOf(n, 1) * Weight[2]
                   + ByteOf(n, 2) * Weight[3] + ByteOf(n, 3) * Weight[4]
<1> DEFINE B  == Base
           q1 == n \div B
           q2 == q1 \div B
           q3 == q2 \div B
           d0 == n % B
           d1 == q1 % B
           d2 == q2 % B
<1>1. /\ B \in Nat /\ B > 0 /\ n \in Nat
      /\ MaxWins \in Nat /\ MaxWins + 1 = ((B * B) * B) * B
  BY SMT, BaseAssumption, MaxWinsAssumption
<1>2. /\ q1 \in Nat /\ d0 \in Nat /\ d0 < B /\ n = B * q1 + d0
  BY <1>1, DivMod
<1>3. /\ q2 \in Nat /\ d1 \in Nat /\ d1 < B /\ q1 = B * q2 + d1
  BY <1>1, <1>2, DivMod
<1>4. /\ q3 \in Nat /\ d2 \in Nat /\ d2 < B /\ q2 = B * q3 + d2
  BY <1>1, <1>3, DivMod
<1>5. /\ n \div 1 = n
      /\ n \div (B * B) = q2
      /\ n \div ((B * B) * B) = q3
  <2>1. n \div 1 = n
    BY <1>1, QuotientIsUnique
  <2>2. n \div (B * B) = q2
    BY <1>1, DivDiv
  <2>3. B * B \in Nat /\ B * B > 0
    BY SMT, <1>1
  <2>4. n \div ((B * B) * B) = (n \div (B * B)) \div B
    BY <1>1, <2>3, DivDiv
  <2> QED
    BY <2>1, <2>2, <2>4
<1>6. n = ((B * B) * B) * q3 + (B * B) * d2 + B * d1 + d0
  <2> HIDE DEF B, q1, q2, q3, d0, d1, d2
  <2>1. q1 = B * (B * q3 + d2) + d1
    BY <1>3, <1>4
  <2>2. n = B * (B * (B * q3 + d2) + d1) + d0
    BY <1>2, <2>1
  <2> QED
    BY SMT, <1>1, <1>2, <1>3, <1>4, <2>2
<1>7. q3 < B
  <2> HIDE DEF B, q1, q2, q3, d0, d1, d2
  <2> SUFFICES ASSUME q3 >= B PROVE FALSE
    BY SMT, <1>1, <1>4
  <2>1. ((B * B) * B) * q3 >= ((B * B) * B) * B
    <3>1. (B * B) * B \in Nat
      BY SMT, <1>1
    <3> DEFINE C == (B * B) * B
    <3> HIDE DEF C
    <3>2. C * q3 >= C * B
      BY SMT, <1>1, <1>4, <3>1 DEF C
    <3> QED
      BY <3>2 DEF C
  <2>2. (B * B) * d2 >= 0 /\ B * d1 >= 0
    BY SMT, <1>1, <1>3, <1>4
  <2>3. n >= MaxWins + 1
    BY SMT, <1>1, <1>2, <1>3, <1>4, <1>6, <2>1, <2>2
  <2> QED
    BY <1>1, <2>3
<1>8. q3 % B = q3
  BY SMT, <1>1, <1>4, <1>7
<1>9. /\ Weight[1] = 1 /\ Weight[2] = B
      /\ Weight[3] = B * B /\ Weight[4] = (B * B) * B
  BY DEF Weight
<1>10. /\ ByteOf(n, 0) = d0 /\ ByteOf(n, 1) = d1
       /\ ByteOf(n, 2) = d2 /\ ByteOf(n, 3) = q3
  <2>1. /\ ByteOf(n, 0) = (n \div Weight[1]) % B
        /\ ByteOf(n, 1) = (n \div Weight[2]) % B
        /\ ByteOf(n, 2) = (n \div Weight[3]) % B
        /\ ByteOf(n, 3) = (n \div Weight[4]) % B
    BY SMT DEF ByteOf
  <2> QED
    BY <1>5, <1>8, <1>9, <2>1
<1>11. \A b \in 0..3 : ByteOf(n, b) \in Byte
  <2> HIDE DEF B, q1, q2, q3, d0, d1, d2
  <2>1. /\ d0 \in 0 .. B - 1 /\ d1 \in 0 .. B - 1
        /\ d2 \in 0 .. B - 1 /\ q3 \in 0 .. B - 1
    BY <1>1, <1>2, <1>3, <1>4, <1>7
  <2>2. Byte = 0 .. B - 1
    BY DEF Byte, B
  <2> QED
    BY <1>10, <2>1, <2>2
<1>12. n = d0 * 1 + d1 * B + d2 * (B * B) + q3 * ((B * B) * B)
  <2> HIDE DEF B, q1, q2, q3, d0, d1, d2
  <2>1. B * B \in Nat /\ (B * B) * B \in Nat
    BY SMT, <1>1
  <2>2. /\ ((B * B) * B) * q3 = q3 * ((B * B) * B)
        /\ (B * B) * d2 = d2 * (B * B) /\ B * d1 = d1 * B
        /\ q3 * ((B * B) * B) \in Nat /\ d2 * (B * B) \in Nat /\ d1 * B \in Nat
    BY SMT, <1>1, <1>2, <1>3, <1>4, <2>1
  <2> QED
    BY SMT, <1>1, <1>2, <1>6, <2>2
<1> QED
  BY <1>9, <1>10, <1>11, <1>12

\* word() finds each field where save() put it.
LEMMA SavedWord ==
    ASSUME NEW st \in Score
    PROVE  LET fields == << 1, st.wins[0], st.wins[1], IF st.latched THEN 1 ELSE 0 >>
           IN \A k \in 0..3 : Word(Save(st), 4 * k) = fields[k + 1]
<1> DEFINE fields == << 1, st.wins[0], st.wins[1], IF st.latched THEN 1 ELSE 0 >>
<1>1. MaxWins \in Nat /\ MaxWins >= 1
  BY MaxWinsAssumption
<1>2. \A k \in 0..3 : fields[k + 1] \in 0 .. MaxWins
  BY SMT, <1>1 DEF Score, Wins, Side
<1> HIDE DEF fields
<1>3. SUFFICES ASSUME NEW k \in 0..3
               PROVE  Word(Save(st), 4 * k) = fields[k + 1]
  BY DEF fields
<1>4. \A b \in 0..3 : Save(st)[4 * k + b + 1] = ByteOf(fields[k + 1], b)
  <2>1. \A i \in 1..16 : Save(st)[i] = ByteOf(fields[((i - 1) \div 4) + 1], (i - 1) % 4)
    BY DEF Save, SectionLength, fields
  <2>2. SUFFICES ASSUME NEW b \in 0..3
                 PROVE  Save(st)[4 * k + b + 1] = ByteOf(fields[k + 1], b)
    OBVIOUS
  <2>3. 4 * k + b + 1 \in 1..16 /\ (4 * k + b + 1) - 1 = 4 * k + b
    BY SMT
  <2>4. (4 * k + b) \div 4 = k /\ (4 * k + b) % 4 = b
    BY SMT
  <2> QED
    BY <2>1, <2>3, <2>4
<1>5. /\ Save(st)[4 * k + 1] = ByteOf(fields[k + 1], 0)
      /\ Save(st)[4 * k + 2] = ByteOf(fields[k + 1], 1)
      /\ Save(st)[4 * k + 3] = ByteOf(fields[k + 1], 2)
      /\ Save(st)[4 * k + 4] = ByteOf(fields[k + 1], 3)
  BY SMT, <1>4
<1> QED
  BY <1>2, <1>5, Digits DEF Word

\* For every size of a byte: what save() writes of a score, validate() accepts and
\* load() restores exactly.
THEOREM SaveLoads ==
    ASSUME NEW st \in Score
    PROVE  Validate(Save(st)) /\ Load(Save(st)) = st
<1>1. /\ Word(Save(st), 0) = 1 /\ Word(Save(st), 4) = st.wins[0]
      /\ Word(Save(st), 8) = st.wins[1]
      /\ Word(Save(st), 12) = IF st.latched THEN 1 ELSE 0
  <2> DEFINE fields == << 1, st.wins[0], st.wins[1], IF st.latched THEN 1 ELSE 0 >>
  <2>1. \A k \in 0..3 : Word(Save(st), 4 * k) = fields[k + 1]
    BY SavedWord
  <2>2. /\ Word(Save(st), 4 * 0) = fields[1] /\ Word(Save(st), 4 * 1) = fields[2]
        /\ Word(Save(st), 4 * 2) = fields[3] /\ Word(Save(st), 4 * 3) = fields[4]
    <3> HIDE DEF fields
    <3> QED
      BY <2>1
  <2>3. 4 * 0 = 0 /\ 4 * 1 = 4 /\ 4 * 2 = 8 /\ 4 * 3 = 12
    OBVIOUS
  <2> QED
    BY <2>2, <2>3
<1>2. Len(Save(st)) = SectionLength
  BY DEF Save, SectionLength
<1>3. Validate(Save(st))
  BY <1>1, <1>2 DEF Validate
<1>4. \A s \in Side : Word(Save(st), 4 + 4 * s) = st.wins[s]
  BY <1>1 DEF Side
<1>5. Load(Save(st)).wins = st.wins
  <2>1. st.wins = [s \in Side |-> st.wins[s]]
    BY DEF Score, Wins
  <2> QED
    BY <1>4, <2>1 DEF Load
<1>6. Load(Save(st)).latched = st.latched
  <2>1. st.latched \in BOOLEAN
    BY DEF Score
  <2> QED
    BY <1>1, <2>1 DEF Load
<1>7. st = [wins |-> st.wins, latched |-> st.latched]
  BY DEF Score
<1> QED
  BY <1>3, <1>5, <1>6, <1>7 DEF Load

\* The other way round: save() finds the bytes word() put together.
LEMMA WordOfDigits ==
    ASSUME NEW d0 \in Byte, NEW d1 \in Byte, NEW d2 \in Byte, NEW d3 \in Byte
    PROVE  LET n == d0 * Weight[1] + d1 * Weight[2] + d2 * Weight[3] + d3 * Weight[4]
           IN  /\ n \in 0 .. MaxWins
               /\ ByteOf(n, 0) = d0 /\ ByteOf(n, 1) = d1
               /\ ByteOf(n, 2) = d2 /\ ByteOf(n, 3) = d3
<1> DEFINE B  == Base
           q2 == B * d3 + d2
           q1 == B * q2 + d1
           n  == d0 * Weight[1] + d1 * Weight[2] + d2 * Weight[3] + d3 * Weight[4]
<1>1. /\ B \in Nat /\ B > 0
      /\ MaxWins \in Nat /\ MaxWins + 1 = ((B * B) * B) * B
  BY SMT, BaseAssumption, MaxWinsAssumption
<1>2. /\ d0 \in Nat /\ d0 < B /\ d1 \in Nat /\ d1 < B
      /\ d2 \in Nat /\ d2 < B /\ d3 \in Nat /\ d3 < B
  BY <1>1 DEF Byte
<1>3. /\ Weight[1] = 1 /\ Weight[2] = B
      /\ Weight[3] = B * B /\ Weight[4] = (B * B) * B
  BY DEF Weight
<1>4. q2 \in Nat /\ q1 \in Nat /\ n \in Nat /\ n = B * q1 + d0
  <2>1. n = d0 + d1 * B + d2 * (B * B) + d3 * ((B * B) * B)
    BY <1>2, <1>3
  <2>2. q2 \in Nat
    BY SMT, <1>1, <1>2
  <2>3. q1 \in Nat
    BY SMT, <1>1, <1>2, <2>2
  <2>4. B * q1 + d0 = d0 + d1 * B + d2 * (B * B) + d3 * ((B * B) * B)
    BY SMT, <1>1, <1>2
  <2>5. B * q1 + d0 \in Nat
    BY SMT, <1>1, <1>2, <2>3
  <2> QED
    BY <2>1, <2>2, <2>3, <2>4, <2>5
<1> HIDE DEF n
<1>5. n \div B = q1 /\ n % B = d0
  <2>1. n \div B = q1
    BY <1>1, <1>2, <1>4, QuotientIsUnique
  <2>2. n = B * (n \div B) + (n % B)
    BY <1>1, <1>4, DivMod
  <2> QED
    BY SMT, <1>1, <1>2, <1>4, <2>1, <2>2
<1>6. q1 \div B = q2 /\ q1 % B = d1
  <2>1. q1 \div B = q2
    BY <1>1, <1>2, <1>4, QuotientIsUnique
  <2>2. q1 = B * (q1 \div B) + (q1 % B)
    BY <1>1, <1>4, DivMod
  <2> HIDE DEF q1, q2
  <2> QED
    BY SMT, <1>1, <1>2, <1>4, <2>1, <2>2 DEF q1
<1>7. q2 \div B = d3 /\ q2 % B = d2
  <2>1. q2 \div B = d3
    BY <1>1, <1>2, <1>4, QuotientIsUnique
  <2>2. q2 = B * (q2 \div B) + (q2 % B)
    BY <1>1, <1>4, DivMod
  <2> HIDE DEF q1, q2
  <2> QED
    BY SMT, <1>1, <1>2, <1>4, <2>1, <2>2 DEF q2
<1> HIDE DEF q1, q2
<1>8. d3 % B = d3
  BY SMT, <1>1, <1>2
<1>9. /\ n \div 1 = n /\ n \div (B * B) = q2 /\ n \div ((B * B) * B) = d3
  <2>1. n \div 1 = n
    BY <1>4, QuotientIsUnique
  <2>2. n \div (B * B) = q2
    BY <1>1, <1>4, <1>5, <1>6, DivDiv
  <2>3. B * B \in Nat /\ B * B > 0
    BY SMT, <1>1
  <2>4. n \div ((B * B) * B) = d3
    BY <1>1, <1>4, <1>7, <2>2, <2>3, DivDiv
  <2> QED
    BY <2>1, <2>2, <2>4
<1>10. /\ ByteOf(n, 0) = d0 /\ ByteOf(n, 1) = d1
       /\ ByteOf(n, 2) = d2 /\ ByteOf(n, 3) = d3
  <2>1. /\ ByteOf(n, 0) = (n \div Weight[1]) % B
        /\ ByteOf(n, 1) = (n \div Weight[2]) % B
        /\ ByteOf(n, 2) = (n \div Weight[3]) % B
        /\ ByteOf(n, 3) = (n \div Weight[4]) % B
    BY SMT DEF ByteOf
  <2> HIDE DEF B
  <2> QED
    BY <1>3, <1>5, <1>6, <1>7, <1>8, <1>9, <2>1
<1>11. n <= MaxWins
  <2>1. q2 < B * B
    <3>1. B * d3 <= B * (B - 1) /\ B * (B - 1) = B * B - B
      BY SMT, <1>1, <1>2
    <3>2. B * d3 \in Int /\ B * B \in Int
      BY SMT, <1>1, <1>2
    <3> QED
      BY SMT, <1>1, <1>2, <3>1, <3>2 DEF q2
  <2> DEFINE C == B * B
  <2>2. C \in Nat
    BY SMT, <1>1
  <2>3. q1 < B * C
    <3> HIDE DEF C
    <3>1. B * q2 <= B * (C - 1) /\ B * (C - 1) = B * C - B
      <4>1. q2 <= C - 1
        BY <1>4, <2>1, <2>2 DEF C
      <4> QED
        BY SMT, <1>1, <1>4, <2>2, <4>1
    <3>2. B * q2 \in Int /\ B * C \in Int
      BY SMT, <1>1, <1>4, <2>2
    <3> QED
      BY SMT, <1>1, <1>2, <3>1, <3>2 DEF q1
  <2> DEFINE D == B * C
  <2>4. D \in Nat
    BY SMT, <1>1, <2>2
  <2>5. n < B * D
    <3> HIDE DEF D
    <3>1. B * q1 <= B * (D - 1) /\ B * (D - 1) = B * D - B
      <4>1. q1 <= D - 1
        BY <1>4, <2>3, <2>4 DEF D
      <4> QED
        BY SMT, <1>1, <1>4, <2>4, <4>1
    <3>2. B * q1 \in Int /\ B * D \in Int
      BY SMT, <1>1, <1>4, <2>4
    <3> QED
      BY SMT, <1>1, <1>2, <1>4, <3>1, <3>2
  <2>6. B * D = ((B * B) * B) * B
    BY SMT, <1>1
  <2>7. n < MaxWins + 1
    BY <1>1, <2>5, <2>6
  <2> QED
    BY SMT, <1>1, <1>4, <2>7
<1> QED
  BY <1>1, <1>4, <1>10, <1>11 DEF n

\* For every size of a byte: what validate() accepts, load() makes a score of,
\* and save() writes the same bytes again.
THEOREM SectionsAreCanonical ==
    ASSUME NEW p \in Seq(Byte), Validate(p)
    PROVE  Load(p) \in Score /\ Save(Load(p)) = p
<1>1. Len(p) = 16 /\ \A i \in 1..16 : p[i] \in Byte
  BY DEF Validate, SectionLength
<1>2. ASSUME NEW k \in 0..3
      PROVE  /\ Word(p, 4 * k) \in 0 .. MaxWins
             /\ ByteOf(Word(p, 4 * k), 0) = p[4 * k + 1]
             /\ ByteOf(Word(p, 4 * k), 1) = p[4 * k + 2]
             /\ ByteOf(Word(p, 4 * k), 2) = p[4 * k + 3]
             /\ ByteOf(Word(p, 4 * k), 3) = p[4 * k + 4]
  <2> DEFINE d0 == p[4 * k + 1]  d1 == p[4 * k + 2]
             d2 == p[4 * k + 3]  d3 == p[4 * k + 4]
  <2>1. d0 \in Byte /\ d1 \in Byte /\ d2 \in Byte /\ d3 \in Byte
    BY SMT, <1>1
  <2>2. Word(p, 4 * k) =
            d0 * Weight[1] + d1 * Weight[2] + d2 * Weight[3] + d3 * Weight[4]
    BY DEF Word
  <2> HIDE DEF d0, d1, d2, d3
  <2>3. /\ Word(p, 4 * k) \in 0 .. MaxWins
        /\ ByteOf(Word(p, 4 * k), 0) = d0 /\ ByteOf(Word(p, 4 * k), 1) = d1
        /\ ByteOf(Word(p, 4 * k), 2) = d2 /\ ByteOf(Word(p, 4 * k), 3) = d3
    BY <2>1, <2>2, WordOfDigits
  <2> QED
    BY <2>3 DEF d0, d1, d2, d3
<1> DEFINE st == Load(p)
           fields == << 1, st.wins[0], st.wins[1], IF st.latched THEN 1 ELSE 0 >>
<1>3. /\ Word(p, 4 * 0) \in 0 .. MaxWins /\ Word(p, 4 * 1) \in 0 .. MaxWins
      /\ Word(p, 4 * 2) \in 0 .. MaxWins /\ Word(p, 4 * 3) \in 0 .. MaxWins
  BY <1>2
<1>4. /\ Word(p, 0) = 1 /\ Word(p, 4) \in 0 .. MaxWins
      /\ Word(p, 8) \in 0 .. MaxWins /\ Word(p, 12) \in {0, 1}
  <2>1. 4 * 0 = 0 /\ 4 * 1 = 4 /\ 4 * 2 = 8 /\ 4 * 3 = 12
    OBVIOUS
  <2>2. Word(p, 12) \in 0 .. MaxWins /\ MaxWins \in Nat
    BY <1>3, <2>1, MaxWinsAssumption
  <2>3. Word(p, 0) = 1 /\ Word(p, 12) <= 1
    BY DEF Validate
  <2> QED
    BY <1>3, <2>1, <2>2, <2>3
<1>5. /\ st.wins = [s \in Side |-> Word(p, 4 + 4 * s)]
      /\ st.latched = (Word(p, 12) # 0)
  BY DEF Load
<1>6. st.wins[0] = Word(p, 4) /\ st.wins[1] = Word(p, 8)
  BY <1>5 DEF Side
<1>7. st \in Score
  <2>1. \A s \in Side : Word(p, 4 + 4 * s) \in 0 .. MaxWins
    BY <1>4 DEF Side
  <2> QED
    BY <1>5, <2>1 DEF Load, Score, Wins
<1>8. \A k \in 0..3 : fields[k + 1] = Word(p, 4 * k)
  <2>1. (IF st.latched THEN 1 ELSE 0) = Word(p, 12)
    BY <1>4, <1>5
  <2>2. /\ fields[1] = Word(p, 0) /\ fields[2] = Word(p, 4)
        /\ fields[3] = Word(p, 8) /\ fields[4] = Word(p, 12)
    BY <1>4, <1>6, <2>1
  <2> HIDE DEF fields
  <2>3. /\ fields[0 + 1] = Word(p, 4 * 0) /\ fields[1 + 1] = Word(p, 4 * 1)
        /\ fields[2 + 1] = Word(p, 4 * 2) /\ fields[3 + 1] = Word(p, 4 * 3)
    BY <2>2
  <2> QED
    BY SMT, <2>3
<1>9. \A i \in 1..16 : Save(st)[i] = p[i]
  <2>1. \A i \in 1..16 : Save(st)[i] = ByteOf(fields[((i - 1) \div 4) + 1], (i - 1) % 4)
    BY DEF Save, SectionLength
  <2> HIDE DEF st, fields
  <2>2. SUFFICES ASSUME NEW i \in 1..16 PROVE Save(st)[i] = p[i]
    OBVIOUS
  <2> DEFINE k == (i - 1) \div 4
             b == (i - 1) % 4
  <2>3. k \in 0..3 /\ b \in 0..3 /\ i = 4 * k + b + 1
    BY SMT
  <2>4. Save(st)[i] = ByteOf(Word(p, 4 * k), b)
    BY <1>8, <2>1, <2>3
  <2>5. ByteOf(Word(p, 4 * k), b) = p[4 * k + b + 1]
    <3> HIDE DEF k, b
    <3>1. b = 0 \/ b = 1 \/ b = 2 \/ b = 3
      BY <2>3
    <3> DEFINE w == Word(p, 4 * k)
    <3>2. /\ ByteOf(w, 0) = p[4 * k + 1] /\ ByteOf(w, 1) = p[4 * k + 2]
          /\ ByteOf(w, 2) = p[4 * k + 3] /\ ByteOf(w, 3) = p[4 * k + 4]
      BY <1>2, <2>3
    <3>3. /\ 4 * k + 0 + 1 = 4 * k + 1 /\ 4 * k + 1 + 1 = 4 * k + 2
          /\ 4 * k + 2 + 1 = 4 * k + 3 /\ 4 * k + 3 + 1 = 4 * k + 4
      BY <2>3
    <3> HIDE DEF w
    <3>4. ByteOf(w, b) = p[4 * k + b + 1]
      BY <3>1, <3>2, <3>3
    <3> QED
      BY <3>4 DEF w
  <2> QED
    BY <2>3, <2>4, <2>5
<1>10. Save(st) = [i \in 1..16 |-> Save(st)[i]]
  BY DEF Save, SectionLength
<1>11. p = [i \in 1..16 |-> p[i]]
  BY <1>1
<1> HIDE DEF st
<1>12. Save(st) = p
  BY <1>9, <1>10, <1>11
<1> QED
  BY <1>7, <1>12 DEF st

-----------------------------------------------------------------------------
(***************************************************************************)
(* A score among its own and foreign sections.                             *)
(***************************************************************************)
\* A section is made of bytes.
LEMMA SaveTyped == ASSUME NEW st \in Score PROVE Save(st) \in Seq(Byte)
<1> DEFINE fields == << 1, st.wins[0], st.wins[1], IF st.latched THEN 1 ELSE 0 >>
<1>1. \A k \in 1..4 : fields[k] \in 0 .. MaxWins
  BY SMT, MaxWinsAssumption DEF Score, Wins, Side
<1> HIDE DEF fields
<1>2. ASSUME NEW i \in 1..16
      PROVE  ByteOf(fields[((i - 1) \div 4) + 1], (i - 1) % 4) \in Byte
  <2>1. ((i - 1) \div 4) + 1 \in 1..4 /\ (i - 1) % 4 \in 0..3
    BY SMT
  <2> QED
    BY <1>1, <2>1, Digits
<1>3. Save(st) = [i \in 1..16 |-> ByteOf(fields[((i - 1) \div 4) + 1], (i - 1) % 4)]
  BY DEF Save, SectionLength, fields
<1> QED
  BY <1>2, <1>3

ExchangeInv == state \in Score /\ section \in Seq(Byte)

LEMMA ExchangeInvariant == Exchange => []ExchangeInv
<1>1. ExchangeInit => ExchangeInv
  BY ForeignAssumption, MaxWinsAssumption
     DEF ExchangeInit, ExchangeInv, ResetScore, NoWins, Score, Wins
<1>2. ExchangeInv /\ [SaveState \/ LoadState]_<<state, section>> => ExchangeInv'
  <2> SUFFICES ASSUME ExchangeInv, [SaveState \/ LoadState]_<<state, section>>
               PROVE  ExchangeInv'
    OBVIOUS
  <2>1. CASE SaveState
    BY <2>1, SaveTyped DEF SaveState, ExchangeInv
  <2>2. CASE LoadState
    BY <2>2, SectionsAreCanonical DEF LoadState, ExchangeInv
  <2>3. CASE UNCHANGED <<state, section>>
    BY <2>3 DEF ExchangeInv
  <2> QED
    BY <2>1, <2>2, <2>3
<1> QED
  BY <1>1, <1>2, PTL DEF Exchange

\* For every size of a byte, whatever sections were loaded before: save() writes
\* what validate() accepts and load() restores.
THEOREM SectionsRoundTrip == Exchange => []RoundTrip
<1>1. ExchangeInv => RoundTrip
  BY SaveLoads DEF ExchangeInv, RoundTrip
<1> QED
  BY <1>1, ExchangeInvariant, PTL

\* For every size of a byte and whatever anybody hands over: an accepted section
\* restores a score, and is the only section of that score.
THEOREM SectionsStayCanonical == Exchange => []SectionIsCanonical
<1>1. ExchangeInv => SectionIsCanonical
  BY SectionsAreCanonical DEF ExchangeInv, SectionIsCanonical
<1> QED
  BY <1>1, ExchangeInvariant, PTL

-----------------------------------------------------------------------------
(***************************************************************************)
(* The peers.  Every snapshot a peer keeps is of some memory and a score   *)
(* whose latch follows that memory: restoring one keeps both in step.      *)
(***************************************************************************)
Pairs == {y \in Memory \X Score : y[2].latched = y[1].flags.result}
Shot  == {Snapshot(y[1], y[2]) : y \in Pairs}

Types == /\ inputs \in [Peer -> Seq(Input)]
         /\ got \in [Peer -> Nat]
         /\ mem \in [Peer -> Memory]
         /\ score \in [Peer -> Score]
         /\ used \in [Peer -> Seq(Input)]
         /\ snap \in [Peer -> Seq(Shot)]
         /\ online \in [Peer -> BOOLEAN]

Fits(p) == /\ got[p] <= Len(inputs[Other(p)])
           /\ Len(used[p]) <= Len(inputs[p])
           /\ Len(snap[p]) = Len(used[p]) + 1

Inv == /\ Types
       /\ \A p \in Peer : Fits(p)
       /\ LatchFollowsMemory

LEMMA PeerFacts == /\ \A p \in Peer : Other(p) \in Peer /\ Other(Other(p)) = p
                                      /\ Other(p) # p
                   /\ \A p, q \in Peer : q = p \/ q = Other(p)
BY SMT DEF Peer, Other

LEMMA ResetTyped ==
    ASSUME NEW b \in BOOLEAN
    PROVE  ResetScore(b) \in Score /\ ResetScore(b).latched = b
BY SMT, MaxWinsAssumption DEF ResetScore, NoWins, Score, Wins, Side

\* step() on the memory a frame leaves: the latch follows it again.
LEMMA StepFollows ==
    ASSUME NEW m \in Memory, NEW i \in Input, NEW j \in Input,
           NEW st \in Score, st.latched = m.flags.result
    PROVE  LET n == Run[ <<m, i, j>> ]
           IN n \in Memory /\ TickScore(st, n) \in Score
              /\ TickScore(st, n).latched = n.flags.result
<1> DEFINE n == Run[ <<m, i, j>> ]
<1>1. n \in Memory
  BY GameAssumption
<1>2. /\ n.flags.result \in BOOLEAN /\ n.flags.draw \in BOOLEAN
      /\ n.flags.winner \in Side
  BY <1>1, MemoryAssumption
<1>3. n.flags.result => \/ st.latched \/ n.scene = MatchScene
                        \/ OutsideVersus(n.scene, n.mode)
  BY ResultAssumption
<1> HIDE DEF n
<1>4. CASE OutsideVersus(n.scene, n.mode)
  <2>1. TickScore(st, n) = ResetScore(n.flags.result)
    BY <1>4 DEF TickScore, StepScore
  <2> QED
    BY <1>1, <1>2, <2>1, ResetTyped DEF n
<1>5. CASE ~OutsideVersus(n.scene, n.mode)
  <2> DEFINE eats == ConsumesResult(st, n.scene, n.flags)
             w    == IF eats /\ ~n.flags.draw
                     THEN [st.wins EXCEPT ![n.flags.winner] = Saturate(@)]
                     ELSE st.wins
  <2>1. TickScore(st, n) = [wins |-> w, latched |-> Rearmed(st, n.flags) \/ eats]
    BY <1>5 DEF TickScore, StepScore
  <2>2. w \in Wins
    <3>1. st.wins \in Wins /\ \A k \in 0 .. MaxWins : Saturate(k) \in 0 .. MaxWins
      BY SMT, MaxWinsAssumption DEF Saturate, Score
    <3> QED
      BY <1>2, <3>1 DEF Wins
  <2>3. (Rearmed(st, n.flags) \/ eats) <=> n.flags.result
    BY <1>3, <1>5 DEF Rearmed, ConsumesResult
  <2>4. (Rearmed(st, n.flags) \/ eats) = n.flags.result
    BY <1>2, <2>3 DEF Rearmed, ConsumesResult
  <2> HIDE DEF w, eats
  <2>5. /\ TickScore(st, n).wins = w
        /\ TickScore(st, n).latched = n.flags.result
        /\ TickScore(st, n) = [wins |-> w, latched |-> n.flags.result]
    BY <2>1, <2>4
  <2>6. TickScore(st, n) \in Score
    BY <1>2, <2>2, <2>5 DEF Score
  <2> QED
    BY <1>1, <2>5, <2>6 DEF n
<1> QED
  BY <1>4, <1>5

LEMMA SnapshotIsShot ==
    ASSUME NEW m \in Memory, NEW st \in Score, st.latched = m.flags.result
    PROVE  Snapshot(m, st) \in Shot
<1>1. <<m, st>> \in Pairs
  BY DEF Pairs
<1> QED
  BY <1>1 DEF Shot

\* What load_state() restores from a snapshot.
LEMMA ShotRestores ==
    ASSUME NEW s \in Shot
    PROVE  /\ s.mem \in Memory /\ Load(s.section) \in Score
           /\ Load(s.section).latched = s.mem.flags.result
<1>1. PICK y \in Pairs : s = Snapshot(y[1], y[2])
  BY DEF Shot
<1>2. y[1] \in Memory /\ y[2] \in Score /\ y[2].latched = y[1].flags.result
  BY DEF Pairs
<1>3. s.mem = y[1] /\ s.section = Save(y[2])
  BY <1>1 DEF Snapshot
<1> QED
  BY <1>2, <1>3, SaveLoads

LEMMA InitInv == Init => Inv
<1> SUFFICES ASSUME Init PROVE Inv
  OBVIOUS
<1>1. Boot \in Memory /\ Boot.flags.result = FALSE
  BY GameAssumption, MemoryAssumption
<1>2. ResetScore(FALSE) \in Score /\ ResetScore(FALSE).latched = FALSE
  BY ResetTyped
<1>3. Snapshot(Boot, ResetScore(FALSE)) \in Shot
  BY <1>1, <1>2, SnapshotIsShot
<1> DEFINE s == Snapshot(Boot, ResetScore(FALSE))
<1>9. s \in Shot
  BY <1>3
<1> HIDE DEF s
<1>4. << s >> \in Seq(Shot) /\ Len(<< s >>) = 1
  BY <1>9
<1>5. snap = [p \in Peer |-> << s >>]
  BY DEF Init, s
<1>6. Types
  <2>1. << >> \in Seq(Input)
    OBVIOUS
  <2>2. /\ inputs \in [Peer -> Seq(Input)] /\ used \in [Peer -> Seq(Input)]
        /\ got \in [Peer -> Nat] /\ online \in [Peer -> BOOLEAN]
    BY <2>1 DEF Init
  <2>3. mem \in [Peer -> Memory] /\ score \in [Peer -> Score]
    BY <1>1, <1>2 DEF Init
  <2>4. snap \in [Peer -> Seq(Shot)]
    BY <1>4, <1>5
  <2> QED
    BY <2>2, <2>3, <2>4 DEF Types
<1>7. \A p \in Peer : Fits(p)
  BY <1>4, <1>5, PeerFacts DEF Init, Fits
<1>8. LatchFollowsMemory
  BY <1>1, <1>2 DEF Init, LatchFollowsMemory
<1> QED
  BY <1>6, <1>7, <1>8 DEF Inv

-----------------------------------------------------------------------------
\* A simulated frame.
LEMMA SimulateInv ==
    ASSUME Inv, NEW p \in Peer, NEW i \in Input, NEW j \in Input,
           Simulate(p, i, j)
    PROVE  /\ mem' \in [Peer -> Memory] /\ score' \in [Peer -> Score]
           /\ used' \in [Peer -> Seq(Input)] /\ snap' \in [Peer -> Seq(Shot)]
           /\ Len(used'[p]) = Len(used[p]) + 1
           /\ Len(snap'[p]) = Len(snap[p]) + 1
           /\ \A q \in Peer : q # p => used'[q] = used[q] /\ snap'[q] = snap[q]
           /\ LatchFollowsMemory'
<1> DEFINE m  == Played(p, i, j)
           st == TickScore(score[p], m)
<1>1. /\ mem[p] \in Memory /\ score[p] \in Score
      /\ score[p].latched = mem[p].flags.result
      /\ used[p] \in Seq(Input) /\ snap[p] \in Seq(Shot)
  BY DEF Inv, Types, LatchFollowsMemory
<1>2. m \in Memory /\ st \in Score /\ st.latched = m.flags.result
  <2>1. CASE p = 0
    <3>1. m = Run[ <<mem[p], i, j>> ]
      BY <2>1 DEF Played
    <3> QED
      BY <1>1, <3>1, StepFollows
  <2>2. CASE p # 0
    <3>1. m = Run[ <<mem[p], j, i>> ]
      BY <2>2 DEF Played
    <3> QED
      BY <1>1, <3>1, StepFollows
  <2> QED
    BY <2>1, <2>2
<1> DEFINE s == Snapshot(m, st)
<1>3. s \in Shot
  BY <1>2, SnapshotIsShot
<1>4. /\ mem' = [mem EXCEPT ![p] = m]
      /\ score' = [score EXCEPT ![p] = st]
      /\ used' = [used EXCEPT ![p] = Append(@, j)]
      /\ snap' = [snap EXCEPT ![p] = Append(@, s)]
  BY DEF Simulate
<1> HIDE DEF m, st, s
<1>5. /\ Append(used[p], j) \in Seq(Input) /\ Append(snap[p], s) \in Seq(Shot)
      /\ Len(Append(used[p], j)) = Len(used[p]) + 1
      /\ Len(Append(snap[p], s)) = Len(snap[p]) + 1
  BY <1>1, <1>3
<1>6. /\ mem' \in [Peer -> Memory] /\ score' \in [Peer -> Score]
      /\ mem'[p] = m /\ score'[p] = st
      /\ \A q \in Peer : q # p => mem'[q] = mem[q] /\ score'[q] = score[q]
  BY <1>2, <1>4 DEF Inv, Types
<1>7. /\ used' \in [Peer -> Seq(Input)] /\ snap' \in [Peer -> Seq(Shot)]
      /\ used'[p] = Append(used[p], j) /\ snap'[p] = Append(snap[p], s)
      /\ \A q \in Peer : q # p => used'[q] = used[q] /\ snap'[q] = snap[q]
  BY <1>4, <1>5 DEF Inv, Types
<1>8. LatchFollowsMemory'
  BY <1>2, <1>6 DEF Inv, LatchFollowsMemory
<1> QED
  BY <1>5, <1>6, <1>7, <1>8

LEMMA OtherInputTyped ==
    ASSUME Inv, NEW p \in Peer
    PROVE  OtherInput(p) \in Input
<1> DEFINE q == Other(p)
<1>1. /\ q \in Peer /\ inputs[q] \in Seq(Input) /\ Len(inputs[q]) \in Nat
      /\ got[p] \in Nat /\ Frame(p) \in Nat /\ got[p] <= Len(inputs[q])
  BY PeerFacts DEF Inv, Types, Fits, Frame
<1>2. \A n \in 1 .. Len(inputs[q]) : inputs[q][n] \in Input
  BY <1>1
<1>3. CASE got[p] > Frame(p)
  <2>1. Frame(p) + 1 \in 1 .. Len(inputs[q]) /\ OtherInput(p) = inputs[q][Frame(p) + 1]
    BY <1>1, <1>3 DEF OtherInput
  <2> QED
    BY <1>2, <2>1
<1>4. CASE ~(got[p] > Frame(p)) /\ got[p] > 0
  <2>1. got[p] \in 1 .. Len(inputs[q]) /\ OtherInput(p) = inputs[q][got[p]]
    BY <1>1, <1>4 DEF OtherInput
  <2> QED
    BY <1>2, <2>1
<1>5. CASE ~(got[p] > Frame(p)) /\ ~(got[p] > 0)
  BY <1>5, GameAssumption DEF OtherInput
<1> QED
  BY <1>3, <1>4, <1>5

LEMMA NewFrameInv ==
    ASSUME Inv, NEW p \in Peer, NEW i \in Input, NewFrame(p, i)
    PROVE  Inv'
<1>1. /\ Simulate(p, i, OtherInput(p)) /\ UNCHANGED <<got, online>>
      /\ inputs' = [inputs EXCEPT ![p] = Append(@, i)]
      /\ Len(used[p]) = Len(inputs[p])
  BY DEF NewFrame, Frame
<1>2. /\ mem' \in [Peer -> Memory] /\ score' \in [Peer -> Score]
      /\ used' \in [Peer -> Seq(Input)] /\ snap' \in [Peer -> Seq(Shot)]
      /\ Len(used'[p]) = Len(used[p]) + 1
      /\ Len(snap'[p]) = Len(snap[p]) + 1
      /\ \A q \in Peer : q # p => used'[q] = used[q] /\ snap'[q] = snap[q]
      /\ LatchFollowsMemory'
  BY <1>1, OtherInputTyped, SimulateInv
<1>3. /\ inputs[p] \in Seq(Input) /\ Append(inputs[p], i) \in Seq(Input)
      /\ Len(Append(inputs[p], i)) = Len(inputs[p]) + 1
      /\ \A q \in Peer : Len(inputs[q]) \in Nat
  BY DEF Inv, Types
<1>4. /\ inputs' \in [Peer -> Seq(Input)] /\ Len(inputs'[p]) = Len(inputs[p]) + 1
      /\ \A q \in Peer : q # p => inputs'[q] = inputs[q]
  BY <1>1, <1>3 DEF Inv, Types
<1>5. Types'
  BY <1>1, <1>2, <1>4 DEF Inv, Types
<1>6. ASSUME NEW q \in Peer PROVE Fits(q)'
  <2>1. Fits(q) /\ got' = got /\ Other(q) \in Peer
    BY <1>1, PeerFacts DEF Inv
  <2>2. got[q] \in Nat /\ Len(inputs[q]) \in Nat /\ Len(inputs[Other(q)]) \in Nat
    BY <1>3, <2>1 DEF Inv, Types
  <2>3. CASE q = p
    <3>1. inputs'[Other(q)] = inputs[Other(q)]
      BY <1>4, <2>1, <2>3, PeerFacts
    <3> QED
      BY <1>1, <1>2, <1>4, <2>1, <2>2, <2>3, <3>1 DEF Fits
  <2>4. CASE q # p
    <3>1. Other(q) = p
      BY <2>4, PeerFacts
    <3> QED
      BY <1>1, <1>2, <1>4, <2>1, <2>2, <2>4, <3>1 DEF Fits
  <2> QED
    BY <2>3, <2>4
<1> QED
  BY <1>2, <1>5, <1>6 DEF Inv

LEMMA ResimulateInv == ASSUME Inv, NEW p \in Peer, Resimulate(p) PROVE Inv'
<1> DEFINE i == inputs[p][Frame(p) + 1]
<1>1. /\ Simulate(p, i, OtherInput(p)) /\ UNCHANGED <<inputs, got, online>>
      /\ Len(used[p]) < Len(inputs[p]) /\ Frame(p) = Len(used[p])
  BY DEF Resimulate, Frame
<1>2. inputs[p] \in Seq(Input) /\ Len(inputs[p]) \in Nat /\ Len(used[p]) \in Nat
  BY DEF Inv, Types
<1>3. Frame(p) + 1 \in 1 .. Len(inputs[p])
  BY <1>1, <1>2
<1>4. i \in Input
  BY <1>2, <1>3
<1> HIDE DEF i
<1>5. /\ mem' \in [Peer -> Memory] /\ score' \in [Peer -> Score]
      /\ used' \in [Peer -> Seq(Input)] /\ snap' \in [Peer -> Seq(Shot)]
      /\ Len(used'[p]) = Len(used[p]) + 1
      /\ Len(snap'[p]) = Len(snap[p]) + 1
      /\ \A q \in Peer : q # p => used'[q] = used[q] /\ snap'[q] = snap[q]
      /\ LatchFollowsMemory'
  BY <1>1, <1>4, OtherInputTyped, SimulateInv
<1>6. Types'
  BY <1>1, <1>5 DEF Inv, Types
<1>7. ASSUME NEW q \in Peer PROVE Fits(q)'
  <2>1. Fits(q)
    BY DEF Inv
  <2>2. CASE q = p
    BY <1>1, <1>2, <1>5, <2>1, <2>2 DEF Fits
  <2>3. CASE q # p
    BY <1>1, <1>5, <2>1, <2>3 DEF Fits
  <2> QED
    BY <2>2, <2>3
<1> QED
  BY <1>5, <1>6, <1>7 DEF Inv

LEMMA RollbackInv ==
    ASSUME Inv, NEW p \in Peer, NEW n \in 1 .. Len(used[p]), Rollback(p, n)
    PROVE  /\ mem' \in [Peer -> Memory] /\ score' \in [Peer -> Score]
           /\ used' \in [Peer -> Seq(Input)] /\ snap' \in [Peer -> Seq(Shot)]
           /\ Len(used'[p]) = n - 1 /\ Len(snap'[p]) = n
           /\ \A q \in Peer : q # p => used'[q] = used[q] /\ snap'[q] = snap[q]
           /\ LatchFollowsMemory'
<1> DEFINE s == snap[p][n]
<1>1. /\ used[p] \in Seq(Input) /\ snap[p] \in Seq(Shot)
      /\ Len(used[p]) \in Nat /\ Len(snap[p]) = Len(used[p]) + 1 /\ n \in Nat
  BY DEF Inv, Types, Fits
<1>2. n \in 1 .. Len(snap[p])
  BY <1>1
<1>3. s \in Shot
  BY <1>1, <1>2
<1>4. /\ s.mem \in Memory /\ Load(s.section) \in Score
      /\ Load(s.section).latched = s.mem.flags.result
  BY <1>3, ShotRestores
<1>5. /\ SubSeq(used[p], 1, n - 1) \in Seq(Input)
      /\ Len(SubSeq(used[p], 1, n - 1)) = n - 1
  <2> DEFINE k == n - 1
  <2>1. k \in Int /\ 1 \in Int /\ k >= 0 /\ k <= Len(used[p])
    BY <1>1
  <2> HIDE DEF k
  <2>2. \A i \in 1 .. k : used[p][i] \in Input
    BY <1>1, <2>1
  <2>3. /\ SubSeq(used[p], 1, k) \in Seq(Input)
        /\ Len(SubSeq(used[p], 1, k)) = IF 1 <= k THEN k - 1 + 1 ELSE 0
    BY <2>1, <2>2, SubSeqProperties
  <2>4. (IF 1 <= k THEN k - 1 + 1 ELSE 0) = k
    BY <2>1
  <2> QED
    BY <2>3, <2>4 DEF k
<1>6. /\ SubSeq(snap[p], 1, n) \in Seq(Shot)
      /\ Len(SubSeq(snap[p], 1, n)) = n
  <2>1. n \in Int /\ 1 \in Int /\ \A i \in 1 .. n : snap[p][i] \in Shot
    BY <1>1, <1>2
  <2>2. /\ SubSeq(snap[p], 1, n) \in Seq(Shot)
        /\ Len(SubSeq(snap[p], 1, n)) = IF 1 <= n THEN n - 1 + 1 ELSE 0
    BY <2>1, SubSeqProperties
  <2>3. (IF 1 <= n THEN n - 1 + 1 ELSE 0) = n
    BY <1>2
  <2> QED
    BY <2>2, <2>3
<1>7. /\ mem' = [mem EXCEPT ![p] = s.mem]
      /\ score' = [score EXCEPT ![p] = Load(s.section)]
      /\ used' = [used EXCEPT ![p] = SubSeq(@, 1, n - 1)]
      /\ snap' = [snap EXCEPT ![p] = SubSeq(@, 1, n)]
  BY DEF Rollback
<1> HIDE DEF s
<1>8. /\ mem' \in [Peer -> Memory] /\ score' \in [Peer -> Score]
      /\ mem'[p] = s.mem /\ score'[p] = Load(s.section)
      /\ \A q \in Peer : q # p => mem'[q] = mem[q] /\ score'[q] = score[q]
  BY <1>4, <1>7 DEF Inv, Types
<1>9. /\ used' \in [Peer -> Seq(Input)] /\ snap' \in [Peer -> Seq(Shot)]
      /\ used'[p] = SubSeq(used[p], 1, n - 1) /\ snap'[p] = SubSeq(snap[p], 1, n)
      /\ \A q \in Peer : q # p => used'[q] = used[q] /\ snap'[q] = snap[q]
  BY <1>5, <1>6, <1>7 DEF Inv, Types
<1>10. LatchFollowsMemory'
  BY <1>4, <1>8 DEF Inv, LatchFollowsMemory
<1> QED
  BY <1>5, <1>6, <1>8, <1>9, <1>10

LEMMA ReceiveInv == ASSUME Inv, NEW p \in Peer, Receive(p) PROVE Inv'
<1> DEFINE n == got[p] + 1
<1>1. /\ n <= Len(inputs[Other(p)]) /\ got' = [got EXCEPT ![p] = n]
      /\ UNCHANGED <<inputs, online>>
      /\ \/ n <= Len(used[p]) /\ Rollback(p, n)
         \/ UNCHANGED <<mem, score, used, snap>>
  BY DEF Receive, Frame
<1>2. got[p] \in Nat /\ n \in Nat /\ n >= 1 /\ Len(used[p]) \in Nat
  BY DEF Inv, Types
<1> HIDE DEF n
<1>3. /\ got' \in [Peer -> Nat] /\ got'[p] = n
      /\ \A q \in Peer : q # p => got'[q] = got[q]
  BY <1>1, <1>2 DEF Inv, Types
<1>4. CASE n <= Len(used[p]) /\ Rollback(p, n)
  <2>1. n \in 1 .. Len(used[p])
    BY <1>2, <1>4
  <2>2. /\ mem' \in [Peer -> Memory] /\ score' \in [Peer -> Score]
        /\ used' \in [Peer -> Seq(Input)] /\ snap' \in [Peer -> Seq(Shot)]
        /\ Len(used'[p]) = n - 1 /\ Len(snap'[p]) = n
        /\ \A q \in Peer : q # p => used'[q] = used[q] /\ snap'[q] = snap[q]
        /\ LatchFollowsMemory'
    BY <1>4, <2>1, RollbackInv
  <2>3. Types'
    BY <1>1, <1>3, <2>2 DEF Inv, Types
  <2>4. ASSUME NEW q \in Peer PROVE Fits(q)'
    <3>1. Fits(q) /\ Len(inputs[q]) \in Nat
      BY DEF Inv, Types
    <3>2. CASE q = p
      BY <1>1, <1>2, <1>3, <1>4, <2>2, <3>1, <3>2 DEF Fits
    <3>3. CASE q # p
      BY <1>1, <1>3, <2>2, <3>1, <3>3 DEF Fits
    <3> QED
      BY <3>2, <3>3
  <2> QED
    BY <2>2, <2>3, <2>4 DEF Inv
<1>5. CASE UNCHANGED <<mem, score, used, snap>>
  <2>1. Types'
    BY <1>1, <1>3, <1>5 DEF Inv, Types
  <2>2. \A q \in Peer : Fits(q)'
    BY <1>1, <1>3, <1>5 DEF Inv, Fits
  <2>3. LatchFollowsMemory'
    BY <1>5 DEF Inv, LatchFollowsMemory
  <2> QED
    BY <2>1, <2>2, <2>3 DEF Inv
<1> QED
  BY <1>1, <1>4, <1>5

\* reset_score() against the memory that is there.
LEMMA ForgetFollows ==
    ASSUME Inv, NEW p \in Peer, NEW m \in Memory, Forget(p, m),
           mem' = [mem EXCEPT ![p] = m]
    PROVE  /\ mem' \in [Peer -> Memory] /\ score' \in [Peer -> Score]
           /\ LatchFollowsMemory'
<1>1. m.flags.result \in BOOLEAN
  BY MemoryAssumption
<1>2. /\ ResetScore(m.flags.result) \in Score
      /\ ResetScore(m.flags.result).latched = m.flags.result
  BY <1>1, ResetTyped
<1>3. score' = [score EXCEPT ![p] = ResetScore(m.flags.result)]
  BY DEF Forget
<1>4. /\ mem' \in [Peer -> Memory] /\ score' \in [Peer -> Score]
      /\ mem'[p] = m /\ score'[p] = ResetScore(m.flags.result)
      /\ \A q \in Peer : q # p => mem'[q] = mem[q] /\ score'[q] = score[q]
  BY <1>2, <1>3 DEF Inv, Types
<1> QED
  BY <1>2, <1>4 DEF Inv, LatchFollowsMemory

LEMMA DisconnectInv == ASSUME Inv, NEW p \in Peer, Disconnect(p) PROVE Inv'
<1>1. /\ online' = [online EXCEPT ![p] = FALSE] /\ Forget(p, mem[p])
      /\ got' = [got EXCEPT ![p] = 0] /\ used' = [used EXCEPT ![p] = << >>]
      /\ snap' = [snap EXCEPT ![p] = << @[1] >>]
      /\ inputs' = inputs /\ mem' = mem
  BY DEF Disconnect
<1>2. mem[p] \in Memory /\ mem' = [mem EXCEPT ![p] = mem[p]]
  BY <1>1 DEF Inv, Types
<1>3. mem' \in [Peer -> Memory] /\ score' \in [Peer -> Score] /\ LatchFollowsMemory'
  BY <1>1, <1>2, ForgetFollows
<1>4. /\ snap[p] \in Seq(Shot) /\ Len(used[p]) \in Nat
      /\ Len(snap[p]) = Len(used[p]) + 1
      /\ \A q \in Peer : Len(inputs[q]) \in Nat
  BY DEF Inv, Types, Fits
<1>5. snap[p][1] \in Shot
  <2>1. 1 \in 1 .. Len(snap[p])
    BY <1>4
  <2> QED
    BY <1>4, <2>1
<1> DEFINE s == snap[p][1]
<1>6. snap' = [snap EXCEPT ![p] = << s >>]
  BY <1>1
<1> HIDE DEF s
<1>7. << s >> \in Seq(Shot) /\ Len(<< s >>) = 1
  BY <1>5 DEF s
<1>8. << >> \in Seq(Input) /\ Len(<< >>) = 0
  OBVIOUS
<1>9. /\ snap' \in [Peer -> Seq(Shot)] /\ snap'[p] = << s >>
      /\ used' \in [Peer -> Seq(Input)] /\ used'[p] = << >>
      /\ got' \in [Peer -> Nat] /\ got'[p] = 0
      /\ online' \in [Peer -> BOOLEAN]
      /\ \A q \in Peer : q # p => /\ snap'[q] = snap[q] /\ used'[q] = used[q]
                                  /\ got'[q] = got[q]
  BY <1>1, <1>6, <1>7, <1>8 DEF Inv, Types
<1>10. Types'
  BY <1>1, <1>3, <1>9 DEF Inv, Types
<1>11. ASSUME NEW q \in Peer PROVE Fits(q)'
  <2>1. Other(q) \in Peer /\ Fits(q)
    BY PeerFacts DEF Inv
  <2>2. CASE q = p
    BY <1>1, <1>4, <1>7, <1>8, <1>9, <2>1, <2>2 DEF Fits
  <2>3. CASE q # p
    BY <1>1, <1>9, <2>1, <2>3 DEF Fits
  <2> QED
    BY <2>2, <2>3
<1> QED
  BY <1>3, <1>10, <1>11 DEF Inv

LEMMA ManualLoadInv ==
    ASSUME Inv, NEW p \in Peer, NEW m \in Memory, ManualLoad(p, m)
    PROVE  Inv'
<1>1. /\ mem' = [mem EXCEPT ![p] = m] /\ Forget(p, m)
      /\ UNCHANGED <<inputs, got, used, snap, online>>
  BY DEF ManualLoad
<1>2. mem' \in [Peer -> Memory] /\ score' \in [Peer -> Score] /\ LatchFollowsMemory'
  BY <1>1, ForgetFollows
<1> QED
  BY <1>1, <1>2 DEF Inv, Types, Fits

LEMMA AloneFrameInv ==
    ASSUME Inv, NEW p \in Peer, NEW i \in Input, NEW j \in Input,
           AloneFrame(p, i, j)
    PROVE  Inv'
<1> DEFINE m  == Played(p, i, j)
           st == TickScore(score[p], m)
<1>1. /\ mem[p] \in Memory /\ score[p] \in Score
      /\ score[p].latched = mem[p].flags.result
  BY DEF Inv, Types, LatchFollowsMemory
<1>2. m \in Memory /\ st \in Score /\ st.latched = m.flags.result
  <2>1. CASE p = 0
    <3>1. m = Run[ <<mem[p], i, j>> ]
      BY <2>1 DEF Played
    <3> QED
      BY <1>1, <3>1, StepFollows
  <2>2. CASE p # 0
    <3>1. m = Run[ <<mem[p], j, i>> ]
      BY <2>2 DEF Played
    <3> QED
      BY <1>1, <3>1, StepFollows
  <2> QED
    BY <2>1, <2>2
<1>3. /\ mem' = [mem EXCEPT ![p] = m] /\ score' = [score EXCEPT ![p] = st]
      /\ UNCHANGED <<inputs, got, used, snap, online>>
  BY DEF AloneFrame
<1> HIDE DEF m, st
<1>4. /\ mem' \in [Peer -> Memory] /\ score' \in [Peer -> Score]
      /\ mem'[p] = m /\ score'[p] = st
      /\ \A q \in Peer : q # p => mem'[q] = mem[q] /\ score'[q] = score[q]
  BY <1>2, <1>3 DEF Inv, Types
<1>5. LatchFollowsMemory'
  BY <1>2, <1>4 DEF Inv, LatchFollowsMemory
<1> QED
  BY <1>3, <1>4, <1>5 DEF Inv, Types, Fits

LEMMA NextInv == ASSUME Inv, [Next]_vars PROVE Inv'
<1>1. ASSUME NEW p \in Peer, PeerSteps(p) PROVE Inv'
  BY <1>1, NewFrameInv, ResimulateInv, ReceiveInv DEF PeerSteps
<1>2. ASSUME NEW p \in Peer, Disconnect(p) PROVE Inv'
  BY <1>2, DisconnectInv
<1>3. ASSUME NEW p \in Peer, NEW i \in Input, NEW j \in Input, AloneFrame(p, i, j)
      PROVE  Inv'
  BY <1>3, AloneFrameInv
<1>4. ASSUME NEW p \in Peer, NEW m \in Memory, ManualLoad(p, m) PROVE Inv'
  BY <1>4, ManualLoadInv
<1>5. CASE UNCHANGED vars
  BY <1>5 DEF vars, Inv, Types, Fits, LatchFollowsMemory
<1> QED
  BY <1>1, <1>2, <1>3, <1>4, <1>5 DEF Next

-----------------------------------------------------------------------------
THEOREM RollbackInvariant == Spec => []Inv
BY InitInv, NextInv, PTL DEF Spec

\* For every game, window, session length and set of inputs: the peers' state
\* keeps its type, and one snapshot stays for every simulated frame.
THEOREM RollbackTyped == Spec => []TypeOK
<1>1. Inv => TypeOK
  BY DEF Inv, Types, Fits, TypeOK, Frame
<1> QED
  BY RollbackInvariant, <1>1, PTL

\* For every game that raises results in the match scene only, and whatever is
\* rolled back, loaded or disconnected, the latch is closed exactly while the
\* result flag is up: no result is counted twice, and none is missed.
THEOREM LatchAlwaysFollows == Spec => []LatchFollowsMemory
<1>1. Inv => LatchFollowsMemory
  BY DEF Inv
<1> QED
  BY RollbackInvariant, <1>1, PTL
-----------------------------------------------------------------------------
(***************************************************************************)
(* The chain of snapshots.                                                 *)
(***************************************************************************)
\* The memory a frame leaves when it starts from m.
Outcome(p, m, i, j) == Run[ <<m, IF p = 0 THEN i ELSE j, IF p = 0 THEN j ELSE i>> ]

\* The snapshot after frame n is the one before it, restored and played on.
Link(p, n) ==
    LET m == Outcome(p, snap[p][n].mem, inputs[p][n], used[p][n])
    IN snap[p][n + 1] = Snapshot(m, TickScore(Load(snap[p][n].section), m))

Chain(p) ==
    online[p] =>
        /\ snap[p][1] = Snapshot(Boot, ResetScore(FALSE))
        /\ snap[p][Len(used[p]) + 1] = Snapshot(mem[p], score[p])
        /\ \A n \in 1 .. Len(used[p]) :
              /\ Link(p, n)
              /\ n <= got[p] => used[p][n] = inputs[Other(p)][n]

\* Whatever extends the inputs and leaves the peer alone keeps its chain.
LEMMA ChainKept ==
    ASSUME Inv, NEW p \in Peer, Chain(p),
           snap'[p] = snap[p], used'[p] = used[p], got'[p] = got[p],
           online'[p] = online[p], mem'[p] = mem[p], score'[p] = score[p],
           \A q \in Peer : \A n \in 1 .. Len(inputs[q]) : inputs'[q][n] = inputs[q][n]
    PROVE  Chain(p)'
<1> SUFFICES ASSUME online[p] PROVE Chain(p)'
  BY DEF Chain
<1>1. /\ Len(used[p]) <= Len(inputs[p]) /\ Len(used[p]) \in Nat
      /\ got[p] \in Nat /\ got[p] <= Len(inputs[Other(p)]) /\ Other(p) \in Peer
      /\ Len(inputs[p]) \in Nat /\ Len(inputs[Other(p)]) \in Nat
  BY PeerFacts DEF Inv, Types, Fits
<1>2. ASSUME NEW n \in 1 .. Len(used[p])
      PROVE  /\ Link(p, n)'
             /\ n <= got[p] => used'[p][n] = inputs'[Other(p)][n]
  <2>1. Link(p, n) /\ (n <= got[p] => used[p][n] = inputs[Other(p)][n])
    BY DEF Chain
  <2>2. n \in 1 .. Len(inputs[p]) /\ (n <= got[p] => n \in 1 .. Len(inputs[Other(p)]))
    BY <1>1
  <2>3. inputs'[p][n] = inputs[p][n]
    BY <2>2
  <2>4. Link(p, n)'
    BY <2>1, <2>3 DEF Link
  <2>5. n <= got[p] => inputs'[Other(p)][n] = inputs[Other(p)][n]
    BY <1>1, <2>2
  <2> QED
    BY <2>1, <2>4, <2>5
<1>3. /\ snap'[p][1] = Snapshot(Boot, ResetScore(FALSE))
      /\ snap'[p][Len(used'[p]) + 1] = Snapshot(mem'[p], score'[p])
  BY DEF Chain
<1> QED
  BY <1>2, <1>3 DEF Chain

\* A simulated frame adds a link.
LEMMA ChainGrows ==
    ASSUME Inv, NEW p \in Peer, Chain(p), online[p], NEW i \in Input,
           Simulate(p, i, OtherInput(p)), got' = got, online' = online,
           \A q \in Peer : \A n \in 1 .. Len(inputs[q]) : inputs'[q][n] = inputs[q][n],
           inputs'[p][Len(used[p]) + 1] = i
    PROVE  Chain(p)'
<1> DEFINE j  == OtherInput(p)
           m  == Played(p, i, j)
           st == TickScore(score[p], m)
           s  == Snapshot(m, st)
           k  == Len(used[p])
<1>1. /\ mem[p] \in Memory /\ score[p] \in Score /\ used[p] \in Seq(Input)
      /\ snap[p] \in Seq(Shot) /\ Len(snap[p]) = k + 1 /\ k \in Nat
      /\ k <= Len(inputs[p]) /\ got[p] \in Nat /\ got[p] <= Len(inputs[Other(p)])
      /\ Other(p) \in Peer /\ Len(inputs[p]) \in Nat /\ Len(inputs[Other(p)]) \in Nat
  BY PeerFacts DEF Inv, Types, Fits
<1>2. j \in Input
  BY OtherInputTyped
<1>3. k < got[p] => j = inputs[Other(p)][k + 1]
  BY <1>1 DEF OtherInput, Frame
<1>4. /\ mem'[p] = m /\ score'[p] = st /\ used'[p] = Append(used[p], j)
      /\ snap'[p] = Append(snap[p], s)
  BY DEF Simulate, Inv, Types
<1>5. m = Outcome(p, mem[p], i, j)
  BY DEF Played, Outcome
<1>6. snap[p][k + 1] = Snapshot(mem[p], score[p])
  BY DEF Chain
<1>7. snap[p][k + 1].mem = mem[p] /\ Load(snap[p][k + 1].section) = score[p]
  <2>1. snap[p][k + 1].mem = mem[p] /\ snap[p][k + 1].section = Save(score[p])
    BY <1>6 DEF Snapshot
  <2> QED
    BY <1>1, <2>1, SaveLoads
<1>8. s = Snapshot(m, TickScore(Load(snap[p][k + 1].section), m))
  BY <1>7
<1> HIDE DEF j, m, st, s, k
<1>9. /\ Len(used'[p]) = k + 1 /\ used'[p][k + 1] = j
      /\ \A n \in 1 .. k : used'[p][n] = used[p][n]
  BY <1>1, <1>2, <1>4 DEF k
<1>10. /\ snap'[p][k + 2] = s
       /\ \A n \in 1 .. k + 1 : snap'[p][n] = snap[p][n]
  <2>1. s \in Shot \/ s \notin Shot
    OBVIOUS
  <2>2. Len(snap[p]) + 1 = k + 2
    BY <1>1
  <2> QED
    BY <1>1, <1>4, <2>2
<1>11. ASSUME NEW n \in 1 .. k + 1
       PROVE  /\ Link(p, n)'
              /\ n <= got[p] => used'[p][n] = inputs'[Other(p)][n]
  <2>1. CASE n = k + 1
    <3>1. /\ snap'[p][n] = snap[p][k + 1] /\ snap'[p][n + 1] = s
          /\ inputs'[p][n] = i /\ used'[p][n] = j
      BY <1>1, <1>9, <1>10, <2>1 DEF k
    <3>2. Outcome(p, snap'[p][n].mem, inputs'[p][n], used'[p][n]) = m
      BY <1>5, <1>7, <3>1
    <3>3. Link(p, n)'
      BY <1>8, <3>1, <3>2 DEF Link
    <3>4. n <= got[p] => k < got[p] /\ n \in 1 .. Len(inputs[Other(p)])
      BY <1>1, <2>1
    <3> QED
      BY <1>1, <1>3, <2>1, <3>1, <3>3, <3>4
  <2>2. CASE n # k + 1
    <3>1. n \in 1 .. k /\ n \in 1 .. k + 1 /\ n + 1 \in 1 .. k + 1
      BY <1>1, <2>2
    <3>2. Link(p, n) /\ (n <= got[p] => used[p][n] = inputs[Other(p)][n])
      BY <3>1 DEF Chain, k
    <3>3. /\ snap'[p][n] = snap[p][n] /\ snap'[p][n + 1] = snap[p][n + 1]
          /\ used'[p][n] = used[p][n]
      BY <1>9, <1>10, <3>1
    <3>4. n \in 1 .. Len(inputs[p]) /\ (n <= got[p] => n \in 1 .. Len(inputs[Other(p)]))
      BY <1>1, <3>1
    <3>5. inputs'[p][n] = inputs[p][n]
      BY <3>4
    <3>6. n <= got[p] => inputs'[Other(p)][n] = inputs[Other(p)][n]
      BY <1>1, <3>4
    <3>7. Link(p, n)'
      BY <3>2, <3>3, <3>5 DEF Link
    <3> QED
      BY <3>2, <3>3, <3>6, <3>7
  <2> QED
    BY <2>1, <2>2
<1>12. snap'[p][1] = Snapshot(Boot, ResetScore(FALSE))
  <2>1. 1 \in 1 .. k + 1
    BY <1>1
  <2> QED
    BY <1>10, <2>1 DEF Chain
<1>13. snap'[p][Len(used'[p]) + 1] = Snapshot(mem'[p], score'[p])
  <2>1. Len(used'[p]) + 1 = k + 2
    BY <1>1, <1>9
  <2> QED
    BY <1>4, <1>10, <2>1 DEF s
<1> QED
  BY <1>9, <1>11, <1>12, <1>13 DEF Chain

\* What is restored is what was saved.
LEMMA ShotIsWhole ==
    ASSUME NEW s \in Shot
    PROVE  s = Snapshot(s.mem, Load(s.section))
<1>1. PICK y \in Pairs : s = Snapshot(y[1], y[2])
  BY DEF Shot
<1>2. y[1] \in Memory /\ y[2] \in Score
  BY DEF Pairs
<1>3. s.mem = y[1] /\ s.section = Save(y[2])
  BY <1>1 DEF Snapshot
<1> QED
  BY <1>1, <1>2, <1>3, SaveLoads

\* A rollback cuts the chain before the wrong guess.
LEMMA ChainCut ==
    ASSUME Inv, NEW p \in Peer, Chain(p), online[p], NEW n \in 1 .. Len(used[p]),
           n = got[p] + 1, Rollback(p, n), got' = [got EXCEPT ![p] = n],
           UNCHANGED <<inputs, online>>
    PROVE  Chain(p)'
<1>1. /\ used[p] \in Seq(Input) /\ snap[p] \in Seq(Shot) /\ n \in Nat
      /\ Len(used[p]) \in Nat /\ Len(snap[p]) = Len(used[p]) + 1
      /\ mem \in [Peer -> Memory] /\ score \in [Peer -> Score] /\ got[p] \in Nat
  BY DEF Inv, Types, Fits
<1>2. /\ Len(used'[p]) = n - 1
  BY RollbackInv
<1>3. snap[p][n] \in Shot
  <2>1. n \in 1 .. Len(snap[p])
    BY <1>1
  <2> QED
    BY <1>1, <2>1
<1>4. snap[p][n] = Snapshot(snap[p][n].mem, Load(snap[p][n].section))
  BY <1>3, ShotIsWhole
<1>5. /\ mem'[p] = snap[p][n].mem /\ score'[p] = Load(snap[p][n].section)
      /\ used'[p] = SubSeq(used[p], 1, n - 1) /\ snap'[p] = SubSeq(snap[p], 1, n)
      /\ got'[p] = n
  BY DEF Rollback, Inv, Types
<1>6. \A m \in 1 .. n - 1 : used'[p][m] = used[p][m]
  <2>1. \A m \in 1 .. n - 1 : used[p][m] \in Input
    BY <1>1
  <2> QED
    BY <1>1, <1>5, <2>1
<1>7. \A m \in 1 .. n : snap'[p][m] = snap[p][m]
  BY <1>1, <1>5
<1>8. ASSUME NEW m \in 1 .. n - 1
      PROVE  /\ Link(p, m)'
             /\ m <= got'[p] => used'[p][m] = inputs'[Other(p)][m]
  <2>1. /\ m \in 1 .. Len(used[p]) /\ m <= got[p]
        /\ m \in 1 .. n /\ m + 1 \in 1 .. n
    BY <1>1
  <2>2. Link(p, m) /\ used[p][m] = inputs[Other(p)][m]
    BY <2>1 DEF Chain
  <2>3. /\ used'[p][m] = used[p][m]
        /\ snap'[p][m] = snap[p][m] /\ snap'[p][m + 1] = snap[p][m + 1]
    BY <1>6, <1>7, <2>1
  <2> QED
    BY <2>2, <2>3 DEF Link
<1>9. snap'[p][1] = Snapshot(Boot, ResetScore(FALSE))
  <2>1. 1 \in 1 .. n
    BY <1>1
  <2> QED
    BY <1>7, <2>1 DEF Chain
<1>10. snap'[p][Len(used'[p]) + 1] = Snapshot(mem'[p], score'[p])
  <2>1. Len(used'[p]) + 1 = n /\ n \in 1 .. n
    BY <1>1, <1>2
  <2> QED
    BY <1>4, <1>5, <1>7, <2>1
<1> QED
  BY <1>2, <1>8, <1>9, <1>10 DEF Chain

ChainInv == Inv /\ \A p \in Peer : Chain(p)

LEMMA InitChain == Init => ChainInv
<1> SUFFICES ASSUME Init PROVE ChainInv
  OBVIOUS
<1> DEFINE s == Snapshot(Boot, ResetScore(FALSE))
<1>1. /\ snap = [p \in Peer |-> << s >>] /\ used = [p \in Peer |-> << >>]
      /\ mem = [p \in Peer |-> Boot] /\ score = [p \in Peer |-> ResetScore(FALSE)]
  BY DEF Init
<1>2. s = Snapshot(Boot, ResetScore(FALSE))
  OBVIOUS
<1> HIDE DEF s
<1>3. ASSUME NEW p \in Peer PROVE Chain(p)
  <2>1. Len(used[p]) = 0 /\ snap[p][1] = s /\ mem[p] = Boot
        /\ score[p] = ResetScore(FALSE)
    BY <1>1
  <2>2. Chain(p)
    <3>1. snap[p][Len(used[p]) + 1] = s
      BY <2>1
    <3>2. \A n \in 1 .. Len(used[p]) : FALSE
      BY <2>1
    <3> QED
      BY <1>2, <2>1, <3>1, <3>2 DEF Chain
  <2> QED
    BY <2>2
<1> QED
  BY <1>3, InitInv DEF ChainInv

\* Only Receive, Disconnect and a frame of p touch p.
LEMMA NextChain == ASSUME ChainInv, [Next]_vars PROVE ChainInv'
<1>1. Inv /\ Inv' /\ \A p \in Peer : Chain(p)
  BY NextInv DEF ChainInv
<1>2. Types /\ Types'
  BY <1>1 DEF Inv
<1>4. ASSUME NEW p \in Peer, NEW i \in Input, NewFrame(p, i)
      PROVE  \A q \in Peer : Chain(q)'
  <2>1. /\ Simulate(p, i, OtherInput(p)) /\ got' = got /\ online' = online
        /\ online[p] /\ inputs' = [inputs EXCEPT ![p] = Append(@, i)]
        /\ Len(used[p]) = Len(inputs[p])
    BY <1>4 DEF NewFrame, Frame
  <2>2. /\ \A q \in Peer : \A n \in 1 .. Len(inputs[q]) : inputs'[q][n] = inputs[q][n]
        /\ inputs'[p][Len(used[p]) + 1] = i
    BY <1>2, <2>1 DEF Types
  <2>3. Chain(p)'
    BY <1>1, <2>1, <2>2, ChainGrows
  <2>4. ASSUME NEW q \in Peer, q # p PROVE Chain(q)'
    <3>1. /\ snap'[q] = snap[q] /\ used'[q] = used[q]
          /\ mem'[q] = mem[q] /\ score'[q] = score[q]
      BY <1>2, <2>1, <2>4 DEF Simulate, Types
    <3> QED
      BY <1>1, <2>1, <2>2, <3>1, ChainKept
  <2> QED
    BY <2>3, <2>4
<1>5. ASSUME NEW p \in Peer, Resimulate(p)
      PROVE  \A q \in Peer : Chain(q)'
  <2> DEFINE i == inputs[p][Frame(p) + 1]
  <2>1. /\ Simulate(p, i, OtherInput(p)) /\ got' = got /\ online' = online
        /\ online[p] /\ inputs' = inputs
        /\ Len(used[p]) < Len(inputs[p]) /\ i = inputs[p][Len(used[p]) + 1]
    BY <1>5 DEF Resimulate, Frame
  <2> HIDE DEF i
  <2>2. i \in Input
    BY <1>2, <2>1 DEF Types
  <2>3. Chain(p)'
    BY <1>1, <2>1, <2>2, ChainGrows
  <2>4. ASSUME NEW q \in Peer, q # p PROVE Chain(q)'
    <3>1. /\ snap'[q] = snap[q] /\ used'[q] = used[q]
          /\ mem'[q] = mem[q] /\ score'[q] = score[q]
      BY <1>2, <2>1, <2>4 DEF Simulate, Types
    <3> QED
      BY <1>1, <2>1, <3>1, ChainKept
  <2> QED
    BY <2>3, <2>4
<1>6. ASSUME NEW p \in Peer, Receive(p)
      PROVE  \A q \in Peer : Chain(q)'
  <2> DEFINE n == got[p] + 1
  <2>1. /\ online[p] /\ got' = [got EXCEPT ![p] = n] /\ UNCHANGED <<inputs, online>>
        /\ \/ n <= Len(used[p]) /\ Rollback(p, n)
           \/ /\ ~(n <= Len(used[p]) /\ used[p][n] # inputs[Other(p)][n])
              /\ UNCHANGED <<mem, score, used, snap>>
    BY <1>6 DEF Receive, Frame
  <2>2. n = got[p] + 1 /\ n \in Nat /\ n >= 1 /\ got[p] \in Nat /\ Len(used[p]) \in Nat
    BY <1>2 DEF Types
  <2> HIDE DEF n
  <2>3. Chain(p)'
    <3>1. CASE n <= Len(used[p]) /\ Rollback(p, n)
      <4>1. n \in 1 .. Len(used[p])
        BY <2>2, <3>1
      <4> QED
        BY <1>1, <2>1, <2>2, <3>1, <4>1, ChainCut
    <3>2. CASE /\ ~(n <= Len(used[p]) /\ used[p][n] # inputs[Other(p)][n])
               /\ UNCHANGED <<mem, score, used, snap>>
      <4>1. got'[p] = n
        BY <1>2, <2>1 DEF Types
      <4>2. ASSUME NEW m \in 1 .. Len(used[p])
            PROVE  Link(p, m)' /\ (m <= n => used[p][m] = inputs[Other(p)][m])
        <5>1. Link(p, m)' /\ (m <= got[p] => used[p][m] = inputs[Other(p)][m])
          BY <1>1, <2>1, <3>2 DEF Chain, Link
        <5>2. m <= n => m <= got[p] \/ m = n
          BY <2>2
        <5> QED
          BY <2>2, <3>2, <5>1, <5>2
      <4> QED
        BY <1>1, <2>1, <3>2, <4>1, <4>2 DEF Chain
    <3> QED
      BY <2>1, <3>1, <3>2
  <2>4. ASSUME NEW q \in Peer, q # p PROVE Chain(q)'
    <3>1. /\ snap'[q] = snap[q] /\ used'[q] = used[q] /\ got'[q] = got[q]
          /\ mem'[q] = mem[q] /\ score'[q] = score[q]
      BY <1>2, <2>1, <2>4 DEF Rollback, Types
    <3> QED
      BY <1>1, <2>1, <3>1, ChainKept
  <2> QED
    BY <2>3, <2>4
<1>7. ASSUME NEW p \in Peer, Disconnect(p)
      PROVE  \A q \in Peer : Chain(q)'
  <2>1. ~online'[p]
    BY <1>2, <1>7 DEF Disconnect, Types
  <2>2. ASSUME NEW q \in Peer, q # p PROVE Chain(q)'
    <3>1. /\ snap'[q] = snap[q] /\ used'[q] = used[q] /\ got'[q] = got[q]
          /\ mem'[q] = mem[q] /\ score'[q] = score[q] /\ online'[q] = online[q]
          /\ inputs' = inputs
      BY <1>2, <1>7, <2>2 DEF Disconnect, Forget, Types
    <3> QED
      BY <1>1, <3>1, ChainKept
  <2> QED
    BY <2>1, <2>2 DEF Chain
<1>8. ASSUME NEW p \in Peer, UNCHANGED <<inputs, got, used, snap, online>>, ~online[p],
             \A q \in Peer : q # p => mem'[q] = mem[q] /\ score'[q] = score[q]
      PROVE  \A q \in Peer : Chain(q)'
  <2>1. Chain(p)'
    BY <1>8 DEF Chain
  <2>2. ASSUME NEW q \in Peer, q # p PROVE Chain(q)'
    BY <1>1, <1>8, <2>2, ChainKept
  <2> QED
    BY <2>1, <2>2
<1>9. ASSUME NEW p \in Peer, NEW i \in Input, NEW j \in Input, AloneFrame(p, i, j)
      PROVE  \A q \in Peer : Chain(q)'
  <2>1. /\ ~online[p] /\ UNCHANGED <<inputs, got, used, snap, online>>
        /\ \A q \in Peer : q # p => mem'[q] = mem[q] /\ score'[q] = score[q]
    BY <1>2, <1>9 DEF AloneFrame, Types
  <2> QED
    BY <1>8, <2>1
<1>10. ASSUME NEW p \in Peer, NEW m \in Memory, ManualLoad(p, m)
       PROVE  \A q \in Peer : Chain(q)'
  <2>1. /\ ~online[p] /\ UNCHANGED <<inputs, got, used, snap, online>>
        /\ \A q \in Peer : q # p => mem'[q] = mem[q] /\ score'[q] = score[q]
    BY <1>2, <1>10 DEF ManualLoad, Forget, Types
  <2> QED
    BY <1>8, <2>1
<1>11. ASSUME UNCHANGED vars PROVE \A q \in Peer : Chain(q)'
  BY <1>1, <1>11, ChainKept DEF vars
<1>12. \A q \in Peer : Chain(q)'
  BY <1>4, <1>5, <1>6, <1>7, <1>9, <1>10, <1>11 DEF Next, PeerSteps
<1> QED
  BY <1>1, <1>12 DEF ChainInv

-----------------------------------------------------------------------------
(***************************************************************************)
(* The undisturbed game.                                                   *)
(***************************************************************************)
\* Induction over the natural numbers, for a set instead of a predicate.
LEMMA SetInduction ==
    ASSUME NEW S \in SUBSET Nat, 0 \in S, \A n \in S : n + 1 \in S
    PROVE  S = Nat
<1> DEFINE R == OpToRel(<, Nat)
           T == Nat \ S
<1>1. IsWellFoundedOn(R, Nat)
  BY NatLessThanWellFounded
<1>2. SUFFICES ASSUME T # {} PROVE FALSE
  OBVIOUS
<1>3. PICK x \in T : \A y \in T : ~(<<y, x>> \in R)
  <2> HIDE DEF R, T
  <2>1. T \subseteq Nat
    BY DEF T
  <2> QED
    BY <1>1, <1>2, <2>1, WFMin
<1>4. x # 0 /\ x - 1 \in Nat /\ x - 1 \in T
  <2>1. x - 1 \in Nat
    OBVIOUS
  <2> QED
    BY <2>1, x - 1 \in S => (x - 1) + 1 \in S
<1>5. <<x - 1, x>> \in R
  BY <1>4 DEF OpToRel
<1> QED
  BY <1>3, <1>4, <1>5

\* One step of the undisturbed game.
After(before, n) ==
    LET m == Run[ <<before.mem, inputs[0][n], inputs[1][n]>> ]
    IN [mem |-> m, score |-> TickScore(before.score, m)]
Start == [mem |-> Boot, score |-> ResetScore(FALSE)]

\* The undisturbed game is defined for every frame whose inputs are known.
LEMMA TimelineUnfolds ==
    ASSUME Types
    PROVE  /\ Timeline[0] = Start
           /\ \A n \in 1 .. Known : Timeline[n] = After(Timeline[n - 1], n)
<1> DEFINE IsRun(f, k) == /\ f = [n \in 0 .. k |-> f[n]] /\ f[0] = Start
                          /\ \A n \in 1 .. k : f[n] = After(f[n - 1], n)
           S == {k \in Nat : \E f : IsRun(f, k)}
<1>1. Known \in Nat
  BY DEF Known, Types, Peer
<1>2. 0 \in S
  <2> DEFINE f == [n \in 0 .. 0 |-> Start]
  <2>1. IsRun(f, 0)
    OBVIOUS
  <2> HIDE DEF f, IsRun
  <2> QED
    BY <2>1
<1>3. ASSUME NEW k \in S PROVE k + 1 \in S
  <2>1. k \in Nat
    OBVIOUS
  <2> HIDE DEF IsRun
  <2>2. PICK f : IsRun(f, k)
    OBVIOUS
  <2> DEFINE g == [n \in 0 .. k + 1 |-> IF n = k + 1 THEN After(f[k], k + 1) ELSE f[n]]
  <2>3. /\ g = [n \in 0 .. k + 1 |-> g[n]]
        /\ g[k + 1] = After(f[k], k + 1) /\ \A n \in 0 .. k : g[n] = f[n]
    BY <2>1
  <2>4. f[0] = Start /\ \A n \in 1 .. k : f[n] = After(f[n - 1], n)
    BY <2>2 DEF IsRun
  <2> HIDE DEF g
  <2>5. ASSUME NEW n \in 1 .. k + 1 PROVE g[n] = After(g[n - 1], n)
    <3>1. CASE n = k + 1
      <4>1. n - 1 = k /\ k \in 0 .. k
        BY <2>1, <3>1
      <4> QED
        BY <2>3, <3>1, <4>1
    <3>2. CASE n # k + 1
      <4>1. n \in 1 .. k /\ n \in 0 .. k /\ n - 1 \in 0 .. k
        BY <2>1, <3>2
      <4> QED
        BY <2>3, <2>4, <4>1
    <3> QED
      BY <3>1, <3>2
  <2>6. g[0] = Start
    BY <2>1, <2>3, <2>4
  <2>7. IsRun(g, k + 1)
    BY <2>3, <2>5, <2>6 DEF IsRun
  <2> QED
    BY <2>1, <2>7
<1>4. S = Nat
  <2> HIDE DEF S
  <2>1. S \in SUBSET Nat
    BY DEF S
  <2> QED
    BY <1>2, <1>3, <2>1, SetInduction
<1>5. PICK f : IsRun(f, Known)
  <2> HIDE DEF IsRun
  <2> QED
    BY <1>1, <1>4
<1>6. f = [n \in 0 .. Known |-> IF n = 0 THEN Start ELSE After(f[n - 1], n)]
  <2>1. ASSUME NEW n \in 0 .. Known
        PROVE  f[n] = IF n = 0 THEN Start ELSE After(f[n - 1], n)
    <3>1. n = 0 \/ n \in 1 .. Known
      BY <1>1
    <3> QED
      BY <1>5, <3>1
  <2>2. f = [n \in 0 .. Known |-> f[n]]
    BY <1>5
  <2> QED
    BY <2>1, <2>2
<1>7. Timeline = [n \in 0 .. Known |-> IF n = 0 THEN Start
                                       ELSE After(Timeline[n - 1], n)]
  <2>1. f = [n \in 0 .. Known |->
                IF n = 0 THEN [mem |-> Boot, score |-> ResetScore(FALSE)]
                ELSE LET before == f[n - 1]
                         m == Run[ <<before.mem, inputs[0][n], inputs[1][n]>> ]
                     IN [mem |-> m, score |-> TickScore(before.score, m)] ]
    BY <1>6 DEF Start, After
  <2>2. Timeline = [n \in 0 .. Known |->
                IF n = 0 THEN [mem |-> Boot, score |-> ResetScore(FALSE)]
                ELSE LET before == Timeline[n - 1]
                         m == Run[ <<before.mem, inputs[0][n], inputs[1][n]>> ]
                     IN [mem |-> m, score |-> TickScore(before.score, m)] ]
    BY <2>1 DEF Timeline
  <2> QED
    BY <2>2 DEF Start, After
<1> QED
  BY <1>1, <1>7

\* By induction along the chain of one state: a confirmed snapshot is the one
\* of the undisturbed game.
LEMMA ChainIsTrue == ChainInv => ConfirmedIsTrue
<1> SUFFICES ASSUME ChainInv, NEW p \in Peer, online[p]
             PROVE  \A n \in 0 .. got[p] :
                       n <= Frame(p) =>
                          /\ snap[p][n + 1].mem = Timeline[n].mem
                          /\ snap[p][n + 1].section = Save(Timeline[n].score)
  BY DEF ConfirmedIsTrue
<1> DEFINE k == Len(used[p])
           q == Other(p)
           Good(n) == snap[p][n + 1] = Snapshot(Timeline[n].mem, Timeline[n].score)
           Typed(n) == /\ Timeline[n].mem \in Memory /\ Timeline[n].score \in Score
                       /\ Timeline[n].score.latched = Timeline[n].mem.flags.result
           S == {n \in Nat : n <= got[p] /\ n <= k => Good(n) /\ Typed(n)}
<1>0. (p = 0 /\ q = 1) \/ (p = 1 /\ q = 0)
  BY SMT DEF Peer, Other
<1>1. /\ Types /\ k \in Nat /\ got[p] \in Nat /\ q \in Peer
      /\ got[p] <= Len(inputs[q]) /\ k <= Len(inputs[p])
      /\ Len(inputs[p]) \in Nat /\ Len(inputs[q]) \in Nat
      /\ snap[p] \in Seq(Shot) /\ Len(snap[p]) = k + 1
  BY PeerFacts DEF ChainInv, Inv, Types, Fits
<1>2. /\ Timeline[0] = Start
      /\ \A n \in 1 .. Known : Timeline[n] = After(Timeline[n - 1], n)
  BY <1>1, TimelineUnfolds
<1>3. /\ snap[p][1] = Snapshot(Boot, ResetScore(FALSE))
      /\ \A n \in 1 .. k : /\ Link(p, n)
                           /\ n <= got[p] => used[p][n] = inputs[q][n]
  BY DEF ChainInv, Chain
<1>4. \A n \in Nat : n <= got[p] /\ n <= k => n <= Known
  BY <1>1, <1>0 DEF Known
<1> HIDE DEF k, q
<1>5. 0 \in S
  <2>1. Timeline[0].mem = Boot /\ Timeline[0].score = ResetScore(FALSE)
    BY <1>2 DEF Start
  <2>2. Good(0)
    <3>1. 0 + 1 = 1
      OBVIOUS
    <3>2. snap[p][0 + 1] = Snapshot(Boot, ResetScore(FALSE))
      <4> HIDE DEF Good
      <4> QED
        BY <1>3, <3>1
    <3> QED
      BY <2>1, <3>2
  <2>3. Typed(0)
    BY <2>1, ResetTyped, GameAssumption, MemoryAssumption
  <2> HIDE DEF Good, Typed
  <2> QED
    BY <2>2, <2>3
<1>6. ASSUME NEW n \in S PROVE n + 1 \in S
  <2>1. n \in Nat
    OBVIOUS
  <2>2. SUFFICES ASSUME n + 1 <= got[p], n + 1 <= k
                 PROVE  Good(n + 1) /\ Typed(n + 1)
    BY <2>1
  <2>3. Good(n) /\ Typed(n)
    BY <1>1, <2>1, <2>2
  <2>4. n + 1 \in 1 .. k /\ n + 1 \in 1 .. Known /\ (n + 1) - 1 = n /\ (n + 1) + 1 = n + 2
    BY <1>1, <1>4, <2>1, <2>2
  <2>5. Link(p, n + 1) /\ used[p][n + 1] = inputs[q][n + 1]
    BY <1>3, <2>2, <2>4
  <2> DEFINE t == Timeline[n]
             m == Run[ <<t.mem, inputs[0][n + 1], inputs[1][n + 1]>> ]
  <2>6. /\ Timeline[n + 1] = After(t, n + 1)
    BY <1>2, <2>4
  <2>7. Timeline[n + 1].mem = m /\ Timeline[n + 1].score = TickScore(t.score, m)
    BY <2>6 DEF After
  <2>8. snap[p][n + 1].mem = t.mem /\ Load(snap[p][n + 1].section) = t.score
    <3>1. snap[p][n + 1].mem = t.mem /\ snap[p][n + 1].section = Save(t.score)
      BY <2>3 DEF Snapshot
    <3> QED
      BY <2>3, <3>1, SaveLoads
  <2>9. Outcome(p, snap[p][n + 1].mem, inputs[p][n + 1], used[p][n + 1]) = m
    BY <1>0, <2>5, <2>8 DEF Outcome
  <2> HIDE DEF m
  <2>10. snap[p][(n + 1) + 1] = Snapshot(m, TickScore(t.score, m))
    BY <2>5, <2>8, <2>9 DEF Link
  <2>11. Good(n + 1)
    BY <2>7, <2>10
  <2>12. Typed(n + 1)
    <3>1. n + 1 \in 1 .. Len(inputs[p]) /\ n + 1 \in 1 .. Len(inputs[q])
      BY <1>1, <2>1, <2>2
    <3>2. inputs[p][n + 1] \in Input /\ inputs[q][n + 1] \in Input
      BY <1>1, <3>1 DEF Types
    <3>3. inputs[0][n + 1] \in Input /\ inputs[1][n + 1] \in Input
      BY <1>0, <3>2
    <3>4. /\ m \in Memory /\ TickScore(t.score, m) \in Score
          /\ TickScore(t.score, m).latched = m.flags.result
      BY <2>3, <3>3, StepFollows DEF m
    <3> QED
      BY <2>7, <3>4
  <2> QED
    BY <2>11, <2>12
<1>7. S = Nat
  <2> HIDE DEF S
  <2>1. S \in SUBSET Nat
    BY DEF S
  <2> QED
    BY <1>5, <1>6, <2>1, SetInduction
<1>8. ASSUME NEW n \in 0 .. got[p], n <= Frame(p)
      PROVE  /\ snap[p][n + 1].mem = Timeline[n].mem
             /\ snap[p][n + 1].section = Save(Timeline[n].score)
  <2>1. n \in Nat /\ n <= got[p] /\ n <= k
    BY <1>1, <1>8 DEF Frame, k
  <2>2. Good(n)
    BY <1>7, <2>1
  <2> QED
    BY <2>2 DEF Snapshot
<1> QED
  BY <1>8

THEOREM ChainInvariant == Spec => []ChainInv
BY InitChain, NextChain, PTL DEF Spec

\* For every game, window, session length and sequence of inputs: whatever was
\* guessed and simulated again, the confirmed snapshots of a peer, score and latch
\* included, are those of a game nobody disturbed.
THEOREM ConfirmedSnapshotsAreTrue == Spec => []ConfirmedIsTrue
BY ChainInvariant, ChainIsTrue, PTL

PeersShowTheSame ==
    \A n \in Nat :
        (\A p \in Peer : online[p] /\ n <= got[p] /\ n <= Frame(p)) =>
            /\ snap[0][n + 1].mem = snap[1][n + 1].mem
            /\ snap[0][n + 1].section = snap[1][n + 1].section

\* Both peers' snapshots of a frame they have both confirmed are the same: what
\* one shows for good, the other shows.
THEOREM PeersAgree == Spec => []PeersShowTheSame
<1>1. ChainInv /\ ConfirmedIsTrue => PeersShowTheSame
  <2> SUFFICES ASSUME ChainInv, ConfirmedIsTrue, NEW n \in Nat,
                      \A p \in Peer : online[p] /\ n <= got[p] /\ n <= Frame(p)
               PROVE  /\ snap[0][n + 1].mem = snap[1][n + 1].mem
                      /\ snap[0][n + 1].section = snap[1][n + 1].section
    BY DEF PeersShowTheSame
  <2>1. \A p \in Peer : n \in 0 .. got[p]
    BY DEF ChainInv, Inv, Types
  <2>2. \A p \in Peer : /\ snap[p][n + 1].mem = Timeline[n].mem
                        /\ snap[p][n + 1].section = Save(Timeline[n].score)
    BY <2>1 DEF ConfirmedIsTrue
  <2> QED
    BY <2>2 DEF Peer
<1> QED
  BY <1>1, ChainInvariant, ChainIsTrue, PTL

=============================================================================
