-------------------------- MODULE PlayerNameProofs --------------------------
(***************************************************************************)
(* Whatever bytes are given for a name and whatever the limits are, what   *)
(* display_player_name() keeps is displayable, and is what the declarative *)
(* definition of the name keeps.  The invariant Inv adds types, and that   *)
(* letters are only counted when they are kept, so that no accent comes    *)
(* first.  NameInv adds, loop by loop, how what has been read and what is  *)
(* left relate to the strings the definition is made of.                   *)
(*                                                                         *)
(* The definition goes through strings with recursive functions.  What     *)
(* they compute is proved by induction over the set of the numbers, or of  *)
(* the strings, for which it holds.                                        *)
(***************************************************************************)
EXTENDS PlayerName, SequenceTheorems, WellFoundedInduction, TLAPS

Kind == [cp : Nat, size : Nat]

-----------------------------------------------------------------------------
(***************************************************************************)
(* Induction, and the functions that go through a sequence.                *)
(***************************************************************************)
\* Induction over the natural numbers, for a set instead of a predicate.
LEMMA SetInduction ==
    ASSUME NEW S \in SUBSET Nat, 0 \in S, \A n \in S : n + 1 \in S
    PROVE  S = Nat
<1> DEFINE R == OpToRel(<, Nat)
           T == Nat \ S
<1>1. IsWellFoundedOn(R, Nat)
  BY NatLessThanWellFounded
<1>2. SUFFICES ASSUME T # {} PROVE FALSE
  OBVIOUS
<1>3. PICK x \in T : \A y \in T : ~(<<y, x>> \in R)
  <2> HIDE DEF R, T
  <2>1. T \subseteq Nat
    BY DEF T
  <2> QED
    BY <1>1, <1>2, <2>1, WFMin
<1>4. x # 0 /\ x - 1 \in Nat /\ x - 1 \in T
  <2>1. x - 1 \in Nat
    OBVIOUS
  <2> QED
    BY <2>1, x - 1 \in S => (x - 1) + 1 \in S
<1>5. <<x - 1, x>> \in R
  BY <1>4 DEF OpToRel
<1> QED
  BY <1>3, <1>4, <1>5

\* Induction over sequences, the same way.
LEMMA SequenceInduction ==
    ASSUME NEW X, NEW S \in SUBSET Seq(X), << >> \in S,
           \A s \in S : \A x \in X : Append(s, x) \in S
    PROVE  S = Seq(X)
<1> DEFINE K == {n \in Nat : \A s \in Seq(X) : Len(s) = n => s \in S}
<1>1. 0 \in K
  BY EmptySeq
<1>2. ASSUME NEW n \in K PROVE n + 1 \in K
  <2> SUFFICES ASSUME NEW s \in Seq(X), Len(s) = n + 1 PROVE s \in S
    OBVIOUS
  <2>1. s # << >>
    BY EmptySeq
  <2>2. PICK t \in Seq(X), x \in X : s = Append(t, x)
    BY <2>1, SequenceEmptyOrAppend
  <2>3. Len(s) = Len(t) + 1
    BY <2>2, AppendProperties
  <2>4. Len(t) = n
    BY <2>3, LenProperties
  <2> QED
    BY <2>2, <2>4
<1>3. K = Nat
  <2> HIDE DEF K
  <2>1. K \in SUBSET Nat
    BY DEF K
  <2> QED
    BY <1>1, <1>2, <2>1, SetInduction
<1>4. ASSUME NEW s \in Seq(X) PROVE s \in S
  BY <1>3, LenProperties
<1> QED
  BY <1>4

\* A function that takes a step from each number to the next exists.
Steps(f, V, v, n, h) == /\ f \in [0..n -> V] /\ f[0] = v
                        /\ \A i \in 1..n : f[i] = h[<<i, f[i - 1]>>]

LEMMA StepsExist ==
    ASSUME NEW V, NEW v \in V, NEW n \in Nat, NEW h \in [(1..n) \X V -> V]
    PROVE  \E f : Steps(f, V, v, n, h)
<1> DEFINE K == {k \in Nat : k <= n => \E f : Steps(f, V, v, k, h)}
<1>1. 0 \in K
  <2> DEFINE f == [i \in 0..0 |-> v]
  <2>1. Steps(f, V, v, 0, h)
    BY DEF Steps
  <2> HIDE DEF f
  <2> QED
    BY <2>1
<1>2. ASSUME NEW k \in K PROVE k + 1 \in K
  <2>1. k \in Nat
    OBVIOUS
  <2> SUFFICES ASSUME k + 1 <= n PROVE \E f : Steps(f, V, v, k + 1, h)
    OBVIOUS
  <2>2. PICK f : Steps(f, V, v, k, h)
    BY <2>1
  <2> HIDE DEF K
  <2> DEFINE g == [i \in 0..k + 1 |-> IF i = k + 1 THEN h[<<k + 1, f[k]>>] ELSE f[i]]
  <2>3. f[k] \in V /\ h[<<k + 1, f[k]>>] \in V
    <3>1. f[k] \in V
      BY <2>1, <2>2 DEF Steps
    <3>2. <<k + 1, f[k]>> \in (1..n) \X V
      BY <2>1, <3>1
    <3> QED
      BY <3>1, <3>2
  <2>4. g \in [0..k + 1 -> V]
    BY <2>1, <2>2, <2>3 DEF Steps
  <2>5. g[k + 1] = h[<<k + 1, f[k]>>] /\ \A i \in 0..k : g[i] = f[i]
    BY <2>1
  <2> HIDE DEF g
  <2>6. ASSUME NEW i \in 1..k + 1 PROVE g[i] = h[<<i, g[i - 1]>>]
    <3>1. CASE i = k + 1
      <4>1. i - 1 = k /\ k \in 0..k
        BY <2>1, <3>1
      <4> QED
        BY <2>5, <3>1, <4>1
    <3>2. CASE i # k + 1
      <4>1. i \in 1..k /\ i \in 0..k /\ i - 1 \in 0..k
        BY <2>1, <3>2
      <4> QED
        BY <2>2, <2>5, <4>1 DEF Steps
    <3> QED
      BY <3>1, <3>2
  <2>7. g[0] = v
    BY <2>1, <2>2, <2>5 DEF Steps
  <2>8. Steps(g, V, v, k + 1, h)
    BY <2>4, <2>6, <2>7 DEF Steps
  <2> QED
    BY <2>8
<1>3. K = Nat
  <2> HIDE DEF K
  <2>1. K \in SUBSET Nat
    BY DEF K
  <2> QED
    BY <1>1, <1>2, <2>1, SetInduction
<1> QED
  BY <1>3

\* Two such functions agree as far as their steps do.
LEMMA StepsAgree ==
    ASSUME NEW n \in Nat, NEW f, NEW g, f[0] = g[0],
           \A i \in 1..n : f[i - 1] = g[i - 1] => f[i] = g[i]
    PROVE  f[n] = g[n]
<1> DEFINE K == {k \in Nat : k <= n => f[k] = g[k]}
<1>1. 0 \in K
  OBVIOUS
<1>2. ASSUME NEW k \in K PROVE k + 1 \in K
  <2> SUFFICES ASSUME k + 1 <= n PROVE f[k + 1] = g[k + 1]
    OBVIOUS
  <2>1. k \in Nat /\ f[k] = g[k]
    OBVIOUS
  <2>2. k + 1 \in 1..n /\ (k + 1) - 1 = k
    BY <2>1
  <2> QED
    BY <2>1, <2>2
<1>3. K = Nat
  <2> HIDE DEF K
  <2>1. K \in SUBSET Nat
    BY DEF K
  <2> QED
    BY <1>1, <1>2, <2>1, SetInduction
<1> QED
  BY <1>3
-----------------------------------------------------------------------------
(***************************************************************************)
(* Without and Size, one character more.                                   *)
(***************************************************************************)
\* What Without has kept and what Size has added up after one character more.
Kept1(S, t, c) == IF c.cp \in S THEN t ELSE Append(t, c)

\* The function in Without goes through the string one character at a time.
LEMMA WithoutSteps ==
    ASSUME NEW s \in Seq(Kind), NEW S
    PROVE  \E u : /\ u[0] = << >> /\ u[Len(s)] = Without(s, S)
                  /\ \A i \in 0..Len(s) : u[i] \in Seq(Kind)
                  /\ \A i \in 1..Len(s) : u[i] = Kept1(S, u[i - 1], s[i])
<1> DEFINE n == Len(s)
           V == Seq(Kind)
           h == [p \in (1..n) \X V |-> Kept1(S, p[2], s[p[1]])]
           u == CHOOSE g : g = [i \in 0..n |->
                    IF i = 0 THEN << >>
                    ELSE IF s[i].cp \in S THEN g[i - 1] ELSE Append(g[i - 1], s[i])]
<1>1. n \in Nat /\ << >> \in V
  BY EmptySeq, LenProperties
<1>2. h \in [(1..n) \X V -> V]
  <2>1. ASSUME NEW i \in 1..n, NEW t \in V PROVE Kept1(S, t, s[i]) \in V
    <3>1. s[i] \in Kind
      BY ElementOfSeq
    <3> QED
      BY <3>1, AppendProperties DEF Kept1
  <2> QED
    BY <2>1
<1>3. PICK f : Steps(f, V, << >>, n, h)
  <2> HIDE DEF h, V, n
  <2> QED
    BY <1>1, <1>2, StepsExist
<1>4. \A i \in 0..n : f[i] = IF i = 0 THEN << >>
                             ELSE IF s[i].cp \in S THEN f[i - 1]
                             ELSE Append(f[i - 1], s[i])
  <2> SUFFICES ASSUME NEW i \in 0..n, i # 0 PROVE f[i] = Kept1(S, f[i - 1], s[i])
    BY <1>3 DEF Steps, Kept1
  <2>1. i \in 1..n /\ i - 1 \in 0..n
    BY <1>1
  <2>2. f[i] = h[<<i, f[i - 1]>>] /\ f[i - 1] \in V
    <3> HIDE DEF h, V, n
    <3> QED
      BY <1>3, <2>1 DEF Steps
  <2> QED
    BY <2>1, <2>2
<1>5. f = [i \in 0..n |-> IF i = 0 THEN << >>
                          ELSE IF s[i].cp \in S THEN f[i - 1]
                          ELSE Append(f[i - 1], s[i])]
  <2>1. f = [i \in 0..n |-> f[i]]
    BY <1>3 DEF Steps
  <2> HIDE DEF n
  <2> QED
    BY <1>4, <2>1
<1>6. u = [i \in 0..n |-> IF i = 0 THEN << >>
                          ELSE IF s[i].cp \in S THEN u[i - 1]
                          ELSE Append(u[i - 1], s[i])]
  BY <1>5
<1>7. Without(s, S) = u[n]
  BY DEF Without
<1> HIDE DEF u, n
<1>8. u[0] = << >> /\ \A i \in 1..n : u[i] = Kept1(S, u[i - 1], s[i])
  <2>1. u[0] = << >>
    BY <1>1, <1>6
  <2>2. ASSUME NEW i \in 1..n PROVE u[i] = Kept1(S, u[i - 1], s[i])
    <3>1. i \in 0..n /\ i # 0
      BY <1>1
    <3>2. u[i] = IF i = 0 THEN << >>
                 ELSE IF s[i].cp \in S THEN u[i - 1] ELSE Append(u[i - 1], s[i])
      BY <1>6, <3>1
    <3> QED
      BY <3>1, <3>2 DEF Kept1
  <2> QED
    BY <2>1, <2>2
<1>9. \A i \in 0..n : u[i] \in Seq(Kind)
  <2> SUFFICES ASSUME NEW i \in 0..n PROVE u[i] = f[i] /\ f[i] \in V
    OBVIOUS
  <2>1. f[0] = u[0]
    BY <1>3, <1>8 DEF Steps
  <2>2. \A j \in 1..i : f[j - 1] = u[j - 1] => f[j] = u[j]
    <3> SUFFICES ASSUME NEW j \in 1..i, f[j - 1] = u[j - 1] PROVE f[j] = u[j]
      OBVIOUS
    <3>1. j \in 1..n /\ j \in 0..n /\ j # 0
      BY <1>1
    <3> QED
      BY <1>4, <1>8, <3>1 DEF Kept1
  <2>3. f[i] = u[i]
    BY <1>1, <2>1, <2>2, StepsAgree
  <2> QED
    BY <1>3, <2>3 DEF Steps
<1> QED
  BY <1>7, <1>8, <1>9 DEF n

\* Without, for the empty string and one character more.
LEMMA WithoutAppend ==
    ASSUME NEW S
    PROVE  /\ Without(<< >>, S) = << >>
           /\ \A s \in Seq(Kind) : Without(s, S) \in Seq(Kind)
           /\ \A s \in Seq(Kind) : \A c \in Kind :
                 Without(Append(s, c), S) = Kept1(S, Without(s, S), c)
<1>1. Without(<< >>, S) = << >>
  BY WithoutSteps, EmptySeq
<1>2. ASSUME NEW s \in Seq(Kind) PROVE Without(s, S) \in Seq(Kind)
  <2>1. PICK u : u[Len(s)] = Without(s, S) /\ \A i \in 0..Len(s) : u[i] \in Seq(Kind)
    BY WithoutSteps
  <2> QED
    BY <2>1, LenProperties
<1>3. ASSUME NEW s \in Seq(Kind), NEW c \in Kind
      PROVE  Without(Append(s, c), S) = Kept1(S, Without(s, S), c)
  <2> DEFINE t == Append(s, c)
             n == Len(s)
  <2>1. /\ t \in Seq(Kind) /\ Len(t) = n + 1 /\ n \in Nat /\ t[n + 1] = c
        /\ \A i \in 1..n : t[i] = s[i]
    BY AppendProperties, LenProperties
  <2> HIDE DEF t
  <2>2. PICK u : /\ u[0] = << >> /\ u[Len(s)] = Without(s, S)
                 /\ \A i \in 1..Len(s) : u[i] = Kept1(S, u[i - 1], s[i])
    BY WithoutSteps
  <2>3. PICK w : /\ w[0] = << >> /\ w[Len(t)] = Without(t, S)
                 /\ \A i \in 1..Len(t) : w[i] = Kept1(S, w[i - 1], t[i])
    BY <2>1, WithoutSteps
  <2> HIDE DEF n
  <2>4. w[n] = u[n]
    <3>1. \A i \in 1..n : w[i - 1] = u[i - 1] => w[i] = u[i]
      BY <2>1, <2>2, <2>3 DEF n
    <3> QED
      BY <2>1, <2>2, <2>3, <3>1, StepsAgree
  <2>5. w[n + 1] = Kept1(S, w[n], c)
    <3>1. n + 1 \in 1..Len(t) /\ (n + 1) - 1 = n
      BY <2>1
    <3> QED
      BY <2>1, <2>3, <3>1
  <2> QED
    BY <2>1, <2>2, <2>3, <2>4, <2>5 DEF n, t
<1> QED
  BY <1>1, <1>2, <1>3

\* The function in Size goes through the string the same way.
LEMMA SizeSteps ==
    ASSUME NEW s \in Seq(Kind)
    PROVE  \E u : /\ u[0] = 0 /\ u[Len(s)] = Size(s)
                  /\ \A i \in 0..Len(s) : u[i] \in Nat
                  /\ \A i \in 1..Len(s) : u[i] = u[i - 1] + s[i].size
<1> DEFINE n == Len(s)
           h == [p \in (1..n) \X Nat |-> p[2] + s[p[1]].size]
           u == CHOOSE g : g = [i \in 0..n |->
                                  IF i = 0 THEN 0 ELSE g[i - 1] + s[i].size]
<1>1. n \in Nat
  BY LenProperties
<1>2. h \in [(1..n) \X Nat -> Nat]
  <2>1. ASSUME NEW i \in 1..n, NEW m \in Nat PROVE m + s[i].size \in Nat
    <3>1. s[i] \in Kind
      BY ElementOfSeq
    <3> QED
      BY <3>1 DEF Kind
  <2> QED
    BY <2>1
<1>3. PICK f : Steps(f, Nat, 0, n, h)
  <2> HIDE DEF h, n
  <2> QED
    BY <1>1, <1>2, StepsExist
<1>4. \A i \in 0..n : f[i] = IF i = 0 THEN 0 ELSE f[i - 1] + s[i].size
  <2> SUFFICES ASSUME NEW i \in 0..n, i # 0 PROVE f[i] = f[i - 1] + s[i].size
    BY <1>3 DEF Steps
  <2>1. i \in 1..n /\ i - 1 \in 0..n
    BY <1>1
  <2>2. f[i] = h[<<i, f[i - 1]>>] /\ f[i - 1] \in Nat
    <3> HIDE DEF h, n
    <3> QED
      BY <1>3, <2>1 DEF Steps
  <2> QED
    BY <2>1, <2>2
<1>5. f = [i \in 0..n |-> IF i = 0 THEN 0 ELSE f[i - 1] + s[i].size]
  <2>1. f = [i \in 0..n |-> f[i]]
    BY <1>3 DEF Steps
  <2> HIDE DEF n
  <2> QED
    BY <1>4, <2>1
<1>6. u = [i \in 0..n |-> IF i = 0 THEN 0 ELSE u[i - 1] + s[i].size]
  BY <1>5
<1>7. Size(s) = u[n]
  BY DEF Size
<1> HIDE DEF u, n
<1>8. u[0] = 0 /\ \A i \in 1..n : u[i] = u[i - 1] + s[i].size
  BY <1>1, <1>6
<1>9. \A i \in 0..n : u[i] \in Nat
  <2> SUFFICES ASSUME NEW i \in 0..n PROVE u[i] = f[i] /\ f[i] \in Nat
    OBVIOUS
  <2>1. f[0] = u[0]
    BY <1>3, <1>8 DEF Steps
  <2>2. \A j \in 1..i : f[j - 1] = u[j - 1] => f[j] = u[j]
    <3> SUFFICES ASSUME NEW j \in 1..i, f[j - 1] = u[j - 1] PROVE f[j] = u[j]
      OBVIOUS
    <3>1. j \in 1..n /\ j \in 0..n /\ j # 0
      BY <1>1
    <3> QED
      BY <1>4, <1>8, <3>1
  <2>3. f[i] = u[i]
    BY <1>1, <2>1, <2>2, StepsAgree
  <2> QED
    BY <1>3, <2>3 DEF Steps
<1> QED
  BY <1>7, <1>8, <1>9 DEF n

\* Size, for the empty string and one character more.
LEMMA SizeAppend ==
    /\ Size(<< >>) = 0
    /\ \A s \in Seq(Kind) : Size(s) \in Nat
    /\ \A s \in Seq(Kind) : \A c \in Kind : Size(Append(s, c)) = Size(s) + c.size
<1>1. Size(<< >>) = 0
  BY SizeSteps, EmptySeq
<1>2. ASSUME NEW s \in Seq(Kind) PROVE Size(s) \in Nat
  <2>1. PICK u : u[Len(s)] = Size(s) /\ \A i \in 0..Len(s) : u[i] \in Nat
    BY SizeSteps
  <2> QED
    BY <2>1, LenProperties
<1>3. ASSUME NEW s \in Seq(Kind), NEW c \in Kind
      PROVE  Size(Append(s, c)) = Size(s) + c.size
  <2> DEFINE t == Append(s, c)
             n == Len(s)
  <2>1. /\ t \in Seq(Kind) /\ Len(t) = n + 1 /\ n \in Nat /\ t[n + 1] = c
        /\ \A i \in 1..n : t[i] = s[i]
    BY AppendProperties, LenProperties
  <2> HIDE DEF t
  <2>2. PICK u : /\ u[0] = 0 /\ u[Len(s)] = Size(s)
                 /\ \A i \in 1..Len(s) : u[i] = u[i - 1] + s[i].size
    BY SizeSteps
  <2>3. PICK w : /\ w[0] = 0 /\ w[Len(t)] = Size(t)
                 /\ \A i \in 1..Len(t) : w[i] = w[i - 1] + t[i].size
    BY <2>1, SizeSteps
  <2> HIDE DEF n
  <2>4. w[n] = u[n]
    <3>1. \A i \in 1..n : w[i - 1] = u[i - 1] => w[i] = u[i]
      BY <2>1, <2>2, <2>3 DEF n
    <3> QED
      BY <2>1, <2>2, <2>3, <3>1, StepsAgree
  <2>5. w[n + 1] = w[n] + c.size
    <3>1. n + 1 \in 1..Len(t) /\ (n + 1) - 1 = n
      BY <2>1
    <3> QED
      BY <2>1, <2>3, <3>1
  <2> QED
    BY <2>1, <2>2, <2>3, <2>4, <2>5 DEF n, t
<1> QED
  BY <1>1, <1>2, <1>3

-----------------------------------------------------------------------------
(***************************************************************************)
(* A string and its parts.                                                 *)
(***************************************************************************)
\* A character goes from the front of one part to the end of the other.
LEMMA PushOver ==
    ASSUME NEW a \in Seq(Kind), NEW b \in Seq(Kind), NEW c \in Kind
    PROVE  /\ Append(a, c) \in Seq(Kind) /\ <<c>> \o b \in Seq(Kind)
           /\ a \o (<<c>> \o b) = Append(a, c) \o b
<1>1. <<c>> \in Seq(Kind)
  OBVIOUS
<1>2. Append(a, c) = a \o <<c>>
  BY AppendIsConcat
<1>3. (a \o <<c>>) \o b = a \o (<<c>> \o b)
  BY <1>1, ConcatAssociative
<1> QED
  BY <1>1, <1>2, <1>3, AppendProperties, ConcatProperties

\* A string with a character in front of it.
LEMMA Front ==
    ASSUME NEW b \in Seq(Kind), NEW c \in Kind
    PROVE  /\ <<c>> \o b \in Seq(Kind) /\ <<c>> \o b # << >>
           /\ Len(<<c>> \o b) = Len(b) + 1 /\ (<<c>> \o b)[1] = c
           /\ \A i \in 1..Len(b) : (<<c>> \o b)[i + 1] = b[i]
<1>1. <<c>> \in Seq(Kind) /\ Len(<<c>>) = 1 /\ <<c>>[1] = c /\ Len(b) \in Nat
  BY LenProperties
<1>2. /\ <<c>> \o b \in Seq(Kind) /\ Len(<<c>> \o b) = 1 + Len(b)
      /\ \A i \in 1..1 + Len(b) : (<<c>> \o b)[i] = IF i <= 1 THEN <<c>>[i] ELSE b[i - 1]
  BY <1>1, ConcatProperties
<1>3. \A i \in 1..Len(b) : i + 1 \in 1..1 + Len(b) /\ ~(i + 1 <= 1) /\ (i + 1) - 1 = i
  BY <1>1
<1>4. \A i \in 1..Len(b) : (<<c>> \o b)[i + 1] = b[i]
  BY <1>2, <1>3
<1>5. (<<c>> \o b)[1] = c
  <2>1. 1 \in 1..1 + Len(b)
    BY <1>1
  <2> QED
    BY <1>1, <1>2, <2>1
<1>6. <<c>> \o b # << >>
  BY <1>1, <1>2, EmptySeq
<1> QED
  BY <1>1, <1>2, <1>4, <1>5, <1>6

\* The parts of a concatenation.
LEMMA Parts ==
    ASSUME NEW a \in Seq(Kind), NEW b \in Seq(Kind)
    PROVE  /\ a \o b \in Seq(Kind) /\ Len(a) \in 0..Len(a \o b)
           /\ Len(a \o b) = Len(a) + Len(b) /\ Len(a) \in Nat /\ Len(b) \in Nat
           /\ \A i \in 1..Len(a) : (a \o b)[i] = a[i]
           /\ \A i \in 1..Len(b) : (a \o b)[Len(a) + i] = b[i]
           /\ SubSeq(a \o b, 1, Len(a)) = a
           /\ SubSeq(a \o b, Len(a) + 1, Len(a \o b)) = b
<1> DEFINE s == a \o b
           m == Len(a)
           n == Len(b)
<1>1. m \in Nat /\ n \in Nat
  BY LenProperties
<1>2. /\ s \in Seq(Kind) /\ Len(s) = m + n
      /\ \A i \in 1..m + n : s[i] = IF i <= m THEN a[i] ELSE b[i - m]
  BY ConcatProperties
<1>3. \A i \in 1..m + n : s[i] \in Kind
  BY <1>2, ElementOfSeq
<1> HIDE DEF s
<1>4. \A i \in 1..m : s[i] = a[i]
  <2> HIDE DEF m
  <2> QED
    BY <1>1, <1>2
<1>5. \A i \in 1..n : s[m + i] = b[i]
  <2> HIDE DEF m, n
  <2> SUFFICES ASSUME NEW i \in 1..n PROVE s[m + i] = b[i]
    OBVIOUS
  <2>1. m + i \in 1..m + n /\ ~(m + i <= m) /\ (m + i) - m = i
    BY <1>1
  <2> QED
    BY <1>2, <2>1
<1>6. SubSeq(s, 1, m) = a
  <2> DEFINE t == SubSeq(s, 1, m)
  <2>1. /\ t \in Seq(Kind) /\ Len(t) = IF 1 <= m THEN m - 1 + 1 ELSE 0
        /\ \A i \in 1..m - 1 + 1 : t[i] = s[1 + i - 1]
    <3> HIDE DEF m, n
    <3>1. \A i \in 1..m : s[i] \in Kind
      BY <1>1, <1>3
    <3>2. 1 \in Int /\ m \in Int
      BY <1>1
    <3> QED
      BY <3>1, <3>2, SubSeqProperties
  <2> HIDE DEF t
  <2>2. Len(t) = m /\ \A i \in 1..m : t[i] = a[i]
    <3> HIDE DEF m
    <3>1. m - 1 + 1 = m /\ \A i \in 1..m : 1 + i - 1 = i
      BY <1>1
    <3> QED
      BY <1>1, <1>4, <2>1, <3>1
  <2>3. t = a
    BY <2>1, <2>2, SeqEqual
  <2> QED
    BY <2>3 DEF t
<1>7. SubSeq(s, m + 1, Len(s)) = b
  <2> DEFINE t == SubSeq(s, m + 1, m + n)
  <2>1. /\ t \in Seq(Kind)
        /\ Len(t) = IF m + 1 <= m + n THEN (m + n) - (m + 1) + 1 ELSE 0
        /\ \A i \in 1..(m + n) - (m + 1) + 1 : t[i] = s[(m + 1) + i - 1]
    <3> HIDE DEF m, n
    <3>1. \A i \in m + 1..m + n : s[i] \in Kind
      BY <1>1, <1>3
    <3>2. m + 1 \in Int /\ m + n \in Int
      BY <1>1
    <3> QED
      BY <3>1, <3>2, SubSeqProperties
  <2> HIDE DEF t
  <2>2. Len(t) = n /\ \A i \in 1..n : t[i] = b[i]
    <3> HIDE DEF m, n
    <3>1. (m + n) - (m + 1) + 1 = n /\ \A i \in 1..n : (m + 1) + i - 1 = m + i
      BY <1>1
    <3>2. Len(t) = n
      BY <1>1, <2>1
    <3>3. \A i \in 1..n : t[i] = s[(m + 1) + i - 1]
      BY <2>1, <3>1
    <3> QED
      BY <1>5, <3>1, <3>2, <3>3
  <2>3. t = b
    BY <2>1, <2>2, SeqEqual
  <2> QED
    BY <1>2, <2>3 DEF t
<1>8. m \in 0..Len(s)
  <2> HIDE DEF m, n
  <2> QED
    BY <1>1, <1>2
<1> QED
  BY <1>1, <1>2, <1>4, <1>5, <1>6, <1>7, <1>8 DEF s

\* Parts in another grouping, and a character behind the last of them.
LEMMA Regroup ==
    \A a, b, d \in Seq(Kind) : (a \o b) \o d = a \o (b \o d)
BY ConcatAssociative

LEMMA AppendLast ==
    ASSUME NEW a \in Seq(Kind), NEW b \in Seq(Kind), NEW c \in Kind
    PROVE  a \o Append(b, c) = Append(a \o b, c)
<1>1. <<c>> \in Seq(Kind) /\ a \o b \in Seq(Kind)
  BY ConcatProperties
<1>2. Append(b, c) = b \o <<c>> /\ Append(a \o b, c) = (a \o b) \o <<c>>
  BY <1>1, AppendIsConcat
<1> QED
  BY <1>1, <1>2, Regroup

\* Every beginning of a string is a part of it.
LEMMA Beginning ==
    ASSUME NEW s \in Seq(Kind), NEW k \in 0..Len(s)
    PROVE  /\ SubSeq(s, 1, k) \in Seq(Kind) /\ Len(SubSeq(s, 1, k)) = k
           /\ SubSeq(s, k + 1, Len(s)) \in Seq(Kind)
           /\ s = SubSeq(s, 1, k) \o SubSeq(s, k + 1, Len(s))
<1> DEFINE n == Len(s)
           a == SubSeq(s, 1, k)
           b == SubSeq(s, k + 1, n)
<1>1. n \in Nat /\ \A i \in 1..n : s[i] \in Kind
  BY LenProperties, ElementOfSeq
<1>2. a \in Seq(Kind) /\ Len(a) = k
  <2> HIDE DEF n
  <2>1. (\A i \in 1..k : s[i] \in Kind) /\ 1 \in Int /\ k \in Int /\ k \in Nat
    BY <1>1 DEF n
  <2>2. a \in Seq(Kind) /\ Len(a) = IF 1 <= k THEN k - 1 + 1 ELSE 0
    BY <2>1, SubSeqProperties
  <2> QED
    BY <2>1, <2>2
<1>3. b \in Seq(Kind)
  <2> HIDE DEF n
  <2>1. (\A i \in k + 1..n : s[i] \in Kind) /\ k + 1 \in Int /\ n \in Int
    BY <1>1 DEF n
  <2> QED
    BY <2>1, SubSeqProperties
<1>4. a \o b = SubSeq(s, 1, n)
  <2>1. 1 \in 1..n + 1 /\ k \in 1 - 1..n /\ n \in k..n
    BY <1>1
  <2> QED
    BY <2>1, ConcatAdjacentSubSeq
<1>5. SubSeq(s, 1, n) = s
  BY SubSeqFull
<1> QED
  BY <1>2, <1>3, <1>4, <1>5

-----------------------------------------------------------------------------
(***************************************************************************)
(* Without and Size of a concatenation.                                    *)
(***************************************************************************)
\* Without takes a string part by part.
LEMMA WithoutConcat ==
    ASSUME NEW S, NEW a \in Seq(Kind), NEW b \in Seq(Kind)
    PROVE  Without(a \o b, S) = Without(a, S) \o Without(b, S)
<1> DEFINE G == {t \in Seq(Kind) : Without(a \o t, S) = Without(a, S) \o Without(t, S)}
           w == Without(a, S)
<1>0. w \in Seq(Kind)
  BY WithoutAppend
<1>1. << >> \in G
  <2>1. a \o << >> = a /\ w \o << >> = w /\ << >> \in Seq(Kind)
    BY <1>0, ConcatEmptySeq, EmptySeq
  <2>2. Without(<< >>, S) = << >>
    BY WithoutAppend
  <2> QED
    BY <2>1, <2>2
<1>2. ASSUME NEW t \in G, NEW c \in Kind PROVE Append(t, c) \in G
  <2> DEFINE u == Without(t, S)
  <2>1. t \in Seq(Kind) /\ Append(t, c) \in Seq(Kind) /\ <<c>> \in Seq(Kind)
    BY AppendProperties
  <2>2. u \in Seq(Kind) /\ a \o t \in Seq(Kind) /\ w \o u \in Seq(Kind)
    BY <1>0, <2>1, WithoutAppend, ConcatProperties
  <2>3. a \o Append(t, c) = Append(a \o t, c)
    BY <2>1, AppendLast
  <2>4. w \o Append(u, c) = Append(w \o u, c)
    <3> HIDE DEF w, u
    <3> QED
      BY <1>0, <2>2, AppendLast
  <2>5. Without(Append(t, c), S) = Kept1(S, u, c)
    BY <2>1, WithoutAppend
  <2>6. Without(Append(a \o t, c), S) = Kept1(S, Without(a \o t, S), c)
    BY <2>2, WithoutAppend
  <2>7. Kept1(S, w \o u, c) = w \o Kept1(S, u, c)
    <3> HIDE DEF w, u
    <3> QED
      BY <2>4 DEF Kept1
  <2>8. Without(a \o t, S) = w \o u
    OBVIOUS
  <2>9. Without(a \o Append(t, c), S) = w \o Without(Append(t, c), S)
    <3> HIDE DEF w, u
    <3> QED
      BY <2>3, <2>5, <2>6, <2>7, <2>8
  <2> QED
    BY <2>1, <2>9
<1>3. G = Seq(Kind)
  <2>1. G \in SUBSET Seq(Kind)
    OBVIOUS
  <2> HIDE DEF G
  <2> QED
    BY <1>1, <1>2, <2>1, SequenceInduction
<1> QED
  BY <1>3

\* Size adds up part by part.
LEMMA SizeConcat ==
    ASSUME NEW a \in Seq(Kind), NEW b \in Seq(Kind)
    PROVE  Size(a \o b) = Size(a) + Size(b)
<1> DEFINE G == {t \in Seq(Kind) : Size(a \o t) = Size(a) + Size(t)}
<1>0. Size(a) \in Nat
  BY SizeAppend
<1>1. << >> \in G
  <2>1. a \o << >> = a /\ << >> \in Seq(Kind)
    BY ConcatEmptySeq, EmptySeq
  <2>2. Size(<< >>) = 0
    BY SizeAppend
  <2> QED
    BY <1>0, <2>1, <2>2
<1>2. ASSUME NEW t \in G, NEW c \in Kind PROVE Append(t, c) \in G
  <2>1. t \in Seq(Kind) /\ Append(t, c) \in Seq(Kind) /\ <<c>> \in Seq(Kind)
    BY AppendProperties
  <2>2. Size(t) \in Nat /\ a \o t \in Seq(Kind) /\ c.size \in Nat
    BY <2>1, SizeAppend, ConcatProperties DEF Kind
  <2>3. a \o Append(t, c) = Append(a \o t, c)
    BY <2>1, AppendLast
  <2>4. Size(Append(t, c)) = Size(t) + c.size
    BY <2>1, SizeAppend
  <2>5. Size(Append(a \o t, c)) = Size(a \o t) + c.size
    BY <2>2, SizeAppend
  <2>6. Size(a \o t) = Size(a) + Size(t)
    OBVIOUS
  <2>7. Size(a \o Append(t, c)) = Size(a) + Size(Append(t, c))
    BY <1>0, <2>2, <2>3, <2>4, <2>5, <2>6
  <2> QED
    BY <2>1, <2>7
<1>3. G = Seq(Kind)
  <2>1. G \in SUBSET Seq(Kind)
    OBVIOUS
  <2> HIDE DEF G
  <2> QED
    BY <1>1, <1>2, <2>1, SequenceInduction
<1> QED
  BY <1>3

-----------------------------------------------------------------------------
(***************************************************************************)
(* Where Stripped, Fitting and Untrailed cut.                              *)
(***************************************************************************)
AllIn(s, S) == \A i \in 1..Len(s) : s[i].cp \in S

\* AllIn, for the empty string and a character more at either end.
LEMMA AllInEmpty == ASSUME NEW S PROVE AllIn(<< >>, S)
BY EmptySeq DEF AllIn

LEMMA AllInAppend ==
    ASSUME NEW S, NEW s \in Seq(Kind), NEW c \in Kind, AllIn(s, S), c.cp \in S
    PROVE  AllIn(Append(s, c), S)
<1>1. /\ Len(Append(s, c)) = Len(s) + 1 /\ Append(s, c)[Len(s) + 1] = c
      /\ \A i \in 1..Len(s) : Append(s, c)[i] = s[i]
  BY AppendProperties
<1>2. Len(s) \in Nat
  BY LenProperties
<1> QED
  BY <1>1, <1>2 DEF AllIn

LEMMA AllInFront ==
    ASSUME NEW S, NEW s \in Seq(Kind), NEW c \in Kind, AllIn(s, S), c.cp \in S
    PROVE  AllIn(<<c>> \o s, S)
<1>1. /\ Len(<<c>> \o s) = Len(s) + 1 /\ (<<c>> \o s)[1] = c
      /\ \A i \in 1..Len(s) : (<<c>> \o s)[i + 1] = s[i]
  BY Front
<1>2. Len(s) \in Nat
  BY LenProperties
<1> DEFINE t == <<c>> \o s
<1> HIDE DEF t
<1>3. ASSUME NEW i \in 1..Len(s) + 1 PROVE t[i].cp \in S
  <2>1. CASE i = 1
    BY <1>1, <2>1 DEF t
  <2>2. CASE i # 1
    <3>1. i - 1 \in 1..Len(s) /\ (i - 1) + 1 = i
      BY <1>2, <2>2
    <3>2. t[(i - 1) + 1] = s[i - 1]
      BY <1>1, <3>1 DEF t
    <3> QED
      BY <3>1, <3>2 DEF AllIn
  <2> QED
    BY <2>1, <2>2
<1> QED
  BY <1>1, <1>3 DEF AllIn, t

\* Stripped leaves the part behind the first character not of S.
LEMMA StrippedIs ==
    ASSUME NEW S, NEW a \in Seq(Kind), NEW b \in Seq(Kind),
           AllIn(a, S), b # << >> => b[1].cp \notin S
    PROVE  Stripped(a \o b, S) = b
<1> DEFINE s == a \o b
           P(k) == /\ \A i \in 1..k : s[i].cp \in S
                   /\ k < Len(s) => s[k + 1].cp \notin S
           n == CHOOSE k \in 0..Len(s) : P(k)
<1>1. /\ Len(a) \in 0..Len(s) /\ Len(s) = Len(a) + Len(b)
      /\ Len(a) \in Nat /\ Len(b) \in Nat
      /\ \A i \in 1..Len(a) : s[i] = a[i]
      /\ \A i \in 1..Len(b) : s[Len(a) + i] = b[i]
      /\ SubSeq(s, Len(a) + 1, Len(s)) = b
  BY Parts
<1> HIDE DEF s
<1>2. P(Len(a))
  <2>1. \A i \in 1..Len(a) : s[i].cp \in S
    BY <1>1 DEF AllIn
  <2>2. ASSUME Len(a) < Len(s) PROVE s[Len(a) + 1].cp \notin S
    <3>1. 1 \in 1..Len(b)
      BY <1>1, <2>2
    <3>2. b # << >>
      BY <3>1, EmptySeq
    <3> QED
      BY <1>1, <3>1, <3>2
  <2> QED
    BY <2>1, <2>2
<1>3. n \in 0..Len(s) /\ P(n)
  <2> HIDE DEF P
  <2> QED
    BY <1>1, <1>2
<1> HIDE DEF n
<1>4. n = Len(a)
  <2>1. ~(n < Len(a))
    BY <1>1, <1>2, <1>3
  <2>2. ~(n > Len(a))
    BY <1>1, <1>2, <1>3
  <2> HIDE DEF P
  <2> QED
    BY <1>1, <1>3, <2>1, <2>2
<1>5. Stripped(s, S) = SubSeq(s, n + 1, Len(s))
  BY DEF Stripped, n
<1> QED
  BY <1>1, <1>4, <1>5 DEF s

\* Untrailed leaves the part in front of the last spaces.
LEMMA UntrailedIs ==
    ASSUME NEW a \in Seq(Kind), NEW b \in Seq(Kind),
           AllIn(b, {32}), a # << >> => a[Len(a)].cp # 32
    PROVE  Untrailed(a \o b) = a
<1> DEFINE s == a \o b
           P(k) == /\ \A i \in k + 1..Len(s) : s[i].cp = 32
                   /\ k > 0 => s[k].cp # 32
           n == CHOOSE k \in 0..Len(s) : P(k)
<1>1. /\ Len(a) \in 0..Len(s) /\ Len(s) = Len(a) + Len(b)
      /\ Len(a) \in Nat /\ Len(b) \in Nat
      /\ \A i \in 1..Len(a) : s[i] = a[i]
      /\ \A i \in 1..Len(b) : s[Len(a) + i] = b[i]
      /\ SubSeq(s, 1, Len(a)) = a
  BY Parts
<1> HIDE DEF s
<1>2. P(Len(a))
  <2>1. ASSUME NEW i \in Len(a) + 1..Len(s) PROVE s[i].cp = 32
    <3>1. i - Len(a) \in 1..Len(b) /\ Len(a) + (i - Len(a)) = i
      BY <1>1
    <3>2. s[Len(a) + (i - Len(a))] = b[i - Len(a)]
      BY <1>1, <3>1
    <3> QED
      BY <3>1, <3>2 DEF AllIn
  <2>2. ASSUME Len(a) > 0 PROVE s[Len(a)].cp # 32
    <3>1. Len(a) \in 1..Len(a) /\ a # << >>
      BY <1>1, <2>2, EmptySeq
    <3> QED
      BY <1>1, <3>1
  <2> QED
    BY <2>1, <2>2
<1>3. n \in 0..Len(s) /\ P(n)
  <2> HIDE DEF P
  <2> QED
    BY <1>1, <1>2
<1> HIDE DEF n
<1>4. n = Len(a)
  <2>1. ~(n < Len(a))
    BY <1>1, <1>2, <1>3
  <2>2. ~(n > Len(a))
    BY <1>1, <1>2, <1>3
  <2>3. n \in Nat /\ Len(a) \in Nat
    BY <1>1, <1>3
  <2> HIDE DEF P
  <2> QED
    BY <2>1, <2>2, <2>3
<1>5. Untrailed(s) = SubSeq(s, 1, n)
  BY DEF Untrailed, n
<1> QED
  BY <1>1, <1>4, <1>5 DEF s

\* A string fits when its letters and its bytes do.
Fits(s) == Len(Letters(s)) <= MaxChars /\ Size(s) <= MaxBytes

\* What Fits measures are numbers.
LEMMA Measured ==
    ASSUME NEW s \in Seq(Kind)
    PROVE  Letters(s) \in Seq(Kind) /\ Len(Letters(s)) \in Nat /\ Size(s) \in Nat
BY WithoutAppend, SizeAppend, LenProperties DEF Letters

\* What is in front of the end of a string that fits does too.
LEMMA FitsShorter ==
    ASSUME NEW a \in Seq(Kind), NEW b \in Seq(Kind), Fits(a \o b) PROVE Fits(a)
<1>1. Letters(a \o b) = Letters(a) \o Letters(b) /\ Size(a \o b) = Size(a) + Size(b)
  BY WithoutConcat, SizeConcat DEF Letters
<1>2. /\ Letters(a) \in Seq(Kind) /\ Len(Letters(a)) \in Nat /\ Size(a) \in Nat
      /\ Letters(b) \in Seq(Kind) /\ Len(Letters(b)) \in Nat /\ Size(b) \in Nat
  BY Measured
<1>3. Len(Letters(a \o b)) = Len(Letters(a)) + Len(Letters(b))
  BY <1>1, <1>2, ConcatProperties
<1> QED
  BY <1>1, <1>2, <1>3, LimitsAssumption DEF Fits

LEMMA FitsBeginning ==
    ASSUME NEW s \in Seq(Kind), NEW j \in 0..Len(s), NEW k \in 0..j,
           Fits(SubSeq(s, 1, j))
    PROVE  Fits(SubSeq(s, 1, k))
<1>1. /\ SubSeq(s, 1, j) \in Seq(Kind) /\ Len(SubSeq(s, 1, j)) = j
      /\ s = SubSeq(s, 1, j) \o SubSeq(s, j + 1, Len(s))
      /\ SubSeq(s, j + 1, Len(s)) \in Seq(Kind) /\ Len(s) \in Nat
  BY Beginning, LenProperties
<1>2. CASE k = 0
  <2>1. SubSeq(s, 1, 0) = << >>
    BY SubSeqEmpty
  <2>2. << >> \o SubSeq(s, 1, j) = SubSeq(s, 1, j) /\ << >> \in Seq(Kind)
    BY <1>1, ConcatEmptySeq, EmptySeq
  <2>3. Fits(<< >>)
    BY <1>1, <2>2, FitsShorter
  <2> QED
    BY <1>2, <2>1, <2>3
<1>3. CASE k # 0
  <2> DEFINE t == SubSeq(s, 1, j)
  <2>1. /\ SubSeq(t, 1, k) \in Seq(Kind) /\ SubSeq(t, k + 1, Len(t)) \in Seq(Kind)
        /\ t = SubSeq(t, 1, k) \o SubSeq(t, k + 1, Len(t))
    <3> HIDE DEF t
    <3>1. t \in Seq(Kind) /\ k \in 0..Len(t)
      BY <1>1 DEF t
    <3> QED
      BY <3>1, Beginning
  <2>2. SubSeq(t, 1, k) = SubSeq(s, 1, k)
    <3>1. /\ 1 \in 1..Len(s) /\ j \in 1..Len(s) /\ 1 \in 1..(j - 1) + 1 /\ k \in 1..(j - 1) + 1
          /\ (1 + 1) - 1 = 1 /\ (1 + k) - 1 = k
      BY <1>1, <1>3
    <3>2. SubSeq(SubSeq(s, 1, j), 1, k) = SubSeq(s, (1 + 1) - 1, (1 + k) - 1)
      BY <3>1, SubSeqOfSubSeq
    <3> QED
      BY <3>1, <3>2
  <2>3. Fits(SubSeq(t, 1, k))
    <3> HIDE DEF t
    <3>1. Fits(t)
      BY DEF t
    <3> QED
      BY <2>1, <3>1, FitsShorter
  <2> QED
    BY <2>2, <2>3
<1> QED
  BY <1>2, <1>3

\* Fitting leaves the part that fits when one character more does not.
LEMMA FittingIs ==
    ASSUME NEW a \in Seq(Kind), NEW b \in Seq(Kind),
           Fits(a), b # << >> => ~Fits(Append(a, b[1]))
    PROVE  Fitting(a \o b) = a
<1> DEFINE s == a \o b
           P(k) == /\ Fits(SubSeq(s, 1, k))
                   /\ k < Len(s) => ~Fits(SubSeq(s, 1, k + 1))
           n == CHOOSE k \in 0..Len(s) : P(k)
<1>1. /\ Len(a) \in 0..Len(s) /\ Len(s) = Len(a) + Len(b) /\ s \in Seq(Kind)
      /\ Len(a) \in Nat /\ Len(b) \in Nat
      /\ \A i \in 1..Len(b) : s[Len(a) + i] = b[i]
      /\ SubSeq(s, 1, Len(a)) = a
  BY Parts
<1> HIDE DEF s
<1>2. P(Len(a))
  <2>1. ASSUME Len(a) < Len(s) PROVE ~Fits(SubSeq(s, 1, Len(a) + 1))
    <3>1. 1 \in 1..Len(b) /\ b # << >>
      BY <1>1, <2>1, EmptySeq
    <3>2. SubSeq(s, 1, Len(a) + 1) = Append(a, b[1])
      <4>1. /\ 1 \in 1..Len(s) /\ Len(a) + 1 \in 1..Len(s) /\ (Len(a) + 1) - 1 = Len(a)
        BY <1>1, <2>1
      <4>2. SubSeq(s, 1, Len(a) + 1) = SubSeq(s, 1, (Len(a) + 1) - 1) \o <<s[Len(a) + 1]>>
        BY <1>1, <4>1, SubSeqRecursiveSecond
      <4>3. s[Len(a) + 1] = b[1] /\ b[1] \in Kind
        BY <1>1, <3>1, ElementOfSeq
      <4> QED
        BY <1>1, <4>1, <4>2, <4>3, AppendIsConcat
    <3> QED
      BY <3>1, <3>2
  <2> QED
    BY <1>1, <2>1
<1>3. n \in 0..Len(s) /\ P(n)
  <2> HIDE DEF P
  <2> QED
    BY <1>1, <1>2
<1> HIDE DEF n
<1>4. n = Len(a)
  <2>1. ASSUME n < Len(a) PROVE FALSE
    <3>1. n + 1 \in 0..Len(a) /\ n < Len(s)
      BY <1>1, <1>3, <2>1
    <3> QED
      BY <1>1, <1>2, <1>3, <3>1, FitsBeginning
  <2>2. ASSUME n > Len(a) PROVE FALSE
    <3>1. Len(a) + 1 \in 0..n /\ Len(a) < Len(s)
      BY <1>1, <1>3, <2>2
    <3> QED
      BY <1>1, <1>2, <1>3, <3>1, FitsBeginning
  <2>3. n \in Nat /\ Len(a) \in Nat
    BY <1>1, <1>3
  <2> HIDE DEF P
  <2> QED
    BY <2>1, <2>2, <2>3
<1>5. Fitting(s) = SubSeq(s, 1, n)
  <2> DEFINE Q(k) == /\ Len(Letters(SubSeq(s, 1, k))) <= MaxChars
                     /\ Size(SubSeq(s, 1, k)) <= MaxBytes
                     /\ k < Len(s) => \/ Len(Letters(SubSeq(s, 1, k + 1))) > MaxChars
                                      \/ Size(SubSeq(s, 1, k + 1)) > MaxBytes
  <2>1. ASSUME NEW k \in 0..Len(s) PROVE P(k) <=> Q(k)
    <3>1. ASSUME k < Len(s)
          PROVE  ~Fits(SubSeq(s, 1, k + 1)) <=>
                     \/ Len(Letters(SubSeq(s, 1, k + 1))) > MaxChars
                     \/ Size(SubSeq(s, 1, k + 1)) > MaxBytes
      <4>1. SubSeq(s, 1, k + 1) \in Seq(Kind)
        <5>1. k + 1 \in 0..Len(s)
          BY <1>1, <3>1
        <5> QED
          BY <1>1, <5>1, Beginning
      <4>2. Len(Letters(SubSeq(s, 1, k + 1))) \in Nat /\ Size(SubSeq(s, 1, k + 1)) \in Nat
        BY <4>1, Measured
      <4> QED
        BY <4>2, LimitsAssumption DEF Fits
    <3> QED
      BY <3>1 DEF Fits
  <2>2. Fitting(s) = SubSeq(s, 1, CHOOSE k \in 0..Len(s) : Q(k))
    BY DEF Fitting
  <2>3. (CHOOSE k \in 0..Len(s) : Q(k)) = CHOOSE k \in 0..Len(s) : P(k)
    <3> HIDE DEF P, Q
    <3> QED
      BY <2>1
  <2> QED
    BY <2>2, <2>3 DEF n
<1> QED
  BY <1>1, <1>4, <1>5 DEF s

-----------------------------------------------------------------------------
(***************************************************************************)
(* name_codepoint(): what one call returns.                                *)
(***************************************************************************)
\* The six payload bits of a byte.
LEMMA LowBits ==
    ASSUME NEW c \in Byte
    PROVE  /\ c % 64 \in Int /\ c % 64 >= 0 /\ c % 64 < 64
           /\ c % 16 \in Int /\ c % 16 >= 0 /\ c % 16 < 16
           /\ c % 8 \in Int /\ c % 8 >= 0 /\ c % 8 < 8
BY SMT DEF Byte

\* The first byte of two leaves no overlong form.
LEMMA FirstByte ==
    ASSUME NEW c \in Byte
    PROVE  /\ c \in Int /\ c >= 0 /\ c <= 255
           /\ Extra(c) \in 0..3
           /\ Extra(c) = 1 => c % 32 \in Int /\ c % 32 >= 2 /\ c % 32 < 32
<1>1. c \in Int /\ c >= 0 /\ c <= 255
  BY SMT DEF Byte
<1>2. Extra(c) \in 0..3
  BY SMT DEF Extra
<1>3. Extra(c) = 1 => c >= 194 /\ c <= 223
  BY SMT, <1>1 DEF Extra
<1>4. c >= 194 /\ c <= 223 => c % 32 \in Int /\ c % 32 >= 2 /\ c % 32 < 32
  BY SMT, <1>1
<1> QED
  BY <1>1, <1>2, <1>3, <1>4

\* Six bits more.
LEMMA SixBits ==
    ASSUME NEW a \in Int, NEW b \in Int, a >= 0, b >= 0, b < 64
    PROVE  /\ (a * 64) + b \in Int /\ (a * 64) + b >= 0
           /\ a >= 2 => (a * 64) + b >= 128
           /\ a < 16 => (a * 64) + b < 1024
           /\ a < 32 => (a * 64) + b < 2048
           /\ a < 1024 => (a * 64) + b < 65536
BY SMT

\* The loop of name_codepoint() stops behind the last continuation byte.
LEMMA TakenExists ==
    ASSUME NEW text \in Seq(Byte), NEW i \in 1..Len(text),
           NEW extra \in 1..3, i + extra <= Len(text)
    PROVE  /\ Taken(text, i, extra) \in 0..extra
           /\ \A k \in 1..Taken(text, i, extra) : Continues(text[i + k])
<1> DEFINE P(n) == /\ n \in 0..extra
                   /\ \A k \in 1..n : Continues(text[i + k])
                   /\ n < extra => ~Continues(text[i + n + 1])
<1>1. \E n \in 0..extra : P(n)
  <2>1. CASE ~Continues(text[i + 1])
    <3>1. P(0)
      BY <2>1
    <3> QED
      BY <3>1
  <2>2. CASE Continues(text[i + 1]) /\ (extra = 1 \/ ~Continues(text[i + 2]))
    <3>1. P(1)
      BY <2>2
    <3> QED
      BY <3>1
  <2>3. CASE /\ Continues(text[i + 1]) /\ extra # 1 /\ Continues(text[i + 2])
             /\ extra = 2 \/ ~Continues(text[i + 3])
    <3>1. P(2)
      BY <2>3
    <3> QED
      BY <3>1
  <2>4. CASE /\ Continues(text[i + 1]) /\ Continues(text[i + 2])
             /\ extra = 3 /\ Continues(text[i + 3])
    <3>1. P(3)
      BY <2>4
    <3> QED
      BY <3>1
  <2> QED
    BY <2>1, <2>2, <2>3, <2>4
<1>2. P(CHOOSE n \in 0..extra : P(n))
  BY <1>1
<1>3. Taken(text, i, extra) = CHOOSE n \in 0..extra : P(n)
  BY DEF Taken
<1> QED
  BY <1>2, <1>3

\* What one call of name_codepoint() returns and where it leaves `at'.
LEMMA Decoded ==
    ASSUME NEW text \in Seq(Byte), NEW i \in 1..Len(text)
    PROVE  /\ Decode(text, i).next \in i + 1 .. Len(text) + 1
           /\ Decode(text, i).cp \in Nat
           /\ ~Dropped(Decode(text, i).cp) =>
                 WellFormed([cp   |-> Decode(text, i).cp,
                             size |-> Decode(text, i).next - i])
<1> DEFINE first == text[i]
           extra == Extra(first)
           cp    == Value(text, i, extra)
<1>1. /\ first \in Byte /\ i \in Nat /\ Len(text) \in Nat
      /\ \A k \in 1..Len(text) : text[k] \in Byte
  OBVIOUS
<1>0. first \in Int /\ first >= 0 /\ first <= 255 /\ extra \in 0..3
  BY <1>1, FirstByte
<1>2. CASE first < 128
  <2>1. Decode(text, i) = [cp |-> first, next |-> i + 1]
    BY SMT, <1>2 DEF Decode, At
  <2> QED
    BY SMT, <1>0, <1>1, <1>2, <2>1 DEF WellFormed, Utf8Size, Surrogate
<1>3. CASE ~(first < 128) /\ (extra = 0 \/ i + extra > Len(text))
  <2>1. Decode(text, i) = [cp |-> Bad, next |-> i + 1]
    BY SMT, <1>3 DEF Decode, At
  <2> QED
    BY SMT, <1>1, <2>1 DEF Bad, Dropped
<1>4. CASE ~(first < 128) /\ extra \in 1..3 /\ i + extra <= Len(text)
  <2> DEFINE n == Taken(text, i, extra)
  <2>1. n \in 0..extra /\ \A k \in 1..n : Continues(text[i + k])
    BY SMT, <1>4, TakenExists
  <2>2. CASE n < extra
    <3>1. Decode(text, i) = [cp |-> Bad, next |-> i + 1 + n]
      BY SMT, <1>1, <1>4, <2>2 DEF Decode, At
    <3> QED
      BY SMT, <1>1, <1>4, <2>1, <2>2, <3>1 DEF Bad, Dropped
  <2>3. CASE n = extra
    <3>1. Decode(text, i) =
            [cp |-> IF Forbidden(cp, extra) THEN Bad ELSE cp,
             next |-> i + 1 + extra]
      BY SMT, <1>1, <1>4, <2>3 DEF Decode, At
    <3>2. CASE extra = 1
      <4>1. text[i + 1] \in Byte
        BY SMT, <1>1, <1>4, <3>2
      <4>2. cp = ((first % 32) * 64) + (text[i + 1] % 64)
        BY SMT, <3>2 DEF Value
      <4>3. first % 32 \in Int /\ first % 32 >= 2 /\ first % 32 < 32
        BY <1>1, <3>2, FirstByte
      <4>4. cp \in Int /\ cp >= 128 /\ cp < 2048
        <5> DEFINE a == first % 32  b == text[i + 1] % 64
        <5>1. b \in Int /\ b >= 0 /\ b < 64
          BY <4>1, LowBits
        <5>2. a \in Int /\ a >= 2 /\ a < 32 /\ cp = (a * 64) + b
          BY <4>2, <4>3
        <5> HIDE DEF a, b, cp
        <5> QED
          BY SMT, <5>1, <5>2, SixBits
      <4>5. Utf8Size(cp) = 1 + extra /\ ~Surrogate(cp)
        BY SMT, <4>4, <3>2 DEF Utf8Size, Surrogate
      <4> HIDE DEF cp, extra, first
      <4> QED
        BY SMT, <1>1, <1>4, <3>1, <3>2, <4>4, <4>5
        DEF WellFormed, Bad, Dropped
    <3>3. CASE extra = 2
      <4>1. text[i + 1] \in Byte /\ text[i + 2] \in Byte
        BY SMT, <1>1, <1>4, <3>3
      <4>2. cp = ((((first % 16) * 64) + (text[i + 1] % 64)) * 64)
                    + (text[i + 2] % 64)
        BY SMT, <3>3 DEF Value
      <4>3. cp \in Int /\ cp >= 0 /\ cp < 65536
        <5> DEFINE a == first % 16
                   b == text[i + 1] % 64
                   c == text[i + 2] % 64
        <5>1. b \in Int /\ b >= 0 /\ b < 64 /\ c \in Int /\ c >= 0 /\ c < 64
          BY <4>1, LowBits
        <5>2. a \in Int /\ a >= 0 /\ a < 16
          BY <1>1, LowBits
        <5>3. cp = (((a * 64) + b) * 64) + c
          BY <4>2
        <5> HIDE DEF a, b, c, cp
        <5>4. (a * 64) + b \in Int /\ (a * 64) + b >= 0 /\ (a * 64) + b < 1024
          BY <5>1, <5>2, SixBits
        <5> QED
          BY SMT, <5>1, <5>3, <5>4, SixBits
      <4>4. ~Forbidden(cp, extra) => Utf8Size(cp) = 1 + extra /\ ~Surrogate(cp)
        BY SMT, <4>3, <3>3 DEF Utf8Size, Forbidden
      <4> HIDE DEF cp, extra, first
      <4> QED
        BY SMT, <1>1, <1>4, <3>1, <3>3, <4>3, <4>4 DEF WellFormed, Bad, Dropped
    <3>4. CASE extra = 3
      <4>1. /\ text[i + 1] \in Byte /\ text[i + 2] \in Byte
            /\ text[i + 3] \in Byte
        BY SMT, <1>1, <1>4, <3>4
      <4>2. cp = ((((((first % 8) * 64) + (text[i + 1] % 64)) * 64)
                    + (text[i + 2] % 64)) * 64) + (text[i + 3] % 64)
        BY SMT, <3>4 DEF Value
      <4>3. cp \in Int /\ cp >= 0
        <5> DEFINE a == first % 8
                   b == text[i + 1] % 64
                   c == text[i + 2] % 64
                   d == text[i + 3] % 64
        <5>1. /\ b \in Int /\ b >= 0 /\ b < 64 /\ c \in Int /\ c >= 0 /\ c < 64
              /\ d \in Int /\ d >= 0 /\ d < 64
          BY <4>1, LowBits
        <5>2. a \in Int /\ a >= 0
          BY <1>1, LowBits
        <5>3. cp = (((((a * 64) + b) * 64) + c) * 64) + d
          BY <4>2
        <5> HIDE DEF a, b, c, d, cp
        <5> QED
          BY SMT, <5>1, <5>2, <5>3
      <4>4. ~Forbidden(cp, extra) => /\ Utf8Size(cp) = 1 + extra
                                     /\ cp <= 1114111 /\ ~Surrogate(cp)
        BY SMT, <4>3, <3>4 DEF Utf8Size, Forbidden
      <4> HIDE DEF cp, extra, first
      <4> QED
        BY SMT, <1>1, <1>4, <3>1, <3>4, <4>3, <4>4 DEF WellFormed, Bad, Dropped
    <3> QED
      BY SMT, <1>4, <3>2, <3>3, <3>4
  <2> QED
    BY SMT, <2>1, <2>2, <2>3, <1>4
<1> QED
  BY <1>0, <1>2, <1>3, <1>4

-----------------------------------------------------------------------------
(***************************************************************************)
(* The characters behind a place in a string.                              *)
(***************************************************************************)
Char(text, i) == [cp |-> Decode(text, i).cp, size |-> Decode(text, i).next - i]

From(text) == CHOOSE from :
    from = [i \in 1..Len(text) + 1 |->
                IF i > Len(text) THEN << >>
                ELSE LET d == Decode(text, i)
                     IN <<[cp |-> d.cp, size |-> d.next - i]>> \o from[d.next]]

\* From is the function that Characters goes through its string with.
LEMMA CharactersFrom == ASSUME NEW text PROVE Characters(text) = From(text)[1]
BY DEF Characters, From

\* Every character has its place, and the next one lies behind it.
LEMMA CharKind ==
    ASSUME NEW text \in Seq(Byte), NEW i \in 1..Len(text)
    PROVE  Char(text, i) \in Kind /\ Decode(text, i).next \in i + 1..Len(text) + 1
<1>1. Decode(text, i).next \in i + 1..Len(text) + 1 /\ Decode(text, i).cp \in Nat
  BY Decoded
<1>2. Len(text) \in Nat
  BY LenProperties
<1>3. Decode(text, i).next - i \in Nat
  BY <1>1, <1>2
<1> QED
  BY <1>1, <1>3 DEF Char, Kind

\* Induction from behind the end of a string to its first byte.
LEMMA Downward ==
    ASSUME NEW n \in Nat, NEW S, n + 1 \in S,
           \A i \in 1..n : (\A j \in i + 1..n + 1 : j \in S) => i \in S
    PROVE  \A i \in 1..n + 1 : i \in S
<1> DEFINE K == {d \in Nat : \A j \in 1..n + 1 : (n + 1) - j <= d => j \in S}
<1>1. 0 \in K
  <2> SUFFICES ASSUME NEW j \in 1..n + 1, (n + 1) - j <= 0 PROVE j \in S
    OBVIOUS
  <2>1. j = n + 1
    OBVIOUS
  <2> QED
    BY <2>1
<1>2. ASSUME NEW d \in K PROVE d + 1 \in K
  <2>1. d \in Nat /\ \A j \in 1..n + 1 : (n + 1) - j <= d => j \in S
    OBVIOUS
  <2> HIDE DEF K
  <2>2. ASSUME NEW i \in 1..n + 1, (n + 1) - i <= d + 1 PROVE i \in S
    <3>1. CASE (n + 1) - i <= d
      BY <2>1, <3>1
    <3>2. CASE ~((n + 1) - i <= d)
      <4>1. i \in 1..n
        BY <2>1, <3>2
      <4>2. \A j \in i + 1..n + 1 : j \in S
        BY <2>1, <2>2, <4>1
      <4> QED
        BY <4>1, <4>2
    <3> QED
      BY <3>1, <3>2
  <2> QED
    BY <2>1, <2>2 DEF K
<1>3. K = Nat
  <2> HIDE DEF K
  <2>1. K \in SUBSET Nat
    BY DEF K
  <2> QED
    BY <1>1, <1>2, <2>1, SetInduction
<1>4. n \in K
  BY <1>3
<1> QED
  BY <1>4

\* From takes one character after the other.
LEMMA FromSteps ==
    ASSUME NEW text \in Seq(Byte)
    PROVE  /\ From(text)[Len(text) + 1] = << >>
           /\ \A i \in 1..Len(text) :
                 From(text)[i] = <<Char(text, i)>> \o From(text)[Decode(text, i).next]
<1> DEFINE n == Len(text)
           B(f, i) == IF i > n THEN << >>
                      ELSE <<Char(text, i)>> \o f[Decode(text, i).next]
           K == {d \in Nat : d <= n => \E f : \A i \in (n + 1) - d..n + 1 : f[i] = B(f, i)}
<1>1. n \in Nat /\ \A i \in 1..n : Decode(text, i).next \in i + 1..n + 1
  BY LenProperties, CharKind
<1> HIDE DEF n
<1>2. 0 \in K
  <2> DEFINE f == [i \in 1..n + 1 |-> << >>]
  <2>1. \A i \in (n + 1) - 0..n + 1 : f[i] = B(f, i)
    BY <1>1
  <2> HIDE DEF f, B
  <2> QED
    BY <2>1
<1>3. ASSUME NEW d \in K PROVE d + 1 \in K
  <2>1. d \in Nat
    OBVIOUS
  <2> SUFFICES ASSUME d + 1 <= n
               PROVE  \E f : \A i \in (n + 1) - (d + 1)..n + 1 : f[i] = B(f, i)
    OBVIOUS
  <2>2. PICK f : \A i \in (n + 1) - d..n + 1 : f[i] = B(f, i)
    <3> HIDE DEF B
    <3> QED
      BY <1>1, <2>1
  <2> HIDE DEF K
  <2> DEFINE m == n - d
             g == [j \in 1..n + 1 |-> IF j = m THEN B(f, m) ELSE f[j]]
  <2>3. m \in 1..n /\ (n + 1) - (d + 1) = m /\ (n + 1) - d = m + 1
    BY <1>1, <2>1
  <2>4. g[m] = B(f, m) /\ \A j \in m + 1..n + 1 : g[j] = f[j]
    <3> HIDE DEF B, m
    <3> QED
      BY <1>1, <2>3
  <2> HIDE DEF g, m
  <2>5. ASSUME NEW i \in m..n + 1 PROVE g[i] = B(g, i)
    <3>1. i <= n => Decode(text, i).next \in i + 1..n + 1 /\ i + 1 >= m + 1
      BY <1>1, <2>3
    <3>2. i <= n => g[Decode(text, i).next] = f[Decode(text, i).next]
      BY <1>1, <2>3, <2>4, <3>1
    <3>3. B(g, i) = B(f, i)
      BY <1>1, <2>3, <3>2
    <3>4. CASE i = m
      BY <2>4, <3>3, <3>4
    <3>5. CASE i # m
      <4>1. i \in m + 1..n + 1
        BY <1>1, <2>3, <3>5
      <4> HIDE DEF B
      <4> QED
        BY <2>2, <2>3, <2>4, <3>3, <4>1
    <3> QED
      BY <3>4, <3>5
  <2>6. \A i \in (n + 1) - (d + 1)..n + 1 : g[i] = B(g, i)
    <3> HIDE DEF B
    <3> QED
      BY <2>3, <2>5
  <2> HIDE DEF B
  <2> QED
    BY <2>6
<1>4. K = Nat
  <2> HIDE DEF K
  <2>1. K \in SUBSET Nat
    BY DEF K
  <2> QED
    BY <1>2, <1>3, <2>1, SetInduction
<1>5. PICK f : \A i \in 1..n + 1 : f[i] = B(f, i)
  <2> HIDE DEF B
  <2>1. n \in K
    BY <1>1, <1>4
  <2>2. (n + 1) - n = 1
    BY <1>1
  <2> QED
    BY <2>1, <2>2
<1> DEFINE g == [i \in 1..n + 1 |-> f[i]]
<1>6. g = [i \in 1..n + 1 |-> B(g, i)]
  <2>1. ASSUME NEW i \in 1..n + 1 PROVE f[i] = B(g, i)
    <3>1. i <= n => Decode(text, i).next \in 1..n + 1
      BY <1>1
    <3>2. B(g, i) = B(f, i)
      BY <1>1, <3>1
    <3> HIDE DEF B, g
    <3> QED
      BY <1>5, <3>2
  <2> HIDE DEF B
  <2> QED
    BY <2>1
<1> DEFINE u == CHOOSE from : from = [i \in 1..n + 1 |-> B(from, i)]
<1>7. From(text) = u
  BY DEF From, Char, n
<1>8. u = [i \in 1..n + 1 |-> B(u, i)]
  <2> HIDE DEF B, g
  <2> QED
    BY <1>6
<1> HIDE DEF u
<1>9. u[n + 1] = << >>
  <2>1. n + 1 \in 1..n + 1 /\ n + 1 > n
    BY <1>1
  <2> QED
    BY <1>8, <2>1
<1>10. ASSUME NEW i \in 1..n
       PROVE  u[i] = <<Char(text, i)>> \o u[Decode(text, i).next]
  <2>1. i \in 1..n + 1 /\ ~(i > n)
    BY <1>1
  <2>2. u[i] = B(u, i)
    <3> HIDE DEF B
    <3> QED
      BY <1>8, <2>1
  <2> QED
    BY <2>1, <2>2
<1> QED
  BY <1>7, <1>9, <1>10 DEF n

\* What it returns is a string of characters.
LEMMA FromTyped ==
    ASSUME NEW text \in Seq(Byte), NEW i \in 1..Len(text) + 1
    PROVE  From(text)[i] \in Seq(Kind)
<1> DEFINE n == Len(text)
           S == {j \in 1..n + 1 : From(text)[j] \in Seq(Kind)}
<1>1. n \in Nat
  BY LenProperties
<1>2. n + 1 \in S
  <2>1. From(text)[n + 1] = << >> /\ << >> \in Seq(Kind)
    BY FromSteps, EmptySeq
  <2>2. n + 1 \in 1..n + 1
    BY <1>1
  <2> QED
    BY <2>1, <2>2
<1>3. ASSUME NEW j \in 1..n, \A k \in j + 1..n + 1 : k \in S PROVE j \in S
  <2>1. From(text)[j] = <<Char(text, j)>> \o From(text)[Decode(text, j).next]
    BY FromSteps
  <2>2. Char(text, j) \in Kind /\ Decode(text, j).next \in j + 1..n + 1
    BY CharKind
  <2>3. From(text)[Decode(text, j).next] \in Seq(Kind)
    BY <1>3, <2>2
  <2>4. From(text)[j] \in Seq(Kind)
    BY <2>1, <2>2, <2>3, Front
  <2> QED
    BY <1>1, <2>4
<1>4. \A j \in 1..n + 1 : j \in S
  <2> HIDE DEF S, n
  <2> QED
    BY <1>1, <1>2, <1>3, Downward
<1> QED
  BY <1>4

-----------------------------------------------------------------------------
(***************************************************************************)
(* What each loop has read, as a relation of strings.                      *)
(***************************************************************************)
\* r is what is left of s behind characters of S.
Behind(s, r, S) == \E read \in Seq(Kind) : s = read \o r /\ AllIn(read, S)

\* res is what the loop of the letters keeps of body in front of r.
Picked(body, r, res) ==
    \E read \in Seq(Kind), accents \in Seq(Kind) :
        /\ body = read \o r
        /\ Without(read, Controls) = accents \o res
        /\ AllIn(accents, Accents)

\* s is res and spaces.
Spaced(s, res) == \E spaces \in Seq(Kind) : s = res \o spaces /\ AllIn(spaces, {32})

\* Behind: nothing is read yet, one character is read, the loop ends.
LEMMA BehindStart == ASSUME NEW S, NEW s \in Seq(Kind) PROVE Behind(s, s, S)
<1>1. << >> \in Seq(Kind) /\ << >> \o s = s /\ AllIn(<< >>, S)
  BY EmptySeq, ConcatEmptySeq, AllInEmpty
<1> QED
  BY <1>1 DEF Behind

LEMMA BehindMore ==
    ASSUME NEW S, NEW s, NEW r \in Seq(Kind), NEW c \in Kind,
           Behind(s, <<c>> \o r, S), c.cp \in S
    PROVE  Behind(s, r, S)
<1>1. PICK read \in Seq(Kind) : s = read \o (<<c>> \o r) /\ AllIn(read, S)
  BY DEF Behind
<1>2. Append(read, c) \in Seq(Kind) /\ s = Append(read, c) \o r
  BY <1>1, PushOver
<1>3. AllIn(Append(read, c), S)
  BY <1>1, AllInAppend
<1> QED
  BY <1>2, <1>3 DEF Behind

LEMMA BehindEnd ==
    ASSUME NEW S, NEW s, NEW r \in Seq(Kind), Behind(s, r, S),
           r # << >> => r[1].cp \notin S
    PROVE  Stripped(s, S) = r
BY StrippedIs DEF Behind

\* Picked: nothing is read yet.
LEMMA PickedStart == ASSUME NEW body \in Seq(Kind) PROVE Picked(body, body, << >>)
<1>1. /\ << >> \in Seq(Kind) /\ << >> \o body = body /\ AllIn(<< >>, Accents)
      /\ << >> \o << >> = << >> /\ Without(<< >>, Controls) = << >>
  BY EmptySeq, ConcatEmptySeq, AllInEmpty, WithoutAppend
<1> QED
  BY <1>1 DEF Picked

\* A control character is read and not kept.
LEMMA PickedControl ==
    ASSUME NEW body, NEW r \in Seq(Kind), NEW c \in Kind, NEW res,
           Picked(body, <<c>> \o r, res), c.cp \in Controls
    PROVE  Picked(body, r, res)
<1>1. PICK read \in Seq(Kind), accents \in Seq(Kind) :
            /\ body = read \o (<<c>> \o r)
            /\ Without(read, Controls) = accents \o res
            /\ AllIn(accents, Accents)
  BY DEF Picked
<1>2. Append(read, c) \in Seq(Kind) /\ body = Append(read, c) \o r
  BY <1>1, PushOver
<1>3. Without(Append(read, c), Controls) = Without(read, Controls)
  BY WithoutAppend DEF Kept1
<1> QED
  BY <1>1, <1>2, <1>3 DEF Picked

\* An accent in front of the first letter is read and not kept.
LEMMA PickedAccent ==
    ASSUME NEW body, NEW r \in Seq(Kind), NEW c \in Kind,
           Picked(body, <<c>> \o r, << >>), c.cp \notin Controls, c.cp \in Accents
    PROVE  Picked(body, r, << >>)
<1>1. PICK read \in Seq(Kind), accents \in Seq(Kind) :
            /\ body = read \o (<<c>> \o r)
            /\ Without(read, Controls) = accents \o << >>
            /\ AllIn(accents, Accents)
  BY DEF Picked
<1>2. Append(read, c) \in Seq(Kind) /\ body = Append(read, c) \o r
  BY <1>1, PushOver
<1>3. Without(Append(read, c), Controls) = Append(Without(read, Controls), c)
  BY WithoutAppend DEF Kept1
<1>4. accents \o << >> = accents /\ Append(accents, c) \in Seq(Kind)
  BY ConcatEmptySeq, AppendProperties
<1>5. Append(accents, c) \o << >> = Append(accents, c)
  BY <1>4, ConcatEmptySeq
<1>6. AllIn(Append(accents, c), Accents)
  BY <1>1, AllInAppend
<1>7. Without(Append(read, c), Controls) = Append(accents, c) \o << >>
  BY <1>1, <1>3, <1>4, <1>5
<1> QED
  BY <1>2, <1>4, <1>6, <1>7 DEF Picked

\* Every other character is kept.
LEMMA PickedMore ==
    ASSUME NEW body, NEW r \in Seq(Kind), NEW c \in Kind, NEW res \in Seq(Kind),
           Picked(body, <<c>> \o r, res), c.cp \notin Controls
    PROVE  Picked(body, r, Append(res, c))
<1>1. PICK read \in Seq(Kind), accents \in Seq(Kind) :
            /\ body = read \o (<<c>> \o r)
            /\ Without(read, Controls) = accents \o res
            /\ AllIn(accents, Accents)
  BY DEF Picked
<1>2. Append(read, c) \in Seq(Kind) /\ body = Append(read, c) \o r
  BY <1>1, PushOver
<1>3. Without(Append(read, c), Controls) = Append(Without(read, Controls), c)
  BY WithoutAppend DEF Kept1
<1>4. Append(accents \o res, c) = accents \o Append(res, c)
  BY AppendLast
<1>5. Without(Append(read, c), Controls) = accents \o Append(res, c)
  BY <1>1, <1>3, <1>4
<1> QED
  BY <1>1, <1>2, <1>5 DEF Picked

\* When the string ends, or its next character does not fit, what is kept is
\* the part of it that fits.
LEMMA PickedEnd ==
    ASSUME NEW body, NEW r \in Seq(Kind), NEW res \in Seq(Kind),
           Picked(body, r, res), Fits(res),
           res # << >> => res[1].cp \notin Accents,
           r = << >> \/ \E c \in Kind, t \in Seq(Kind) :
                           /\ r = <<c>> \o t /\ c.cp \notin Controls
                           /\ res = << >> => c.cp \notin Accents
                           /\ ~Fits(Append(res, c))
    PROVE  Fitting(Stripped(Without(body, Controls), Accents)) = res
<1>1. PICK read \in Seq(Kind), accents \in Seq(Kind) :
            /\ body = read \o r
            /\ Without(read, Controls) = accents \o res
            /\ AllIn(accents, Accents)
  BY DEF Picked
<1> DEFINE w == Without(r, Controls)
<1>2. w \in Seq(Kind)
  BY WithoutAppend
<1>3. w # << >> => /\ ~Fits(Append(res, w[1]))
                   /\ res = << >> => w[1].cp \notin Accents
  <2>1. CASE r = << >>
    BY <2>1, WithoutAppend
  <2>2. CASE r # << >>
    <3>1. PICK c \in Kind, t \in Seq(Kind) :
              /\ r = <<c>> \o t /\ c.cp \notin Controls
              /\ res = << >> => c.cp \notin Accents
              /\ ~Fits(Append(res, c))
      BY <2>2
    <3>2. <<c>> \in Seq(Kind) /\ << >> \in Seq(Kind) /\ Append(<< >>, c) = <<c>>
      BY EmptySeq
    <3>3. Without(<<c>>, Controls) = <<c>>
      <4>1. Without(<< >>, Controls) = << >>
        BY WithoutAppend
      <4>2. Without(Append(<< >>, c), Controls)
                = Kept1(Controls, Without(<< >>, Controls), c)
        BY <3>2, WithoutAppend
      <4> QED
        BY <3>1, <3>2, <4>1, <4>2 DEF Kept1
    <3>4. w = <<c>> \o Without(t, Controls)
      <4>1. Without(<<c>> \o t, Controls) = Without(<<c>>, Controls) \o Without(t, Controls)
        BY <3>2, WithoutConcat
      <4> QED
        BY <3>1, <3>3, <4>1
    <3>5. w[1] = c
      BY <3>4, WithoutAppend, Front
    <3> QED
      BY <3>1, <3>5
  <2> QED
    BY <2>1, <2>2
<1>4. Without(body, Controls) = accents \o (res \o w)
  <2>1. Without(read \o r, Controls) = Without(read, Controls) \o Without(r, Controls)
    BY WithoutConcat
  <2>2. Without(body, Controls) = (accents \o res) \o w
    BY <1>1, <2>1
  <2> HIDE DEF w
  <2>3. (accents \o res) \o w = accents \o (res \o w)
    BY <1>1, <1>2, Regroup
  <2> QED
    BY <2>2, <2>3
<1> HIDE DEF w
<1>5. Stripped(accents \o (res \o w), Accents) = res \o w
  <2>1. res \o w \in Seq(Kind)
    BY <1>2, ConcatProperties
  <2>2. ASSUME res \o w # << >> PROVE (res \o w)[1].cp \notin Accents
    <3>1. CASE res = << >>
      <4>1. res \o w = w
        BY <1>2, <3>1, ConcatEmptySeq
      <4> QED
        BY <1>3, <2>2, <3>1, <4>1
    <3>2. CASE res # << >>
      <4>1. 1 \in 1..Len(res)
        BY <3>2, EmptySeq
      <4>2. (res \o w)[1] = res[1]
        BY <1>2, <4>1, Parts
      <4> QED
        BY <3>2, <4>2
    <3> QED
      BY <3>1, <3>2
  <2> QED
    BY <1>1, <2>1, <2>2, StrippedIs
<1>6. Fitting(res \o w) = res
  BY <1>2, <1>3, FittingIs
<1> QED
  BY <1>4, <1>5, <1>6

\* Spaced: nothing is taken off yet, one space is taken off, the loop ends.
LEMMA SpacedStart == ASSUME NEW s \in Seq(Kind) PROVE Spaced(s, s)
<1>1. << >> \in Seq(Kind) /\ s \o << >> = s /\ AllIn(<< >>, {32})
  BY EmptySeq, ConcatEmptySeq, AllInEmpty
<1> QED
  BY <1>1 DEF Spaced

LEMMA SpacedLess ==
    ASSUME NEW s, NEW res \in Seq(Kind), Spaced(s, res),
           res # << >>, res[Len(res)].cp = 32
    PROVE  Spaced(s, SubSeq(res, 1, Len(res) - 1))
<1> DEFINE n == Len(res)
           t == SubSeq(res, 1, n - 1)
           c == res[n]
<1>1. n \in Nat /\ n >= 1
  BY EmptySeq
<1>2. c \in Kind
  <2>1. n \in 1..n
    BY <1>1
  <2> QED
    BY <2>1, ElementOfSeq
<1>3. t \in Seq(Kind) /\ res = t \o <<c>>
  <2>1. n - 1 \in 0..n /\ 1 \in 1..n /\ n \in 1..n
    BY <1>1
  <2>2. t \in Seq(Kind)
    BY <2>1, Beginning
  <2>3. SubSeq(res, 1, n) = SubSeq(res, 1, n - 1) \o <<res[n]>>
    BY <2>1, SubSeqRecursiveSecond
  <2>4. SubSeq(res, 1, n) = res
    BY SubSeqFull
  <2> QED
    BY <2>2, <2>3, <2>4
<1>4. PICK spaces \in Seq(Kind) : s = res \o spaces /\ AllIn(spaces, {32})
  BY DEF Spaced
<1>5. c.cp = 32
  OBVIOUS
<1> HIDE DEF t, c, n
<1>6. s = t \o (<<c>> \o spaces) /\ <<c>> \o spaces \in Seq(Kind)
  <2>1. <<c>> \in Seq(Kind)
    BY <1>2
  <2>2. (t \o <<c>>) \o spaces = t \o (<<c>> \o spaces)
    BY <1>3, <2>1, ConcatAssociative
  <2> QED
    BY <1>2, <1>3, <1>4, <2>2, Front
<1>7. AllIn(<<c>> \o spaces, {32})
  BY <1>2, <1>4, <1>5, AllInFront
<1>8. Spaced(s, t)
  BY <1>6, <1>7 DEF Spaced
<1> QED
  BY <1>8 DEF t, n

LEMMA SpacedEnd ==
    ASSUME NEW s, NEW res \in Seq(Kind), Spaced(s, res),
           res # << >> => res[Len(res)].cp # 32
    PROVE  Untrailed(s) = res
BY UntrailedIs DEF Spaced

-----------------------------------------------------------------------------
(***************************************************************************)
(* What is kept is displayable.                                            *)
(***************************************************************************)
Inv == /\ raw \in Raw
       /\ result \in Seq(Kind) /\ bytes \in Int /\ characters \in Nat
       /\ stage \in {"letters", "trim", "done"} \/ result = << >>
       /\ stage \in {"trim", "done"} \/ (characters > 0 => result # << >>)
       /\ NameIsDisplayable

\* The character to be read next.
LEMMA HereDecoded ==
    ASSUME Inv, Unread
    PROVE  /\ Here.next \in at + 1 .. Len(raw) + 1
           /\ Here.cp \in Nat
           /\ ~Dropped(Here.cp) =>
                 WellFormed([cp |-> Here.cp, size |-> Here.next - at])
<1>1. raw \in Seq(Byte) /\ at \in 1..Len(raw)
  BY RawAssumption DEF Inv, NameIsDisplayable, Unread
<1> QED
  BY <1>1, Decoded DEF Here

\* The start has the invariant.
LEMMA InitInv == Init => Inv
<1> SUFFICES ASSUME Init PROVE Inv
  OBVIOUS
<1>1. Len(raw) \in Nat
  BY RawAssumption DEF Init
<1>2. result = << >> /\ result \in Seq(Kind) /\ Len(result) = 0
  BY DEF Init
<1> QED
  BY <1>1, <1>2, LimitsAssumption DEF Init, Inv, NameIsDisplayable

\* The reading position moves and nothing else.
LEMMA SkipInv == ASSUME Inv, Unread, Skip PROVE Inv'
BY HereDecoded DEF Skip, Kept, Inv, NameIsDisplayable

\* The next loop begins.
LEMMA EnterInv ==
    ASSUME Inv, NEW s, Enter(s),
           s \in {"letters", "trim", "done"} \/ result = << >>,
           s \in {"trim", "done"} \/ (characters > 0 => result # << >>)
    PROVE  Inv'
BY DEF Enter, Kept, Inv, NameIsDisplayable

\* A character that is only looked at, for the flag, ends inside the string.
LEMMA PeekInRange ==
    ASSUME NEW text \in Seq(Byte), raw = text, NEW i \in 1..Len(text) + 1
    PROVE  Peek(i).next \in 1..Len(text) + 1
<1>1. CASE i <= Len(text)
  <2>1. i \in 1..Len(text) /\ Peek(i) = Decode(text, i) /\ Len(text) \in Nat
    BY <1>1 DEF Peek
  <2>2. Decode(text, i).next \in i + 1 .. Len(text) + 1
    BY <2>1, Decoded
  <2> QED
    BY <2>1, <2>2
<1>2. CASE ~(i <= Len(text))
  BY <1>2 DEF Peek, At
<1> QED
  BY <1>1, <1>2

\* The flag is read, or the letters begin.
LEMMA FlagInv == ASSUME Inv, Flag PROVE Inv'
<1> DEFINE a == Peek(at)
           b == Peek(a.next)
<1>1. CASE Regional(a.cp) /\ Regional(b.cp)
  <2>1. at' = b.next /\ stage' = "separators" /\ raw' = raw /\ Kept /\ stage = "flag"
    BY <1>1 DEF Flag
  <2>2. raw \in Seq(Byte) /\ at \in 1..Len(raw) + 1
    BY RawAssumption DEF Inv, NameIsDisplayable
  <2>3. b.next \in 1..Len(raw) + 1
    BY <2>2, PeekInRange
  <2> QED
    BY <2>1, <2>3 DEF Kept, Inv, NameIsDisplayable
<1>2. CASE ~(Regional(a.cp) /\ Regional(b.cp))
  <2>1. Enter("letters") /\ stage = "flag"
    BY <1>2 DEF Flag
  <2> QED
    BY <2>1, EnterInv DEF Inv
<1> QED
  BY <1>1, <1>2

\* A character is kept.
LEMMA AppendInv == ASSUME Inv, AppendLetter PROVE Inv'
<1> DEFINE size == Here.next - at
           c    == [cp |-> Here.cp, size |-> size]
<1>1. Here.next \in at + 1 .. Len(raw) + 1 /\ Here.cp \in Int /\ WellFormed(c)
  BY HereDecoded DEF AppendLetter, Ignored
<1>2. /\ result' = Append(result, c) /\ bytes' = bytes + size
      /\ at' = Here.next /\ raw' = raw /\ stage' = stage
      /\ characters' = IF Accent(Here.cp) THEN characters ELSE characters + 1
  BY DEF AppendLetter
<1>3. /\ ~Dropped(c.cp) /\ (Accent(c.cp) => characters # 0)
      /\ ~Full(c.cp) /\ ~TooLong(size) /\ stage = "letters"
  BY DEF AppendLetter, Ignored
<1>4. /\ raw \in Seq(Byte) /\ at \in Nat /\ size \in Nat /\ c \in Kind
      /\ characters \in Nat /\ bytes \in Int /\ result \in Seq(Kind)
  <2>1. /\ raw \in Seq(Byte) /\ at \in Nat /\ Len(raw) \in Nat
        /\ characters \in Nat /\ bytes \in Int /\ result \in Seq(Kind)
    BY RawAssumption DEF Inv, NameIsDisplayable
  <2>2. size \in Nat
    BY <1>1, <2>1
  <2>3. Here.cp \in Nat
    BY HereDecoded DEF AppendLetter
  <2> QED
    BY <2>1, <2>2, <2>3 DEF Kind
<1> HIDE DEF c, size
<1>5. /\ result' \in Seq(Kind) /\ Len(result') = Len(result) + 1
      /\ \A i \in 1..Len(result) : result'[i] = result[i]
      /\ result'[Len(result) + 1] = c /\ Len(result) \in Nat
  BY <1>2, <1>4
<1>6. \A i \in 1..Len(result') : WellFormed(result'[i]) /\ ~Dropped(result'[i].cp)
  BY <1>1, <1>3, <1>5 DEF Inv, NameIsDisplayable
<1>7. characters' \in Nat /\ characters' <= MaxChars
  BY <1>2, <1>3, <1>4, LimitsAssumption DEF Full, c, Inv, NameIsDisplayable
<1>8. bytes' \in Int /\ bytes' <= MaxBytes
  BY <1>2, <1>3, <1>4, LimitsAssumption DEF TooLong
<1>9. ~Accent(result'[1].cp)
  <2>1. CASE result = << >>
    BY <1>3, <1>5, <2>1 DEF Inv
  <2>2. CASE result # << >>
    <3>1. 1 \in 1..Len(result)
      BY <1>4, <2>2
    <3> QED
      BY <1>5, <2>2, <3>1 DEF Inv, NameIsDisplayable
  <2> QED
    BY <2>1, <2>2
<1>10. result' # << >>
  BY <1>5
<1>11. raw' \in Raw /\ at' \in 1..Len(raw') + 1
  BY <1>1, <1>2, <1>4 DEF Inv
<1> QED
  BY <1>2, <1>3, <1>5, <1>6, <1>7, <1>8, <1>9, <1>10, <1>11
  DEF Inv, NameIsDisplayable

\* A space is taken off the end.
LEMMA TrimInv == ASSUME Inv, Trim PROVE Inv'
<1>1. CASE EndsInSpace
  <2>1. /\ result' = SubSeq(result, 1, Len(result) - 1) /\ bytes' = bytes - 1
        /\ UNCHANGED <<raw, at, stage, characters>> /\ stage = "trim"
    BY <1>1 DEF Trim
  <2>2. result \in Seq(Kind) /\ Len(result) \in Nat /\ Len(result) > 0
    BY <1>1 DEF Inv, EndsInSpace
  <2>3. /\ result' \in Seq(Kind) /\ Len(result') = Len(result) - 1
        /\ \A i \in 1..Len(result') : result'[i] = result[i]
    <3> DEFINE n == Len(result) - 1
    <3>1. n \in Nat /\ \A i \in 1..n : result[i] \in Kind
      BY <2>2
    <3>2. /\ SubSeq(result, 1, n) \in Seq(Kind) /\ Len(SubSeq(result, 1, n)) = n
          /\ \A i \in 1..n : SubSeq(result, 1, n)[i] = result[i]
      <4> HIDE DEF n
      <4>1. 1 \in Int /\ n \in Int
        BY <3>1
      <4>2. /\ SubSeq(result, 1, n) \in Seq(Kind)
            /\ Len(SubSeq(result, 1, n)) = IF 1 <= n THEN n - 1 + 1 ELSE 0
            /\ \A i \in 1..(n - 1 + 1) : SubSeq(result, 1, n)[i] = result[1 + i - 1]
        BY <3>1, <4>1, SubSeqProperties
      <4>3. n - 1 + 1 = n /\ \A i \in 1..n : 1 + i - 1 = i
        BY <3>1
      <4> QED
        BY <3>1, <4>2, <4>3
    <3> QED
      BY <2>1, <3>2
  <2>4. result' # << >> => ~Accent(result'[1].cp)
    <3> SUFFICES ASSUME result' # << >> PROVE ~Accent(result'[1].cp)
      OBVIOUS
    <3>1. 1 \in 1..Len(result') /\ result # << >>
      BY <2>2, <2>3
    <3> QED
      BY <2>3, <3>1 DEF Inv, NameIsDisplayable
  <2>5. bytes' \in Int /\ bytes' <= MaxBytes
    BY <2>1, LimitsAssumption DEF Inv, NameIsDisplayable
  <2>6. \A i \in 1..Len(result') : WellFormed(result'[i]) /\ ~Dropped(result'[i].cp)
    BY <2>2, <2>3 DEF Inv, NameIsDisplayable
  <2> QED
    BY <2>1, <2>3, <2>4, <2>5, <2>6 DEF Inv, NameIsDisplayable
<1>2. CASE ~EndsInSpace
  BY <1>2, EnterInv DEF Trim
<1> QED
  BY <1>1, <1>2

\* Every step keeps the invariant.
LEMMA NextInv == ASSUME Inv, [Next]_vars PROVE Inv'
<1>1. CASE SkipSpace
  <2>1. CASE Unread /\ Space(Here.cp)
    BY <1>1, <2>1, SkipInv DEF SkipSpace
  <2>2. CASE ~(Unread /\ Space(Here.cp))
    <3>1. Enter("flag") /\ stage = "spaces"
      BY <1>1, <2>2 DEF SkipSpace
    <3> QED
      BY <3>1, EnterInv DEF Inv
  <2> QED
    BY <2>1, <2>2
<1>2. CASE Flag
  BY <1>2, FlagInv
<1>3. CASE SkipSeparator
  <2>1. CASE Unread /\ Separator(Here.cp)
    BY <1>3, <2>1, SkipInv DEF SkipSeparator
  <2>2. CASE ~(Unread /\ Separator(Here.cp))
    <3>1. Enter("letters") /\ stage = "separators"
      BY <1>3, <2>2 DEF SkipSeparator
    <3> QED
      BY <3>1, EnterInv DEF Inv
  <2> QED
    BY <2>1, <2>2
<1>4. CASE IgnoreLetter
  BY <1>4, SkipInv DEF IgnoreLetter
<1>5. CASE AppendLetter
  BY <1>5, AppendInv
<1>6. CASE EndLetters
  BY <1>6, EnterInv DEF EndLetters
<1>7. CASE Trim
  BY <1>7, TrimInv
<1>8. CASE UNCHANGED vars
  BY <1>8 DEF vars, Inv, NameIsDisplayable
<1> QED
  BY <1>1, <1>2, <1>3, <1>4, <1>5, <1>6, <1>7, <1>8 DEF Next

\* For every set of byte strings and every pair of limits, what is kept at any
\* moment is well-formed UTF-8 within the limits, without control characters
\* and without an accent in front, and nothing is read behind the end.
THEOREM NameIsAlwaysDisplayable == Spec => []NameIsDisplayable
<1>1. Inv => NameIsDisplayable
  BY DEF Inv
<1> QED
  BY InitInv, NextInv, <1>1, PTL DEF Spec

-----------------------------------------------------------------------------
(***************************************************************************)
(* How far each loop has come with the declarative definition.             *)
(***************************************************************************)
Rest == From(raw)[at]
Text == Body(Characters(raw))
Cut  == Fitting(Stripped(Without(Text, Controls), Accents))

\* In front of the letters nothing is kept, and only what is to be dropped is
\* behind us.
InFront ==
    /\ stage = "spaces" => Behind(Characters(raw), Rest, Spaces)
    /\ stage = "flag" => Rest = Stripped(Characters(raw), Spaces)
    /\ stage = "separators" => \E s \in Seq(Kind) : /\ Text = Stripped(s, Separators)
                                                   /\ Behind(s, Rest, Separators)

\* The counters count what is kept.
Counted ==
    stage \notin {"trim", "done"} => /\ bytes = Size(result)
                                     /\ characters = Len(Letters(result))
                                     /\ characters = 0 => result = << >>

InLetters == stage = "letters" => Picked(Text, Rest, result)
AtEnd == /\ stage = "trim" => Spaced(Cut, result)
         /\ stage = "done" => result = Untrailed(Cut)

NameInv == Inv /\ InFront /\ Counted /\ InLetters /\ AtEnd

\* What is left begins with the character to be read next.
LEMMA RestFacts ==
    ASSUME Inv
    PROVE  /\ raw \in Seq(Byte) /\ at \in 1..Len(raw) + 1 /\ Rest \in Seq(Kind)
           /\ ~Unread => Rest = << >>
           /\ Unread => /\ Here.next \in at + 1..Len(raw) + 1
                        /\ Char(raw, at) \in Kind
                        /\ Char(raw, at).cp = Here.cp
                        /\ Char(raw, at).size = Here.next - at
                        /\ From(raw)[Here.next] \in Seq(Kind)
                        /\ Rest = <<Char(raw, at)>> \o From(raw)[Here.next]
<1>1. raw \in Seq(Byte) /\ at \in 1..Len(raw) + 1 /\ Len(raw) \in Nat
  BY RawAssumption DEF Inv, NameIsDisplayable
<1>2. Rest \in Seq(Kind)
  BY <1>1, FromTyped DEF Rest
<1>3. ASSUME ~Unread PROVE Rest = << >>
  <2>1. at = Len(raw) + 1
    BY <1>1, <1>3 DEF Unread
  <2> QED
    BY <1>1, <2>1, FromSteps DEF Rest
<1>4. ASSUME Unread
      PROVE  /\ Here.next \in at + 1..Len(raw) + 1
             /\ Char(raw, at) \in Kind
             /\ Char(raw, at).cp = Here.cp
             /\ Char(raw, at).size = Here.next - at
             /\ From(raw)[Here.next] \in Seq(Kind)
             /\ Rest = <<Char(raw, at)>> \o From(raw)[Here.next]
  <2>1. at \in 1..Len(raw)
    BY <1>1, <1>4 DEF Unread
  <2>2. Char(raw, at) \in Kind /\ Here.next \in at + 1..Len(raw) + 1
    BY <1>1, <2>1, CharKind DEF Here
  <2>3. Here.next \in 1..Len(raw) + 1
    BY <1>1, <2>2
  <2>4. From(raw)[Here.next] \in Seq(Kind)
    BY <1>1, <2>3, FromTyped
  <2>5. Rest = <<Char(raw, at)>> \o From(raw)[Here.next]
    BY <1>1, <2>1, FromSteps DEF Rest, Here
  <2> QED
    BY <2>2, <2>4, <2>5 DEF Char, Here
<1> QED
  BY <1>1, <1>2, <1>3, <1>4

\* Dropped and Controls mean the same characters.
LEMMA Control == ASSUME NEW cp \in Nat PROVE Dropped(cp) <=> cp \in Controls
BY DEF Dropped, Controls

\* At the start all of the string is left.
LEMMA InitName == Init => NameInv
<1> SUFFICES ASSUME Init PROVE NameInv
  OBVIOUS
<1>1. Inv /\ stage = "spaces" /\ at = 1 /\ result = << >> /\ bytes = 0 /\ characters = 0
  BY InitInv DEF Init
<1>2. Behind(Characters(raw), Rest, Spaces)
  <2>1. Characters(raw) = Rest
    BY <1>1, CharactersFrom DEF Rest
  <2> QED
    BY <1>1, <2>1, RestFacts, BehindStart
<1>3. Size(<< >>) = 0 /\ Len(Letters(<< >>)) = 0
  BY SizeAppend, WithoutAppend, EmptySeq DEF Letters
<1> QED
  BY <1>1, <1>2, <1>3 DEF NameInv, InFront, Counted, InLetters, AtEnd

\* The loop of the leading spaces.
LEMMA SpacesName == ASSUME NameInv, SkipSpace PROVE NameInv'
<1>1. Inv /\ Inv' /\ stage = "spaces" /\ Behind(Characters(raw), Rest, Spaces)
  <2>1. Inv'
    BY NextInv DEF NameInv, Next
  <2> QED
    BY <2>1 DEF NameInv, SkipSpace, InFront
<1>2. CASE Unread /\ Space(Here.cp)
  <2>1. /\ at' = Here.next /\ raw' = raw /\ stage' = stage
        /\ result' = result /\ bytes' = bytes /\ characters' = characters
    BY <1>2 DEF SkipSpace, Skip, Kept
  <2>2. Behind(Characters(raw), From(raw)[Here.next], Spaces)
    <3>1. /\ Char(raw, at) \in Kind /\ Char(raw, at).cp = Here.cp
          /\ From(raw)[Here.next] \in Seq(Kind)
          /\ Rest = <<Char(raw, at)>> \o From(raw)[Here.next]
      BY <1>1, <1>2, RestFacts
    <3>2. Char(raw, at).cp \in Spaces
      BY <1>2, <3>1 DEF Space
    <3>3. Behind(Characters(raw), <<Char(raw, at)>> \o From(raw)[Here.next], Spaces)
      BY <1>1, <3>1
    <3> QED
      BY <3>1, <3>2, <3>3, BehindMore
  <2>3. Behind(Characters(raw)', Rest', Spaces)
    BY <2>1, <2>2 DEF Rest
  <2> QED
    BY <1>1, <2>1, <2>3 DEF NameInv, InFront, Counted, InLetters, AtEnd
<1>3. CASE ~(Unread /\ Space(Here.cp))
  <2>1. /\ at' = at /\ raw' = raw /\ stage' = "flag"
        /\ result' = result /\ bytes' = bytes /\ characters' = characters
    BY <1>3 DEF SkipSpace, Enter, Kept
  <2>2. Rest # << >> => Rest[1].cp \notin Spaces
    BY <1>1, <1>3, RestFacts, Front DEF Space
  <2>3. Stripped(Characters(raw), Spaces) = Rest
    BY <1>1, <2>2, RestFacts, BehindEnd
  <2>4. Stripped(Characters(raw)', Spaces) = Rest'
    BY <2>1, <2>3 DEF Rest
  <2> QED
    BY <1>1, <2>1, <2>4 DEF NameInv, InFront, Counted, InLetters, AtEnd
<1> QED
  BY <1>2, <1>3

\* The loop of the separators behind the flag.
LEMMA SeparatorsName == ASSUME NameInv, SkipSeparator PROVE NameInv'
<1>1. Inv /\ Inv' /\ stage = "separators" /\ result = << >>
  <2>1. Inv'
    BY NextInv DEF NameInv, Next
  <2> QED
    BY <2>1 DEF NameInv, Inv, SkipSeparator
<1>2. PICK s \in Seq(Kind) : Text = Stripped(s, Separators) /\ Behind(s, Rest, Separators)
  BY <1>1 DEF NameInv, InFront
<1>3. CASE Unread /\ Separator(Here.cp)
  <2>1. /\ at' = Here.next /\ raw' = raw /\ stage' = stage
        /\ result' = result /\ bytes' = bytes /\ characters' = characters
    BY <1>3 DEF SkipSeparator, Skip, Kept
  <2>2. Behind(s, From(raw)[Here.next], Separators)
    <3>1. /\ Char(raw, at) \in Kind /\ Char(raw, at).cp = Here.cp
          /\ From(raw)[Here.next] \in Seq(Kind)
          /\ Rest = <<Char(raw, at)>> \o From(raw)[Here.next]
      BY <1>1, <1>3, RestFacts
    <3>2. Char(raw, at).cp \in Separators
      BY <1>3, <3>1 DEF Separator
    <3>3. Behind(s, <<Char(raw, at)>> \o From(raw)[Here.next], Separators)
      BY <1>2, <3>1
    <3> QED
      BY <3>1, <3>2, <3>3, BehindMore
  <2>3. Behind(s, Rest', Separators) /\ Text' = Text
    BY <2>1, <2>2 DEF Rest, Text
  <2> QED
    BY <1>1, <1>2, <2>1, <2>3 DEF NameInv, InFront, Counted, InLetters, AtEnd
<1>4. CASE ~(Unread /\ Separator(Here.cp))
  <2>1. /\ at' = at /\ raw' = raw /\ stage' = "letters"
        /\ result' = result /\ bytes' = bytes /\ characters' = characters
    BY <1>4 DEF SkipSeparator, Enter, Kept
  <2>2. Rest # << >> => Rest[1].cp \notin Separators
    BY <1>1, <1>4, RestFacts, Front DEF Separator
  <2>3. Text = Rest
    BY <1>1, <1>2, <2>2, RestFacts, BehindEnd
  <2>4. Picked(Text, Rest, << >>)
    BY <1>1, <2>3, RestFacts, PickedStart
  <2>5. Picked(Text', Rest', result')
    BY <1>1, <2>1, <2>4 DEF Rest, Text
  <2> QED
    BY <1>1, <2>1, <2>5 DEF NameInv, InFront, Counted, InLetters, AtEnd
<1> QED
  BY <1>3, <1>4

\* A character of the name is left out.
LEMMA IgnoreName == ASSUME NameInv, IgnoreLetter PROVE NameInv'
<1>1. Inv /\ Inv' /\ stage = "letters" /\ Picked(Text, Rest, result)
  <2>1. Inv'
    BY NextInv DEF NameInv, Next
  <2> QED
    BY <2>1 DEF NameInv, IgnoreLetter, InLetters
<1>2. /\ Unread /\ Ignored(Here.cp)
      /\ at' = Here.next /\ raw' = raw /\ stage' = stage
      /\ result' = result /\ bytes' = bytes /\ characters' = characters
  BY DEF IgnoreLetter, Skip, Kept
<1> DEFINE c == Char(raw, at)
           r == From(raw)[Here.next]
<1>3. c \in Kind /\ c.cp = Here.cp /\ r \in Seq(Kind) /\ Rest = <<c>> \o r /\ c.cp \in Nat
  BY <1>1, <1>2, RestFacts DEF Kind
<1> HIDE DEF c
<1>4. Picked(Text, r, result)
  <2> HIDE DEF r
  <2>1. CASE c.cp \in Controls
    BY <1>1, <1>3, <2>1, PickedControl
  <2>2. CASE c.cp \notin Controls
    <3>1. Accent(c.cp) /\ characters = 0
      BY <1>2, <1>3, <2>2, Control DEF Ignored
    <3>2. result = << >>
      BY <1>1, <3>1 DEF NameInv, Counted
    <3> QED
      BY <1>1, <1>3, <2>2, <3>1, <3>2, PickedAccent DEF Accent
  <2> QED
    BY <2>1, <2>2
<1>5. Picked(Text', Rest', result')
  BY <1>2, <1>4 DEF Rest, Text
<1> QED
  BY <1>1, <1>2, <1>5 DEF NameInv, InFront, Counted, InLetters, AtEnd

\* A character of the name is kept.
LEMMA AppendName == ASSUME NameInv, AppendLetter PROVE NameInv'
<1>1. Inv /\ Inv' /\ stage = "letters" /\ Picked(Text, Rest, result)
  <2>1. Inv'
    BY NextInv DEF NameInv, Next
  <2> QED
    BY <2>1 DEF NameInv, AppendLetter, InLetters
<1> DEFINE c == Char(raw, at)
           r == From(raw)[Here.next]
<1>2. /\ Unread /\ ~Ignored(Here.cp)
      /\ at' = Here.next /\ raw' = raw /\ stage' = stage
      /\ result' = Append(result, [cp |-> Here.cp, size |-> Here.next - at])
      /\ bytes' = bytes + (Here.next - at)
      /\ characters' = IF Accent(Here.cp) THEN characters ELSE characters + 1
  BY DEF AppendLetter
<1>3. /\ c \in Kind /\ c.cp = Here.cp /\ c.size = Here.next - at
      /\ r \in Seq(Kind) /\ Rest = <<c>> \o r /\ c.cp \in Nat
  BY <1>1, <1>2, RestFacts DEF Kind
<1>4. c = [cp |-> Here.cp, size |-> Here.next - at]
  BY DEF Char, Here
<1> HIDE DEF c, r
<1>5. result \in Seq(Kind) /\ characters \in Nat
  BY <1>1 DEF Inv
<1>6. Picked(Text, r, Append(result, c))
  <2>1. c.cp \notin Controls
    BY <1>2, <1>3, Control DEF Ignored
  <2> QED
    BY <1>1, <1>3, <1>5, <2>1, PickedMore
<1>7. Picked(Text', Rest', result')
  BY <1>2, <1>4, <1>6 DEF Rest, Text, r
<1>8. bytes' = Size(result')
  <2>1. bytes = Size(result)
    BY <1>1 DEF NameInv, Counted
  <2>2. Size(Append(result, c)) = Size(result) + c.size
    BY <1>3, <1>5, SizeAppend
  <2> QED
    BY <1>2, <1>3, <1>4, <2>1, <2>2
<1>9. characters' = Len(Letters(result'))
  <2>1. characters = Len(Letters(result))
    BY <1>1 DEF NameInv, Counted
  <2>2. Letters(Append(result, c)) = Kept1(Accents, Letters(result), c)
    BY <1>3, <1>5, WithoutAppend DEF Letters
  <2>3. Letters(result) \in Seq(Kind)
    BY <1>5, Measured
  <2>4. Len(Letters(Append(result, c)))
            = IF c.cp \in Accents THEN characters ELSE characters + 1
    BY <1>3, <2>1, <2>2, <2>3, AppendProperties DEF Kept1
  <2> QED
    BY <1>2, <1>3, <1>4, <2>4 DEF Accent
<1>10. characters' # 0
  <2>1. Accent(Here.cp) => characters # 0
    BY <1>2 DEF Ignored
  <2> QED
    BY <1>2, <1>5, <2>1
<1> QED
  BY <1>1, <1>2, <1>7, <1>8, <1>9, <1>10 DEF NameInv, InFront, Counted, InLetters, AtEnd

\* The loop of the letters ends, with the part that fits.
LEMMA EndName == ASSUME NameInv, EndLetters PROVE NameInv'
<1>1. /\ Inv /\ Inv' /\ stage = "letters" /\ Picked(Text, Rest, result)
      /\ bytes = Size(result) /\ characters = Len(Letters(result))
      /\ characters = 0 => result = << >>
  <2>1. Inv'
    BY NextInv DEF NameInv, Next
  <2>2. stage = "letters"
    BY DEF EndLetters
  <2> QED
    BY <2>1, <2>2 DEF NameInv, InLetters, Counted
<1>2. /\ at' = at /\ raw' = raw /\ stage' = "trim"
      /\ result' = result /\ bytes' = bytes /\ characters' = characters
  BY DEF EndLetters, Enter, Kept
<1>3. /\ result \in Seq(Kind) /\ characters <= MaxChars /\ bytes <= MaxBytes
      /\ characters \in Nat
      /\ result # << >> => result[1].cp \notin Accents
  BY <1>1 DEF Inv, NameIsDisplayable, Accent
<1>4. Fits(result)
  BY <1>1, <1>3 DEF Fits
<1> DEFINE c == Char(raw, at)
           r == From(raw)[Here.next]
<1>5. ASSUME Unread
      PROVE  /\ c \in Kind /\ r \in Seq(Kind) /\ Rest = <<c>> \o r
             /\ c.cp \notin Controls
             /\ result = << >> => c.cp \notin Accents
             /\ ~Fits(Append(result, c))
  <2>1. /\ c \in Kind /\ c.cp = Here.cp /\ c.size = Here.next - at
        /\ r \in Seq(Kind) /\ Rest = <<c>> \o r /\ c.cp \in Nat /\ c.size \in Nat
    BY <1>1, <1>5, RestFacts DEF Kind
  <2>2. ~Ignored(c.cp) /\ (Full(c.cp) \/ TooLong(c.size))
    BY <1>5, <2>1 DEF EndLetters
  <2> HIDE DEF c, r
  <2>3. c.cp \notin Controls
    BY <2>1, <2>2, Control DEF Ignored
  <2>4. ASSUME result = << >> PROVE c.cp \notin Accents
    <3>1. characters = 0
      BY <1>1, <2>4, WithoutAppend, EmptySeq DEF Letters
    <3> QED
      BY <2>2, <3>1 DEF Ignored, Accent
  <2>5. ~Fits(Append(result, c))
    <3>1. Size(Append(result, c)) = bytes + c.size
      BY <1>1, <1>3, <2>1, SizeAppend
    <3>2. Letters(Append(result, c)) = Kept1(Accents, Letters(result), c)
      BY <1>3, <2>1, WithoutAppend DEF Letters
    <3>3. Letters(result) \in Seq(Kind)
      BY <1>3, Measured
    <3>4. c.cp \notin Accents => Len(Letters(Append(result, c))) = characters + 1
      BY <1>1, <2>1, <3>2, <3>3, AppendProperties DEF Kept1
    <3>5. CASE Full(c.cp)
      BY <1>3, <3>4, <3>5, LimitsAssumption DEF Full, Accent, Fits
    <3>6. CASE TooLong(c.size)
      <4>1. bytes \in Nat
        BY <1>1, <1>3, SizeAppend
      <4> QED
        BY <2>1, <3>1, <3>6, <4>1, LimitsAssumption DEF TooLong, Fits
    <3> QED
      BY <2>2, <3>5, <3>6
  <2> QED
    BY <2>1, <2>3, <2>4, <2>5
<1>6. Cut = result
  <2> HIDE DEF c, r
  <2>1. Rest \in Seq(Kind) /\ (~Unread => Rest = << >>)
    BY <1>1, RestFacts
  <2>2. Rest = << >> \/ \E d \in Kind, t \in Seq(Kind) :
                           /\ Rest = <<d>> \o t /\ d.cp \notin Controls
                           /\ result = << >> => d.cp \notin Accents
                           /\ ~Fits(Append(result, d))
    BY <1>5, <2>1
  <2> QED
    BY <1>1, <1>3, <1>4, <2>1, <2>2, PickedEnd DEF Cut
<1>7. Spaced(Cut, result)
  BY <1>3, <1>6, SpacedStart
<1>8. Spaced(Cut', result')
  BY <1>2, <1>7 DEF Cut, Text
<1> QED
  BY <1>1, <1>2, <1>8 DEF NameInv, InFront, Counted, InLetters, AtEnd

\* The loop that takes spaces off the end.
LEMMA TrimName == ASSUME NameInv, Trim PROVE NameInv'
<1>1. /\ Inv /\ Inv' /\ stage = "trim" /\ Spaced(Cut, result) /\ result \in Seq(Kind)
  <2>1. Inv'
    BY NextInv DEF NameInv, Next
  <2>2. stage = "trim"
    BY DEF Trim
  <2> QED
    BY <2>1, <2>2 DEF NameInv, Inv, AtEnd
<1>2. CASE EndsInSpace
  <2>1. /\ raw' = raw /\ stage' = "trim"
        /\ result' = SubSeq(result, 1, Len(result) - 1)
    BY <1>1, <1>2 DEF Trim
  <2>2. Spaced(Cut, SubSeq(result, 1, Len(result) - 1))
    BY <1>1, <1>2, SpacedLess DEF EndsInSpace
  <2>3. Spaced(Cut', result')
    BY <2>1, <2>2 DEF Cut, Text
  <2> QED
    BY <1>1, <2>1, <2>3 DEF NameInv, InFront, Counted, InLetters, AtEnd
<1>3. CASE ~EndsInSpace
  <2>1. raw' = raw /\ stage' = "done" /\ result' = result
    BY <1>3 DEF Trim, Enter, Kept
  <2>2. Untrailed(Cut) = result
    BY <1>1, <1>3, SpacedEnd DEF EndsInSpace
  <2>3. Untrailed(Cut') = result'
    BY <2>1, <2>2 DEF Cut, Text
  <2> QED
    BY <1>1, <2>1, <2>3 DEF NameInv, InFront, Counted, InLetters, AtEnd
<1> QED
  BY <1>2, <1>3

\* The flag is two characters at the front of what is left.
LEMMA FlagName == ASSUME NameInv, Flag PROVE NameInv'
<1>1. /\ Inv /\ Inv' /\ stage = "flag" /\ result = << >>
      /\ Rest = Stripped(Characters(raw), Spaces)
  <2>1. Inv'
    BY NextInv DEF NameInv, Next
  <2> QED
    BY <2>1 DEF NameInv, Inv, InFront, Flag
<1> DEFINE a == Peek(at)
           b == Peek(a.next)
<1>2. raw \in Seq(Byte) /\ Len(raw) \in Nat /\ at \in 1..Len(raw) + 1 /\ Rest \in Seq(Kind)
  BY <1>1, RestFacts, LenProperties
\* The flag is at the front of the rest, or nowhere.
<1>3. /\ Regional(a.cp) /\ Regional(b.cp) <=>
            Len(Rest) > 1 /\ Regional(Rest[1].cp) /\ Regional(Rest[2].cp)
      /\ Regional(a.cp) /\ Regional(b.cp) =>
            /\ From(raw)[b.next] \in Seq(Kind)
            /\ SubSeq(Rest, 3, Len(Rest)) = From(raw)[b.next]
  <2>0. ~Regional(0)
    BY DEF Regional
  <2>1. CASE ~Unread
    <3>1. Rest = << >> /\ Len(Rest) = 0
      BY <1>1, <2>1, RestFacts, EmptySeq
    <3>2. a.cp = 0
      BY <2>1 DEF Peek, At, Unread
    <3> QED
      BY <2>0, <3>1, <3>2
  <2>2. CASE Unread
    <3> DEFINE c == Char(raw, at)
               n == a.next
               r == From(raw)[n]
    <3>1. /\ a = Here /\ n \in at + 1..Len(raw) + 1 /\ c \in Kind /\ c.cp = a.cp
          /\ r \in Seq(Kind) /\ Rest = <<c>> \o r
      BY <1>1, <2>2, RestFacts DEF Peek, Here, Unread
    <3>2. n \in 1..Len(raw) + 1
      BY <1>2, <3>1
    <3>3. Len(Rest) = Len(r) + 1 /\ Rest[1] = c /\ \A i \in 1..Len(r) : Rest[i + 1] = r[i]
      <4> HIDE DEF c, r
      <4> QED
        BY <3>1, Front
    <3>4. CASE n = Len(raw) + 1
      <4>1. r = << >> /\ Len(r) = 0
        BY <1>2, <3>4, FromSteps, EmptySeq
      <4>2. ~(n <= Len(raw))
        BY <1>2, <3>4
      <4>3. b.cp = 0
        BY <4>2 DEF Peek, At
      <4> HIDE DEF a, b, r
      <4> QED
        BY <2>0, <3>3, <4>1, <4>3
    <3>5. CASE n # Len(raw) + 1
      <4> DEFINE d == Char(raw, n)
                 t == From(raw)[b.next]
      <4>1. n \in 1..Len(raw)
        BY <1>2, <3>2, <3>5
      <4>2. b = Decode(raw, n)
        BY <1>2, <4>1 DEF Peek
      <4>3. d \in Kind /\ d.cp = b.cp /\ b.next \in n + 1..Len(raw) + 1
        BY <1>2, <4>1, <4>2, CharKind DEF Char
      <4>4. r = <<d>> \o t
        BY <1>2, <4>1, <4>2, FromSteps
      <4>5. t \in Seq(Kind)
        <5>1. b.next \in 1..Len(raw) + 1
          BY <1>2, <4>1, <4>3
        <5> QED
          BY <1>2, <5>1, FromTyped
      <4> HIDE DEF a, b, c, d, n, r, t
      <4>6. Len(r) = Len(t) + 1 /\ r[1] = d /\ Len(t) \in Nat
        BY <4>3, <4>4, <4>5, Front, LenProperties
      <4>7. Len(Rest) > 1 /\ Rest[2] = d
        <5>1. 1 \in 1..Len(r) /\ 1 + 1 = 2
          BY <4>6
        <5>2. Rest[1 + 1] = r[1]
          BY <3>3, <5>1
        <5> QED
          BY <3>3, <4>6, <5>1, <5>2
      <4>8. SubSeq(Rest, 3, Len(Rest)) = t
        <5>1. <<c>> \in Seq(Kind) /\ <<d>> \in Seq(Kind) /\ Len(<<c>> \o <<d>>) = 2
          <6>1. <<c>> \in Seq(Kind) /\ <<d>> \in Seq(Kind) /\ Len(<<c>>) = 1 /\ Len(<<d>>) = 1
            BY <3>1, <4>3
          <6> QED
            BY <6>1, ConcatProperties
        <5>2. Rest = (<<c>> \o <<d>>) \o t /\ <<c>> \o <<d>> \in Seq(Kind)
          BY <3>1, <4>4, <4>5, <5>1, ConcatAssociative, ConcatProperties
        <5>3. SubSeq((<<c>> \o <<d>>) \o t, 2 + 1, Len((<<c>> \o <<d>>) \o t)) = t
          BY <4>5, <5>1, <5>2, Parts
        <5> QED
          BY <5>2, <5>3
      <4> QED
        BY <3>1, <3>3, <4>3, <4>5, <4>7, <4>8 DEF t
    <3> QED
      BY <3>4, <3>5
  <2> QED
    BY <2>1, <2>2
<1>4. CASE Regional(a.cp) /\ Regional(b.cp)
  <2>1. /\ at' = b.next /\ raw' = raw /\ stage' = "separators"
        /\ result' = result /\ bytes' = bytes /\ characters' = characters
    BY <1>4 DEF Flag, Kept
  <2> DEFINE s == From(raw)[b.next]
  <2>2. s \in Seq(Kind) /\ SubSeq(Rest, 3, Len(Rest)) = s
    BY <1>3, <1>4
  <2>3. Text = Stripped(s, Separators)
    BY <1>1, <1>3, <1>4, <2>2 DEF Text, Body
  <2>4. Behind(s, s, Separators)
    BY <2>2, BehindStart
  <2>5. Text' = Text /\ Rest' = s
    BY <2>1 DEF Text, Rest
  <2> QED
    BY <1>1, <2>1, <2>2, <2>3, <2>4, <2>5 DEF NameInv, InFront, Counted, InLetters, AtEnd
<1>5. CASE ~(Regional(a.cp) /\ Regional(b.cp))
  <2>1. /\ at' = at /\ raw' = raw /\ stage' = "letters"
        /\ result' = result /\ bytes' = bytes /\ characters' = characters
    BY <1>5 DEF Flag, Enter, Kept
  <2>2. Text = Rest
    BY <1>1, <1>3, <1>5 DEF Text, Body
  <2>3. Picked(Text, Rest, << >>)
    BY <1>2, <2>2, PickedStart
  <2>4. Picked(Text', Rest', result')
    BY <1>1, <2>1, <2>3 DEF Text, Rest
  <2> QED
    BY <1>1, <2>1, <2>4 DEF NameInv, InFront, Counted, InLetters, AtEnd
<1> QED
  BY <1>4, <1>5

\* Every step keeps it.
LEMMA NextName == ASSUME NameInv, [Next]_vars PROVE NameInv'
<1>1. CASE UNCHANGED vars
  BY <1>1, NextInv
  DEF vars, NameInv, InFront, Counted, InLetters, AtEnd, Rest, Text, Cut
<1> QED
  BY <1>1, SpacesName, FlagName, SeparatorsName, IgnoreName, AppendName, EndName, TrimName
  DEF Next

\* For every set of byte strings and every pair of limits, what the loops have
\* kept when they are done is what the declarative definition keeps.
THEOREM NameIsAlwaysDisplayName == Spec => []NameIsDisplayName
<1>1. NameInv => NameIsDisplayName
  BY DEF NameInv, AtEnd, NameIsDisplayName, DisplayName, Cut, Text
<1> QED
  BY InitName, NextName, <1>1, PTL DEF Spec
=============================================================================
