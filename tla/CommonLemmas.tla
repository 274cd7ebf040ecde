---------------------------- MODULE CommonLemmas ----------------------------
(***************************************************************************)
(* Facts the proofs of several components rest on: remainders, as rings    *)
(* and wrapping counters use them; induction over the naturals, for a set  *)
(* instead of a predicate; recursive functions as folds; and the           *)
(* concatenation of a sequence of sequences.                               *)
(***************************************************************************)
EXTENDS Integers, Sequences, SequencesExt, TLAPS

WF == INSTANCE WellFoundedInduction
ST == INSTANCE SequenceTheorems

-----------------------------------------------------------------------------
(* Remainders. *)

(* Division with remainder, in the form the provers can use. *)
LEMMA DivMod ==
  ASSUME NEW x \in Int, NEW D \in Nat, D > 0
  PROVE  /\ x = D * (x \div D) + (x % D)
         /\ x \div D \in Int
         /\ x % D \in 0..(D - 1)
  BY Z3

(* No multiple of D lies strictly between 0 and D. *)
LEMMA NoSmallMultiple ==
  ASSUME NEW D \in Nat, NEW z \in Int, D > 0, D * z < D, 0 < D * z
  PROVE  FALSE
<1>1. CASE z <= 0
  BY <1>1, Z3
<1>2. CASE z >= 1
  BY <1>2, Z3
<1> QED
  BY <1>1, <1>2

(* Two numbers with the same remainder differ by a multiple. *)
LEMMA SameRemainder ==
  ASSUME NEW x \in Int, NEW y \in Int, NEW D \in Nat, D > 0, x % D = y % D
  PROVE  \E z \in Int : x - y = D * z
<1> DEFINE p == x \div D
           q == y \div D
<1>1. /\ x = D * p + (x % D) /\ y = D * q + (y % D)
      /\ p \in Int /\ q \in Int /\ x % D \in Int
  BY DivMod
<1> HIDE DEF p, q
<1>2. x - y = D * (p - q)
  BY <1>1, Z3
<1>3. p - q \in Int
  BY <1>1
<1> QED
  BY <1>2, <1>3

(* Two numbers less than D apart share a remainder only if they are equal. *)
LEMMA CloseRemainders ==
  ASSUME NEW x \in Int, NEW y \in Int, NEW D \in Nat, D > 0, x % D = y % D,
         x - y < D, y - x < D
  PROVE  x = y
<1>1. PICK z \in Int : x - y = D * z
  BY SameRemainder
<1>2. D * (-z) = y - x /\ -z \in Int
  BY <1>1, Z3
<1>3. CASE x > y
  <2>1. 0 < D * z /\ D * z < D
    BY <1>1, <1>3
  <2> QED
    BY <2>1, NoSmallMultiple
<1>4. CASE x < y
  <2>1. 0 < D * (-z) /\ D * (-z) < D
    BY <1>2, <1>4
  <2> QED
    BY <1>2, <2>1, NoSmallMultiple
<1> QED
  BY <1>3, <1>4

(* The remainder is the only number of its range a multiple away. *)
LEMMA RemainderUnique ==
  ASSUME NEW x \in Int, NEW D \in Nat, D > 0, NEW q \in Int, NEW r \in 0..(D - 1),
         x = D * q + r
  PROVE  x % D = r
<1> DEFINE p == x \div D
           m == x % D
<1>1. x = D * p + m /\ p \in Int /\ m \in 0..(D - 1)
  BY DivMod
<1> HIDE DEF p, m
<1>2. D * (p - q) = r - m /\ D * (q - p) = m - r /\ p - q \in Int /\ q - p \in Int
  BY <1>1, Z3
<1>3. r - m < D /\ m - r < D /\ r \in Int /\ m \in Int
  BY <1>1
<1>4. ~(0 < r - m) /\ ~(0 < m - r)
  BY <1>2, <1>3, NoSmallMultiple
<1>5. m = r
  BY <1>3, <1>4
<1> QED
  BY <1>5 DEF m

(* A counter that wraps at a multiple of the ring's size finds its slot. *)
LEMMA RemainderOfRemainder ==
  ASSUME NEW x \in Int, NEW M \in Nat, NEW D \in Nat, M > 0, D > 0, M % D = 0
  PROVE  (x % M) % D = x % D
<1> DEFINE q == x \div M
           m == x % M
           k == M \div D
           p == m \div D
           r == m % D
<1>1. x = M * q + m /\ q \in Int /\ m \in Int
  BY DivMod
<1>2. M = D * k + (M % D) /\ k \in Int
  BY DivMod
<1>3. m = D * p + r /\ p \in Int /\ r \in 0..(D - 1)
  BY <1>1, DivMod
<1>4. M = D * k
  BY <1>2
<1> HIDE DEF q, m, k, p, r
<1>5. x = D * (k * q + p) + r
  <2>1. r \in Int
    BY <1>3
  <2>2. x = (D * k) * q + (D * p + r)
    BY <1>1, <1>3, <1>4
  <2> QED
    BY <1>1, <1>2, <1>3, <2>1, <2>2, Z3
<1>6. k * q + p \in Int
  BY <1>1, <1>2, <1>3, Z3
<1>7. x % D = r
  BY <1>3, <1>5, <1>6, RemainderUnique
<1> QED
  BY <1>7 DEF m, r

(* Adding before or after taking the remainder makes no difference. *)
LEMMA RemainderOfSum ==
  ASSUME NEW x \in Int, NEW y \in Int, NEW D \in Nat, D > 0
  PROVE  ((x % D) + y) % D = (x + y) % D
<1> DEFINE q == x \div D
           m == x % D
           p == (m + y) \div D
           r == (m + y) % D
<1>1. x = D * q + m /\ q \in Int /\ m \in Int
  BY DivMod
<1>2. m + y = D * p + r /\ p \in Int /\ r \in 0..(D - 1)
  BY <1>1, DivMod
<1> HIDE DEF q, m, p, r
<1>3. x + y = D * (q + p) + r
  BY <1>1, <1>2, Z3
<1>4. x + y \in Int /\ q + p \in Int
  BY <1>1, <1>2
<1>5. (x + y) % D = r
  BY <1>2, <1>3, <1>4, RemainderUnique
<1> QED
  BY <1>5 DEF m, r

(* A number of the range is its own remainder. *)
LEMMA SmallRemainder ==
  ASSUME NEW D \in Nat, D > 0, NEW x \in 0..(D - 1)
  PROVE  x % D = x
  BY Z3

-----------------------------------------------------------------------------
(* Counters that wrap at M. *)

(* How far counter b is ahead of counter a. *)
Gap(a, b, M) == (b - a) % M

(* It is less than M, and b is that far from a up to a multiple of M. *)
LEMMA GapProperties ==
  ASSUME NEW a \in Int, NEW b \in Int, NEW M \in Nat, M > 0
  PROVE  /\ Gap(a, b, M) \in 0..(M - 1)
         /\ \E z \in Int : b - a = M * z + Gap(a, b, M)
<1> DEFINE x == b - a
<1>1. x \in Int
  OBVIOUS
<1> HIDE DEF x
<1>2. x = M * (x \div M) + (x % M) /\ x \div M \in Int /\ x % M \in 0..(M - 1)
  BY <1>1, DivMod
<1>3. \E z \in Int : x = M * z + (x % M)
  BY <1>2
<1> QED
  BY <1>2, <1>3 DEF x, Gap

(* A number in range that is right up to a multiple of M is the gap. *)
LEMMA GapUnique ==
  ASSUME NEW a \in Int, NEW b \in Int, NEW M \in Nat, M > 0, NEW z \in Int,
         NEW d \in 0..(M - 1), b - a = M * z + d
  PROVE  Gap(a, b, M) = d
<1> DEFINE x == b - a
<1>1. x \in Int /\ x = M * z + d
  OBVIOUS
<1> HIDE DEF x
<1>2. x % M = d
  BY <1>1, RemainderUnique
<1> QED
  BY <1>2 DEF x, Gap

(* Gaps add up while the sum is in range. *)
LEMMA GapSum ==
  ASSUME NEW a \in Int, NEW b \in Int, NEW c \in Int, NEW M \in Nat, M > 0,
         Gap(a, b, M) + Gap(b, c, M) < M
  PROVE  Gap(a, c, M) = Gap(a, b, M) + Gap(b, c, M)
<1> DEFINE d == Gap(a, b, M)
           e == Gap(b, c, M)
<1>1. PICK y \in Int : b - a = M * y + d
  BY GapProperties
<1>2. PICK z \in Int : c - b = M * z + e
  BY GapProperties
<1>3. d \in Nat /\ e \in Nat
  BY GapProperties
<1>4. d + e < M
  OBVIOUS
<1> HIDE DEF d, e
<1>5. M * (y + z) = M * y + M * z /\ M * y \in Int /\ M * z \in Int
  BY Z3
<1>6. c - a = M * (y + z) + (d + e)
  BY <1>1, <1>2, <1>3, <1>5
<1>7. y + z \in Int /\ d + e \in 0..(M - 1)
  BY <1>3, <1>4
<1>8. Gap(a, c, M) = d + e
  BY <1>6, <1>7, GapUnique
<1> QED
  BY <1>8 DEF d, e

(* A counter on the way from a to c is behind c by the rest. *)
LEMMA GapRest ==
  ASSUME NEW a \in Int, NEW b \in Int, NEW c \in Int, NEW M \in Nat, M > 0,
         Gap(a, b, M) <= Gap(a, c, M)
  PROVE  Gap(b, c, M) = Gap(a, c, M) - Gap(a, b, M)
<1> DEFINE d == Gap(a, b, M)
           e == Gap(a, c, M)
<1>1. PICK y \in Int : b - a = M * y + d
  BY GapProperties
<1>2. PICK z \in Int : c - a = M * z + e
  BY GapProperties
<1>3. d \in Nat /\ e \in 0..(M - 1)
  BY GapProperties
<1>4. d <= e
  OBVIOUS
<1> HIDE DEF d, e
<1>5. M * (z - y) = M * z - M * y /\ M * y \in Int /\ M * z \in Int
  BY Z3
<1>6. c - b = M * (z - y) + (e - d)
  BY <1>1, <1>2, <1>3, <1>5
<1>7. z - y \in Int /\ e - d \in 0..(M - 1)
  BY <1>3, <1>4
<1>8. Gap(b, c, M) = e - d
  BY <1>6, <1>7, GapUnique, ZenonT(60)
<1> QED
  BY <1>8 DEF d, e

(* A counter that is counted up is one ahead of itself. *)
LEMMA GapOne ==
  ASSUME NEW a \in Int, NEW M \in Nat, M > 1
  PROVE  Gap(a, (a + 1) % M, M) = 1 /\ (a + 1) % M \in 0..(M - 1)
<1> DEFINE x == a + 1
<1>1. x \in Int /\ M > 0
  OBVIOUS
<1>2. x = M * (x \div M) + (x % M) /\ x \div M \in Int /\ x % M \in 0..(M - 1)
  BY <1>1, DivMod
<1> DEFINE q == x \div M
           c == x % M
<1>3. c - a = M * (-q) + 1 /\ -q \in Int
  <2>1. c \in Int /\ q \in Int /\ a + 1 = M * q + c
    BY <1>2
  <2> HIDE DEF c, q
  <2>2. M * (-q) = -(M * q) /\ M * q \in Int
    BY <2>1, Z3
  <2> QED
    BY <2>1, <2>2
<1>4. c \in Int /\ 1 \in 0..(M - 1)
  BY <1>2
<1> HIDE DEF c, q
<1>5. Gap(a, c, M) = 1
  BY <1>1, <1>3, <1>4, GapUnique
<1> QED
  BY <1>2, <1>5 DEF c

(* Equal counters have no gap. *)
LEMMA GapNone ==
  ASSUME NEW a \in Int, NEW M \in Nat, M > 0
  PROVE  Gap(a, a, M) = 0
<1>1. a - a = M * 0 + 0 /\ 0 \in 0..(M - 1)
  OBVIOUS
<1> QED
  BY <1>1, GapUnique

(* Counters of the range without a gap are equal. *)
LEMMA GapZero ==
  ASSUME NEW M \in Nat, M > 0, NEW a \in 0..(M - 1), NEW b \in 0..(M - 1), Gap(a, b, M) = 0
  PROVE  a = b
<1>0. \E z \in Int : b - a = M * z + Gap(a, b, M)
  <2>1. a \in Int /\ b \in Int
    OBVIOUS
  <2> QED
    BY <2>1, GapProperties, Zenon
<1>1. PICK z \in Int : b - a = M * z + 0
  BY <1>0
<1> DEFINE d == b - a
<1>2. d \in Int /\ d = M * z /\ d < M /\ -d < M
  BY <1>1
<1>3. M * (-z) = -d /\ -z \in Int
  <2>1. M * (-z) = -(M * z) /\ M * z \in Int
    BY Z3
  <2> QED
    BY <1>2, <2>1
<1> HIDE DEF d
<1>4. ~(0 < M * z)
  BY <1>2, NoSmallMultiple
<1>5. ~(0 < M * (-z))
  BY <1>2, <1>3, NoSmallMultiple
<1>6. d = 0
  BY <1>2, <1>3, <1>4, <1>5
<1> QED
  BY <1>6 DEF d

(* The slot of counter b, counted from a. *)
LEMMA GapSlot ==
  ASSUME NEW a \in Int, NEW b \in Int, NEW M \in Nat, NEW D \in Nat, M > 0, D > 0, M % D = 0
  PROVE  (a + Gap(a, b, M)) % D = b % D
<1> DEFINE x == b - a
           m == x % M
<1>1. x \in Int /\ m \in Int /\ m = Gap(a, b, M)
  BY DivMod DEF Gap
<1>2. m % D = x % D
  BY <1>1, RemainderOfRemainder
<1>3. x + a = b /\ m + a = a + m
  BY <1>1
<1> HIDE DEF x, m
<1>4. ((m % D) + a) % D = (m + a) % D
  BY <1>1, RemainderOfSum
<1>5. ((x % D) + a) % D = (x + a) % D
  BY <1>1, RemainderOfSum
<1> QED
  BY <1>1, <1>2, <1>3, <1>4, <1>5

-----------------------------------------------------------------------------
(* Induction. *)

(* Every set of naturals that is not empty has a least element. *)
LEMMA LeastNatural ==
  ASSUME NEW T, T \subseteq Nat, T # {}
  PROVE  \E x \in T : \A y \in T : ~(y < x)
<1> DEFINE R == WF!OpToRel(<, Nat)
<1>1. WF!IsWellFoundedOn(R, Nat)
  BY WF!NatLessThanWellFounded
<1>2. \A y \in Nat, x \in Nat : y < x => <<y, x>> \in R
  BY DEF WF!OpToRel
<1> HIDE DEF R
<1>3. \E x \in T : \A y \in T : ~(<<y, x>> \in R)
  BY <1>1, WF!WFMin
<1> QED
  BY <1>2, <1>3

(* A set that holds 0 and the successors of its members holds every        *)
(* natural number: otherwise look at the least one it does not hold.       *)
LEMMA SetInduction ==
  ASSUME NEW S, 0 \in S, \A n \in Nat : n \in S => n + 1 \in S
  PROVE  Nat \subseteq S
<1> SUFFICES ASSUME ~(Nat \subseteq S) PROVE FALSE
  OBVIOUS
<1> DEFINE T == Nat \ S
<1>1. PICK x \in T : \A y \in T : ~(y < x)
  <2>1. T \subseteq Nat /\ T # {}
    OBVIOUS
  <2> QED
    BY <2>1, LeastNatural
<1>2. x \in Nat /\ x # 0 /\ x - 1 \in Nat
  BY <1>1
<1>3. x - 1 \in S
  BY <1>1, <1>2
<1> QED
  BY <1>1, <1>2, <1>3

-----------------------------------------------------------------------------
(* Stacks. *)

(* What Front and Last leave and take. *)
LEMMA FrontLast ==
  ASSUME NEW S, NEW s \in Seq(S), s # << >>
  PROVE  /\ Len(s) \in Nat \ {0}
         /\ Front(s) \in Seq(S) /\ Len(Front(s)) = Len(s) - 1
         /\ \A i \in 1..(Len(s) - 1) : Front(s)[i] = s[i]
         /\ Last(s) = s[Len(s)] /\ Last(s) \in S
<1>1. Len(s) \in Nat /\ Len(s) # 0
  OBVIOUS
<1>2. Front(s) = SubSeq(s, 1, Len(s) - 1)
  BY DEF Front
<1>3. Last(s) = s[Len(s)]
  BY DEF Last
<1>4. s[Len(s)] \in S
  BY <1>1
<1>5. /\ SubSeq(s, 1, Len(s) - 1) \in Seq(S) /\ Len(SubSeq(s, 1, Len(s) - 1)) = Len(s) - 1
      /\ \A i \in 1..(Len(s) - 1) : SubSeq(s, 1, Len(s) - 1)[i] = s[i]
  <2> DEFINE m == Len(s) - 1
  <2>1. m \in Int /\ m >= 0 /\ \A i \in 1..m : s[i] \in S
    BY <1>1
  <2> HIDE DEF m
  <2>2. /\ SubSeq(s, 1, m) \in Seq(S) /\ Len(SubSeq(s, 1, m)) = IF 1 <= m THEN m - 1 + 1 ELSE 0
        /\ \A i \in 1..(m - 1 + 1) : SubSeq(s, 1, m)[i] = s[1 + i - 1]
    BY <2>1, ST!SubSeqProperties
  <2>3. /\ SubSeq(s, 1, m) \in Seq(S) /\ Len(SubSeq(s, 1, m)) = m
        /\ \A i \in 1..m : SubSeq(s, 1, m)[i] = s[i]
    BY <2>1, <2>2
  <2> QED
    BY <2>3 DEF m
<1> QED
  BY <1>1, <1>2, <1>3, <1>4, <1>5

(* What Append puts on top. *)
LEMMA AppendTop ==
  ASSUME NEW S, NEW s \in Seq(S), NEW x \in S
  PROVE  /\ Append(s, x) \in Seq(S) /\ Len(Append(s, x)) = Len(s) + 1 /\ Len(s) \in Nat
         /\ \A i \in 1..Len(s) : Append(s, x)[i] = s[i]
         /\ Append(s, x)[Len(s) + 1] = x
  BY ST!AppendProperties, ST!LenProperties

-----------------------------------------------------------------------------
(* Recursive functions on 0..n: the folds of the models.  A step is a      *)
(* function G[k] here, so that it can be a parameter of a lemma.           *)

(* f starts at s and takes step G[k] from k - 1 to k. *)
Runs(f, s, G, n) == f = [k \in 0..n |-> IF k = 0 THEN s ELSE G[k][f[k - 1]]]

(* There is such a function for every number of steps. *)
LEMMA RunExists ==
  ASSUME NEW s, NEW G, NEW n \in Nat
  PROVE  \E f : Runs(f, s, G, n)
<1> DEFINE S == {k \in Nat : \E f : Runs(f, s, G, k)}
<1>1. 0 \in S
  <2> DEFINE h == [i \in 0..0 |-> s]
  <2>1. Runs(h, s, G, 0)
    BY DEF Runs
  <2> QED
    BY <2>1
<1>2. ASSUME NEW k \in Nat, k \in S PROVE k + 1 \in S
  <2>1. PICK f : Runs(f, s, G, k)
    BY <1>2
  <2> DEFINE h == [i \in 0..(k + 1) |-> IF i = 0 THEN s ELSE G[i][f[i - 1]]]
  <2>2. ASSUME NEW i \in 0..k PROVE h[i] = f[i]
    BY <2>1, <2>2 DEF Runs
  <2>3. ASSUME NEW i \in 0..(k + 1) PROVE h[i] = IF i = 0 THEN s ELSE G[i][h[i - 1]]
    <3>1. CASE i = 0
      BY <3>1
    <3>2. CASE i # 0
      <4>1. i - 1 \in 0..k
        BY <3>2
      <4>2. h[i - 1] = f[i - 1]
        BY <2>2, <4>1
      <4> QED
        BY <3>2, <4>2
    <3> QED
      BY <3>1, <3>2
  <2>4. Runs(h, s, G, k + 1)
    BY <2>3 DEF Runs
  <2> QED
    BY <2>4
<1>3. Nat \subseteq S
  <2> HIDE DEF S
  <2> QED
    BY <1>1, <1>2, SetInduction
<1> QED
  BY <1>3

(* What holds at 0 and is kept by every step holds all along: V[k] is the  *)
(* set of values that are right after k steps.                             *)
LEMMA RunStaysIn ==
  ASSUME NEW n \in Nat, NEW f, NEW V, f[0] \in V[0],
         \A k \in 1..n : f[k - 1] \in V[k - 1] => f[k] \in V[k]
  PROVE  \A k \in 0..n : f[k] \in V[k]
<1> DEFINE S == {k \in Nat : k \in 0..n => f[k] \in V[k]}
<1>1. 0 \in S
  OBVIOUS
<1>2. ASSUME NEW k \in Nat, k \in S PROVE k + 1 \in S
  <2> SUFFICES ASSUME k + 1 \in 0..n PROVE f[k + 1] \in V[k + 1]
    OBVIOUS
  <2>1. k + 1 \in 1..n /\ (k + 1) - 1 = k /\ k \in 0..n
    OBVIOUS
  <2>2. f[k] \in V[k]
    BY <1>2, <2>1
  <2> QED
    BY <2>1, <2>2
<1>3. Nat \subseteq S
  <2> HIDE DEF S
  <2> QED
    BY <1>1, <1>2, SetInduction
<1> QED
  BY <1>3

(* A recursive function whose steps stay in V exists. *)
LEMMA RunInExists ==
  ASSUME NEW n \in Nat, NEW s, NEW V, NEW G, s \in V[0],
         \A k \in 1..n : \A x \in V[k - 1] : G[k][x] \in V[k]
  PROVE  \E f : Runs(f, s, G, n) /\ \A k \in 0..n : f[k] \in V[k]
<1>1. PICK f : Runs(f, s, G, n)
  BY RunExists
<1>2. f[0] = s /\ \A k \in 1..n : f[k] = G[k][f[k - 1]]
  BY <1>1 DEF Runs
<1>3. \A k \in 0..n : f[k] \in V[k]
  BY <1>2, RunStaysIn
<1> QED
  BY <1>1, <1>3

-----------------------------------------------------------------------------
(* FlattenSeq, by its recursion. *)

(* Concatenation, kept folded where only the recursion matters. *)
Cat(s, t) == s \o t

(* g is the function FlattenSeq chooses for the first n sequences of ss. *)
Flattens(g, ss, n) ==
  g = [i \in 1..n |-> IF i = 1 THEN ss[i] ELSE Cat(g[i - 1], ss[i])]

(* There is such a function for every length. *)
LEMMA FlattensExists ==
  ASSUME NEW ss, NEW n \in Nat
  PROVE  \E g : Flattens(g, ss, n)
<1> DEFINE S == {k \in Nat : \E g : Flattens(g, ss, k)}
<1>1. 0 \in S
  <2>1. Flattens(<< >>, ss, 0)
    BY DEF Flattens
  <2> QED
    BY <2>1
<1>2. ASSUME NEW k \in Nat, k \in S PROVE k + 1 \in S
  <2>1. PICK g : Flattens(g, ss, k)
    BY <1>2
  <2> DEFINE h == [i \in 1..(k + 1) |-> IF i = 1 THEN ss[i] ELSE Cat(g[i - 1], ss[i])]
  <2>2. ASSUME NEW i \in 1..k PROVE h[i] = g[i]
    BY <2>1, <2>2 DEF Flattens
  <2>3. ASSUME NEW i \in 1..(k + 1) PROVE h[i] = IF i = 1 THEN ss[i] ELSE Cat(h[i - 1], ss[i])
    <3>1. CASE i = 1
      BY <3>1
    <3>2. CASE i # 1
      <4>1. i - 1 \in 1..k
        BY <3>2
      <4>2. h[i - 1] = g[i - 1]
        BY <2>2, <4>1
      <4> QED
        BY <3>2, <4>2
    <3> QED
      BY <3>1, <3>2
  <2>4. Flattens(h, ss, k + 1)
    BY <2>3 DEF Flattens
  <2> QED
    BY <2>4
<1>3. Nat \subseteq S
  <2> HIDE DEF S
  <2> QED
    BY <1>1, <1>2, SetInduction
<1> QED
  BY <1>3

(* FlattenSeq is the last value of that function. *)
LEMMA FlattenSeqIs ==
  ASSUME NEW S, NEW ss \in Seq(Seq(S)), ss # << >>
  PROVE  \E g : Flattens(g, ss, Len(ss)) /\ FlattenSeq(ss) = g[Len(ss)]
<1>1. Len(ss) \in Nat /\ Len(ss) # 0
  OBVIOUS
<1> DEFINE c == CHOOSE g : Flattens(g, ss, Len(ss))
<1>2. Flattens(c, ss, Len(ss))
  <2>1. \E g : Flattens(g, ss, Len(ss))
    BY <1>1, FlattensExists
  <2> QED
    BY <2>1
<1>3. FlattenSeq(ss) = c[Len(ss)]
  BY <1>1 DEF FlattenSeq, Flattens, Cat
<1> QED
  BY <1>2, <1>3

(* What the recursion yields at every index. *)
LEMMA FlattensStep ==
  ASSUME NEW g, NEW ss, NEW n \in Nat, Flattens(g, ss, n), NEW i \in 1..n
  PROVE  g[i] = IF i = 1 THEN ss[i] ELSE Cat(g[i - 1], ss[i])
<1>1. g = [j \in 1..n |-> IF j = 1 THEN ss[j] ELSE Cat(g[j - 1], ss[j])]
  BY DEF Flattens
<1> QED
  BY <1>1

(* Every value of it is a sequence. *)
LEMMA FlattensType ==
  ASSUME NEW S, NEW ss \in Seq(Seq(S)), NEW g, Flattens(g, ss, Len(ss)), NEW m \in 1..Len(ss)
  PROVE  g[m] \in Seq(S)
<1> DEFINE T == {k \in Nat : k \in 1..Len(ss) => g[k] \in Seq(S)}
<1>1. 0 \in T
  OBVIOUS
<1>2. ASSUME NEW k \in Nat, k \in T PROVE k + 1 \in T
  <2> SUFFICES ASSUME k + 1 \in 1..Len(ss) PROVE g[k + 1] \in Seq(S)
    OBVIOUS
  <2>1. ss[k + 1] \in Seq(S)
    OBVIOUS
  <2>2. g[k + 1] = IF k + 1 = 1 THEN ss[k + 1] ELSE Cat(g[k + 1 - 1], ss[k + 1])
    BY FlattensStep
  <2>3. CASE k = 0
    BY <2>1, <2>2, <2>3
  <2>4. CASE k # 0
    <3>1. g[k] \in Seq(S) /\ k + 1 - 1 = k
      BY <1>2, <2>4
    <3> QED
      BY <2>1, <2>2, <2>4, <3>1, ST!ConcatProperties DEF Cat
  <2> QED
    BY <2>3, <2>4
<1>3. Nat \subseteq T
  <2> HIDE DEF T
  <2> QED
    BY <1>1, <1>2, SetInduction
<1> QED
  BY <1>3

(* The flattened sequence is a sequence over the same elements. *)
LEMMA FlattenSeqType ==
  ASSUME NEW S, NEW ss \in Seq(Seq(S))
  PROVE  FlattenSeq(ss) \in Seq(S)
<1>1. CASE ss = << >>
  BY <1>1 DEF FlattenSeq
<1>2. CASE ss # << >>
  <2>1. PICK g : Flattens(g, ss, Len(ss)) /\ FlattenSeq(ss) = g[Len(ss)]
    BY <1>2, FlattenSeqIs
  <2>2. Len(ss) \in 1..Len(ss)
    BY <1>2
  <2> QED
    BY <2>1, <2>2, FlattensType
<1> QED
  BY <1>1, <1>2

(* Every element of every sequence is in the flattened one. *)
LEMMA FlattenHas ==
  ASSUME NEW S, NEW ss \in Seq(Seq(S)), NEW i \in 1..Len(ss), NEW l \in 1..Len(ss[i])
  PROVE  \E r \in 1..Len(FlattenSeq(ss)) : FlattenSeq(ss)[r] = ss[i][l]
<1> DEFINE n == Len(ss)
           x == ss[i][l]
           Has(s) == \E r \in 1..Len(s) : s[r] = x
<1>1. n \in Nat /\ i \in 1..n /\ ss # << >> /\ \A k \in 1..n : ss[k] \in Seq(S)
  OBVIOUS
<1>2. PICK g : Flattens(g, ss, n) /\ FlattenSeq(ss) = g[n]
  BY <1>1, FlattenSeqIs
<1>3. Has(ss[i])
  OBVIOUS
<1> HIDE DEF x
<1>4. ASSUME NEW s \in Seq(S), NEW t \in Seq(S), Has(s) \/ Has(t) PROVE Has(Cat(s, t))
  <2>1. /\ Len(Cat(s, t)) = Len(s) + Len(t) /\ Len(s) \in Nat /\ Len(t) \in Nat
        /\ \A j \in 1..(Len(s) + Len(t)) : Cat(s, t)[j] = IF j <= Len(s) THEN s[j] ELSE t[j - Len(s)]
    BY ST!ConcatProperties, ST!LenProperties DEF Cat
  <2>2. ASSUME NEW r \in 1..Len(s), s[r] = x PROVE Has(Cat(s, t))
    <3>1. r \in 1..(Len(s) + Len(t)) /\ r <= Len(s)
      BY <2>1
    <3>2. Cat(s, t)[r] = x
      BY <2>1, <2>2, <3>1
    <3> QED
      BY <2>1, <3>1, <3>2
  <2>3. ASSUME NEW r \in 1..Len(t), t[r] = x PROVE Has(Cat(s, t))
    <3>1. /\ Len(s) + r \in 1..(Len(s) + Len(t)) /\ ~(Len(s) + r <= Len(s))
          /\ (Len(s) + r) - Len(s) = r
      BY <2>1
    <3>2. Cat(s, t)[Len(s) + r] = x
      BY <2>1, <2>3, <3>1
    <3> QED
      BY <2>1, <3>1, <3>2
  <2> QED
    BY <1>4, <2>2, <2>3
<1> DEFINE T == {k \in Nat : k \in i..n => Has(g[k])}
<1> HIDE DEF Has
<1>5. 0 \in T
  OBVIOUS
<1>6. ASSUME NEW k \in Nat, k \in T PROVE k + 1 \in T
  <2> SUFFICES ASSUME k + 1 \in i..n PROVE Has(g[k + 1])
    OBVIOUS
  <2>1. k + 1 \in 1..n /\ k + 1 - 1 = k
    BY <1>1
  <2>2. g[k + 1] = IF k + 1 = 1 THEN ss[k + 1] ELSE Cat(g[k + 1 - 1], ss[k + 1])
    BY <1>1, <1>2, <2>1, FlattensStep
  <2>3. CASE k = 0
    <3>1. i = 1
      BY <2>3
    <3> QED
      BY <1>3, <2>2, <2>3, <3>1
  <2>4. CASE k # 0
    <3>1. k \in 1..n /\ g[k + 1] = Cat(g[k], ss[k + 1])
      BY <1>1, <2>1, <2>2, <2>4
    <3>2. g[k] \in Seq(S) /\ ss[k + 1] \in Seq(S)
      BY <1>1, <1>2, <2>1, <3>1, FlattensType
    <3>3. CASE i = k + 1
      <4>1. Has(ss[k + 1])
        BY <1>3, <3>3
      <4> QED
        BY <1>4, <3>1, <3>2, <4>1
    <3>4. CASE i # k + 1
      <4>1. k \in i..n
        BY <1>1, <3>4
      <4>2. Has(g[k])
        BY <1>6, <4>1
      <4> QED
        BY <1>4, <3>1, <3>2, <4>2
    <3> QED
      BY <3>3, <3>4
  <2> QED
    BY <2>3, <2>4
<1>7. Nat \subseteq T
  <2> HIDE DEF T
  <2> QED
    BY <1>5, <1>6, SetInduction
<1>8. n \in i..n
  BY <1>1
<1>9. Has(g[n])
  BY <1>1, <1>7, <1>8
<1> QED
  BY <1>2, <1>9 DEF Has, x

(* A sequence put last comes last. *)
LEMMA FlattenAppend ==
  ASSUME NEW S, NEW ss \in Seq(Seq(S)), NEW x \in Seq(S)
  PROVE  FlattenSeq(Append(ss, x)) = FlattenSeq(ss) \o x
<1> DEFINE tt == Append(ss, x)
           n == Len(ss)
<1>1. /\ tt \in Seq(Seq(S)) /\ tt # << >> /\ Len(tt) = n + 1 /\ n \in Nat
      /\ \A i \in 1..n : tt[i] = ss[i]
      /\ tt[n + 1] = x
  BY ST!AppendProperties, ST!LenProperties
<1> HIDE DEF tt, n
<1>2. PICK h : Flattens(h, tt, n + 1) /\ FlattenSeq(tt) = h[n + 1]
  <2>1. \E h : Flattens(h, tt, Len(tt)) /\ FlattenSeq(tt) = h[Len(tt)]
    BY <1>1, FlattenSeqIs
  <2> QED
    BY <1>1, <2>1
<1>3. \A i \in 1..(n + 1) : h[i] = IF i = 1 THEN tt[i] ELSE Cat(h[i - 1], tt[i])
  <2>1. n + 1 \in Nat
    BY <1>1
  <2> QED
    BY <1>2, <2>1, FlattensStep
<1>4. CASE n = 0
  <2>1. ss = << >> /\ FlattenSeq(ss) = << >>
    BY <1>4 DEF FlattenSeq, n
  <2>2. h[1] = x
    BY <1>1, <1>3, <1>4
  <2>3. << >> \o x = x
    BY ST!ConcatEmptySeq
  <2> QED
    BY <1>2, <1>4, <2>1, <2>2, <2>3 DEF tt
<1>5. CASE n # 0
  <2>1. PICK g : Flattens(g, ss, n) /\ FlattenSeq(ss) = g[n]
    BY <1>5, FlattenSeqIs DEF n
  <2>2. \A i \in 1..n : g[i] = IF i = 1 THEN ss[i] ELSE Cat(g[i - 1], ss[i])
    BY <1>1, <2>1, FlattensStep
  <2> DEFINE T == {k \in Nat : k \in 1..n => h[k] = g[k]}
  <2>3. 0 \in T
    OBVIOUS
  <2>4. ASSUME NEW k \in Nat, k \in T PROVE k + 1 \in T
    <3> SUFFICES ASSUME k + 1 \in 1..n PROVE h[k + 1] = g[k + 1]
      OBVIOUS
    <3>1. k + 1 \in 1..(n + 1) /\ tt[k + 1] = ss[k + 1] /\ k + 1 - 1 = k
      BY <1>1
    <3>2. CASE k = 0
      BY <1>3, <2>2, <3>1, <3>2
    <3>3. CASE k # 0
      <4>1. h[k] = g[k]
        <5>1. n \in Nat /\ k \in 1..n
          BY <1>1, <3>3
        <5> QED
          BY <2>4, <5>1
      <4>2. h[k + 1] = Cat(h[k], tt[k + 1])
        <5>1. h[k + 1] = IF k + 1 = 1 THEN tt[k + 1] ELSE Cat(h[k + 1 - 1], tt[k + 1])
          BY <1>3, <3>1
        <5> QED
          BY <3>1, <3>3, <5>1
      <4>3. g[k + 1] = Cat(g[k], ss[k + 1])
        <5>1. g[k + 1] = IF k + 1 = 1 THEN ss[k + 1] ELSE Cat(g[k + 1 - 1], ss[k + 1])
          <6> DEFINE j == k + 1
          <6>1. j \in 1..n
            OBVIOUS
          <6> HIDE DEF j, T
          <6>2. g[j] = IF j = 1 THEN ss[j] ELSE Cat(g[j - 1], ss[j])
            BY <2>2, <6>1
          <6> QED
            BY <6>2 DEF j
        <5> QED
          BY <3>1, <3>3, <5>1
      <4> QED
        BY <3>1, <4>1, <4>2, <4>3
    <3> QED
      BY <3>2, <3>3
  <2>5. Nat \subseteq T
    <3> HIDE DEF T
    <3> QED
      BY <2>3, <2>4, SetInduction
  <2>6. h[n] = g[n] /\ n + 1 # 1 /\ n + 1 - 1 = n /\ n + 1 \in 1..(n + 1)
    <3>1. n \in Nat /\ n # 0
      BY <1>1, <1>5
    <3>2. n \in 1..n /\ n + 1 # 1 /\ n + 1 - 1 = n /\ n + 1 \in 1..(n + 1)
      BY <3>1
    <3> QED
      BY <2>5, <3>1, <3>2
  <2>7. h[n + 1] = Cat(h[n], x)
    <3>1. h[n + 1] = IF n + 1 = 1 THEN tt[n + 1] ELSE Cat(h[n + 1 - 1], tt[n + 1])
      BY <1>1, <1>3, <2>6
    <3> QED
      BY <1>1, <2>6, <3>1
  <2> QED
    BY <1>2, <2>1, <2>6, <2>7 DEF tt, Cat
<1> QED
  BY <1>4, <1>5

(* A sequence at the front comes first. *)
LEMMA FlattenTail ==
  ASSUME NEW S, NEW ss \in Seq(Seq(S)), ss # << >>
  PROVE  FlattenSeq(ss) = Head(ss) \o FlattenSeq(Tail(ss))
<1> DEFINE tt == Tail(ss)
           n == Len(ss)
<1>1. /\ tt \in Seq(Seq(S)) /\ Len(tt) = n - 1 /\ n \in Nat /\ n # 0
      /\ \A i \in 1..(n - 1) : tt[i] = ss[i + 1]
      /\ Head(ss) = ss[1] /\ ss[1] \in Seq(S)
  BY ST!HeadTailProperties
<1> HIDE DEF tt, n
<1>2. PICK g : Flattens(g, ss, n) /\ FlattenSeq(ss) = g[n]
  BY FlattenSeqIs DEF n
<1>3. \A i \in 1..n : g[i] = IF i = 1 THEN ss[i] ELSE Cat(g[i - 1], ss[i])
  BY <1>1, <1>2, FlattensStep
<1>4. CASE n = 1
  <2>1. tt = << >> /\ FlattenSeq(tt) = << >>
    BY <1>1, <1>4 DEF FlattenSeq
  <2>2. g[1] = ss[1] /\ ss[1] \o << >> = ss[1]
    BY <1>1, <1>3, <1>4, ST!ConcatEmptySeq
  <2> QED
    BY <1>1, <1>2, <1>4, <2>1, <2>2 DEF tt
<1>5. CASE n # 1
  <2>1. PICK h : Flattens(h, tt, n - 1) /\ FlattenSeq(tt) = h[n - 1]
    <3>1. tt # << >>
      BY <1>1, <1>5
    <3>2. \E h : Flattens(h, tt, Len(tt)) /\ FlattenSeq(tt) = h[Len(tt)]
      BY <1>1, <3>1, FlattenSeqIs
    <3> QED
      BY <1>1, <3>2
  <2>2. n - 1 \in Nat /\ n - 1 \in 1..(n - 1)
    BY <1>1, <1>5
  <2>3. \A i \in 1..(n - 1) : h[i] = IF i = 1 THEN tt[i] ELSE Cat(h[i - 1], tt[i])
    BY <2>1, <2>2, FlattensStep
  <2>4. \A i \in 1..(n - 1) : h[i] \in Seq(S) /\ tt[i] \in Seq(S)
    <3>1. Flattens(h, tt, Len(tt)) /\ Len(tt) = n - 1
      BY <1>1, <2>1
    <3> QED
      BY <1>1, <3>1, FlattensType, SMTT(60)
  <2> DEFINE T == {k \in Nat : k \in 1..(n - 1) => g[k + 1] = Cat(ss[1], h[k])}
  <2>5. 0 \in T
    OBVIOUS
  <2>6. ASSUME NEW k \in Nat, k \in T PROVE k + 1 \in T
    <3> SUFFICES ASSUME k + 1 \in 1..(n - 1) PROVE g[k + 1 + 1] = Cat(ss[1], h[k + 1])
      OBVIOUS
    <3>1. k + 2 \in 1..n /\ k + 2 # 1 /\ k + 2 - 1 = k + 1 /\ k + 1 + 1 = k + 2
          /\ tt[k + 1] = ss[k + 2] /\ k + 1 - 1 = k
      BY <1>1
    <3>2. g[k + 2] = Cat(g[k + 1], ss[k + 2])
      BY <1>3, <3>1
    <3>3. CASE k = 0
      <4>1. g[1] = ss[1] /\ h[1] = tt[1]
        BY <1>1, <1>3, <2>3, <3>3
      <4> QED
        BY <3>1, <3>2, <3>3, <4>1
    <3>4. CASE k # 0
      <4>1. k \in 1..(n - 1) /\ g[k + 1] = Cat(ss[1], h[k])
        BY <1>1, <2>6, <3>4
      <4>2. h[k + 1] = Cat(h[k], tt[k + 1])
        <5>1. h[k + 1] = IF k + 1 = 1 THEN tt[k + 1] ELSE Cat(h[k + 1 - 1], tt[k + 1])
          BY <2>3
        <5> QED
          BY <3>1, <3>4, <5>1
      <4>3. h[k] \in Seq(S) /\ tt[k + 1] \in Seq(S)
        BY <2>4, <4>1
      <4>4. Cat(Cat(ss[1], h[k]), tt[k + 1]) = Cat(ss[1], Cat(h[k], tt[k + 1]))
        <5>1. (ss[1] \o h[k]) \o tt[k + 1] = ss[1] \o (h[k] \o tt[k + 1])
          <6>1. ASSUME NEW a \in Seq(S), NEW b \in Seq(S), NEW c \in Seq(S)
                PROVE  (a \o b) \o c = a \o (b \o c)
            BY ST!ConcatAssociative, SMTT(60)
          <6> QED
            BY <1>1, <4>3, <6>1
        <5> QED
          BY <5>1 DEF Cat
      <4> QED
        BY <3>1, <3>2, <4>1, <4>2, <4>4
    <3> QED
      BY <3>3, <3>4
  <2>7. Nat \subseteq T
    <3> HIDE DEF T
    <3> QED
      BY <2>5, <2>6, SetInduction
  <2>8. n - 1 + 1 = n /\ g[n] = Cat(ss[1], h[n - 1])
    BY <1>1, <2>2, <2>7
  <2> QED
    BY <1>1, <1>2, <2>1, <2>8 DEF tt, Cat
<1> QED
  BY <1>4, <1>5

-----------------------------------------------------------------------------
(* Rings. *)

(* A ring of D slots with entries of S. *)
IsRing(f, D, S) == D \in Nat /\ D > 0 /\ f \in [0..(D - 1) -> S]

(* The n entries of a ring of D slots that start at counter r. *)
RingSeq(f, r, n, D) == [i \in 1..n |-> f[(r + i - 1) % D]]

(* They are a sequence of that length. *)
LEMMA RingSeqType ==
  ASSUME NEW S, NEW D, NEW f, IsRing(f, D, S), NEW r \in Nat, NEW n \in Nat
  PROVE  RingSeq(f, r, n, D) \in Seq(S) /\ Len(RingSeq(f, r, n, D)) = n
<1> USE DEF IsRing
<1>1. ASSUME NEW i \in 1..n PROVE f[(r + i - 1) % D] \in S
  <2>1. r + i - 1 \in Int
    OBVIOUS
  <2>2. (r + i - 1) % D \in 0..(D - 1)
    BY <2>1, DivMod
  <2> QED
    BY <2>2
<1> QED
  BY <1>1 DEF RingSeq

(* Storing x behind the n entries of f, of which there are then m, makes g. *)
Stores(f, g, D, r, n, m, x) ==
  /\ n < D /\ m = n + 1
  /\ g = [f EXCEPT ![(r + n) % D] = x]

(* An entry stored behind the last one is appended. *)
LEMMA RingPush ==
  ASSUME NEW S, NEW D, NEW f, IsRing(f, D, S), NEW r \in Nat, NEW n \in Nat,
         NEW m, NEW g, NEW x \in S, Stores(f, g, D, r, n, m, x)
  PROVE  RingSeq(g, r, m, D) = Append(RingSeq(f, r, n, D), x)
<1> DEFINE w == (r + n) % D
           s == RingSeq(g, r, m, D)
           t == RingSeq(f, r, n, D)
           u == Append(t, x)
<1>0. /\ D \in Nat /\ D > 0 /\ f \in [0..(D - 1) -> S]
      /\ n < D /\ m = n + 1 /\ g = [f EXCEPT ![w] = x]
  BY DEF IsRing, Stores
<1>1. w \in 0..(D - 1)
  BY <1>0, DivMod
<1>2. IsRing(g, D, S) /\ m \in Nat /\ g[w] = x
      /\ \A i \in 0..(D - 1) : i # w => g[i] = f[i]
  BY <1>0, <1>1 DEF IsRing
<1>3. s \in Seq(S) /\ Len(s) = n + 1 /\ t \in Seq(S) /\ Len(t) = n
  <2>1. RingSeq(g, r, m, D) \in Seq(S) /\ Len(RingSeq(g, r, m, D)) = m
    BY <1>0, <1>2, RingSeqType
  <2>2. RingSeq(f, r, n, D) \in Seq(S) /\ Len(RingSeq(f, r, n, D)) = n
    BY <1>0, RingSeqType
  <2> QED
    BY <1>0, <2>1, <2>2
<1>4. \A i \in 1..n : t[i] = f[(r + i - 1) % D]
  BY <1>0 DEF RingSeq
<1>5. \A i \in 1..(n + 1) : s[i] = g[(r + i - 1) % D]
  BY <1>0 DEF RingSeq
<1> HIDE DEF s, t
<1>6. u \in Seq(S) /\ Len(u) = n + 1 /\ (\A i \in 1..n : u[i] = t[i]) /\ u[n + 1] = x
  BY <1>3, ST!AppendProperties
<1> HIDE DEF u
<1>7. ASSUME NEW i \in 1..(n + 1) PROVE s[i] = u[i]
  <2>1. CASE i = n + 1
    <3>1. r + i - 1 = r + n
      BY <2>1
    <3> QED
      BY <1>2, <1>5, <1>6, <2>1, <3>1
  <2>2. CASE i # n + 1
    <3>1. i \in 1..n /\ r + i - 1 \in Int /\ r + n \in Int
      BY <2>2
    <3>2. (r + i - 1) % D # w
      <4> SUFFICES ASSUME (r + i - 1) % D = (r + n) % D PROVE FALSE
        BY <1>0
      <4>1. (r + i - 1) - (r + n) < D /\ (r + n) - (r + i - 1) < D
        BY <1>0, <3>1
      <4>2. r + i - 1 = r + n
        BY <1>0, <3>1, <4>1, CloseRemainders
      <4> QED
        BY <3>1, <4>2
    <3>3. (r + i - 1) % D \in 0..(D - 1)
      BY <1>0, <3>1, DivMod
    <3> QED
      BY <1>2, <1>4, <1>5, <1>6, <3>1, <3>2, <3>3
  <2> QED
    BY <2>1, <2>2
<1>8. s = u
  BY <1>3, <1>6, <1>7, ST!SeqEqual
<1> QED
  BY <1>8 DEF s, t, u

(* Until it is counted, the entry stored is not one of the ring's. *)
LEMMA RingStoreUnseen ==
  ASSUME NEW S, NEW D, NEW f, IsRing(f, D, S), NEW r \in Nat, NEW n \in Nat,
         NEW m, NEW g, NEW x \in S, Stores(f, g, D, r, n, m, x)
  PROVE  IsRing(g, D, S) /\ RingSeq(g, r, n, D) = RingSeq(f, r, n, D)
<1> DEFINE s == RingSeq(g, r, n, D)
           t == RingSeq(f, r, n, D)
           v == RingSeq(g, r, m, D)
<1>1. m = n + 1 /\ IsRing(g, D, S)
  <2>1. (r + n) % D \in 0..(D - 1)
    BY DivMod DEF IsRing
  <2> QED
    BY <2>1 DEF IsRing, Stores
<1>2. t \in Seq(S) /\ Len(t) = n
  BY RingSeqType
<1>3. s \in Seq(S) /\ Len(s) = n
  BY <1>1, RingSeqType
<1>4. v = Append(t, x)
  BY RingPush
<1>5. \A i \in 1..n : v[i] = s[i]
  BY <1>1 DEF RingSeq
<1> HIDE DEF s, t, v
<1>6. \A i \in 1..n : v[i] = t[i]
  BY <1>2, <1>4, ST!AppendProperties
<1>7. s = t
  BY <1>2, <1>3, <1>5, <1>6, ST!SeqEqual
<1> QED
  BY <1>1, <1>7 DEF s, t

(* Counting an entry that is already in its slot appends it. *)
LEMMA RingPublish ==
  ASSUME NEW S, NEW D, NEW f, IsRing(f, D, S), NEW r \in Nat, NEW n \in Nat, n < D,
         NEW m, m = n + 1, NEW x, f[(r + n) % D] = x
  PROVE  RingSeq(f, r, m, D) = Append(RingSeq(f, r, n, D), x)
<1>1. D \in Nat /\ D > 0 /\ f \in [0..(D - 1) -> S]
  BY DEF IsRing
<1> DEFINE w == (r + n) % D
<1>2. w \in 0..(D - 1)
  BY <1>1, DivMod
<1>3. x \in S /\ f = [f EXCEPT ![w] = x]
  BY <1>1, <1>2
<1>4. Stores(f, f, D, r, n, m, x)
  BY <1>3 DEF Stores
<1> QED
  BY <1>3, <1>4, RingPush

(* Moving the read counter from r to q passes k of the n entries and       *)
(* leaves m, the first of which was entry b.                               *)
Passes(D, r, q, n, m, k, b) ==
  /\ k \in 0..n /\ m = n - k /\ b = k + 1
  /\ q % D = (r + k) % D

(* A ring whose read counter moves on by k has lost its first k entries. *)
LEMMA RingDrop ==
  ASSUME NEW S, NEW D, NEW f, IsRing(f, D, S), NEW r \in Nat, NEW n \in Nat, NEW q \in Nat,
         NEW m, NEW k \in Nat, NEW b \in Nat, Passes(D, r, q, n, m, k, b)
  PROVE  RingSeq(f, q, m, D) = SubSeq(RingSeq(f, r, n, D), b, n)
<1> DEFINE s == RingSeq(f, q, m, D)
           t == RingSeq(f, r, n, D)
           u == SubSeq(t, b, n)
<1>0. /\ D \in Nat /\ D > 0
      /\ k \in 0..n /\ m = n - k /\ b = k + 1 /\ q % D = (r + k) % D
  BY DEF IsRing, Passes
<1>1. m \in Nat
  BY <1>0
<1>2. s \in Seq(S) /\ Len(s) = n - k /\ t \in Seq(S) /\ Len(t) = n
  <2>1. RingSeq(f, q, m, D) \in Seq(S) /\ Len(RingSeq(f, q, m, D)) = m
    BY <1>0, <1>1, RingSeqType
  <2>2. RingSeq(f, r, n, D) \in Seq(S) /\ Len(RingSeq(f, r, n, D)) = n
    BY <1>0, RingSeqType
  <2> QED
    BY <1>0, <2>1, <2>2
<1>3. \A i \in 1..n : t[i] = f[(r + i - 1) % D]
  BY <1>0 DEF RingSeq
<1>4. \A i \in 1..(n - k) : s[i] = f[(q + i - 1) % D]
  BY <1>0 DEF RingSeq
<1> HIDE DEF s, t
<1>5. u \in Seq(S) /\ Len(u) = n - k /\ \A i \in 1..(n - k) : u[i] = t[k + i]
  <2>1. \A i \in (k + 1)..n : t[i] \in S
    BY <1>0, <1>2
  <2> QED
    BY <1>0, <1>2, <2>1
<1> HIDE DEF u
<1>6. ASSUME NEW i \in 1..(n - k) PROVE s[i] = u[i]
  <2> DEFINE j == i - 1
             a == r + k
  <2>1. /\ k + i \in 1..n /\ q + i - 1 = q + j /\ a + j = r + (k + i) - 1
        /\ j \in Int /\ a \in Int /\ q \in Int /\ q % D = a % D
    BY <1>0
  <2> HIDE DEF j, a
  <2>2. ((q % D) + j) % D = (q + j) % D
    BY <1>0, <2>1, RemainderOfSum
  <2>3. ((a % D) + j) % D = (a + j) % D
    BY <1>0, <2>1, RemainderOfSum
  <2>4. (q + i - 1) % D = (r + (k + i) - 1) % D
    BY <2>1, <2>2, <2>3
  <2> QED
    BY <1>3, <1>4, <1>5, <2>1, <2>4
<1>7. s = u
  BY <1>2, <1>5, <1>6, ST!SeqEqual
<1> QED
  BY <1>7 DEF s, t, u

(* The case of one entry. *)
LEMMA RingPop ==
  ASSUME NEW S, NEW D, NEW f, IsRing(f, D, S), NEW r \in Nat, NEW n \in Nat, NEW q \in Nat,
         NEW m, Passes(D, r, q, n, m, 1, 2)
  PROVE  RingSeq(f, q, m, D) = Tail(RingSeq(f, r, n, D))
<1> DEFINE t == RingSeq(f, r, n, D)
<1>1. t \in Seq(S) /\ Len(t) = n
  BY RingSeqType
<1>2. n # 0
  BY DEF Passes
<1>3. RingSeq(f, q, m, D) = SubSeq(t, 2, n)
  BY RingDrop
<1> HIDE DEF t
<1>4. t # << >>
  BY <1>1, <1>2
<1>5. Tail(t) = SubSeq(t, 2, Len(t))
  BY <1>1, <1>4, ST!TailIsSubSeq
<1> QED
  BY <1>1, <1>3, <1>5 DEF t
=============================================================================
