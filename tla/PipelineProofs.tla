---------------------------- MODULE PipelineProofs ----------------------------
(***************************************************************************)
(* Proofs about PipelineRun for any jobs, attempts, uploads, pictures and  *)
(* GIFs.  First the arithmetic of GifTiming: a result plays exactly as     *)
(* long as its GIF.  Then the inductive invariant, an action at a time.    *)
(* Last, on the same arithmetic, GifProcessor for any GIFs.                *)
(***************************************************************************)
EXTENDS MCFiles, FiniteSetTheorems, TLAPS

-----------------------------------------------------------------------------
(* Totals                                                                  *)

\* Induction on the natural numbers, for a set rather than a predicate.
LEMMA NatInductionSet ==
  ASSUME NEW L, 0 \in L, \A n \in Nat : n \in L => n + 1 \in L
  PROVE  Nat \subseteq L
<1> SUFFICES ASSUME NEW n \in Nat, n \notin L
             PROVE  FALSE
  OBVIOUS
<1> DEFINE S == L \cap (0 .. n)
           T == S \ {0}
           f == [i \in S |-> i + 1]
<1>1. IsFiniteSet(S)
  <2>1. S \in SUBSET Nat /\ \A s \in S : s <= n
    OBVIOUS
  <2> QED
    BY <2>1, FS_BoundedSetOfNaturals
<1>2. 0 \in S
  OBVIOUS
<1>3. IsFiniteSet(T) /\ Cardinality(T) = Cardinality(S) - 1
  BY <1>1, <1>2, FS_RemoveElement
<1>4. f \in Injection(S, T)
  <2>1. \A i \in S : i + 1 \in T
    OBVIOUS
  <2>2. f \in [S -> T]
    BY <2>1
  <2>3. \A i, j \in S : f[i] = f[j] => i = j
    OBVIOUS
  <2> QED
    BY <2>2, <2>3 DEF Injection, IsInjective
<1>5. Cardinality(S) <= Cardinality(T)
  BY <1>1, <1>3, <1>4, FS_Injection
<1> QED
  BY <1>1, <1>3, <1>5, FS_CardinalityType

\* The running sums of a sequence.
SumsUpto(p, d, m) ==
  /\ p \in [0..m -> Int]
  /\ p[0] = 0
  /\ \A n \in 1..m : p[n] = p[n - 1] + d[n]

Sums(p, d) == SumsUpto(p, d, Len(d))

\* A sequence has running sums.
LEMMA SumsExist ==
  ASSUME NEW d \in Seq(Int)
  PROVE  \E p : Sums(p, d)
<1> DEFINE Upto(m) == m <= Len(d) => \E p : SumsUpto(p, d, m)
           L == {m \in Nat : Upto(m)}
<1>1. Upto(0)
  <2>1. SumsUpto([n \in 0..0 |-> 0], d, 0)
    BY DEF SumsUpto
  <2> QED
    BY <2>1
<1>2. ASSUME NEW m \in Nat, Upto(m)
      PROVE  Upto(m + 1)
  <2> SUFFICES ASSUME m + 1 <= Len(d)
               PROVE  \E p : SumsUpto(p, d, m + 1)
    OBVIOUS
  <2>1. Len(d) \in Nat
    OBVIOUS
  <2>2. m <= Len(d)
    BY <2>1
  <2>3. PICK p : SumsUpto(p, d, m)
    BY <1>2, <2>2
  <2> DEFINE q == [n \in 0..m + 1 |-> IF n = m + 1 THEN p[m] + d[m + 1] ELSE p[n]]
  <2>4. d[m + 1] \in Int
    BY <2>1
  <2>5. q \in [0..m + 1 -> Int]
    BY <2>3, <2>4 DEF SumsUpto
  <2>6. q[0] = 0
    BY <2>3 DEF SumsUpto
  <2>7. \A n \in 1..m + 1 : q[n] = q[n - 1] + d[n]
    BY <2>3 DEF SumsUpto
  <2> HIDE DEF q
  <2>8. SumsUpto(q, d, m + 1)
    BY <2>5, <2>6, <2>7 DEF SumsUpto
  <2> QED
    BY <2>8
<1> HIDE DEF Upto
<1>3. 0 \in L /\ \A m \in Nat : m \in L => m + 1 \in L
  BY <1>1, <1>2
<1>4. Nat \subseteq L
  BY <1>3, NatInductionSet
<1>5. Len(d) \in Nat
  OBVIOUS
<1>6. Upto(Len(d))
  BY <1>4, <1>5
<1> QED
  BY <1>5, <1>6 DEF Upto, Sums

\* The total is the last of the running sums.
LEMMA TotalIs ==
  ASSUME NEW d \in Seq(Int), NEW p, Sums(p, d)
  PROVE  Total(d) = p[Len(d)]
<1> DEFINE IsSum(s) == s = [n \in 0..Len(d) |-> IF n = 0 THEN 0 ELSE s[n - 1] + d[n]]
<1>0. Len(d) \in Nat
  OBVIOUS
<1>1. IsSum(p)
  BY <1>0 DEF Sums, SumsUpto
<1>2. PICK t : IsSum(t) /\ Total(d) = t[Len(d)]
  BY <1>1 DEF Total
<1>3. t[0] = 0 /\ \A n \in 1..Len(d) : t[n] = t[n - 1] + d[n]
  BY <1>0, <1>2
<1> DEFINE L == {n \in Nat : n <= Len(d) => t[n] = p[n]}
<1>4. 0 \in L
  BY <1>3 DEF Sums, SumsUpto
<1>5. ASSUME NEW n \in Nat, n \in L
      PROVE  n + 1 \in L
  <2> SUFFICES ASSUME n + 1 <= Len(d)
               PROVE  t[n + 1] = p[n + 1]
    OBVIOUS
  <2>1. n <= Len(d) /\ n + 1 \in 1..Len(d) /\ (n + 1) - 1 = n
    BY <1>0
  <2>2. t[n] = p[n]
    BY <1>5, <2>1
  <2> QED
    BY <1>3, <2>1, <2>2 DEF Sums, SumsUpto
<1> HIDE DEF L
<1>6. Nat \subseteq L
  BY <1>4, <1>5, NatInductionSet
<1>7. t[Len(d)] = p[Len(d)]
  BY <1>0, <1>6 DEF L
<1> QED
  BY <1>2, <1>7

\* And the total of a prefix is the running sum up to there.
LEMMA TotalOfPrefix ==
  ASSUME NEW d \in Seq(Int), NEW p, Sums(p, d), NEW m \in 0..Len(d)
  PROVE  Total(SubSeq(d, 1, m)) = p[m]
<1> DEFINE e == SubSeq(d, 1, m)
           q == [n \in 0..m |-> p[n]]
<1>1. Len(d) \in Nat
  OBVIOUS
<1>2. e \in Seq(Int) /\ Len(e) = m /\ \A n \in 1..m : e[n] = d[n]
  BY <1>1
<1>3. m \in Nat /\ 0 \in 0..m /\ m \in 0..m /\ 0..m \subseteq 0..Len(d)
  BY <1>1
<1>4. p \in [0..Len(d) -> Int] /\ p[0] = 0
  BY DEF Sums, SumsUpto
<1>5. q \in [0..m -> Int] /\ q[0] = 0 /\ q[m] = p[m]
  BY <1>3, <1>4
<1>6. \A n \in 1..m : q[n] = q[n - 1] + d[n]
  BY <1>1 DEF Sums, SumsUpto
<1> HIDE DEF e, q
<1>7. Sums(q, e)
  BY <1>2, <1>5, <1>6 DEF Sums, SumsUpto
<1>8. Total(e) = q[m]
  BY <1>2, <1>7, TotalIs
<1> QED
  BY <1>5, <1>8 DEF e

\* A total of hundredths of a second is a number of them.
LEMMA TotalOfTens ==
  ASSUME NEW d \in Seq(Int), \A i \in DOMAIN d : d[i] % 10 = 0,
         NEW p, Sums(p, d), NEW m \in 0..Len(d)
  PROVE  p[m] % 10 = 0
<1> DEFINE L == {n \in Nat : n <= Len(d) => p[n] % 10 = 0}
<1>0. Len(d) \in Nat
  OBVIOUS
<1>1. 0 \in L
  BY DEF Sums, SumsUpto
<1>2. ASSUME NEW n \in Nat, n \in L
      PROVE  n + 1 \in L
  <2> SUFFICES ASSUME n + 1 <= Len(d)
               PROVE  p[n + 1] % 10 = 0
    OBVIOUS
  <2>1. n <= Len(d) /\ n + 1 \in 1..Len(d) /\ (n + 1) - 1 = n /\ n \in 0..Len(d)
    BY <1>0
  <2>2. p[n] % 10 = 0 /\ p[n] \in Int
    BY <1>2, <2>1 DEF Sums, SumsUpto
  <2>3. d[n + 1] % 10 = 0 /\ d[n + 1] \in Int
    BY <2>1
  <2>4. p[n + 1] = p[n] + d[n + 1]
    BY <2>1 DEF Sums, SumsUpto
  <2> DEFINE x == p[n]
             y == d[n + 1]
  <2> HIDE DEF x, y
  <2>5. ASSUME x \in Int, y \in Int, x % 10 = 0, y % 10 = 0 PROVE (x + y) % 10 = 0
    BY <2>5
  <2> QED
    BY <2>2, <2>3, <2>4, <2>5 DEF x, y
<1> HIDE DEF L
<1>3. Nat \subseteq L
  BY <1>1, <1>2, NatInductionSet
<1>4. m \in Nat /\ m <= Len(d)
  BY <1>0
<1> QED
  BY <1>3, <1>4 DEF L

-----------------------------------------------------------------------------
(* Durations and delays                                                    *)

\* What needs no rounding is not rounded.
LEMMA RoundExact ==
  ASSUME NEW x \in Int, NEW n \in Nat \ {0}
  PROVE  Round(x * n, n) = x
<1>1. (x * n) \div n = x /\ (x * n) % n = 0
  OBVIOUS
<1> QED
  BY <1>1 DEF Round

\* Rounding gives a number, and not a negative one for what is not.
LEMMA RoundType ==
  ASSUME NEW x \in Int, NEW n \in Nat \ {0}
  PROVE  Round(x, n) \in Int /\ (x >= 0 => Round(x, n) \in Nat)
<1>1. x \div n \in Int /\ (x >= 0 => x \div n \in Nat)
  OBVIOUS
<1> QED
  BY <1>1 DEF Round

\* Delays that are whole hundredths are written as they are.
LEMMA DelaysExact ==
  ASSUME NEW d \in Seq(Int), \A i \in DOMAIN d : d[i] % 10 = 0
  PROVE  GifDelays(d) = d
<1>0. Len(d) \in Nat /\ DOMAIN d = 1..Len(d)
  OBVIOUS
<1>1. PICK p : Sums(p, d)
  BY SumsExist
<1> DEFINE b == [i \in 1..Len(d) + 1 |-> Round(Total(SubSeq(d, 1, i - 1)), 10)]
<1>2. ASSUME NEW i \in 1..Len(d) + 1
      PROVE  b[i] \in Int /\ 10 * b[i] = p[i - 1]
  <2>1. i - 1 \in 0..Len(d)
    BY <1>0
  <2>2. Total(SubSeq(d, 1, i - 1)) = p[i - 1]
    BY <1>1, <2>1, TotalOfPrefix
  <2>3. p[i - 1] \in Int /\ p[i - 1] % 10 = 0
    BY <1>1, <2>1, TotalOfTens DEF Sums, SumsUpto
  <2> DEFINE q == p[i - 1] \div 10
  <2>4. q \in Int /\ p[i - 1] = q * 10
    BY <2>3
  <2> HIDE DEF q
  <2>5. Round(q * 10, 10) = q
    BY <2>4, RoundExact
  <2>6. b[i] = q
    BY <2>2, <2>4, <2>5
  <2> HIDE DEF b
  <2> QED
    BY <2>4, <2>6
<1>3. b \in Seq(Int) /\ Len(b) = Len(d) + 1
  BY <1>0, <1>2
<1>4. GifDelays(d) = Centiseconds(Between(b))
  BY DEF GifDelays
<1> HIDE DEF b
<1>5. Between(b) = [i \in 1..Len(d) |-> b[i + 1] - b[i]]
  <2>1. Len(b) - 1 = Len(d)
    BY <1>0, <1>3
  <2> QED
    BY <2>1 DEF Between
<1>6. Centiseconds(Between(b)) = [i \in 1..Len(d) |-> 10 * (b[i + 1] - b[i])]
  BY <1>5 DEF Centiseconds
<1>7. ASSUME NEW i \in 1..Len(d)
      PROVE  10 * (b[i + 1] - b[i]) = d[i]
  <2>1. i \in 1..Len(d) + 1 /\ i + 1 \in 1..Len(d) + 1 /\ (i + 1) - 1 = i /\ i - 1 \in 0..Len(d)
    BY <1>0
  <2>2. /\ b[i] \in Int /\ 10 * b[i] = p[i - 1]
        /\ b[i + 1] \in Int /\ 10 * b[i + 1] = p[i]
    BY <1>2, <2>1
  <2>3. p[i] = p[i - 1] + d[i] /\ p[i - 1] \in Int
    BY <1>1, <2>1 DEF Sums, SumsUpto
  <2>4. d[i] \in Int
    BY <1>0
  <2> DEFINE x == b[i]
             y == b[i + 1]
  <2>5. 10 * y = 10 * x + d[i] /\ x \in Int /\ y \in Int
    BY <2>2, <2>3
  <2> HIDE DEF x, y
  <2>6. 10 * (y - x) = d[i]
    BY <2>4, <2>5
  <2> QED
    BY <2>6 DEF x, y
<1>8. [i \in 1..Len(d) |-> 10 * (b[i + 1] - b[i])] = d
  BY <1>0, <1>7
<1> QED
  BY <1>4, <1>6, <1>8

\* Boundaries leave the time between the first and the last, in hundredths.
LEMMA Telescopes ==
  ASSUME NEW m \in Nat, NEW b \in Seq(Int), Len(b) = m + 1
  PROVE  LET e == Centiseconds(Between(b)) IN
           /\ e \in Seq(Int) /\ Len(e) = m /\ DOMAIN e = 1..m
           /\ \A i \in 1..m : e[i] = 10 * (b[i + 1] - b[i]) /\ e[i] % 10 = 0
           /\ Total(e) = 10 * (b[m + 1] - b[1])
<1> DEFINE e == [i \in 1..m |-> 10 * (b[i + 1] - b[i])]
           q == [n \in 0..m |-> 10 * (b[n + 1] - b[1])]
<1>1. Between(b) = [i \in 1..m |-> b[i + 1] - b[i]]
  <2>1. Len(b) - 1 = m
    OBVIOUS
  <2> QED
    BY <2>1 DEF Between
<1>2. Centiseconds(Between(b)) = e
  BY <1>1 DEF Centiseconds
<1>3. \A n \in 1..m + 1 : b[n] \in Int
  OBVIOUS
<1>4. e \in Seq(Int) /\ Len(e) = m /\ DOMAIN e = 1..m
  BY <1>3
<1>5. \A i \in 1..m : e[i] % 10 = 0
  <2> SUFFICES ASSUME NEW i \in 1..m
               PROVE  (10 * (b[i + 1] - b[i])) % 10 = 0
    OBVIOUS
  <2> DEFINE x == b[i + 1] - b[i]
  <2>1. x \in Int
    BY <1>3
  <2> HIDE DEF x
  <2>2. (10 * x) % 10 = 0
    BY <2>1
  <2> QED
    BY <2>2 DEF x
<1>6. Sums(q, e)
  <2>1. q \in [0..m -> Int]
    BY <1>3
  <2>2. q[0] = 0
    BY <1>3
  <2>3. ASSUME NEW n \in 1..m
        PROVE  q[n] = q[n - 1] + e[n]
    <3>1. /\ q[n] = 10 * (b[n + 1] - b[1])
          /\ q[n - 1] = 10 * (b[n] - b[1])
          /\ e[n] = 10 * (b[n + 1] - b[n])
      OBVIOUS
    <3>2. b[n + 1] \in Int /\ b[n] \in Int /\ b[1] \in Int
      BY <1>3
    <3> DEFINE x == b[n + 1]
               y == b[n]
               z == b[1]
    <3> HIDE DEF x, y, z
    <3>3. ASSUME x \in Int, y \in Int, z \in Int
          PROVE  10 * (x - z) = 10 * (y - z) + 10 * (x - y)
      BY <3>3
    <3> QED
      BY <3>1, <3>2, <3>3 DEF x, y, z
  <2> HIDE DEF q, e
  <2> QED
    BY <1>4, <2>1, <2>2, <2>3 DEF Sums, SumsUpto
<1>7. q[m] = 10 * (b[m + 1] - b[1])
  OBVIOUS
<1>8. \A i \in 1..m : e[i] = 10 * (b[i + 1] - b[i])
  OBVIOUS
<1> HIDE DEF q, e
<1>9. Total(e) = 10 * (b[m + 1] - b[1])
  BY <1>4, <1>6, <1>7, TotalIs
<1> QED
  BY <1>2, <1>4, <1>5, <1>8, <1>9

\* A GIF lasts a whole number of hundredths, one for each frame at least.
LEMMA WholeHundredths ==
  ASSUME NEW gif \in Seq(Nat), Readable(gif)
  PROVE  /\ Total(gif) \div 10 \in Int /\ Total(gif) = 10 * (Total(gif) \div 10)
         /\ Len(gif) \in Nat /\ Total(gif) \div 10 >= Len(gif)
<1>1. gif \in Seq(Int) /\ Len(gif) \in Nat /\ \A i \in DOMAIN gif : gif[i] % 10 = 0
  BY DEF Readable
<1>2. PICK p : Sums(p, gif)
  BY <1>1, SumsExist
<1>3. Total(gif) = p[Len(gif)] /\ p[Len(gif)] % 10 = 0 /\ p[Len(gif)] \in Int
  <2>1. Len(gif) \in 0..Len(gif)
    BY <1>1
  <2>2. p[Len(gif)] % 10 = 0
    BY <1>1, <1>2, <2>1, TotalOfTens
  <2> QED
    BY <1>1, <1>2, <2>1, <2>2, TotalIs DEF Sums, SumsUpto
<1> DEFINE L == {n \in Nat : n <= Len(gif) => p[n] >= 10 * n}
<1>4. 0 \in L
  BY <1>2 DEF Sums, SumsUpto
<1>5. ASSUME NEW n \in Nat, n \in L
      PROVE  n + 1 \in L
  <2> SUFFICES ASSUME n + 1 <= Len(gif)
               PROVE  p[n + 1] >= 10 * (n + 1)
    OBVIOUS
  <2>1. n <= Len(gif) /\ n \in 0..Len(gif) /\ n + 1 \in 1..Len(gif) /\ (n + 1) - 1 = n
    BY <1>1
  <2>2. p[n] >= 10 * n /\ p[n] \in Int /\ p[n + 1] = p[n] + gif[n + 1]
    BY <1>2, <1>5, <2>1 DEF Sums, SumsUpto
  <2>3. gif[n + 1] \in Int /\ gif[n + 1] > 0 /\ gif[n + 1] % 10 = 0
    BY <2>1 DEF Readable
  <2> DEFINE d == gif[n + 1]
             s == p[n]
  <2>4. d \in Int /\ d > 0 /\ d % 10 = 0 /\ s \in Int /\ s >= 10 * n /\ p[n + 1] = s + d
    BY <2>2, <2>3
  <2> HIDE DEF d, s
  <2>5. d >= 10
    BY <2>4
  <2> QED
    BY <2>4, <2>5
<1> HIDE DEF L
<1>6. Nat \subseteq L
  BY <1>4, <1>5, NatInductionSet
<1>7. p[Len(gif)] >= 10 * Len(gif)
  BY <1>1, <1>6 DEF L
<1> DEFINE t == p[Len(gif)]
           n == Len(gif)
<1>8. t \in Int /\ t % 10 = 0 /\ n \in Nat /\ t >= 10 * n
  BY <1>1, <1>3, <1>7
<1> HIDE DEF t, n
<1>9. t \div 10 \in Int /\ t = 10 * (t \div 10) /\ t \div 10 >= n
  BY <1>8
<1> QED
  BY <1>1, <1>3, <1>9 DEF t, n

\* The delays taken of a GIF are whole hundredths, one for each frame taken,
\* and together as long as the GIF, whatever frames it loses.
LEMMA DurationsKeepTime ==
  ASSUME NEW gif \in Seq(Nat), Readable(gif), NEW m \in Nat \ {0}
  PROVE  /\ Durations(gif, m) \in Seq(Int)
         /\ Len(Durations(gif, m)) = IF Len(gif) > m THEN m ELSE Len(gif)
         /\ \A i \in DOMAIN Durations(gif, m) : Durations(gif, m)[i] % 10 = 0
         /\ Total(Durations(gif, m)) = Total(gif)
<1>0. gif \in Seq(Int) /\ Len(gif) \in Nat /\ \A i \in DOMAIN gif : gif[i] % 10 = 0
  BY DEF Readable
<1>1. CASE ~(Len(gif) > m)
  BY <1>0, <1>1 DEF Durations
<1>2. CASE Len(gif) > m
  <2> DEFINE cs == Total(gif) \div 10
             b == [i \in 1..m + 1 |-> Round((i - 1) * cs, m)]
  <2>1. cs \in Int /\ Total(gif) = 10 * cs
    BY WholeHundredths
  <2>2. Durations(gif, m) = Centiseconds(Between(b))
    BY <1>2 DEF Durations
  <2> HIDE DEF cs
  <2>3. b \in Seq(Int) /\ Len(b) = m + 1
    <3>1. \A i \in 1..m + 1 : Round((i - 1) * cs, m) \in Int
      <4> SUFFICES ASSUME NEW i \in 1..m + 1
                   PROVE  Round((i - 1) * cs, m) \in Int
        OBVIOUS
      <4>1. (i - 1) * cs \in Int
        BY <2>1
      <4> QED
        BY <4>1, RoundType
    <3> QED
      BY <3>1
  <2>4. b[1] = 0 /\ b[m + 1] = cs
    <3>1. b[1] = Round((1 - 1) * cs, m) /\ b[m + 1] = Round(((m + 1) - 1) * cs, m)
      OBVIOUS
    <3>2. (1 - 1) * cs = 0 * m /\ ((m + 1) - 1) * cs = cs * m
      BY <2>1
    <3>3. Round(0 * m, m) = 0 /\ Round(cs * m, m) = cs
      BY <2>1, RoundExact
    <3> QED
      BY <3>1, <3>2, <3>3
  <2> HIDE DEF b
  <2>5. 10 * (b[m + 1] - b[1]) = Total(gif)
    BY <2>1, <2>4
  <2> DEFINE e == Centiseconds(Between(b))
  <2>6. /\ e \in Seq(Int) /\ Len(e) = m /\ DOMAIN e = 1..m
        /\ \A i \in 1..m : e[i] % 10 = 0
        /\ Total(e) = Total(gif)
    <3>1. m \in Nat /\ b \in Seq(Int) /\ Len(b) = m + 1
      BY <2>3
    <3>2. /\ e \in Seq(Int) /\ Len(e) = m /\ DOMAIN e = 1..m
          /\ \A i \in 1..m : e[i] = 10 * (b[i + 1] - b[i]) /\ e[i] % 10 = 0
          /\ Total(e) = 10 * (b[m + 1] - b[1])
      BY <3>1, Telescopes
    <3> HIDE DEF e
    <3> QED
      BY <2>5, <3>2
  <2> HIDE DEF e
  <2>7. Durations(gif, m) = e
    BY <2>2 DEF e
  <2> QED
    BY <1>2, <2>6, <2>7
<1> QED
  BY <1>1, <1>2

\* The result built of the delays taken plays as long as the GIF.
LEMMA ResultKeepsTime ==
  ASSUME NEW gif \in Seq(Nat), Readable(gif), NEW m \in Nat \ {0}
  PROVE  Total(GifDelays(Durations(gif, m))) = Total(gif)
BY DurationsKeepTime, DelaysExact

\* The frames taken of a GIF are as many as its delays.
LEMMA IndicesAre ==
  ASSUME NEW total \in Nat \ {0}, NEW m \in Nat \ {0}
  PROVE  /\ Indices(total, m) \in Seq(Nat)
         /\ Len(Indices(total, m)) = IF total > m THEN m ELSE total
<1>1. CASE m = 1
  <2>1. Indices(total, m) = <<0>>
    BY <1>1 DEF Indices
  <2>2. <<0>> \in Seq(Nat) /\ Len(<<0>>) = 1
    OBVIOUS
  <2>3. (IF total > m THEN m ELSE total) = 1
    BY <1>1
  <2> QED
    BY <2>1, <2>2, <2>3
<1>2. CASE m # 1 /\ total > m
  <2>1. Indices(total, m) = [i \in 1..m |-> Round((i - 1) * (total - 1), m - 1)]
    BY <1>2 DEF Indices
  <2>2. ASSUME NEW i \in 1..m
        PROVE  Round((i - 1) * (total - 1), m - 1) \in Nat
    <3>1. i - 1 \in Nat /\ total - 1 \in Nat /\ m - 1 \in Nat \ {0}
      BY <1>2
    <3>2. (i - 1) * (total - 1) \in Int /\ (i - 1) * (total - 1) >= 0
      BY <3>1
    <3> QED
      BY <3>1, <3>2, RoundType
  <2> QED
    BY <1>2, <2>1, <2>2
<1>3. CASE m # 1 /\ ~(total > m)
  <2>1. Indices(total, m) = [i \in 1..total |-> i - 1]
    BY <1>3 DEF Indices
  <2>2. \A i \in 1..total : i - 1 \in Nat
    OBVIOUS
  <2> QED
    BY <1>3, <2>1, <2>2
<1> QED
  BY <1>1, <1>2, <1>3

\* Products keep the order.
LEMMA TimesOrder ==
  ASSUME NEW n \in Nat \ {0}, NEW a \in Int, NEW b \in Int
  PROVE  (a < b => n * a + n <= n * b) /\ (n * a < n * b => a < b)
<1>1. ASSUME NEW c \in Int, NEW d \in Int, c <= d
      PROVE  n * c <= n * d
  <2>1. d - c \in Nat
    BY <1>1
  <2>2. n * (d - c) >= 0
    BY <2>1
  <2>3. n * (d - c) = n * d - n * c
    OBVIOUS
  <2>4. n * c \in Int /\ n * d \in Int
    OBVIOUS
  <2> QED
    BY <2>2, <2>3, <2>4
<1>2. ASSUME a < b
      PROVE  n * a + n <= n * b
  <2>1. n * (a + 1) <= n * b
    BY <1>1, <1>2
  <2>2. n * (a + 1) = n * a + n
    OBVIOUS
  <2> QED
    BY <2>1, <2>2
<1>3. ASSUME n * a < n * b, ~(a < b)
      PROVE  FALSE
  <2>1. n * b <= n * a
    BY <1>1, <1>3
  <2>2. n * b \in Int /\ n * a \in Int
    OBVIOUS
  <2> QED
    BY <1>3, <2>1, <2>2
<1> QED
  BY <1>2, <1>3

\* Rounding goes half a unit up or down at most.
LEMMA RoundNear ==
  ASSUME NEW x \in Int, NEW n \in Nat \ {0}
  PROVE  /\ Round(x, n) \in Int
         /\ 2 * x - n <= 2 * (n * Round(x, n)) /\ 2 * (n * Round(x, n)) <= 2 * x + n
<1> DEFINE q == x \div n
           r == x % n
           nq == n * q
<1>1. q \in Int /\ r \in Int /\ nq \in Int /\ x = nq + r /\ 0 <= r /\ r < n
  OBVIOUS
<1>2. n * (q + 1) = nq + n
  BY <1>1
<1>3. Round(x, n) = IF 2 * r > n \/ (2 * r = n /\ q % 2 = 1) THEN q + 1 ELSE q
  BY DEF Round
<1> HIDE DEF q, r
<1>4. CASE 2 * r > n \/ (2 * r = n /\ q % 2 = 1)
  <2>1. Round(x, n) = q + 1 /\ 2 * r >= n
    BY <1>1, <1>3, <1>4
  <2>2. n * Round(x, n) = nq + n
    BY <1>2, <2>1
  <2> HIDE DEF nq
  <2> QED
    BY <1>1, <2>1, <2>2
<1>5. CASE ~(2 * r > n \/ (2 * r = n /\ q % 2 = 1))
  <2>1. Round(x, n) = q /\ 2 * r <= n
    BY <1>1, <1>3, <1>5
  <2>2. n * Round(x, n) = nq
    BY <2>1
  <2> HIDE DEF nq
  <2> QED
    BY <1>1, <2>1, <2>2
<1> QED
  BY <1>4, <1>5

\* What is more than a unit apart stays apart.
LEMMA RoundApart ==
  ASSUME NEW x \in Int, NEW y \in Int, NEW n \in Nat \ {0}, x + n < y
  PROVE  Round(x, n) < Round(y, n)
<1> DEFINE p == n * Round(x, n)
           q == n * Round(y, n)
<1>1. /\ Round(x, n) \in Int /\ Round(y, n) \in Int /\ p \in Int /\ q \in Int
      /\ 2 * p <= 2 * x + n /\ 2 * y - n <= 2 * q
  <2>1. Round(x, n) \in Int /\ 2 * p <= 2 * x + n
    BY RoundNear
  <2>2. Round(y, n) \in Int /\ 2 * y - n <= 2 * q
    BY RoundNear
  <2>3. p \in Int /\ q \in Int
    BY <2>1, <2>2
  <2> QED
    BY <2>1, <2>2, <2>3
<1>2. p < q
  <2> HIDE DEF p, q
  <2> QED
    BY <1>1
<1> QED
  BY <1>1, <1>2, TimesOrder

\* What is less than k units apart is at most k apart.
LEMMA RoundClose ==
  ASSUME NEW x \in Int, NEW y \in Int, NEW n \in Nat \ {0}, NEW k \in Nat, y < x + n * k
  PROVE  Round(y, n) <= Round(x, n) + k
<1> DEFINE p == n * Round(x, n)
           q == n * Round(y, n)
           t == n * k
           a == Round(x, n) + k + 1
<1>1. /\ Round(x, n) \in Int /\ Round(y, n) \in Int /\ p \in Int /\ q \in Int /\ t \in Int
      /\ 2 * x - n <= 2 * p /\ 2 * q <= 2 * y + n
  <2>1. Round(x, n) \in Int /\ 2 * x - n <= 2 * p
    BY RoundNear
  <2>2. Round(y, n) \in Int /\ 2 * q <= 2 * y + n
    BY RoundNear
  <2>3. p \in Int /\ q \in Int /\ t \in Int
    BY <2>1, <2>2
  <2> QED
    BY <2>1, <2>2, <2>3
<1>2. n * a = p + t + n /\ n * a \in Int /\ a \in Int
  BY <1>1
<1>3. q < p + t + n
  <2>1. y < x + t
    OBVIOUS
  <2> HIDE DEF p, q, t
  <2> QED
    BY <1>1, <2>1
<1>4. Round(y, n) < a
  <2>1. n * Round(y, n) < n * a
    BY <1>2, <1>3
  <2> QED
    BY <1>1, <1>2, <2>1, TimesOrder
<1> QED
  BY <1>1, <1>4

\* The frames taken are in order, from the first to the last, none twice.
LEMMA IndicesSpread ==
  ASSUME NEW total \in Nat \ {0}, NEW m \in Nat \ {0}
  PROVE  LET f == Indices(total, m) IN
           /\ \A i \in 1..Len(f) - 1 : f[i] < f[i + 1]
           /\ f[1] = 0
           /\ Len(f) > 1 => f[Len(f)] = total - 1
<1>1. CASE m = 1
  <2>1. Indices(total, m) = <<0>>
    BY <1>1 DEF Indices
  <2> QED
    BY <2>1
<1>2. CASE m # 1 /\ total > m
  <2> DEFINE f == [i \in 1..m |-> Round((i - 1) * (total - 1), m - 1)]
             n == m - 1
             t == total - 1
  <2>1. Indices(total, m) = f
    BY <1>2 DEF Indices
  <2>2. Len(f) = m
    OBVIOUS
  <2>3. n \in Nat \ {0} /\ t \in Nat /\ t > n
    BY <1>2
  <2>4. f[1] = 0
    <3>1. f[1] = Round(0 * n, n)
      BY <2>3
    <3> QED
      BY <2>3, <3>1, RoundExact
  <2>5. f[m] = t
    <3>1. f[m] = Round(n * t, n) /\ n * t = t * n
      BY <2>3
    <3> QED
      BY <2>3, <3>1, RoundExact
  <2>6. ASSUME NEW i \in 1..m - 1
        PROVE  f[i] < f[i + 1]
    <3> DEFINE x == (i - 1) * t
               y == i * t
    <3>1. x \in Int /\ y \in Int /\ y = x + t
      BY <2>3
    <3>2. x + n < y
      <4> HIDE DEF x, y, n, t
      <4> QED
        BY <2>3, <3>1
    <3>3. Round(x, n) < Round(y, n)
      <4> HIDE DEF x, y, n
      <4> QED
        BY <2>3, <3>1, <3>2, RoundApart
    <3>4. f[i] = Round(x, n) /\ f[i + 1] = Round(y, n)
      BY <2>3
    <3> QED
      BY <3>3, <3>4
  <2> HIDE DEF f
  <2> QED
    BY <2>1, <2>2, <2>4, <2>5, <2>6
<1>3. CASE m # 1 /\ ~(total > m)
  <2>1. Indices(total, m) = [i \in 1..total |-> i - 1]
    BY <1>3 DEF Indices
  <2> QED
    BY <2>1
<1> QED
  BY <1>1, <1>2, <1>3

\* A GIF that loses frames is divided evenly, at rounded boundaries.
LEMMA DividedDelays ==
  ASSUME NEW gif \in Seq(Nat), Readable(gif), NEW m \in Nat \ {0}, Len(gif) > m
  PROVE  \E b \in [1..m + 1 -> Int] :
           /\ \A j \in 1..m + 1 : b[j] = Round((j - 1) * (Total(gif) \div 10), m)
           /\ \A j \in 1..m : Durations(gif, m)[j] = 10 * (b[j + 1] - b[j])
<1> DEFINE cs == Total(gif) \div 10
           b == [j \in 1..m + 1 |-> Round((j - 1) * cs, m)]
           e == Centiseconds(Between(b))
<1>1. Durations(gif, m) = e
  BY DEF Durations
<1>2. cs \in Int
  BY WholeHundredths
<1> HIDE DEF cs
<1>3. \A j \in 1..m + 1 : Round((j - 1) * cs, m) \in Int
  <2> SUFFICES ASSUME NEW j \in 1..m + 1
               PROVE  Round((j - 1) * cs, m) \in Int
    OBVIOUS
  <2>1. (j - 1) * cs \in Int
    BY <1>2
  <2> QED
    BY <2>1, RoundType
<1>4. /\ b \in Seq(Int) /\ Len(b) = m + 1 /\ b \in [1..m + 1 -> Int]
      /\ \A j \in 1..m + 1 : b[j] = Round((j - 1) * cs, m)
  BY <1>3
<1> HIDE DEF b
<1>5. \A j \in 1..m : e[j] = 10 * (b[j + 1] - b[j])
  <2>1. Between(b) = [j \in 1..m |-> b[j + 1] - b[j]]
    <3>1. Len(b) - 1 = m
      BY <1>4
    <3> QED
      BY <3>1 DEF Between
  <2> QED
    BY <2>1 DEF Centiseconds
<1> HIDE DEF e
<1>6. \A j \in 1..m : Durations(gif, m)[j] = 10 * (b[j + 1] - b[j])
  BY <1>1, <1>5
<1> QED
  BY <1>4, <1>6 DEF cs

\* The longest delay is a whole number of hundredths.
LEMMA LongestIs == \E k \in Nat : LongestDelay = 10 * k
<1>1. LongestDelay = 10 * (LongestDelay \div 10) /\ LongestDelay \div 10 \in Nat
  BY SMT DEF LongestDelay
<1> QED
  BY <1>1

\* Of a GIF with delays the format knows, what is taken can be built, if the
\* frames taken can share its time.
LEMMA DurationsFit ==
  ASSUME NEW gif \in Seq(Nat), Readable(gif), gif # <<>>, \A i \in DOMAIN gif : gif[i] <= LongestDelay,
         NEW m \in Nat \ {0},
         Total(gif) <= (IF Len(gif) > m THEN m ELSE Len(gif)) * LongestDelay
  PROVE  Buildable(Durations(gif, m))
<1> DEFINE d == Durations(gif, m)
<1>1. d \in Seq(Int) /\ Len(d) = (IF Len(gif) > m THEN m ELSE Len(gif)) /\ GifDelays(d) = d
  BY DurationsKeepTime, DelaysExact
<1>2. PICK k \in Nat : LongestDelay = 10 * k
  BY LongestIs
<1>3. ASSUME NEW i \in DOMAIN d
      PROVE  d[i] > 0 /\ d[i] \in 1..LongestDelay
  <2>1. CASE ~(Len(gif) > m)
    <3>1. d = gif
      BY <2>1 DEF Durations
    <3>2. gif[i] \in Nat /\ gif[i] > 0 /\ gif[i] <= LongestDelay
      BY <1>3, <3>1 DEF Readable
    <3> QED
      BY <1>2, <3>1, <3>2
  <2>2. CASE Len(gif) > m
    <3> DEFINE cs == Total(gif) \div 10
               x == (i - 1) * cs
               y == i * cs
    <3>1. cs \in Int /\ Total(gif) = 10 * cs /\ Len(gif) \in Nat /\ cs >= Len(gif)
      BY WholeHundredths
    <3>2. PICK b \in [1..m + 1 -> Int] :
            /\ \A j \in 1..m + 1 : b[j] = Round((j - 1) * cs, m)
            /\ \A j \in 1..m : d[j] = 10 * (b[j + 1] - b[j])
      BY <2>2, DividedDelays
    <3> HIDE DEF cs, d
    <3>3. m \in Nat /\ m < cs /\ i \in 1..m
      BY <1>1, <1>3, <2>2, <3>1
    <3>4. cs <= m * k
      <4> DEFINE a == m * LongestDelay
                 c == m * k
      <4>1. a = 10 * c /\ c \in Int
        BY <1>2
      <4>2. 10 * cs <= a
        BY <2>2, <3>1
      <4> HIDE DEF a, c
      <4>3. cs <= c
        BY <3>1, <4>1, <4>2
      <4> QED
        BY <4>3 DEF c
    <3>5. x \in Int /\ y \in Int /\ y = x + cs /\ b[i] = Round(x, m) /\ b[i + 1] = Round(y, m)
      <4>1. i \in 1..m + 1 /\ i + 1 \in 1..m + 1 /\ (i + 1) - 1 = i
        BY <3>3
      <4>2. b[i] = Round(x, m) /\ b[i + 1] = Round(((i + 1) - 1) * cs, m)
        BY <3>2, <4>1
      <4>3. /\ i \in Int /\ x \in Int /\ y \in Int /\ y = x + cs
        BY <3>1, <3>3
      <4> QED
        BY <4>1, <4>2, <4>3
    <3>9. b[i] < b[i + 1]
      <4> HIDE DEF x, y
      <4>1. x + m < y
        BY <3>1, <3>3, <3>5
      <4> QED
        BY <3>5, <4>1, RoundApart
    <3>10. b[i + 1] <= b[i] + k
      <4>1. CASE cs < m * k
        <5> DEFINE c == m * k
        <5>1. c \in Int /\ cs < c
          BY <4>1
        <5> HIDE DEF x, y, c
        <5>2. y < x + c
          BY <3>1, <3>5, <5>1
        <5> QED
          BY <3>5, <5>2, RoundClose DEF c
      <4>2. CASE cs = m * k
        <5>1. x = ((i - 1) * k) * m /\ y = (i * k) * m /\ (i - 1) * k \in Int /\ i * k \in Int
          <6>1. i \in Int /\ i - 1 \in Int
            BY <3>3
          <6> DEFINE j == i - 1
          <6> HIDE DEF j
          <6>2. ASSUME j \in Int
                PROVE  j * (m * k) = (j * k) * m /\ i * (m * k) = (i * k) * m /\ j * k \in Int /\ i * k \in Int
            BY <6>1, <6>2
          <6> QED
            BY <4>2, <6>1, <6>2 DEF j
        <5>2. b[i] = (i - 1) * k /\ b[i + 1] = i * k
          BY <3>5, <5>1, RoundExact
        <5>3. i * k = (i - 1) * k + k
          BY <3>3
        <5> QED
          BY <5>1, <5>2, <5>3
      <4> QED
        BY <3>1, <3>4, <4>1, <4>2
    <3> DEFINE u == b[i]
               v == b[i + 1]
    <3>11. u \in Int /\ v \in Int /\ u < v /\ v <= u + k /\ d[i] = 10 * (v - u)
      <4>1. u \in Int /\ v \in Int
        <5>1. i \in 1..m + 1 /\ i + 1 \in 1..m + 1
          BY <3>3
        <5>2. \A j \in 1..m + 1 : b[j] \in Int
          BY <3>2
        <5> QED
          BY <5>1, <5>2
      <4>2. d[i] = 10 * (v - u)
        BY <3>2, <3>3
      <4> QED
        BY <3>9, <3>10, <4>1, <4>2
    <3> HIDE DEF u, v, d
    <3> QED
      BY <1>2, <3>11
  <2> QED
    BY <2>1, <2>2
<1>4. d # <<>>
  <2>1. Len(gif) \in Nat /\ Len(gif) > 0
    OBVIOUS
  <2> HIDE DEF d
  <2> QED
    BY <1>1, <2>1
<1> HIDE DEF d
<1>5. Buildable(d)
  BY <1>1, <1>3, <1>4 DEF Buildable
<1> QED
  BY <1>5 DEF d

-----------------------------------------------------------------------------
(* What a step leaves alone                                                *)

\* The constants.
LEMMA Facts ==
  /\ NoJob \notin Jobs /\ NoRun \notin Runs /\ Inline \notin Uploads
  /\ NoFile \notin Pictures /\ NoFile \notin TargetFile /\ NoFile \notin Nat
  /\ NoFile \notin DraftFile /\ NoFile \notin CompositedFile /\ NoFile \notin ResultFile
  /\ Gifs \subseteq Seq(Nat)
  /\ MAX_FRAMES \in Nat \ {0} /\ MAX_FRAMES \in 1..20
  /\ \A r \in Runs : r[1] \in Jobs
  /\ NoStage = 0 /\ Extracting = 1 /\ Analyzing = 2 /\ Drafting = 3 /\ Compositing = 4 /\ Building = 5
BY PipelineAssumption
   DEF PipelineAssumption, Runs, NoStage, Extracting, Analyzing, Drafting, Compositing, Building

\* What a step records of a job, but for its status, and the files of a job.
JobSame(j) ==
  /\ jobs'[j].stage = jobs[j].stage /\ jobs'[j].durations = jobs[j].durations
  /\ jobs'[j].spec = jobs[j].spec /\ jobs'[j].target = jobs[j].target /\ jobs'[j].gif = jobs[j].gif
FilesSame(j) == private'[j] = private[j] /\ public'[j] = public[j]

\* A job that is over does not begin again.
NotBegun(j) == jobs'[j].status = "PROCESSING" => jobs[j].status = "PROCESSING"

\* What the files back depends on the files and the GIF only.
LEMMA BackedKept ==
  ASSUME NEW j, NEW st, NEW du, NEW sp, Backed(j, st, du, sp),
         private'[j] = private[j], jobs'[j].gif = jobs[j].gif
  PROVE  Backed(j, st, du, sp)'
BY DEF Backed

\* What the server knows is only lost with the job.
LEMMA KnownKept ==
  ASSUME NEW j, NEW st, NEW du, NEW sp, Known(j, st, du, sp), NotBegun(j),
         jobs'[j].durations = jobs[j].durations, jobs'[j].spec = jobs[j].spec
  PROVE  Known(j, st, du, sp)'
BY DEF Known, NotBegun

\* A whole result stays whole while its files stay.
LEMMA WholeKept ==
  ASSUME NEW j, Whole(j), JobSame(j), FilesSame(j), assets \subseteq assets'
  PROVE  Whole(j)'
BY DEF Whole, JobSame, FilesSame

\* A job whose files nobody touches keeps what they back.
LEMMA KeepJobFiles ==
  ASSUME NEW j, JobFiles(j), JobSame(j), FilesSame(j), assets \subseteq assets',
         jobs'[j].status = "COMPLETED" => jobs[j].status = "COMPLETED"
  PROVE  JobFiles(j)'
<1>1. PICK st, du, sp : st = jobs[j].stage /\ du = jobs[j].durations /\ sp = jobs[j].spec
  OBVIOUS
<1>2. Backed(j, st, du, sp)
  BY <1>1 DEF JobFiles
<1>3. Backed(j, st, du, sp)'
  BY <1>2, BackedKept DEF JobSame, FilesSame
<1>4. Backed(j, jobs[j].stage, jobs[j].durations, jobs[j].spec)'
  BY <1>1, <1>3 DEF JobSame
<1>5. jobs'[j].status = "COMPLETED" => Whole(j)'
  BY WholeKept DEF JobFiles
<1> QED
  BY <1>4, <1>5 DEF JobFiles

\* The same for a job's upload: nobody takes it, and no run of the job begins
\* to look for it again.
Fresh == {"none", "queued", "start", "fetching"}

LEMMA KeepUpload ==
  ASSUME NEW j \in Jobs, JobUpload(j), NotBegun(j),
         jobs'[j].target = jobs[j].target,
         request'[j] = "uploading" => request[j] = "uploading",
         \A i \in Jobs : request[i] \in {"compensating", "compensated"}
           => request'[i] \in {"compensating", "compensated"} /\ jobs'[i].target = jobs[i].target,
         \A r \in Runs : r[1] = j /\ lambda'[r].at \in Fresh => lambda[r].at \in Fresh,
         jobs[j].target \in Uploads /\ staged[jobs[j].target] # NoFile
           => staged'[jobs[j].target] # NoFile
                \/ Compensated(jobs[j].target)' \/ (jobs[j].status # "PROCESSING" /\ request[j] # "uploading")
  PROVE  JobUpload(j)'
<1>1. PICK u : u = jobs[j].target
  OBVIOUS
<1>2. jobs'[j].target = u
  BY <1>1
<1>3. Compensated(u) => Compensated(u)'
  BY DEF Compensated
<1>4. u \in Uploads /\ staged[u] # NoFile
        => staged'[u] # NoFile \/ Compensated(u)'
             \/ (jobs[j].status # "PROCESSING" /\ request[j] # "uploading")
  <2>1. Compensated(jobs[j].target)' => Compensated(u)'
    BY <1>2 DEF Compensated
  <2> QED
    BY <1>1, <2>1 DEF Compensated
<1>5. Untouched(j)' => Untouched(j)
  BY DEF Untouched, Fresh
<1>6. request'[j] = "uploading" /\ u \in Uploads => staged'[u] # NoFile \/ Compensated(u)'
  BY <1>1, <1>3, <1>4 DEF JobUpload
<1>7. jobs'[j].status = "PROCESSING" /\ u \in Uploads /\ Untouched(j)' /\ ~Compensated(u)'
        => staged'[u] # NoFile
  BY <1>1, <1>3, <1>4, <1>5 DEF JobUpload, UploadWaits, NotBegun
<1>8. Compensated(jobs[j].target)' <=> Compensated(u)'
  BY <1>2 DEF Compensated
<1> QED
  BY <1>2, <1>6, <1>7, <1>8 DEF JobUpload, UploadWaits

\* A run that does not step, and whose job and files stay, keeps its part.
LEMMA KeepRun ==
  ASSUME NEW q \in Runs, RunInv(q), lambda'[q] = lambda[q],
         lambda[q].at # "none" => jobs'[q[1]].status # "ABSENT",
         Working(q) =>
           /\ JobSame(q[1]) /\ private'[q[1]] = private[q[1]]
           /\ NotBegun(q[1]) /\ jobs'[q[1]].status # "COMPLETED"
           /\ \/ gate'.active = q[1] /\ gate'.run = q /\ ~gate'.expired
              \/ request'[q[1]] = "compensated"
  PROVE  RunInv(q)'
<1>1. CASE ~Working(q)
  BY <1>1 DEF RunInv, Working
<1>2. CASE Working(q)
  <2> DEFINE j == q[1]
  <2>1. PICK run : run = lambda[q]
    OBVIOUS
  <2>2. lambda'[q] = run
    BY <2>1
  <2>3. run.at \in {"checkpoint", "working"} =>
          /\ run.stage >= Extracting
          /\ Backed(j, run.stage, run.durations, run.spec)
          /\ Known(j, IF run.at = "working" THEN run.stage ELSE run.stage - 1, run.durations, run.spec)
    BY <2>1 DEF RunInv
  <2>4. run.at \in {"checkpoint", "working"} =>
          /\ run.stage >= Extracting
          /\ Backed(j, run.stage, run.durations, run.spec)'
          /\ Known(j, IF run.at = "working" THEN run.stage ELSE run.stage - 1, run.durations, run.spec)'
    <3>1. PICK st : st = IF run.at = "working" THEN run.stage ELSE run.stage - 1
      OBVIOUS
    <3>2. ASSUME run.at \in {"checkpoint", "working"}
          PROVE  /\ run.stage >= Extracting
                 /\ Backed(j, run.stage, run.durations, run.spec)'
                 /\ Known(j, st, run.durations, run.spec)'
      BY <1>2, <2>3, <3>1, <3>2, BackedKept, KnownKept DEF JobSame
    <3> QED
      BY <3>1, <3>2
  <2>5. run.at = "working" /\ run.stage = Compositing =>
          /\ run.left \subseteq DOMAIN run.durations
          /\ ~run.broken => \A i \in DOMAIN run.durations \ run.left :
                              private'[j].composited[i] = FrameImage(private'[j], i)
    BY <1>2, <2>1 DEF RunInv, Frames
  <2>6. /\ run.at # "none" => jobs'[j].status # "ABSENT"
        /\ \/ gate'.active = j /\ gate'.run = q /\ ~gate'.expired
           \/ request'[j] = "compensated"
        /\ jobs'[j].status # "COMPLETED"
        /\ jobs'[j].stage <= run.stage
    BY <1>2, <2>1 DEF RunInv, JobSame
  <2>7. /\ run.at \in {"none", "queued", "start", "fetching", "storing", "discarding"} => run.stage = NoStage
        /\ run.at = "fetching" => private'[j].target \in File
        /\ run.at = "storing" => run.picture \in Pictures
        /\ run.at = "discarding" => jobs'[j].target # Inline
                                    /\ (~run.broken => private'[j].target \in TargetFile)
    BY <1>2, <2>1 DEF RunInv, JobSame, Target
  <2> HIDE DEF j
  <2> QED
    BY <2>2, <2>4, <2>5, <2>6, <2>7 DEF RunInv, Frames, Target, j
<1> QED
  BY <1>1, <1>2

\* Nor does a callback change while its job and its files stay, and its run
\* stays or gives up.
LEMMA KeepCall ==
  ASSUME NEW c \in calls, CallInv(c),
         c.kind # "start" => JobSame(c.run[1]) /\ FilesSame(c.run[1]) /\ NotBegun(c.run[1]),
         \/ lambda'[c.run] = lambda[c.run]
         \/ lambda'[c.run].at = "ended"
         \/ lambda'[c.run].at = "raised" /\ lambda[c.run].at \in {"checkpoint", "complete", "raised", "working", "storing", "discarding"}
         \/ lambda'[c.run].at = "fail" /\ lambda[c.run].at = "raised"
  PROVE  CallInv(c)'
<1> DEFINE j == c.run[1]
<1>1. c.kind = "checkpoint" =>
         /\ Backed(j, c.stage, c.durations, c.spec)'
         /\ Known(j, c.stage - 1, c.durations, c.spec)'
  BY BackedKept, KnownKept DEF CallInv, JobSame, FilesSame
<1>2. c.kind = "complete" =>
         /\ Backed(j, Building, c.durations, c.spec)'
         /\ Known(j, Building, c.durations, c.spec)'
         /\ public'[j] # NoFile /\ public'[j] = ResultOf(j)'
  <2>1. c.kind = "complete" => Backed(j, Building, c.durations, c.spec)' /\ Known(j, Building, c.durations, c.spec)'
    BY BackedKept, KnownKept DEF CallInv, JobSame, FilesSame, Building
  <2>2. c.kind = "complete" => public'[j] # NoFile /\ public'[j] = ResultOf(j)'
    BY DEF CallInv, JobSame, FilesSame, ResultOf
  <2> QED
    BY <2>1, <2>2
<1>3. /\ c.kind = "start" => lambda'[c.run].at \in {"start", "ended"}
      /\ c.kind = "checkpoint" =>
           /\ lambda'[c.run].at \in {"checkpoint", "raised", "fail", "ended"}
           /\ lambda'[c.run].at = "checkpoint" =>
                /\ lambda'[c.run].stage = c.stage /\ lambda'[c.run].durations = c.durations
                /\ lambda'[c.run].spec = c.spec
           /\ c.stage >= Extracting
      /\ c.kind = "complete" => lambda'[c.run].at \in {"complete", "raised", "fail", "ended"}
      /\ c.kind = "fail" => lambda'[c.run].at \in {"fail", "ended"}
  BY DEF CallInv
<1> HIDE DEF j
<1> QED
  BY <1>1, <1>2, <1>3 DEF CallInv, j

-----------------------------------------------------------------------------
(* A step of one invocation                                                *)

Busy == {"fetching", "storing", "discarding", "checkpoint", "working", "complete", "raised", "fail"}
Reporting == {"checkpoint", "complete"}

\* What a step of the invocation r to run, which may send the calls new, does.
\* It writes files only where it works on them, takes its own upload at most.
RunStep(r, run, new) ==
  /\ lambda' = [lambda EXCEPT ![r] = run]
  /\ UNCHANGED <<server, request, locker>>
  /\ run.at # "none" => jobs[r[1]].status # "ABSENT"
  /\ run.at \in Fresh => lambda[r].at \in Fresh
  /\ lambda[r].at \notin {"none", "queued"} => run.at \notin {"none", "queued"}
  /\ lambda[r].at = "ended" => run.at = "ended"
  /\ run.at \in Busy => Claimed(r)
  /\ calls' \subseteq calls \cup new
  /\ \A c \in new :
       /\ c.run = r /\ c.kind # "start" => Claimed(r)
       /\ \A d \in calls : d.run = r =>
            d.kind # c.kind /\ (c.kind \in Reporting => d.kind \notin Reporting)
       /\ \A d \in new : d = c
       /\ c.run = r
  /\ \A j \in Jobs \ {r[1]} : FilesSame(j)
  /\ FilesSame(r[1]) \/ lambda[r].at \in {"storing", "working"}
  /\ \/ staged' = staged
     \/ /\ lambda[r].at = "discarding" /\ run.at \notin Fresh
        /\ \A u \in Uploads \ {Target(r)} : staged'[u] = staged[u]

LEMMA RunStepInv ==
  ASSUME IInv, NEW r \in Runs, NEW run \in Run, NEW new \in SUBSET Callback,
         RunStep(r, run, new),
         staged' \in [Uploads -> File], private' \in [Jobs -> Files],
         public' \in [Jobs -> ResultFile \cup {NoFile}],
         JobFiles(r[1])', RunInv(r)',
         \A c \in calls' : c.run = r => CallInv(c)'
  PROVE  IInv'
<1> USE DEF RunStep
<1>0. /\ Types /\ GateInv /\ OneRun
      /\ (\A j \in Jobs : JobInv(j)) /\ (\A q \in Runs : RunInv(q)) /\ (\A c \in calls : CallInv(c))
  BY DEF IInv
<1>1. /\ jobs' = jobs /\ gate' = gate /\ assets' = assets /\ request' = request /\ locker' = locker
      /\ \A j : JobSame(j) /\ NotBegun(j)
  BY DEF server, JobSame, NotBegun
<1>2. /\ lambda \in [Runs -> Run] /\ lambda' \in [Runs -> Run]
      /\ lambda'[r] = run /\ \A q \in Runs : q # r => lambda'[q] = lambda[q]
  BY <1>0 DEF Types
<1>3. Types'
  <2>1. calls' \subseteq Callback
    BY <1>0 DEF Types
  <2> QED
    BY <1>0, <1>1, <1>2, <2>1 DEF Types
<1>4. \A q \in Runs : Claimed(q)' => Claimed(q)
  <2> SUFFICES ASSUME NEW q \in Runs, Claimed(q)'
               PROVE  Claimed(q)
    OBVIOUS
  <2>1. CASE \E c \in calls' : c.run = q /\ c.kind # "start"
    BY <2>1 DEF Claimed
  <2>2. CASE ~\E c \in calls' : c.run = q /\ c.kind # "start"
    <3>1. lambda'[q].at \in Busy
      BY <2>2 DEF Claimed, Working, Busy
    <3> QED
      BY <1>2, <3>1 DEF Claimed, Working, Busy
  <2> QED
    BY <2>1, <2>2
<1>5. OneRun'
  <2>1. \A q \in Runs : Claimed(q)' /\ gate'.active = q[1] => gate'.run = q
    BY <1>0, <1>1, <1>4 DEF OneRun
  <2>2. \A p, q \in Runs : Claimed(p)' /\ Claimed(q)' /\ p[1] = q[1] => p = q
    BY <1>0, <1>4 DEF OneRun
  <2>3. \A c, d \in calls' :
          c.run = d.run /\ (c.kind = d.kind \/ {c.kind, d.kind} \subseteq {"checkpoint", "complete"})
            => c = d
    BY <1>0 DEF OneRun, Reporting
  <2> QED
    BY <2>1, <2>2, <2>3 DEF OneRun
<1>6. GateInv'
  BY <1>0, <1>1, <1>2 DEF GateInv, Types
<1>7. ASSUME NEW j \in Jobs PROVE JobGate(j)'
  <2>1. JobGate(j)
    BY <1>0 DEF JobInv
  <2>2. CASE FilesSame(j)
    BY <1>1, <2>1, <2>2 DEF JobGate, FilesSame
  <2>3. CASE ~FilesSame(j)
    <3>1. j = r[1] /\ lambda[r].at \in {"storing", "working"}
      BY <2>3
    <3>2. Claimed(r) /\ jobs[j].status # "ABSENT"
      BY <1>0, <3>1 DEF RunInv, Claimed, Working
    <3>3. ~(gate.active = j /\ gate.run = NoRun)
      BY <1>0, <3>1, <3>2, Facts DEF OneRun
    <3> QED
      BY <1>1, <2>1, <3>2, <3>3 DEF JobGate
  <2> QED
    BY <2>2, <2>3
<1>8. ASSUME NEW j \in Jobs PROVE JobFiles(j)'
  <2>1. CASE j = r[1]
    BY <2>1
  <2>2. CASE j # r[1]
    BY <1>0, <1>1, <2>2, KeepJobFiles DEF JobInv
  <2> QED
    BY <2>1, <2>2
<1>9. ASSUME NEW j \in Jobs PROVE JobUpload(j)'
  <2>1. /\ JobUpload(j) /\ JobGate(j) /\ NotBegun(j) /\ request'[j] = request[j]
        /\ jobs'[j].target = jobs[j].target
        /\ \A i \in Jobs : request[i] \in {"compensating", "compensated"}
             => request'[i] \in {"compensating", "compensated"} /\ jobs'[i].target = jobs[i].target
    BY <1>0, <1>1 DEF JobInv
  <2>2. \A q \in Runs : q[1] = j /\ lambda'[q].at \in Fresh => lambda[q].at \in Fresh
    BY <1>2
  <2>3. CASE staged' = staged \/ jobs[j].target # Target(r)
    <3>1. jobs[j].target \in Uploads => staged'[jobs[j].target] = staged[jobs[j].target]
      BY <2>3
    <3> QED
      BY <2>1, <2>2, <3>1, KeepUpload
  <2>4. CASE staged' # staged /\ jobs[j].target = Target(r)
    <3> DEFINE u == jobs[j].target
    <3>1. /\ lambda[r].at = "discarding" /\ run.at \notin Fresh /\ Working(r)
      BY <2>4 DEF Working
    <3>2. \/ gate.active = r[1] /\ gate.run = r /\ ~gate.expired
          \/ request[r[1]] = "compensated"
      BY <1>0, <3>1 DEF RunInv
    <3>3. CASE request[r[1]] = "compensated"
      <4>1. Compensated(u)'
        BY <1>1, <2>4, <3>3, Facts DEF Compensated, Target
      <4> QED
        BY <2>1, <2>2, <4>1, KeepUpload
    <3>4. CASE gate.active = r[1] /\ gate.run = r /\ ~gate.expired
      <4>1. request[j] # "uploading"
        BY <1>0, <2>1, <3>4, Facts DEF GateInv, JobGate
      <4>2. jobs[j].status = "PROCESSING" => j = r[1]
        BY <2>1, <3>4 DEF JobGate
      <4>3. j = r[1] => ~Untouched(j)'
        BY <1>2, <3>1 DEF Untouched, Fresh
      <4> QED
        BY <1>1, <4>1, <4>2, <4>3 DEF JobUpload, UploadWaits
    <3> QED
      BY <3>2, <3>3, <3>4
  <2> QED
    BY <2>3, <2>4
<1>10. ASSUME NEW q \in Runs PROVE RunInv(q)'
  <2>1. CASE q = r
    BY <2>1
  <2>2. CASE q # r
    <3>1. Working(q) => private'[q[1]] = private[q[1]]
      <4> SUFFICES ASSUME Working(q), ~FilesSame(q[1])
                   PROVE  FALSE
        BY DEF FilesSame
      <4>1. q[1] = r[1] /\ lambda[r].at \in {"storing", "working"}
        BY Facts
      <4>2. Claimed(q) /\ Claimed(r)
        BY <4>1 DEF Claimed, Working
      <4> QED
        BY <1>0, <2>2, <4>1, <4>2 DEF OneRun
    <3>2. RunInv(q) /\ lambda'[q] = lambda[q]
      BY <1>0, <1>2, <2>2
    <3>3. /\ lambda[q].at # "none" => jobs'[q[1]].status # "ABSENT"
          /\ Working(q) => /\ jobs'[q[1]].status # "COMPLETED"
                           /\ \/ gate'.active = q[1] /\ gate'.run = q /\ ~gate'.expired
                              \/ request'[q[1]] = "compensated"
      BY <1>1, <3>2 DEF RunInv
    <3> QED
      BY <1>1, <3>1, <3>2, <3>3, KeepRun
  <2> QED
    BY <2>1, <2>2
<1>11. ASSUME NEW c \in calls' PROVE CallInv(c)'
  <2>1. CASE c.run = r
    BY <2>1
  <2>2. CASE c.run # r
    <3>1. c \in calls /\ c.run \in Runs /\ lambda'[c.run] = lambda[c.run] /\ CallInv(c)
      BY <1>0, <1>2, <2>2 DEF Types, Callback
    <3>2. c.kind # "start" => FilesSame(c.run[1])
      <4> SUFFICES ASSUME c.kind # "start", ~FilesSame(c.run[1])
                   PROVE  FALSE
        OBVIOUS
      <4>1. c.run[1] = r[1] /\ lambda[r].at \in {"storing", "working"}
        BY <3>1, Facts
      <4>2. Claimed(c.run) /\ Claimed(r)
        BY <3>1, <4>1 DEF Claimed, Working
      <4> QED
        BY <1>0, <2>2, <3>1, <4>1, <4>2 DEF OneRun
    <3> QED
      BY <1>1, <3>1, <3>2, KeepCall
  <2> QED
    BY <2>1, <2>2
<1> QED
  BY <1>3, <1>5, <1>6, <1>7, <1>8, <1>9, <1>10, <1>11 DEF IInv, JobInv

\* A run at work has no callback on its way, except one it waits for.
NoCallsAt == {"none", "queued", "fetching", "storing", "discarding", "working"}

LEMMA NoCalls ==
  ASSUME IInv, NEW r \in Runs, lambda[r].at \in NoCallsAt
  PROVE  \A c \in calls : c.run # r
BY DEF IInv, CallInv, NoCallsAt, Types, Callback, Waiting

\* What the types say of one run and its job.
LEMMA RunTypes ==
  ASSUME IInv, NEW r \in Runs
  PROVE  /\ lambda[r] \in Run /\ r[1] \in Jobs
         /\ jobs[r[1]] \in Job /\ private[r[1]] \in Files
         /\ RunInv(r) /\ JobInv(r[1])
         /\ lambda \in [Runs -> Run] /\ private \in [Jobs -> Files]
         /\ staged \in [Uploads -> File] /\ public \in [Jobs -> ResultFile \cup {NoFile}]
BY Facts DEF IInv, Types

\* A step of work that sends nothing.
LEMMA QuietStep ==
  ASSUME IInv, NEW r \in Runs, NEW run \in Run, lambda[r].at \in NoCallsAt,
         lambda' = [lambda EXCEPT ![r] = run], UNCHANGED <<server, buckets, request, locker, calls>>,
         run.at # "none" => jobs[r[1]].status # "ABSENT",
         run.at \in Fresh => lambda[r].at \in Fresh,
         lambda[r].at \notin {"none", "queued"} => run.at \notin {"none", "queued"},
         run.at \in Busy => Claimed(r),
         RunInv(r)'
  PROVE  IInv'
<1>1. RunStep(r, run, {})
  BY DEF RunStep, FilesSame, buckets, NoCallsAt
<1>2. JobFiles(r[1])'
  BY RunTypes, KeepJobFiles DEF JobInv, JobSame, FilesSame, server, buckets
<1>3. \A c \in calls' : c.run # r
  BY NoCalls
<1>4. /\ staged' \in [Uploads -> File] /\ private' \in [Jobs -> Files]
      /\ public' \in [Jobs -> ResultFile \cup {NoFile}]
  BY RunTypes DEF buckets
<1> QED
  BY <1>1, <1>2, <1>3, <1>4, RunStepInv

\* trigger() invokes the Lambda once more.
LEMMA InvokeInv == ASSUME IInv, NEW r \in Runs, Invoke(r) PROVE IInv'
<1>1. PICK run : run = [lambda[r] EXCEPT !.at = "queued"]
  OBVIOUS
<1>2. /\ run \in Run /\ lambda' = [lambda EXCEPT ![r] = run] /\ run.at = "queued"
      /\ run.stage = NoStage /\ jobs[r[1]].status # "ABSENT" /\ lambda'[r] = run
  BY <1>1, RunTypes DEF Invoke, Run, RunInv, JobInv, JobGate
<1>3. RunInv(r)'
  BY <1>2 DEF RunInv, Working, Invoke, server
<1> QED
  BY <1>2, <1>3, QuietStep DEF Invoke, NoCallsAt, Fresh, Busy

\* A run that gives up breaks off, or goes on to delete what was staged.
LEMMA BreakInv ==
  ASSUME IInv, NEW r \in Runs, lambda[r].at \in {"fetching", "storing"}, Break(r),
         UNCHANGED <<server, buckets, request, locker, calls>>
  PROVE  IInv'
<1>1. PICK run : run = [lambda[r] EXCEPT !.broken = TRUE,
                                         !.at = IF Target(r) = Inline THEN "raised" ELSE "discarding"]
  OBVIOUS
<1>2. /\ run \in Run /\ lambda' = [lambda EXCEPT ![r] = run] /\ lambda'[r] = run
      /\ run.at = IF Target(r) = Inline THEN "raised" ELSE "discarding"
      /\ run.broken /\ run.stage = NoStage /\ run.stage = lambda[r].stage
  BY <1>1, RunTypes DEF Break, Run, RunInv
<1>3. RunInv(r) /\ Working(r) /\ jobs[r[1]].status # "ABSENT"
  BY RunTypes DEF Working, RunInv
<1>4. RunInv(r)'
  BY <1>2, <1>3 DEF RunInv, Working, server, Target
<1> QED
  BY <1>2, <1>3, <1>4, QuietStep DEF NoCallsAt, Fresh, Busy, Claimed

\* _normalize_target reads the target.
LEMMA FetchTargetInv == ASSUME IInv, NEW r \in Runs, FetchTarget(r) PROVE IInv'
<1> DEFINE file == IF Target(r) = Inline THEN private[r[1]].target ELSE staged[Target(r)]
<1>1. CASE file = NoFile
  BY <1>1, BreakInv DEF FetchTarget, buckets
<1>2. CASE file # NoFile
  <2>1. file \in File
    BY RunTypes DEF FetchTarget, RunInv, Target, Job
  <2>2. PICK run : run = [lambda[r] EXCEPT !.at = "storing", !.picture = file]
    OBVIOUS
  <2>3. lambda' = [lambda EXCEPT ![r].at = "storing", ![r].picture = file]
    BY <1>2 DEF FetchTarget
  <2> HIDE DEF file
  <2>4. /\ run \in Run /\ lambda' = [lambda EXCEPT ![r] = run] /\ lambda'[r] = run
        /\ run.at = "storing" /\ run.stage = lambda[r].stage /\ run.picture \in Pictures
    BY <1>2, <2>1, <2>2, <2>3, RunTypes DEF Run, File
  <2>5. RunInv(r) /\ Working(r) /\ lambda[r].at = "fetching" /\ jobs[r[1]].status # "ABSENT"
    BY RunTypes DEF Working, FetchTarget, RunInv
  <2>6. UNCHANGED <<server, buckets, request, locker, calls>>
    BY DEF FetchTarget
  <2>7. RunInv(r)'
    BY <2>4, <2>5, <2>6 DEF RunInv, Working, server
  <2> QED
    BY <2>4, <2>5, <2>6, <2>7, QuietStep DEF NoCallsAt, Fresh, Busy, Claimed
<1> QED
  BY <1>1, <1>2

\* The target is too large, no image, or cannot be written.
LEMMA StoreFailsInv == ASSUME IInv, NEW r \in Runs, StoreFails(r) PROVE IInv'
BY BreakInv DEF StoreFails

\* A stage that is over: its successor is recorded, before its work begins.
LEMMA CheckpointInv ==
  ASSUME IInv, NEW r \in Runs, NEW x \in Run,
         lambda[r].at \in {"storing", "discarding", "working"},
         Call(r, "checkpoint", x),
         x.stage = lambda[r].stage + 1,
         Backed(r[1], x.stage, x.durations, x.spec)',
         Known(r[1], x.stage - 1, x.durations, x.spec),
         UNCHANGED <<server, request, locker>>,
         staged' \in [Uploads -> File], private' \in [Jobs -> Files],
         public' \in [Jobs -> ResultFile \cup {NoFile}],
         \A i \in Jobs \ {r[1]} : FilesSame(i),
         FilesSame(r[1]) \/ lambda[r].at \in {"storing", "working"},
         \/ staged' = staged
         \/ /\ lambda[r].at = "discarding"
            /\ \A u \in Uploads \ {Target(r)} : staged'[u] = staged[u],
         JobFiles(r[1])'
  PROVE  IInv'
<1>1. PICK run : run = [x EXCEPT !.at = "checkpoint"]
  OBVIOUS
<1>2. /\ run \in Run /\ run.at = "checkpoint"
      /\ x.stage = run.stage /\ x.durations = run.durations /\ x.spec = run.spec
  BY <1>1 DEF Run
<1> DEFINE c == [run |-> r, kind |-> "checkpoint", stage |-> run.stage,
                 durations |-> run.durations, spec |-> run.spec]
<1>3. RunInv(r) /\ Working(r) /\ Claimed(r) /\ jobs[r[1]].status # "ABSENT"
  BY RunTypes DEF Working, Claimed, RunInv
<1>4. /\ lambda' = [lambda EXCEPT ![r] = run] /\ lambda'[r] = run
      /\ calls' = calls \cup {c}
  BY <1>1, <1>2, RunTypes DEF Call
<1>5. run.at = "checkpoint" /\ run.stage \in Nat /\ lambda[r].stage \in Nat /\ run.stage >= Extracting
  <2>1. run.stage \in NoStage..Building /\ lambda[r].stage \in NoStage..Building
    BY <1>2, RunTypes DEF Run
  <2>2. run.stage \in Nat /\ lambda[r].stage \in Nat /\ run.stage >= Extracting
    BY <1>2, <2>1, Facts
  <2>3. run.at = "checkpoint"
    BY <1>2
  <2> QED
    BY <2>2, <2>3
<1>6. c \in Callback
  BY <1>2 DEF Callback, Waiting, Run
<1>7. \A d \in calls : d.run # r
  BY NoCalls DEF NoCallsAt
<1>8. RunStep(r, run, {c})
  <2>1. c.run = r /\ c.kind = "checkpoint"
    OBVIOUS
  <2>2. UNCHANGED <<server, request, locker>> /\ calls' \subseteq calls \cup {c}
    BY <1>4
  <2> HIDE DEF c
  <2> QED
    BY <1>3, <1>4, <1>5, <1>7, <2>1, <2>2 DEF RunStep, Fresh
<1>9. RunInv(r)'
  <2>1. jobs[r[1]].stage <= run.stage
    <3>1. jobs[r[1]].stage \in NoStage..Building /\ jobs[r[1]].stage <= lambda[r].stage
      BY <1>3, RunTypes DEF RunInv, Job
    <3> QED
      BY <1>5, <1>2, <3>1, Facts
  <2>2. /\ jobs' = jobs /\ gate' = gate /\ request' = request
    BY DEF server
  <2>3. Known(r[1], run.stage - 1, run.durations, run.spec)'
    BY <1>2, <2>2 DEF Known
  <2>4. \/ gate'.active = r[1] /\ gate'.run = r /\ ~gate'.expired
        \/ request'[r[1]] = "compensated"
    BY <1>3, <2>2 DEF RunInv
  <2>5. jobs'[r[1]].status # "COMPLETED" /\ jobs'[r[1]].status # "ABSENT" /\ jobs'[r[1]].stage <= run.stage
    BY <1>3, <2>1, <2>2 DEF RunInv
  <2> QED
    BY <1>2, <1>4, <1>5, <2>3, <2>4, <2>5 DEF RunInv
<1>10. CallInv(c)'
  <2>1. Known(r[1], run.stage - 1, run.durations, run.spec)'
    BY <1>2 DEF Known, server
  <2> QED
    BY <1>2, <1>4, <1>5, <2>1 DEF CallInv
<1>11. \A d \in calls' : d.run = r => CallInv(d)'
  BY <1>4, <1>7, <1>10
<1> HIDE DEF c
<1> QED
  BY <1>2, <1>6, <1>8, <1>9, <1>11, RunStepInv

\* The files of a job whose run rewrites what only later stages need.
LEMMA JobFilesStep ==
  ASSUME IInv, NEW r \in Runs, Working(r), jobs' = jobs,
         \A st \in NoStage..lambda[r].stage : \A du, sp :
           Backed(r[1], st, du, sp) => Backed(r[1], st, du, sp)'
  PROVE  JobFiles(r[1])'
<1>1. /\ jobs[r[1]].stage \in NoStage..Building /\ lambda[r].stage \in NoStage..Building
      /\ jobs[r[1]].stage <= lambda[r].stage /\ jobs[r[1]].status # "COMPLETED"
      /\ Backed(r[1], jobs[r[1]].stage, jobs[r[1]].durations, jobs[r[1]].spec)
  BY RunTypes DEF RunInv, JobInv, JobFiles, Job, Run
<1>2. PICK st, du, sp : st = jobs[r[1]].stage /\ du = jobs[r[1]].durations /\ sp = jobs[r[1]].spec
  OBVIOUS
<1>3. st \in NoStage..lambda[r].stage
  BY <1>1, <1>2, Facts
<1>4. Backed(r[1], st, du, sp)'
  BY <1>1, <1>2, <1>3
<1> QED
  BY <1>1, <1>2, <1>4 DEF JobFiles

\* A run that is about to record stage n.
LEMMA AboutToRecord ==
  ASSUME NEW y \in Run, NEW n \in NoStage..Building, NEW x, x = [y EXCEPT !.stage = n]
  PROVE  x \in Run /\ x.stage = n /\ x.durations = y.durations /\ x.spec = y.spec
BY DEF Run

\* _normalize_target writes the target as PNG.
LEMMA StoreTargetInv == ASSUME IInv, NEW r \in Runs, StoreTarget(r) PROVE IInv'
<1> DEFINE j == r[1]
<1>0. /\ RunInv(r) /\ Working(r) /\ Claimed(r) /\ jobs[j].status # "ABSENT"
      /\ lambda[r].at = "storing" /\ lambda[r].stage = NoStage /\ lambda[r].picture \in Pictures
  BY RunTypes DEF Working, Claimed, RunInv, StoreTarget
<1>1. /\ private' = [private EXCEPT ![j].target = Png(lambda[r].picture)]
      /\ UNCHANGED <<server, staged, public, request, locker>>
  BY DEF StoreTarget
<1>2. Png(lambda[r].picture) \in TargetFile
  BY <1>0 DEF Png, TargetFile
<1>3. /\ private' \in [Jobs -> Files] /\ private'[j].target \in TargetFile
      /\ \A i \in Jobs \ {j} : private'[i] = private[i]
  BY <1>1, <1>2, RunTypes DEF Files
<1>4. \A i \in Jobs \ {j} : FilesSame(i)
  BY <1>1, <1>3 DEF FilesSame
<1>5. JobFiles(j)'
  <2>1. \A st \in NoStage..lambda[r].stage : \A du, sp : Backed(r[1], st, du, sp)'
    BY <1>0, Facts DEF Backed
  <2> QED
    BY <1>0, <1>1, <2>1, JobFilesStep DEF server
<1>6. staged' \in [Uploads -> File] /\ public' \in [Jobs -> ResultFile \cup {NoFile}] /\ staged' = staged
  BY <1>1, RunTypes
<1>7. CASE Target(r) = Inline
  <2>1. PICK y, x : y = lambda[r] /\ x = [y EXCEPT !.stage = Extracting]
    OBVIOUS
  <2>2. Call(r, "checkpoint", x)
    BY <1>7, <2>1 DEF StoreTarget, Checkpoint
  <2>3. y \in Run /\ Extracting \in NoStage..Building /\ Extracting = 1
    BY <2>1, RunTypes, Facts
  <2>4. x \in Run /\ x.stage = 1
    BY <2>1, <2>3, AboutToRecord
  <2>5. Backed(j, x.stage, x.durations, x.spec)'
    BY <1>0, <1>1, <1>3, <2>4, Facts DEF Backed, RunInv
  <2>6. Known(j, x.stage - 1, x.durations, x.spec)
    BY <2>4, Facts DEF Known
  <2>7. /\ lambda[r].at \in {"storing", "discarding", "working"} /\ x.stage = lambda[r].stage + 1
        /\ FilesSame(r[1]) \/ lambda[r].at \in {"storing", "working"}
        /\ \/ staged' = staged
           \/ /\ lambda[r].at = "discarding"
              /\ \A u \in Uploads \ {Target(r)} : staged'[u] = staged[u]
        /\ UNCHANGED <<server, request, locker>>
    BY <1>0, <1>1, <1>3, <1>4, <1>5, <1>6, <2>4, Facts
  <2> QED
    BY <1>1, <1>3, <1>4, <1>5, <1>6, <2>2, <2>4, <2>5, <2>6, <2>7, CheckpointInv
<1>8. CASE Target(r) # Inline
  <2>1. PICK run : run = [lambda[r] EXCEPT !.at = "discarding"]
    OBVIOUS
  <2>2. /\ run \in Run /\ lambda' = [lambda EXCEPT ![r] = run] /\ lambda'[r] = run
        /\ run.at = "discarding" /\ run.stage = NoStage /\ calls' = calls
    BY <1>0, <1>8, <2>1, RunTypes DEF Run, StoreTarget, Goto
  <2>3. RunInv(r)'
    BY <1>0, <1>1, <1>3, <1>8, <2>2 DEF RunInv, Working, server, Target
  <2>4. \A c \in calls' : c.run # r
    BY <1>0, <2>2, NoCalls DEF NoCallsAt
  <2>5. RunStep(r, run, {})
    BY <1>0, <1>1, <1>4, <2>2 DEF RunStep, Fresh
  <2> QED
    BY <1>3, <1>5, <1>6, <2>2, <2>3, <2>4, <2>5, RunStepInv
<1> QED
  BY <1>7, <1>8

\* The upload is deleted, whatever happened to the target.
LEMMA DiscardInv == ASSUME IInv, NEW r \in Runs, Discard(r) PROVE IInv'
<1> DEFINE j == r[1]
<1>0. /\ RunInv(r) /\ Working(r) /\ Claimed(r) /\ jobs[j].status # "ABSENT"
      /\ lambda[r].at = "discarding" /\ lambda[r].stage = NoStage
  BY RunTypes DEF Working, Claimed, RunInv, Discard
<1>1. /\ staged' = [staged EXCEPT ![Target(r)] = NoFile]
      /\ UNCHANGED <<server, private, public, request, locker>>
  BY DEF Discard
<1>2. staged' \in [Uploads -> File] /\ \A u \in Uploads \ {Target(r)} : staged'[u] = staged[u]
  BY <1>1, RunTypes DEF File
<1>3. \A i : FilesSame(i)
  BY <1>1 DEF FilesSame
<1>4. JobFiles(j)'
  BY <1>1, <1>3, RunTypes, KeepJobFiles DEF JobInv, JobSame, server
<1>5. private' \in [Jobs -> Files] /\ public' \in [Jobs -> ResultFile \cup {NoFile}]
  BY <1>1, RunTypes
<1>6. CASE ~lambda[r].broken
  <2>1. PICK y, x : y = lambda[r] /\ x = [y EXCEPT !.stage = Extracting]
    OBVIOUS
  <2>2. Call(r, "checkpoint", x)
    BY <1>6, <2>1 DEF Discard, Checkpoint
  <2>3. y \in Run /\ Extracting \in NoStage..Building /\ Extracting = 1
    BY <2>1, RunTypes, Facts
  <2>4. x \in Run /\ x.stage = 1
    BY <2>1, <2>3, AboutToRecord
  <2>5. Backed(j, x.stage, x.durations, x.spec)'
    BY <1>0, <1>1, <1>6, <2>4, Facts DEF Backed, RunInv
  <2>6. Known(j, x.stage - 1, x.durations, x.spec)
    BY <2>4, Facts DEF Known
  <2>7. /\ lambda[r].at \in {"storing", "discarding", "working"} /\ x.stage = lambda[r].stage + 1
        /\ FilesSame(r[1]) \/ lambda[r].at \in {"storing", "working"}
        /\ \/ staged' = staged
           \/ /\ lambda[r].at = "discarding"
              /\ \A u \in Uploads \ {Target(r)} : staged'[u] = staged[u]
        /\ UNCHANGED <<server, request, locker>>
    BY <1>0, <1>1, <1>2, <1>3, <1>4, <1>5, <2>4, Facts
  <2> QED
    BY <1>1, <1>2, <1>3, <1>4, <1>5, <2>2, <2>4, <2>5, <2>6, <2>7, CheckpointInv
<1>7. CASE lambda[r].broken
  <2>1. PICK run : run = [lambda[r] EXCEPT !.at = "raised"]
    OBVIOUS
  <2>2. /\ run \in Run /\ lambda' = [lambda EXCEPT ![r] = run] /\ lambda'[r] = run
        /\ run.at = "raised" /\ calls' = calls
    BY <1>7, <2>1, RunTypes DEF Run, Discard, Goto
  <2>3. RunInv(r)'
    BY <1>0, <1>1, <2>2 DEF RunInv, Working, server
  <2>4. \A c \in calls' : c.run # r
    BY <1>0, <2>2, NoCalls DEF NoCallsAt
  <2>5. RunStep(r, run, {})
    BY <1>0, <1>1, <1>2, <1>3, <2>2 DEF RunStep, Fresh
  <2> QED
    BY <1>2, <1>4, <1>5, <2>2, <2>3, <2>4, <2>5, RunStepInv
<1> QED
  BY <1>6, <1>7

\* A GIF's frames taken, with their delays.
LEMMA TakenFrames ==
  ASSUME NEW gif \in Seq(Nat), gif # <<>>, Readable(gif)
  PROVE  /\ Indices(Len(gif), MAX_FRAMES) \in Seq(Nat)
         /\ Len(Indices(Len(gif), MAX_FRAMES)) \in 1..MAX_FRAMES
         /\ DOMAIN Indices(Len(gif), MAX_FRAMES) = 1..Len(Indices(Len(gif), MAX_FRAMES))
         /\ DOMAIN Indices(Len(gif), MAX_FRAMES) \subseteq Positions
         /\ Durations(gif, MAX_FRAMES) \in Seq(Int)
         /\ Len(Durations(gif, MAX_FRAMES)) = Len(Indices(Len(gif), MAX_FRAMES))
         /\ DOMAIN Durations(gif, MAX_FRAMES) = DOMAIN Indices(Len(gif), MAX_FRAMES)
<1>1. Len(gif) \in Nat \ {0}
  OBVIOUS
<1>2. PICK indices : indices = Indices(Len(gif), MAX_FRAMES)
  OBVIOUS
<1>3. PICK durations : durations = Durations(gif, MAX_FRAMES)
  OBVIOUS
<1>4. indices \in Seq(Nat) /\ Len(indices) = IF Len(gif) > MAX_FRAMES THEN MAX_FRAMES ELSE Len(gif)
  BY <1>1, <1>2, IndicesAre, Facts
<1>5. durations \in Seq(Int) /\ Len(durations) = IF Len(gif) > MAX_FRAMES THEN MAX_FRAMES ELSE Len(gif)
  BY <1>3, DurationsKeepTime, Facts
<1>6. Len(indices) \in 1..MAX_FRAMES /\ Len(durations) = Len(indices)
  BY <1>1, <1>4, <1>5, Facts
<1> QED
  BY <1>2, <1>3, <1>4, <1>5, <1>6, Facts DEF Positions

\* A run that is at work on a stage.
LEMMA AtWork ==
  ASSUME IInv, NEW r \in Runs, NEW n, At(r, n)
  PROVE  /\ lambda[r] \in Run /\ lambda[r].at = "working" /\ lambda[r].stage = n
         /\ Working(r) /\ Claimed(r) /\ RunInv(r)
         /\ jobs[r[1]].status \notin {"ABSENT", "COMPLETED"}
         /\ jobs[r[1]].gif \in Seq(Nat) /\ jobs[r[1]].gif # <<>>
         /\ Backed(r[1], n, lambda[r].durations, lambda[r].spec)
         /\ Known(r[1], n, lambda[r].durations, lambda[r].spec)
         /\ private[r[1]].target \in TargetFile
<1>1. /\ lambda[r] \in Run /\ lambda[r].at = "working" /\ lambda[r].stage = n /\ RunInv(r)
      /\ Working(r) /\ Claimed(r)
  BY RunTypes DEF At, Working, Claimed
<1>2. /\ jobs[r[1]].status \notin {"ABSENT", "COMPLETED"} /\ n >= Extracting
      /\ Backed(r[1], n, lambda[r].durations, lambda[r].spec)
      /\ Known(r[1], n, lambda[r].durations, lambda[r].spec)
  BY <1>1 DEF RunInv
<1>3. jobs[r[1]].gif \in Seq(Nat) /\ jobs[r[1]].gif # <<>>
  BY <1>2, RunTypes DEF JobInv, JobGate, Job
<1>4. private[r[1]].target \in TargetFile
  BY <1>2 DEF Backed
<1> QED
  BY <1>1, <1>2, <1>3, <1>4

\* A run that is at work past the extraction works on the frames taken.
LEMMA AtWorkOnFrames ==
  ASSUME IInv, NEW r \in Runs, NEW n \in {Analyzing, Drafting, Compositing, Building}, At(r, n)
  PROVE  /\ Readable(jobs[r[1]].gif)
         /\ lambda[r].durations = Durations(jobs[r[1]].gif, MAX_FRAMES)
         /\ DOMAIN Indices(Len(jobs[r[1]].gif), MAX_FRAMES) = DOMAIN lambda[r].durations
         /\ lambda[r].durations \in Seq(Int)
         /\ DOMAIN lambda[r].durations = 1..Len(lambda[r].durations)
         /\ DOMAIN lambda[r].durations \subseteq Positions
         /\ \A i \in DOMAIN lambda[r].durations :
              /\ private[r[1]].frame[i] = Indices(Len(jobs[r[1]].gif), MAX_FRAMES)[i]
              /\ private[r[1]].frame[i] \in Nat
<1>1. /\ jobs[r[1]].gif \in Seq(Nat) /\ jobs[r[1]].gif # <<>>
      /\ Backed(r[1], n, lambda[r].durations, lambda[r].spec)
  BY AtWork
<1>2. n >= Analyzing
  BY Facts
<1>3. PICK gif : gif = jobs[r[1]].gif
  OBVIOUS
<1>4. /\ Readable(gif) /\ lambda[r].durations = Durations(gif, MAX_FRAMES)
      /\ \A i \in DOMAIN Indices(Len(gif), MAX_FRAMES) :
           private[r[1]].frame[i] = Indices(Len(gif), MAX_FRAMES)[i]
  BY <1>1, <1>2, <1>3 DEF Backed
<1>5. /\ Indices(Len(gif), MAX_FRAMES) \in Seq(Nat)
      /\ DOMAIN Indices(Len(gif), MAX_FRAMES) \subseteq Positions
      /\ Durations(gif, MAX_FRAMES) \in Seq(Int)
      /\ DOMAIN Durations(gif, MAX_FRAMES) = DOMAIN Indices(Len(gif), MAX_FRAMES)
  BY <1>1, <1>3, <1>4, TakenFrames
<1>6. DOMAIN lambda[r].durations = 1..Len(lambda[r].durations)
  BY <1>4, <1>5
<1>7. \A i \in DOMAIN Indices(Len(gif), MAX_FRAMES) : Indices(Len(gif), MAX_FRAMES)[i] \in Nat
  BY <1>5
<1> QED
  BY <1>3, <1>4, <1>5, <1>6, <1>7

\* The files of a job after one kind of them is rewritten.
LEMMA FilesWritten ==
  ASSUME NEW files \in Files, NEW new
  PROVE  /\ new \in [Positions -> Nat \cup {NoFile}] =>
              [files EXCEPT !.frame = new] \in Files
         /\ new \in DraftFile => [files EXCEPT !.draft = new] \in Files
         /\ new \in [Positions -> CompositedFile \cup {NoFile}] =>
              [files EXCEPT !.composited = new] \in Files
BY DEF Files

\* A job's files are written, and nobody else's.
LEMMA OnlyJobs ==
  ASSUME IInv, NEW r \in Runs, NEW files \in Files, private' = [private EXCEPT ![r[1]] = files],
         public' = public
  PROVE  /\ private' \in [Jobs -> Files] /\ private'[r[1]] = files
         /\ \A i \in Jobs \ {r[1]} : FilesSame(i)
BY RunTypes DEF FilesSame

\* The GIF processor stores the frames it takes.
LEMMA ExtractInv == ASSUME IInv, NEW r \in Runs, Extract(r) PROVE IInv'
<1> DEFINE j == r[1]
<1>1. PICK gif, indices : gif = jobs[j].gif /\ indices = Indices(Len(gif), MAX_FRAMES)
  OBVIOUS
<1>2. /\ lambda[r] \in Run /\ lambda[r].at = "working" /\ lambda[r].stage = Extracting
      /\ Working(r) /\ gif \in Seq(Nat) /\ gif # <<>>
      /\ private[j].target \in TargetFile /\ Readable(gif)
      /\ UNCHANGED <<server, staged, public, request, locker>>
  BY <1>1, AtWork DEF Extract
<1>3. /\ indices \in Seq(Nat) /\ DOMAIN indices \subseteq Positions /\ Durations(gif, MAX_FRAMES) \in Seq(Int)
  BY <1>1, <1>2, TakenFrames
<1>4. PICK frame : frame = [i \in Positions |-> IF i \in DOMAIN indices THEN indices[i]
                                                 ELSE private[j].frame[i]]
  OBVIOUS
<1>5. frame \in [Positions -> Nat \cup {NoFile}]
  <2>1. private[j].frame \in [Positions -> Nat \cup {NoFile}]
    BY RunTypes DEF Files
  <2>2. \A i \in DOMAIN indices : indices[i] \in Nat
    BY <1>3
  <2> QED
    BY <1>4, <2>1, <2>2
<1>6. PICK files : files = [private[j] EXCEPT !.frame = frame]
  OBVIOUS
<1>7. /\ files \in Files /\ private' = [private EXCEPT ![j] = files]
      /\ files.frame = frame /\ files.target = private[j].target
  <2>1. private[j] \in Files
    BY RunTypes
  <2>2. private' = [private EXCEPT ![j].frame = frame]
    BY <1>1, <1>4 DEF Extract
  <2> QED
    BY <1>5, <1>6, <2>1, <2>2, FilesWritten DEF Files
<1>8. /\ private' \in [Jobs -> Files] /\ private'[j] = files /\ \A i \in Jobs \ {j} : FilesSame(i)
  BY <1>2, <1>7, OnlyJobs
<1>9. JobFiles(j)'
  <2>1. \A st \in NoStage..lambda[r].stage : \A du, sp : Backed(r[1], st, du, sp)'
    BY <1>2, <1>7, <1>8, Facts DEF Backed
  <2> QED
    BY <1>2, <2>1, JobFilesStep DEF server
<1>10. PICK y, x : y = [lambda[r] EXCEPT !.durations = Durations(gif, MAX_FRAMES)]
                   /\ x = [y EXCEPT !.stage = Analyzing]
  OBVIOUS
<1>11. x \in Run /\ x.stage = Analyzing /\ x.durations = Durations(gif, MAX_FRAMES)
  <2>1. y \in Run /\ y.durations = Durations(gif, MAX_FRAMES)
    BY <1>2, <1>3, <1>10 DEF Run
  <2>2. Analyzing \in NoStage..Building
    BY Facts
  <2> QED
    BY <1>10, <2>1, <2>2, AboutToRecord
<1>12. Call(r, "checkpoint", x)
  BY <1>1, <1>10 DEF Extract, Checkpoint
<1>13. Backed(j, x.stage, x.durations, x.spec)'
  <2>1. jobs' = jobs
    BY <1>2 DEF server
  <2>2. \A i \in DOMAIN indices : files.frame[i] = indices[i]
    BY <1>3, <1>4, <1>7
  <2> QED
    BY <1>1, <1>2, <1>7, <1>8, <1>11, <2>1, <2>2, Facts DEF Backed
<1>14. Known(j, x.stage - 1, x.durations, x.spec)
  BY <1>11, Facts DEF Known
<1>15. /\ lambda[r].at \in {"storing", "discarding", "working"} /\ x.stage = lambda[r].stage + 1
       /\ FilesSame(j) \/ lambda[r].at \in {"storing", "working"}
       /\ staged' = staged /\ UNCHANGED <<server, request, locker>>
       /\ staged' \in [Uploads -> File] /\ public' \in [Jobs -> ResultFile \cup {NoFile}]
  BY <1>2, <1>11, RunTypes, Facts
<1> QED
  BY <1>8, <1>9, <1>11, <1>12, <1>13, <1>14, <1>15, CheckpointInv

\* The language model answers with a plan.
LEMMA AnalyzeInv == ASSUME IInv, NEW r \in Runs, Analyze(r) PROVE IInv'
<1> DEFINE j == r[1]
<1>1. PICK spec \in Positions :
        /\ ValidSpec(spec, Len(lambda[r].durations))
        /\ Checkpoint(r, Drafting, [lambda[r] EXCEPT !.spec = spec])
  BY DEF Analyze
<1>2. /\ lambda[r] \in Run /\ lambda[r].at = "working" /\ lambda[r].stage = Analyzing
      /\ Working(r) /\ UNCHANGED <<server, buckets, request, locker>>
      /\ Backed(j, Analyzing, lambda[r].durations, lambda[r].spec)
      /\ Known(j, Analyzing, lambda[r].durations, lambda[r].spec)
  BY AtWork DEF Analyze
<1>3. spec \in Nat /\ spec \in DOMAIN Indices(Len(jobs[j].gif), MAX_FRAMES)
  <2>1. spec \in 1..Len(lambda[r].durations)
    BY <1>1 DEF ValidSpec
  <2> QED
    BY <1>1, <2>1, AtWorkOnFrames DEF Analyze, Positions
<1>4. PICK y, x : y = [lambda[r] EXCEPT !.spec = spec] /\ x = [y EXCEPT !.stage = Drafting]
  OBVIOUS
<1>5. x \in Run /\ x.stage = Drafting /\ x.durations = lambda[r].durations /\ x.spec = spec
  <2>1. y \in Run /\ y.durations = lambda[r].durations /\ y.spec = spec
    BY <1>2, <1>3, <1>4 DEF Run
  <2>2. Drafting \in NoStage..Building
    BY Facts
  <2> QED
    <3>1. x = [y EXCEPT !.stage = Drafting]
      BY <1>4
    <3> QED
      BY <2>1, <2>2, <3>1, AboutToRecord
<1>6. Call(r, "checkpoint", x)
  BY <1>1, <1>4 DEF Checkpoint
<1>7. /\ jobs' = jobs /\ private' = private /\ public' = public /\ staged' = staged
      /\ \A i : FilesSame(i)
  BY <1>2 DEF server, buckets, FilesSame
<1>8. Backed(j, x.stage, x.durations, x.spec)'
  BY <1>2, <1>3, <1>5, <1>7, Facts DEF Backed
<1>9. Known(j, x.stage - 1, x.durations, x.spec)
  BY <1>2, <1>5, Facts DEF Known
<1>10. JobFiles(j)'
  BY <1>2, <1>7, RunTypes, KeepJobFiles DEF JobInv, JobSame, server
<1>11. /\ lambda[r].at \in {"storing", "discarding", "working"} /\ x.stage = lambda[r].stage + 1
       /\ UNCHANGED <<server, request, locker>>
       /\ staged' \in [Uploads -> File] /\ private' \in [Jobs -> Files]
       /\ public' \in [Jobs -> ResultFile \cup {NoFile}]
  BY <1>2, <1>5, <1>7, RunTypes, Facts
<1> QED
  BY <1>5, <1>6, <1>7, <1>8, <1>9, <1>10, <1>11, CheckpointInv

\* What follows when a run records the next stage with what it has.
LEMMA NextStageInv ==
  ASSUME IInv, NEW r \in Runs, NEW n \in {Drafting, Compositing}, At(r, n),
         NEW du, NEW sp, du = lambda[r].durations, sp = lambda[r].spec,
         Checkpoint(r, n + 1, lambda[r]),
         UNCHANGED <<server, staged, public, request, locker>>,
         private' \in [Jobs -> Files],
         \A i \in Jobs \ {r[1]} : FilesSame(i),
         Backed(r[1], n + 1, du, sp)',
         JobFiles(r[1])'
  PROVE  IInv'
<1>1. /\ lambda[r] \in Run /\ lambda[r].at = "working" /\ lambda[r].stage = n
      /\ Known(r[1], n, lambda[r].durations, lambda[r].spec)
  BY AtWork
<1>2. PICK y : y = lambda[r]
  OBVIOUS
<1>3. PICK x : x = [y EXCEPT !.stage = n + 1]
  OBVIOUS
<1>4. x \in Run /\ x.stage = n + 1 /\ x.durations = du /\ x.spec = sp
  <2>1. y \in Run /\ n + 1 \in NoStage..Building
    BY <1>1, <1>2, Facts
  <2> QED
    BY <1>2, <1>3, <2>1, AboutToRecord
<1>5. Call(r, "checkpoint", x)
  BY <1>2, <1>3 DEF Checkpoint
<1>6. Known(r[1], n, du, sp)
  BY <1>1, <1>2
<1>7. x.stage = lambda[r].stage + 1 /\ x.stage - 1 = n
  BY <1>1, <1>4, Facts
<1>8. Backed(r[1], x.stage, x.durations, x.spec)' /\ Known(r[1], x.stage - 1, x.durations, x.spec)
  BY <1>4, <1>6, <1>7
<1>9. /\ lambda[r].at \in {"storing", "discarding", "working"}
      /\ FilesSame(r[1]) \/ lambda[r].at \in {"storing", "working"}
      /\ staged' = staged /\ UNCHANGED <<server, request, locker>>
      /\ staged' \in [Uploads -> File] /\ public' \in [Jobs -> ResultFile \cup {NoFile}]
  BY <1>1, RunTypes
<1> QED
  BY <1>4, <1>5, <1>7, <1>8, <1>9, CheckpointInv

\* The draft is drawn of the target, after the frame the plan names.
LEMMA DraftInv == ASSUME IInv, NEW r \in Runs, Draft(r) PROVE IInv'
<1> DEFINE j == r[1]
<1>1. PICK du, sp : du = lambda[r].durations /\ sp = lambda[r].spec
  OBVIOUS
<1>2. /\ lambda[r] \in Run /\ lambda[r].at = "working" /\ lambda[r].stage = Drafting
      /\ Working(r) /\ Backed(j, Drafting, du, sp) /\ private[j].target \in TargetFile
      /\ UNCHANGED <<server, staged, public, request, locker>>
  BY <1>1, AtWork DEF Draft
<1>3. sp \in Positions /\ private[j].frame[sp] \in Nat
  <2>1. sp \in 1..Len(du)
    BY <1>1 DEF Draft, ValidSpec
  <2> QED
    BY <1>1, <2>1, AtWorkOnFrames DEF Draft
<1>4. PICK draft, files : draft = DraftImage(private[j], sp) /\ files = [private[j] EXCEPT !.draft = draft]
  OBVIOUS
<1>5. draft \in DraftFile
  BY <1>2, <1>3, <1>4 DEF DraftFile, DraftImage
<1>6. /\ files \in Files /\ private' = [private EXCEPT ![j] = files]
      /\ files.draft = draft /\ files.target = private[j].target /\ files.frame = private[j].frame
  <2>1. private[j] \in Files
    BY RunTypes
  <2>2. private' = [private EXCEPT ![j].draft = draft]
    BY <1>1, <1>4 DEF Draft
  <2>3. files \in Files
    BY <1>4, <1>5, <2>1, FilesWritten
  <2> QED
    BY <1>4, <2>1, <2>2, <2>3 DEF Files
<1>7. /\ private' \in [Jobs -> Files] /\ private'[j] = files /\ \A i \in Jobs \ {j} : FilesSame(i)
  BY <1>2, <1>6, OnlyJobs
<1>8. jobs' = jobs
  BY <1>2 DEF server
<1>9. JobFiles(j)'
  <2>1. \A st \in NoStage..lambda[r].stage : \A d, s : Backed(r[1], st, d, s) => Backed(r[1], st, d, s)'
    BY <1>2, <1>6, <1>7, <1>8, Facts DEF Backed
  <2> QED
    BY <1>2, <1>8, <2>1, JobFilesStep
<1>10. Backed(j, Compositing, du, sp)'
  <2>1. DraftImage(files, sp) = draft
    BY <1>4, <1>6 DEF DraftImage
  <2> QED
    BY <1>2, <1>6, <1>7, <1>8, <2>1, Facts DEF Backed
<1>11. Checkpoint(r, Drafting + 1, lambda[r]) /\ Drafting + 1 = Compositing
  BY Facts DEF Draft
<1> QED
  BY <1>1, <1>2, <1>7, <1>9, <1>10, <1>11, NextStageInv DEF Draft

\* A frame is finished, or fails.
LEMMA CompositeFrameInv ==
  ASSUME IInv, NEW r \in Runs, NEW i \in Frames(r), CompositeFrame(r, i)
  PROVE  IInv'
<1> DEFINE j == r[1]
<1>1. PICK du, sp : du = lambda[r].durations /\ sp = lambda[r].spec
  OBVIOUS
<1>2. /\ lambda[r] \in Run /\ lambda[r].at = "working" /\ lambda[r].stage = Compositing
      /\ Working(r) /\ Claimed(r) /\ RunInv(r) /\ jobs[j].status # "ABSENT"
      /\ Backed(j, Compositing, du, sp) /\ Known(j, Compositing, du, sp)
      /\ private[j].target \in TargetFile /\ i \in lambda[r].left
      /\ UNCHANGED <<server, staged, public, request, locker, calls>>
  BY <1>1, AtWork DEF CompositeFrame
<1>3. private[j].draft \in DraftFile
  <2>1. sp \in DOMAIN du /\ private[j].draft = DraftImage(private[j], sp)
    BY <1>1, <1>2, AtWorkOnFrames, Facts DEF Backed, CompositeFrame
  <2>2. private[j].frame[sp] \in Nat
    BY <1>1, <2>1, AtWorkOnFrames DEF CompositeFrame
  <2> QED
    BY <1>2, <2>1, <2>2 DEF DraftFile, DraftImage
<1>4. i \in Positions /\ FrameImage(private[j], i) \in CompositedFile
  <2>1. i \in Positions /\ private[j].frame[i] \in Nat
    BY AtWorkOnFrames DEF CompositeFrame, Frames
  <2> QED
    BY <1>3, <2>1 DEF CompositedFile, FrameImage
<1>5. PICK run : /\ lambda' = [lambda EXCEPT ![r] = run] /\ lambda'[r] = run /\ run \in Run
                 /\ run.at = "working" /\ run.stage = Compositing
                 /\ run.durations = du /\ run.spec = sp /\ run.left = lambda[r].left \ {i}
                 /\ \/ ~run.broken /\ ~lambda[r].broken
                       /\ private' = [private EXCEPT ![j].composited[i] = FrameImage(private[j], i)]
                    \/ run.broken /\ private' = private
                    \/ run.broken /\ private' = [private EXCEPT ![j].composited[i] = FrameImage(private[j], i)]
  <2>0. lambda \in [Runs -> Run]
    BY RunTypes
  <2>1. CASE /\ private' = [private EXCEPT ![j].composited[CompositedKey(r, i)] = FrameImage(private[j], i)]
             /\ lambda' = [lambda EXCEPT ![r].left = @ \ {i}]
    <3>1. PICK run : run = [lambda[r] EXCEPT !.left = lambda[r].left \ {i}]
      OBVIOUS
    <3>2. lambda' = [lambda EXCEPT ![r] = run] /\ lambda'[r] = run
      BY <2>0, <2>1, <3>1
    <3>3. /\ run \in Run /\ run.at = "working" /\ run.stage = Compositing /\ run.durations = du
          /\ run.spec = sp /\ run.left = lambda[r].left \ {i} /\ run.broken = lambda[r].broken
          /\ run.broken \in BOOLEAN
      BY <1>1, <1>2, <3>1 DEF Run
    <3>4. private' = [private EXCEPT ![j].composited[i] = FrameImage(private[j], i)]
      BY <2>1 DEF CompositedKey
    <3> QED
      BY <3>2, <3>3, <3>4
  <2>2. CASE /\ lambda' = [lambda EXCEPT ![r].left = @ \ {i}, ![r].broken = TRUE]
             /\ UNCHANGED private
    <3>1. PICK run : run = [lambda[r] EXCEPT !.left = lambda[r].left \ {i}, !.broken = TRUE]
      OBVIOUS
    <3>2. lambda' = [lambda EXCEPT ![r] = run] /\ lambda'[r] = run
      BY <2>0, <2>2, <3>1
    <3>3. /\ run \in Run /\ run.at = "working" /\ run.stage = Compositing /\ run.durations = du
          /\ run.spec = sp /\ run.left = lambda[r].left \ {i} /\ run.broken
      BY <1>1, <1>2, <3>1 DEF Run
    <3> QED
      BY <2>2, <3>2, <3>3
  <2> QED
    BY <2>1, <2>2 DEF CompositeFrame
<1>6. /\ private' \in [Jobs -> Files] /\ \A k \in Jobs \ {j} : FilesSame(k)
      /\ private'[j].target = private[j].target /\ private'[j].frame = private[j].frame
      /\ private'[j].draft = private[j].draft
      /\ \A k \in Positions \ {i} : private'[j].composited[k] = private[j].composited[k]
      /\ ~run.broken => private'[j].composited[i] = FrameImage(private[j], i)
  <2>0. private[j] \in Files /\ j \in Jobs /\ private \in [Jobs -> Files]
    BY RunTypes
  <2>1. CASE run.broken /\ private' = private
    BY <1>2, <1>5, <2>0, <2>1 DEF FilesSame
  <2>2. CASE private' = [private EXCEPT ![j].composited[i] = FrameImage(private[j], i)]
    <3>1. PICK image, composited : /\ image = FrameImage(private[j], i)
                                   /\ composited = [private[j].composited EXCEPT ![i] = image]
      OBVIOUS
    <3>2. PICK files : files = [private[j] EXCEPT !.composited = composited]
      OBVIOUS
    <3>3. /\ composited \in [Positions -> CompositedFile \cup {NoFile}]
          /\ composited[i] = image /\ \A k \in Positions \ {i} : composited[k] = private[j].composited[k]
      BY <1>4, <2>0, <3>1 DEF Files
    <3>4. files \in Files
      BY <2>0, <3>2, <3>3, FilesWritten
    <3>5. /\ files.composited = composited /\ files.target = private[j].target
          /\ files.frame = private[j].frame /\ files.draft = private[j].draft
      BY <2>0, <3>2 DEF Files
    <3>6. private' = [private EXCEPT ![j] = files]
      BY <2>0, <2>2, <3>1, <3>2
    <3>7. private' \in [Jobs -> Files] /\ private'[j] = files /\ \A k \in Jobs \ {j} : FilesSame(k)
      BY <1>2, <3>4, <3>6, OnlyJobs
    <3> QED
      BY <3>1, <3>3, <3>5, <3>7
  <2> QED
    BY <1>5, <2>1, <2>2
<1>7. jobs' = jobs /\ gate' = gate /\ request' = request
  BY <1>2 DEF server
<1>8. \A st \in NoStage..Compositing : \A d, s : Backed(j, st, d, s) => Backed(j, st, d, s)'
  BY <1>6, <1>7, Facts DEF Backed, DraftImage
<1>9. JobFiles(j)'
  BY <1>2, <1>7, <1>8, JobFilesStep
<1>10. RunInv(r)'
  <2>1. Backed(j, Compositing, du, sp)' /\ Known(j, Compositing, du, sp)'
    BY <1>2, <1>7, <1>8, Facts DEF Known
  <2>2. /\ \/ gate'.active = j /\ gate'.run = r /\ ~gate'.expired
           \/ request'[j] = "compensated"
        /\ jobs'[j].status # "COMPLETED" /\ jobs'[j].status # "ABSENT"
        /\ jobs'[j].stage <= Compositing
    BY <1>2, <1>7 DEF RunInv
  <2>3. /\ run.left \subseteq DOMAIN du
        /\ ~run.broken => \A k \in DOMAIN du \ run.left :
                            private'[j].composited[k] = FrameImage(private'[j], k)
    <3>1. lambda[r].left \subseteq DOMAIN du /\ DOMAIN du \subseteq Positions
      BY <1>1, <1>2, AtWorkOnFrames DEF RunInv, Frames, CompositeFrame
    <3>2. ~lambda[r].broken => \A k \in DOMAIN du \ lambda[r].left :
                                 private[j].composited[k] = FrameImage(private[j], k)
      BY <1>1, <1>2 DEF RunInv, Frames
    <3>3. ~run.broken => ~lambda[r].broken
      BY <1>5
    <3>4. \A k : FrameImage(private'[j], k) = FrameImage(private[j], k)
      BY <1>6 DEF FrameImage
    <3> QED
      BY <1>5, <1>6, <3>1, <3>2, <3>3, <3>4
  <2> HIDE DEF j
  <2> QED
    BY <1>5, <2>1, <2>2, <2>3, Facts DEF RunInv, Frames, j
<1>11. RunStep(r, run, {})
  BY <1>2, <1>5, <1>6 DEF RunStep, Fresh
<1>12. \A c \in calls' : c.run # r
  BY <1>2, NoCalls DEF NoCallsAt
<1>13. staged' \in [Uploads -> File] /\ public' \in [Jobs -> ResultFile \cup {NoFile}]
  BY <1>2, RunTypes
<1> QED
  BY <1>5, <1>6, <1>9, <1>10, <1>11, <1>12, <1>13, RunStepInv

\* Every frame is finished: the last stage is recorded; or one has failed.
LEMMA CompositeDoneInv == ASSUME IInv, NEW r \in Runs, CompositeDone(r) PROVE IInv'
<1> DEFINE j == r[1]
<1>1. PICK du, sp : du = lambda[r].durations /\ sp = lambda[r].spec
  OBVIOUS
<1>2. /\ lambda[r] \in Run /\ lambda[r].at = "working" /\ lambda[r].stage = Compositing
      /\ Working(r) /\ Claimed(r) /\ RunInv(r) /\ jobs[j].status # "ABSENT"
      /\ Backed(j, Compositing, du, sp) /\ lambda[r].left = {}
      /\ UNCHANGED <<server, buckets, request, locker>>
  BY <1>1, AtWork DEF CompositeDone
<1>3. /\ jobs' = jobs /\ private' = private /\ public' = public /\ staged' = staged
      /\ \A i : FilesSame(i)
  BY <1>2 DEF server, buckets, FilesSame
<1>4. CASE lambda[r].broken
  <2>1. PICK run : run = [lambda[r] EXCEPT !.at = "raised"]
    OBVIOUS
  <2>2. /\ run \in Run /\ lambda' = [lambda EXCEPT ![r] = run] /\ lambda'[r] = run
        /\ run.at = "raised" /\ calls' = calls
    BY <1>2, <1>4, <2>1, RunTypes DEF Run, CompositeDone, Goto
  <2>3. RunInv(r)'
    BY <1>2, <1>3, <2>2 DEF RunInv, Working
  <2> QED
    BY <1>2, <2>2, <2>3, QuietStep DEF NoCallsAt, Fresh, Busy
<1>5. CASE ~lambda[r].broken
  <2>1. /\ Backed(j, Building, du, sp)
    <3>1. \A i \in DOMAIN du : private[j].composited[i] = FrameImage(private[j], i)
      BY <1>1, <1>2, <1>5 DEF RunInv, Frames
    <3>2. DOMAIN Indices(Len(jobs[j].gif), MAX_FRAMES) = DOMAIN du
      BY <1>1, AtWorkOnFrames DEF CompositeDone
    <3> QED
      BY <1>2, <3>1, <3>2, Facts DEF Backed
  <2>2. Backed(j, Building, du, sp)'
    BY <1>3, <2>1 DEF Backed
  <2>3. JobFiles(j)'
    BY <1>2, <1>3, RunTypes, KeepJobFiles DEF JobInv, JobSame, server
  <2>4. /\ Checkpoint(r, Compositing + 1, lambda[r]) /\ Compositing + 1 = Building
        /\ At(r, Compositing)
    BY <1>5, Facts DEF CompositeDone
  <2>5. private' \in [Jobs -> Files] /\ UNCHANGED <<server, staged, public, request, locker>>
    BY <1>2, <1>3, RunTypes
  <2> QED
    BY <1>1, <1>3, <2>2, <2>3, <2>4, <2>5, NextStageInv
<1> QED
  BY <1>4, <1>5

\* Every frame of a GIF that can be built is shown for a while.
LEMMA BuildablePlays ==
  ASSUME NEW d \in Seq(Int), Buildable(d)
  PROVE  \A i \in DOMAIN d : d[i] > 0
BY DEF Buildable

\* The GIF is built of what was composited, and stored before it is reported.
LEMMA BuildInv == ASSUME IInv, NEW r \in Runs, Build(r) PROVE IInv'
<1> DEFINE j == r[1]
<1>1. PICK du, sp, gif, indices :
        /\ du = lambda[r].durations /\ sp = lambda[r].spec
        /\ gif = jobs[j].gif /\ indices = Indices(Len(gif), MAX_FRAMES)
  OBVIOUS
<1>2. /\ lambda[r] \in Run /\ lambda[r].at = "working" /\ lambda[r].stage = Building
      /\ Working(r) /\ Claimed(r) /\ RunInv(r) /\ jobs[j].status # "ABSENT"
      /\ Backed(j, Building, du, sp) /\ Known(j, Building, du, sp)
      /\ UNCHANGED <<server, staged, private, request, locker>>
  BY <1>1, AtWork DEF Build
<1>3. /\ DOMAIN indices = DOMAIN du /\ du = Durations(gif, MAX_FRAMES) /\ du \in Seq(Int)
      /\ DOMAIN du = 1..Len(du) /\ DOMAIN du \subseteq Positions /\ Readable(gif)
      /\ gif \in Seq(Nat)
  BY <1>1, AtWork, AtWorkOnFrames DEF Build
<1>4. \A i \in DOMAIN du :
        private[j].composited[i] = [frame |-> indices[i], draft |-> private[j].draft]
  <2>1. \A i \in DOMAIN du : private[j].composited[i] = FrameImage(private[j], i)
    BY <1>1, <1>2, <1>3, Facts DEF Backed
  <2>2. \A i \in DOMAIN du : private[j].frame[i] = indices[i]
    BY <1>1, AtWorkOnFrames DEF Build
  <2> QED
    BY <2>1, <2>2 DEF FrameImage
<1>5. PICK result : result = ResultOf(j)
  OBVIOUS
<1>6. public' = [public EXCEPT ![j] = result]
  <2>1. result = [frames |-> [i \in DOMAIN du |-> private[j].composited[i]], delays |-> GifDelays(du)]
    <3>1. [i \in DOMAIN du |-> private[j].composited[i]] =
            [i \in DOMAIN indices |-> [frame |-> indices[i], draft |-> private[j].draft]]
      BY <1>3, <1>4
    <3> QED
      BY <1>1, <1>3, <1>5, <3>1 DEF ResultOf
  <2> QED
    BY <1>1, <2>1 DEF Build, Frames
<1>7. result \in ResultFile
  <2>1. [i \in DOMAIN du |-> private[j].composited[i]] \in Seq(CompositedFile)
    <3>1. private[j].composited \in [Positions -> CompositedFile \cup {NoFile}]
      BY RunTypes DEF Files
    <3>2. \A i \in DOMAIN du : private[j].composited[i] \in CompositedFile
      BY <1>1, <1>3, <3>1 DEF Build, Frames
    <3>3. Len(du) \in Nat
      BY <1>3
    <3>4. [i \in 1..Len(du) |-> private[j].composited[i]] \in Seq(CompositedFile)
      BY <1>3, <3>2, <3>3
    <3> QED
      BY <1>3, <3>4
  <2>2. GifDelays(du) \in Seq(Nat)
    <3>1. GifDelays(du) = du
      BY <1>3, DurationsKeepTime, DelaysExact, Facts
    <3>2. \A i \in DOMAIN du : du[i] > 0
      <4>1. Buildable(du)
        BY <1>1 DEF Build
      <4> QED
        BY <1>3, <4>1, BuildablePlays
    <3> QED
      BY <1>3, <3>1, <3>2
  <2>3. [i \in DOMAIN du |-> private[j].composited[i]] =
          [i \in DOMAIN indices |-> [frame |-> indices[i], draft |-> private[j].draft]]
    BY <1>3, <1>4
  <2> QED
    BY <1>1, <1>3, <1>5, <2>1, <2>2, <2>3 DEF ResultOf, ResultFile
<1>8. /\ public' \in [Jobs -> ResultFile \cup {NoFile}] /\ public'[j] = result
      /\ \A i \in Jobs \ {j} : FilesSame(i)
      /\ jobs' = jobs /\ gate' = gate /\ request' = request /\ private' = private /\ staged' = staged
  BY <1>2, <1>6, <1>7, RunTypes DEF FilesSame, server
<1>9. PICK run, c : /\ run = [lambda[r] EXCEPT !.at = "complete"]
                    /\ c = [run |-> r, kind |-> "complete", stage |-> lambda[r].stage,
                            durations |-> du, spec |-> sp]
  OBVIOUS
<1>10. /\ run \in Run /\ run.at = "complete" /\ lambda' = [lambda EXCEPT ![r] = run] /\ lambda'[r] = run
       /\ calls' = calls \cup {c}
  BY <1>1, <1>2, <1>9, RunTypes DEF Run, Build, Call
<1>11. c \in Callback /\ c.run = r /\ c.kind = "complete" /\ c.durations = du /\ c.spec = sp
  BY <1>1, <1>2, <1>9 DEF Callback, Run, Waiting
<1>12. \A d \in calls : d.run # r
  BY <1>2, NoCalls DEF NoCallsAt
<1>13. RunStep(r, run, {c})
  BY <1>2, <1>8, <1>10, <1>11, <1>12 DEF RunStep, Fresh
<1>14. JobFiles(j)'
  BY <1>2, <1>8, JobFilesStep DEF Backed
<1>15. RunInv(r)'
  BY <1>2, <1>8, <1>10 DEF RunInv, Working
<1>16. CallInv(c)'
  <2>1. Backed(j, Building, du, sp)' /\ Known(j, Building, du, sp)'
    BY <1>2, <1>8 DEF Backed, Known
  <2>2. public'[j] # NoFile /\ public'[j] = ResultOf(j)'
    BY <1>5, <1>7, <1>8, Facts DEF ResultOf
  <2> QED
    BY <1>10, <1>11, <2>1, <2>2 DEF CallInv
<1>17. \A d \in calls' : d.run = r => CallInv(d)'
  BY <1>10, <1>12, <1>16
<1>18. staged' \in [Uploads -> File] /\ private' \in [Jobs -> Files]
  BY <1>8, RunTypes
<1> QED
  BY <1>8, <1>10, <1>11, <1>13, <1>14, <1>15, <1>17, <1>18, RunStepInv

\* The server starts a run that was queued.
LEMMA DeliverInv == ASSUME IInv, NEW r \in Runs, Deliver(r) PROVE IInv'
<1> DEFINE j == r[1]
<1>1. /\ lambda[r] \in Run /\ RunInv(r) /\ lambda[r].at = "queued" /\ jobs[j].status # "ABSENT"
      /\ UNCHANGED <<server, buckets, request, locker>>
  BY RunTypes DEF Deliver, RunInv
<1>2. PICK run, c : /\ run = [lambda[r] EXCEPT !.at = "start"]
                    /\ c = [run |-> r, kind |-> "start", stage |-> lambda[r].stage,
                            durations |-> lambda[r].durations, spec |-> lambda[r].spec]
  OBVIOUS
<1>3. /\ run \in Run /\ run.at = "start" /\ run.stage = NoStage
      /\ lambda' = [lambda EXCEPT ![r] = run] /\ lambda'[r] = run
      /\ calls' = calls \cup {c}
  BY <1>1, <1>2, RunTypes DEF Run, RunInv, Deliver, Call
<1>4. c \in Callback /\ c.run = r /\ c.kind = "start"
  BY <1>1, <1>2 DEF Callback, Run, Waiting
<1>5. \A d \in calls : d.run # r
  BY <1>1, NoCalls DEF NoCallsAt
<1>6. /\ jobs' = jobs /\ private' = private /\ public' = public /\ staged' = staged
      /\ \A i : FilesSame(i)
  BY <1>1 DEF server, buckets, FilesSame
<1>7. RunStep(r, run, {c})
  BY <1>1, <1>3, <1>4, <1>5, <1>6 DEF RunStep, Fresh, Busy, Reporting
<1>8. JobFiles(j)'
  BY <1>1, <1>6, RunTypes, KeepJobFiles DEF JobInv, JobSame, server
<1>9. RunInv(r)'
  BY <1>1, <1>3, <1>6 DEF RunInv, Working
<1>10. CallInv(c)'
  BY <1>3, <1>4 DEF CallInv
<1>11. \A d \in calls' : d.run = r => CallInv(d)'
  BY <1>3, <1>5, <1>10
<1>12. /\ staged' \in [Uploads -> File] /\ private' \in [Jobs -> Files]
       /\ public' \in [Jobs -> ResultFile \cup {NoFile}]
  BY <1>6, RunTypes
<1> QED
  BY <1>3, <1>4, <1>7, <1>8, <1>9, <1>11, <1>12, RunStepInv

\* A run that gives up or is over, whatever callback is answered then.
LEMMA EndStepInv ==
  ASSUME IInv, NEW r \in Runs, NEW run \in Run, lambda' = [lambda EXCEPT ![r] = run],
         UNCHANGED <<server, buckets, request, locker>>, calls' \subseteq calls,
         lambda[r].at # "none",
         \/ run.at = "ended"
         \/ run.at = "raised" /\ lambda[r].at \in {"checkpoint", "complete", "working"}
  PROVE  IInv'
<1>1. /\ RunInv(r) /\ jobs[r[1]].status # "ABSENT" /\ lambda'[r] = run
  BY RunTypes DEF RunInv
<1>2. /\ jobs' = jobs /\ private' = private /\ public' = public /\ staged' = staged
      /\ \A i : FilesSame(i) /\ JobSame(i) /\ NotBegun(i)
  BY DEF server, buckets, FilesSame, JobSame, NotBegun
<1>3. RunStep(r, run, {})
  BY <1>1, <1>2 DEF RunStep, Fresh, Busy, Claimed, Working
<1>4. JobFiles(r[1])'
  BY <1>1, <1>2, RunTypes, KeepJobFiles DEF JobInv, server
<1>5. RunInv(r)'
  BY <1>1, <1>2 DEF RunInv, Working
<1>6. ASSUME NEW c \in calls', c.run = r PROVE CallInv(c)'
  <2>1. c \in calls /\ CallInv(c) /\ lambda'[c.run] = run /\ lambda[c.run] = lambda[r]
    BY <1>1, <1>6 DEF IInv
  <2> QED
    BY <1>2, <2>1, KeepCall
<1>7. /\ staged' \in [Uploads -> File] /\ private' \in [Jobs -> Files]
      /\ public' \in [Jobs -> ResultFile \cup {NoFile}]
  BY <1>2, RunTypes
<1> QED
  BY <1>3, <1>4, <1>5, <1>6, <1>7, RunStepInv

\* Something a run at work does is an error.
LEMMA RaiseInv == ASSUME IInv, NEW r \in Runs, Raise(r) PROVE IInv'
<1>1. PICK run : run = [lambda[r] EXCEPT !.at = "raised"]
  OBVIOUS
<1>2. /\ run \in Run /\ run.at = "raised" /\ lambda' = [lambda EXCEPT ![r] = run]
      /\ lambda[r].at = "working" /\ UNCHANGED <<server, buckets, request, locker>> /\ calls' = calls
  BY <1>1, RunTypes DEF Run, Raise, Goto
<1> QED
  BY <1>2, EndStepInv

\* An invocation that is over.
LEMMA OverIs == Idle \in Run /\ Over \in Run /\ Over.at = "ended"
<1>1. Idle \in Run
  <2>1. <<>> \in Seq(Int) /\ {} \in SUBSET Nat /\ FALSE \in BOOLEAN /\ NoFile \in File
    BY DEF File
  <2>2. NoStage \in NoStage..Building /\ NoSpec \in Nat
    BY Facts DEF NoSpec
  <2> QED
    BY <2>1, <2>2 DEF Idle, Run
<1>2. Over \in Run /\ Over.at = "ended"
  BY <1>1 DEF Over, Run
<1> QED
  BY <1>1, <1>2

\* Where an answer takes a run that is not accepted.
LEMMA AfterIs ==
  ASSUME NEW y \in Run, y.at \in Waiting
  PROVE  /\ AfterError(y) \in Run /\ AfterConflict(y) \in Run
         /\ \/ AfterError(y).at = "ended"
            \/ AfterError(y).at = "raised" /\ y.at \in {"checkpoint", "complete", "working"}
         /\ \/ AfterConflict(y).at = "ended"
            \/ AfterConflict(y).at = "raised" /\ y.at \in {"checkpoint", "complete", "working"}
<1>1. PICK z : z = [y EXCEPT !.at = "raised"]
  OBVIOUS
<1>2. z \in Run /\ z.at = "raised"
  BY <1>1 DEF Run
<1>3. AfterError(y) = IF y.at \in {"checkpoint", "complete"} THEN z ELSE Over
  BY <1>1 DEF AfterError
<1>4. AfterConflict(y) = IF y.at = "checkpoint" THEN z ELSE Over
  BY <1>1 DEF AfterConflict
<1> QED
  BY <1>2, <1>3, <1>4, OverIs

\* An answer that does not come.
LEMMA TimesOutInv == ASSUME IInv, NEW r \in Runs, TimesOut(r) PROVE IInv'
<1>1. PICK run : run = AfterError(lambda[r])
  OBVIOUS
<1>2. /\ lambda[r] \in Run /\ lambda[r].at \in Waiting /\ lambda' = [lambda EXCEPT ![r] = run]
      /\ UNCHANGED <<server, buckets, request, locker>> /\ calls' = calls
  BY <1>1, RunTypes DEF TimesOut
<1>3. /\ run \in Run
      /\ run.at = "ended" \/ (run.at = "raised" /\ lambda[r].at \in {"checkpoint", "complete", "working"})
  <2>1. PICK y : y = lambda[r]
    OBVIOUS
  <2>2. y \in Run /\ y.at \in Waiting /\ run = AfterError(y)
    BY <1>1, <1>2, <2>1
  <2>3. /\ run \in Run
        /\ run.at = "ended" \/ (run.at = "raised" /\ y.at \in {"checkpoint", "complete", "working"})
    BY <2>2, AfterIs
  <2> QED
    BY <2>1, <2>3
<1> QED
  BY <1>2, <1>3, EndStepInv DEF Waiting

\* An invocation dies.
LEMMA DiesInv == ASSUME IInv, NEW r \in Runs, Dies(r) PROVE IInv'
<1>1. lambda[r].at # "none" /\ calls' = calls /\ UNCHANGED <<server, buckets, request, locker>>
  BY DEF Dies, Alive
<1> QED
  BY <1>1, OverIs, EndStepInv DEF Dies

\* A run that failed says so.
LEMMA SendFailInv == ASSUME IInv, NEW r \in Runs, SendFail(r) PROVE IInv'
<1> DEFINE j == r[1]
<1>1. /\ lambda[r] \in Run /\ RunInv(r) /\ lambda[r].at = "raised" /\ jobs[j].status # "ABSENT"
      /\ Claimed(r) /\ UNCHANGED <<server, buckets, request, locker>>
  BY RunTypes DEF SendFail, RunInv, Claimed
<1>2. PICK run, c : /\ run = [Idle EXCEPT !.at = "fail"]
                    /\ c = [run |-> r, kind |-> "fail", stage |-> NoStage,
                            durations |-> <<>>, spec |-> NoSpec]
  OBVIOUS
<1>3. /\ run \in Run /\ run.at = "fail"
      /\ lambda' = [lambda EXCEPT ![r] = run] /\ lambda'[r] = run
      /\ calls' = calls \cup {c}
  <2>1. run \in Run /\ run.at = "fail"
    BY <1>2, OverIs DEF Run
  <2>2. lambda' = [lambda EXCEPT ![r] = run] /\ calls' = calls \cup {c}
    BY <1>2 DEF SendFail, Call, Idle
  <2> QED
    BY <2>1, <2>2, RunTypes
<1>4. c \in Callback /\ c.run = r /\ c.kind = "fail"
  BY <1>2, Facts DEF Callback, Waiting, NoSpec
<1>5. /\ jobs' = jobs /\ private' = private /\ public' = public /\ staged' = staged
      /\ \A i : FilesSame(i) /\ JobSame(i) /\ NotBegun(i)
  BY <1>1 DEF server, buckets, FilesSame, JobSame, NotBegun
<1>6. RunStep(r, run, {c})
  <2>1. \A d \in calls : d.run = r => d.kind # "fail"
    BY <1>1 DEF IInv, CallInv
  <2> QED
    BY <1>1, <1>3, <1>4, <1>5, <2>1 DEF RunStep, Fresh, Busy, Reporting
<1>7. JobFiles(j)'
  BY <1>1, <1>5, RunTypes, KeepJobFiles DEF JobInv, server
<1>8. RunInv(r)'
  BY <1>1, <1>3, <1>5 DEF RunInv, Working
<1>9. ASSUME NEW d \in calls', d.run = r PROVE CallInv(d)'
  <2>1. CASE d = c
    BY <1>3, <1>4, <2>1 DEF CallInv
  <2>2. CASE d \in calls
    <3>1. CallInv(d) /\ lambda'[d.run] = run /\ lambda[d.run] = lambda[r]
      BY <1>3, <1>9, <2>2 DEF IInv
    <3> QED
      BY <1>1, <1>3, <1>5, <2>2, <3>1, KeepCall
  <2> QED
    BY <1>3, <2>1, <2>2
<1>10. /\ staged' \in [Uploads -> File] /\ private' \in [Jobs -> Files]
       /\ public' \in [Jobs -> ResultFile \cup {NoFile}]
  BY <1>5, RunTypes
<1> QED
  BY <1>3, <1>4, <1>6, <1>7, <1>8, <1>9, <1>10, RunStepInv

\* An answer that is lost on its way.
LEMMA AnswerLostInv ==
  ASSUME IInv, NEW r \in Runs, calls' \subseteq calls, UNCHANGED <<server, buckets, request, locker, lambda>>
  PROVE  IInv'
<1>1. PICK run : run = lambda[r]
  OBVIOUS
<1>2. /\ run \in Run /\ lambda' = [lambda EXCEPT ![r] = run] /\ lambda' = lambda /\ RunInv(r)
  BY <1>1, RunTypes
<1>3. /\ jobs' = jobs /\ gate' = gate /\ request' = request
      /\ private' = private /\ public' = public /\ staged' = staged
      /\ \A i : FilesSame(i) /\ JobSame(i) /\ NotBegun(i)
  BY DEF server, buckets, FilesSame, JobSame, NotBegun
<1>4. RunStep(r, run, {})
  <2>1. run.at # "none" => jobs[r[1]].status # "ABSENT"
    BY <1>1, <1>2 DEF RunInv
  <2>2. run.at \in Busy => Claimed(r)
    BY <1>1 DEF Busy, Claimed, Working
  <2> QED
    BY <1>1, <1>2, <1>3, <2>1, <2>2 DEF RunStep
<1>5. JobFiles(r[1])'
  BY <1>3, RunTypes, KeepJobFiles DEF JobInv, server
<1>6. RunInv(r)'
  BY <1>2, <1>3, KeepRun DEF RunInv
<1>7. ASSUME NEW c \in calls' PROVE CallInv(c)'
  <2>1. c \in calls /\ CallInv(c)
    BY DEF IInv
  <2> QED
    BY <1>2, <1>3, <2>1, KeepCall
<1>8. /\ staged' \in [Uploads -> File] /\ private' \in [Jobs -> Files]
      /\ public' \in [Jobs -> ResultFile \cup {NoFile}]
  BY <1>3, RunTypes
<1> QED
  BY <1>2, <1>4, <1>5, <1>6, <1>7, <1>8, RunStepInv

\* What a callback on its way says of its run.
LEMMA CallTypes ==
  ASSUME IInv, NEW c \in calls
  PROVE  /\ c \in Callback /\ c.run \in Runs /\ CallInv(c) /\ c.kind \in Waiting
         /\ c.kind # "start" => Claimed(c.run)
         /\ lambda[c.run].at \notin {"none", "queued"}
BY DEF IInv, Types, Callback, Claimed, CallInv, Waiting

\* The answer of a callback the server does not accept.
LEMMA NotAcceptedInv ==
  ASSUME IInv, NEW c \in calls, UNCHANGED server,
         Answer(c, AfterConflict) \/ Answer(c, AfterError)
  PROVE  IInv'
<1> DEFINE r == c.run
<1>1. /\ r \in Runs /\ c.kind \in Waiting /\ calls' \subseteq calls
      /\ lambda[r] \in Run /\ lambda[r].at \notin {"none", "queued"}
      /\ UNCHANGED <<server, buckets, request, locker>>
  BY CallTypes, RunTypes DEF Answer
<1>2. CASE lambda' = lambda
  BY <1>1, <1>2, AnswerLostInv
<1>3. CASE lambda[r].at = c.kind /\ lambda' = [lambda EXCEPT ![r] = AfterConflict(lambda[r])]
  <2>1. PICK run : run = AfterConflict(lambda[r])
    OBVIOUS
  <2>2. /\ run \in Run
        /\ run.at = "ended" \/ (run.at = "raised" /\ lambda[r].at \in {"checkpoint", "complete", "working"})
    <3>1. PICK y : y = lambda[r]
      OBVIOUS
    <3>2. y \in Run /\ y.at \in Waiting /\ run = AfterConflict(y)
      BY <1>1, <1>3, <2>1, <3>1
    <3>3. /\ run \in Run
          /\ run.at = "ended" \/ (run.at = "raised" /\ y.at \in {"checkpoint", "complete", "working"})
      BY <3>2, AfterIs
    <3> QED
      BY <3>1, <3>3
  <2> HIDE DEF r
  <2> QED
    BY <1>1, <1>3, <2>1, <2>2, EndStepInv
<1>4. CASE lambda[r].at = c.kind /\ lambda' = [lambda EXCEPT ![r] = AfterError(lambda[r])]
  <2>1. PICK run : run = AfterError(lambda[r])
    OBVIOUS
  <2>2. /\ run \in Run
        /\ run.at = "ended" \/ (run.at = "raised" /\ lambda[r].at \in {"checkpoint", "complete", "working"})
    <3>1. PICK y : y = lambda[r]
      OBVIOUS
    <3>2. y \in Run /\ y.at \in Waiting /\ run = AfterError(y)
      BY <1>1, <1>4, <2>1, <3>1
    <3>3. /\ run \in Run
          /\ run.at = "ended" \/ (run.at = "raised" /\ y.at \in {"checkpoint", "complete", "working"})
      BY <3>2, AfterIs
    <3> QED
      BY <3>1, <3>3
  <2> HIDE DEF r
  <2> QED
    BY <1>1, <1>4, <2>1, <2>2, EndStepInv
<1>5. \/ lambda' = lambda
      \/ lambda[r].at = c.kind /\ lambda' = [lambda EXCEPT ![r] = AfterConflict(lambda[r])]
      \/ lambda[r].at = c.kind /\ lambda' = [lambda EXCEPT ![r] = AfterError(lambda[r])]
  <2>1. CASE Answer(c, AfterConflict)
    BY <2>1, RunTypes DEF Answer
  <2>2. CASE Answer(c, AfterError)
    BY <2>2, RunTypes DEF Answer
  <2> QED
    BY <2>1, <2>2
<1> QED
  BY <1>2, <1>3, <1>4, <1>5

\* The answer of a callback that is accepted: its run goes on, or does not hear.
LEMMA AcceptedAnswer ==
  ASSUME IInv, NEW c \in calls, Answer(c, AfterOk)
  PROVE  /\ calls' = calls \ {c} /\ UNCHANGED <<buckets, request, locker>>
         /\ \E run \in Run : /\ lambda' = [lambda EXCEPT ![c.run] = run] /\ lambda'[c.run] = run
                             /\ \/ run = lambda[c.run]
                                \/ lambda[c.run].at = c.kind /\ run = AfterOk(lambda[c.run])
<1>1. lambda \in [Runs -> Run] /\ lambda[c.run] \in Run /\ c.run \in Runs
  BY CallTypes, RunTypes
<1>2. CASE lambda' = lambda
  BY <1>1, <1>2 DEF Answer
<1>3. CASE lambda[c.run].at = c.kind /\ lambda' = [lambda EXCEPT ![c.run] = AfterOk(lambda[c.run])]
  <2>1. AfterOk(lambda[c.run]) \in Run
    <3>1. lambda[c.run].durations \in Seq(Int)
      BY <1>1 DEF Run
    <3>2. DOMAIN lambda[c.run].durations = 1..Len(lambda[c.run].durations)
          /\ Len(lambda[c.run].durations) \in Nat
      BY <3>1
    <3>3. PICK left : left = IF lambda[c.run].stage = Compositing THEN DOMAIN lambda[c.run].durations ELSE {}
      OBVIOUS
    <3>4. left \in SUBSET Nat
      BY <3>2, <3>3
    <3>5. PICK run : run = lambda[c.run]
      OBVIOUS
    <3>6. [run EXCEPT !.at = "fetching"] \in Run /\ [run EXCEPT !.at = "working", !.left = left] \in Run
      BY <1>1, <3>4, <3>5 DEF Run
    <3> QED
      BY <3>3, <3>5, <3>6, OverIs DEF AfterOk
  <2> QED
    BY <1>1, <1>3, <2>1 DEF Answer
<1> QED
  BY <1>1, <1>2, <1>3 DEF Answer

\* What the handler of a callback of the run that holds the gate, or takes it,
\* does: it writes the job of that run, and may release the gate of a job over.
GateStep(r, run) ==
  /\ UNCHANGED <<buckets, request, locker>> /\ locker = NoJob
  /\ lambda' = [lambda EXCEPT ![r] = run]
  /\ run.at \notin {"none", "queued"}
  /\ run.at \in Fresh => lambda[r].at \in Fresh
  /\ gate.active = r[1] /\ gate.run \in {NoRun, r}
  /\ \/ gate' = FreeGate /\ jobs'[r[1]].status # "PROCESSING"
     \/ gate' = [active |-> r[1], run |-> r, expired |-> FALSE] /\ jobs'[r[1]].status # "COMPLETED"
  /\ jobs' \in [Jobs -> Job]
  /\ \A i \in Jobs \ {r[1]} : jobs'[i] = jobs[i]
  /\ jobs'[r[1]].target = jobs[r[1]].target /\ jobs'[r[1]].gif = jobs[r[1]].gif
  /\ jobs'[r[1]].status # "ABSENT" /\ NotBegun(r[1])
  /\ assets \subseteq assets'

LEMMA GateStepInv ==
  ASSUME IInv, NEW c \in calls, NEW r \in Runs, r = c.run, NEW run \in Run, calls' = calls \ {c},
         GateStep(r, run), JobFiles(r[1])', RunInv(r)',
         \A d \in calls' : d.run = r => CallInv(d)'
  PROVE  IInv'
<1> USE DEF GateStep
<1> DEFINE j == r[1]
<1>0. /\ Types /\ GateInv /\ OneRun
      /\ (\A i \in Jobs : JobInv(i)) /\ (\A q \in Runs : RunInv(q)) /\ (\A d \in calls : CallInv(d))
  BY DEF IInv
<1>1. /\ j \in Jobs /\ jobs[j].status # "ABSENT" /\ jobs[j].gif # <<>>
      /\ request[j] \notin {"new", "uploading"}
  <2>1. j \in Jobs
    BY Facts
  <2>2. jobs[j].status # "ABSENT"
    BY <1>0, CallTypes DEF RunInv
  <2>3. request[j] \notin {"new", "uploading"}
    BY <1>0, <2>1, Facts DEF GateInv
  <2> QED
    BY <1>0, <2>1, <2>2, <2>3 DEF JobInv, JobGate
<1>2. /\ lambda \in [Runs -> Run] /\ lambda' \in [Runs -> Run]
      /\ lambda'[r] = run /\ \A q \in Runs \ {r} : lambda'[q] = lambda[q]
  BY <1>0 DEF Types
<1>3. /\ private' = private /\ public' = public /\ staged' = staged
      /\ request' = request /\ locker' = NoJob
      /\ (\A i : FilesSame(i)) /\ (\A i \in Jobs \ {j} : JobSame(i)) /\ (\A i \in Jobs : NotBegun(i))
  BY <1>0 DEF buckets, FilesSame, JobSame, NotBegun
<1>4. \A q \in Runs \ {r} : Claimed(q) => q[1] # j
  BY <1>0, Facts DEF OneRun
<1>5. Types'
  <2>1. gate' \in [active : Jobs \cup {NoJob}, run : Runs \cup {NoRun}, expired : BOOLEAN]
    <3>1. FreeGate \in [active : Jobs \cup {NoJob}, run : Runs \cup {NoRun}, expired : BOOLEAN]
      BY DEF FreeGate
    <3>2. [active |-> j, run |-> r, expired |-> FALSE]
            \in [active : Jobs \cup {NoJob}, run : Runs \cup {NoRun}, expired : BOOLEAN]
      BY <1>1
    <3>3. gate' = FreeGate \/ gate' = [active |-> j, run |-> r, expired |-> FALSE]
      OBVIOUS
    <3> QED
      BY <3>1, <3>2, <3>3
  <2> QED
    BY <1>0, <1>2, <1>3, <2>1 DEF Types
<1>6. \A q \in Runs \ {r} : Claimed(q)' => Claimed(q)
  BY <1>2 DEF Claimed, Working
<1>7. OneRun'
  <2>1. \A q \in Runs : Claimed(q)' /\ gate'.active = q[1] => gate'.run = q
    BY <1>4, <1>6, Facts DEF FreeGate
  <2>2. \A p, q \in Runs : Claimed(p)' /\ Claimed(q)' /\ p[1] = q[1] => p = q
    BY <1>0, <1>4, <1>6 DEF OneRun
  <2>3. \A d, e \in calls' :
          d.run = e.run /\ (d.kind = e.kind \/ {d.kind, e.kind} \subseteq {"checkpoint", "complete"})
            => d = e
    BY <1>0 DEF OneRun
  <2> QED
    BY <2>1, <2>2, <2>3 DEF OneRun
<1>8. GateInv'
  BY <1>1, <1>2, <1>3, Facts DEF GateInv, FreeGate
<1>9. ASSUME NEW i \in Jobs PROVE JobGate(i)'
  <2>1. CASE i = j
    BY <1>1, <1>3, <2>1, Facts DEF JobGate, FreeGate
  <2>2. CASE i # j
    <3>1. JobGate(i) /\ jobs'[i] = jobs[i] /\ gate'.active # i
      BY <1>0, <2>2, Facts DEF JobInv, FreeGate
    <3> QED
      BY <1>3, <2>2, <3>1 DEF JobGate
  <2> QED
    BY <2>1, <2>2
<1>10. ASSUME NEW i \in Jobs PROVE JobFiles(i)'
  <2>1. CASE i = j
    BY <2>1
  <2>2. CASE i # j
    BY <1>0, <1>3, <2>2, KeepJobFiles DEF JobInv
  <2> QED
    BY <2>1, <2>2
<1>11. ASSUME NEW i \in Jobs PROVE JobUpload(i)'
  <2>1. /\ JobUpload(i) /\ NotBegun(i) /\ request'[i] = request[i]
        /\ jobs'[i].target = jobs[i].target
        /\ \A k \in Jobs : request[k] \in {"compensating", "compensated"}
             => request'[k] \in {"compensating", "compensated"} /\ jobs'[k].target = jobs[k].target
    BY <1>0, <1>3 DEF JobInv
  <2>2. \A q \in Runs : q[1] = i /\ lambda'[q].at \in Fresh => lambda[q].at \in Fresh
    BY <1>2
  <2>3. jobs[i].target \in Uploads /\ staged[jobs[i].target] # NoFile
          => staged'[jobs[i].target] # NoFile
    BY <1>3
  <2> QED
    BY <2>1, <2>2, <2>3, KeepUpload
<1>12. ASSUME NEW q \in Runs PROVE RunInv(q)'
  <2>1. CASE q = r
    BY <2>1
  <2>2. CASE q # r
    <3>1. RunInv(q) /\ lambda'[q] = lambda[q] /\ q[1] \in Jobs
      BY <1>0, <1>2, <2>2, Facts
    <3>2. lambda[q].at # "none" => jobs'[q[1]].status # "ABSENT"
      BY <3>1 DEF RunInv
    <3>3. ASSUME Working(q)
          PROVE  /\ JobSame(q[1]) /\ private'[q[1]] = private[q[1]]
                 /\ NotBegun(q[1]) /\ jobs'[q[1]].status # "COMPLETED"
                 /\ request'[q[1]] = "compensated"
      <4>1. q[1] # j
        BY <1>4, <2>2, <3>3 DEF Claimed
      <4> QED
        BY <1>3, <3>1, <3>3, <4>1 DEF RunInv
    <3> QED
      BY <3>1, <3>2, <3>3, KeepRun
  <2> QED
    BY <2>1, <2>2
<1>13. ASSUME NEW d \in calls' PROVE CallInv(d)'
  <2>1. CASE d.run = r
    BY <2>1
  <2>2. CASE d.run # r
    <3>1. d \in calls /\ CallInv(d) /\ d.run \in Runs /\ lambda'[d.run] = lambda[d.run]
      BY <1>2, <2>2, CallTypes
    <3>2. d.kind # "start" => d.run[1] \in Jobs \ {j}
      BY <1>4, <2>2, <3>1, CallTypes, Facts
    <3> QED
      BY <1>3, <3>1, <3>2, KeepCall
  <2> QED
    BY <2>1, <2>2
<1> QED
  BY <1>5, <1>7, <1>8, <1>9, <1>10, <1>11, <1>12, <1>13 DEF IInv, JobInv

\* The callbacks of one run on their way are of different kinds, and at most
\* one reports.
LEMMA OtherCalls ==
  ASSUME IInv, NEW c \in calls, NEW d \in calls \ {c}, d.run = c.run
  PROVE  d.kind # c.kind /\ ~({c.kind, d.kind} \subseteq {"checkpoint", "complete"})
BY DEF IInv, OneRun

\* A run claims the gate.
LEMMA HandleStartInv ==
  ASSUME IInv, NEW c \in calls, HandleStart(c), locker = NoJob
  PROVE  IInv'
<1>1. PICK r : r = c.run
  OBVIOUS
<1>2. PICK run \in Run :
        /\ lambda' = [lambda EXCEPT ![r] = run] /\ lambda'[r] = run
        /\ run = lambda[r] \/ (lambda[r].at = "start" /\ run = AfterOk(lambda[r]))
        /\ calls' = calls \ {c} /\ UNCHANGED <<buckets, request, locker>>
  BY <1>1, AcceptedAnswer DEF HandleStart
<1>3. /\ r \in Runs /\ r[1] \in Jobs /\ RunInv(r) /\ lambda[r] \in Run
      /\ lambda[r].at \in {"start", "ended"} /\ jobs[r[1]].status # "ABSENT"
      /\ JobInv(r[1]) /\ jobs \in [Jobs -> Job]
  BY <1>1, CallTypes, RunTypes DEF CallInv, HandleStart, RunInv, IInv, Types
<1>4. \/ run = lambda[r]
      \/ lambda[r].at = "start" /\ run.at = "fetching" /\ run.stage = NoStage
  BY <1>2, <1>3 DEF AfterOk, RunInv, Run
<1>5. /\ gate.active = r[1] /\ gate.run = NoRun /\ ~gate.expired /\ jobs' = jobs
      /\ gate' = [active |-> r[1], run |-> r, expired |-> FALSE] /\ assets' = assets
      /\ private' = private
  <2>1. gate \in [active : Jobs \cup {NoJob}, run : Runs \cup {NoRun}, expired : BOOLEAN]
    BY DEF IInv, Types
  <2> QED
    BY <1>1, <1>2, <2>1 DEF HandleStart, Claimable, buckets
<1>6. jobs[r[1]].status # "COMPLETED" /\ jobs[r[1]].stage = NoStage /\ private[r[1]].target \in File
  BY <1>3, <1>5 DEF JobInv, JobGate
<1>7. GateStep(r, run)
  BY <1>2, <1>3, <1>4, <1>5, <1>6 DEF GateStep, NotBegun, Fresh
<1>8. JobFiles(r[1])'
  <2>1. FilesSame(r[1])
    BY <1>2 DEF FilesSame, buckets
  <2> QED
    BY <1>3, <1>5, <2>1, KeepJobFiles DEF JobInv, JobSame
<1>9. RunInv(r)'
  <2>1. run.at \in {"fetching", "start", "ended"} /\ (run.at = "fetching" => run.stage = NoStage)
    BY <1>3, <1>4
  <2>2. run.at = "start" => run.stage = NoStage
    BY <1>3, <1>4 DEF RunInv
  <2> QED
    BY <1>2, <1>3, <1>5, <1>6, <2>1, <2>2, Facts DEF RunInv, Working
<1>10. ASSUME NEW d \in calls', d.run = r PROVE CallInv(d)'
  <2>1. d \in calls \ {c} /\ CallInv(d) /\ d.kind # "start" /\ d.kind \in Waiting
    BY <1>1, <1>2, <1>10, OtherCalls, CallTypes DEF HandleStart
  <2>2. lambda[r].at = "ended"
    BY <1>3, <1>10, <2>1 DEF CallInv, Waiting
  <2>3. lambda'[d.run] = lambda[d.run] /\ JobSame(d.run[1]) /\ FilesSame(d.run[1]) /\ NotBegun(d.run[1])
    BY <1>2, <1>4, <1>5, <1>10, <2>2 DEF JobSame, FilesSame, NotBegun, buckets
  <2> QED
    BY <2>1, <2>3, KeepCall
<1> QED
  BY <1>1, <1>2, <1>3, <1>7, <1>8, <1>9, <1>10, GateStepInv

\* What the server records of a checkpoint is what the files back.
LEMMA HandleCheckpointInv ==
  ASSUME IInv, NEW c \in calls, HandleCheckpoint(c), locker = NoJob
  PROVE  IInv'
<1>1. PICK r, j : r = c.run /\ j = r[1]
  OBVIOUS
<1>2. PICK run \in Run :
        /\ lambda' = [lambda EXCEPT ![r] = run] /\ lambda'[r] = run
        /\ run = lambda[r] \/ (lambda[r].at = "checkpoint" /\ run = AfterOk(lambda[r]))
        /\ calls' = calls \ {c} /\ UNCHANGED <<buckets, request, locker>>
  BY <1>1, AcceptedAnswer DEF HandleCheckpoint
<1>3. /\ r \in Runs /\ j \in Jobs /\ RunInv(r) /\ lambda[r] \in Run /\ Claimed(r)
      /\ jobs[j].status # "ABSENT" /\ JobInv(j) /\ jobs \in [Jobs -> Job]
      /\ c \in Callback /\ CallInv(c) /\ c.kind = "checkpoint"
      /\ lambda[r].at \in {"checkpoint", "raised", "fail", "ended"}
  BY <1>1, CallTypes, RunTypes DEF CallInv, HandleCheckpoint, RunInv, IInv, Types
<1>4. /\ gate.active = j /\ gate.run = r /\ ~gate.expired /\ gate' = gate /\ assets' = assets
      /\ gate' = [active |-> j, run |-> r, expired |-> FALSE]
      /\ private' = private /\ public' = public /\ staged' = staged /\ request' = request
      /\ \A i : FilesSame(i)
  <2>1. gate \in [active : Jobs \cup {NoJob}, run : Runs \cup {NoRun}, expired : BOOLEAN]
    BY DEF IInv, Types
  <2> QED
    BY <1>1, <1>2, <2>1 DEF HandleCheckpoint, Owns, buckets, FilesSame
<1>5. /\ Backed(j, c.stage, c.durations, c.spec) /\ Known(j, c.stage - 1, c.durations, c.spec)
      /\ c.stage \in NoStage..Building /\ c.stage >= Extracting /\ c.durations \in Seq(Int) /\ c.spec \in Nat
  BY <1>1, <1>3 DEF CallInv, Callback
<1>6. jobs[j].status # "COMPLETED"
  BY <1>3, <1>4 DEF JobInv, JobGate
<1>7. PICK y : y = lambda[r]
  OBVIOUS
<1>8. \/ run = y
      \/ /\ y.at = "checkpoint" /\ run.at = "working" /\ run.stage = y.stage
         /\ run.durations = y.durations /\ run.spec = y.spec
         /\ run.left = IF y.stage = Compositing THEN DOMAIN y.durations ELSE {}
  BY <1>2, <1>3, <1>7 DEF AfterOk, Run
<1>9. y.at = "checkpoint" => y.stage = c.stage /\ y.durations = c.durations /\ y.spec = c.spec
  BY <1>1, <1>3, <1>7 DEF CallInv
<1>10. PICK job : job = jobs'[j]
  OBVIOUS
<1>11. /\ jobs' \in [Jobs -> Job] /\ (\A i \in Jobs \ {j} : jobs'[i] = jobs[i])
       /\ job.target = jobs[j].target /\ job.gif = jobs[j].gif /\ job.status = jobs[j].status
       /\ \/ jobs' = jobs /\ job.status # "PROCESSING"
          \/ /\ jobs[j].status = "PROCESSING" /\ job.stage = c.stage
             /\ job.durations = IF c.stage = Analyzing THEN c.durations ELSE jobs[j].durations
             /\ job.spec = IF c.stage = Drafting THEN c.spec ELSE jobs[j].spec
  <2>1. CASE jobs[j].status = "PROCESSING"
    <3>1. jobs' = [jobs EXCEPT ![j] = Recorded(jobs[j], c)]
      BY <1>1, <2>1 DEF HandleCheckpoint, Update
    <3>2. PICK old : old = jobs[j]
      OBVIOUS
    <3>3. old \in Job
      BY <1>3, <3>2
    <3>4. PICK new : new = Recorded(old, c)
      OBVIOUS
    <3>5. PICK du, sp : /\ du = IF c.stage = Analyzing THEN c.durations ELSE old.durations
                        /\ sp = IF c.stage = Drafting THEN c.spec ELSE old.spec
      OBVIOUS
    <3>6. new = [old EXCEPT !.stage = c.stage, !.durations = du, !.spec = sp]
      BY <3>3, <3>4, <3>5 DEF Recorded, Job
    <3>7. du \in Seq(Int) /\ sp \in Nat
      BY <1>5, <3>3, <3>5 DEF Job
    <3>8. /\ new \in Job /\ new.target = old.target /\ new.gif = old.gif /\ new.status = old.status
          /\ new.stage = c.stage /\ new.durations = du /\ new.spec = sp
      BY <1>5, <3>3, <3>6, <3>7 DEF Job
    <3>9. jobs' = [jobs EXCEPT ![j] = new] /\ jobs'[j] = new
      BY <1>3, <3>1, <3>2, <3>4
    <3> QED
      BY <1>3, <1>10, <2>1, <3>2, <3>5, <3>8, <3>9
  <2>2. CASE jobs[j].status # "PROCESSING"
    BY <1>1, <1>3, <1>10, <2>2 DEF HandleCheckpoint
  <2> QED
    BY <2>1, <2>2
<1>12. GateStep(r, run)
  <2>1. run.at \notin {"none", "queued"} /\ run.at \notin Fresh
    BY <1>3, <1>7, <1>8 DEF Fresh
  <2> QED
    BY <1>1, <1>2, <1>3, <1>4, <1>6, <1>10, <1>11, <2>1 DEF GateStep, NotBegun
<1>13. job.status = "PROCESSING" =>
         /\ c.stage >= Analyzing => job.durations = c.durations
         /\ c.stage >= Drafting => job.spec = c.spec
  BY <1>5, <1>11, Facts DEF Known
<1>14. JobFiles(j)'
  <2>1. Backed(j, job.stage, job.durations, job.spec)
    <3>1. CASE jobs' = jobs /\ job.status # "PROCESSING"
      BY <1>3, <1>10, <3>1 DEF JobInv, JobFiles
    <3>2. CASE job.status = "PROCESSING" /\ job.stage = c.stage
      BY <1>5, <1>13, <3>2, Facts DEF Backed
    <3> QED
      BY <1>11, <3>1, <3>2
  <2>2. Backed(j, job.stage, job.durations, job.spec)'
    BY <1>4, <1>10, <1>11, <2>1, BackedKept
  <2> QED
    BY <1>6, <1>10, <1>11, <2>2 DEF JobFiles
<1>15. ASSUME y.at = "checkpoint"
       PROVE  /\ Backed(j, y.stage, y.durations, y.spec)' /\ Known(j, y.stage, y.durations, y.spec)'
              /\ job.stage <= y.stage /\ y.stage >= Extracting
  <2>1. Backed(j, y.stage, y.durations, y.spec)'
    BY <1>4, <1>5, <1>9, <1>10, <1>11, <1>15, BackedKept
  <2>2. Known(j, y.stage, y.durations, y.spec)'
    BY <1>9, <1>10, <1>13, <1>15 DEF Known
  <2>3. job.stage <= y.stage
    <3>1. jobs[j].stage <= y.stage
      BY <1>1, <1>3, <1>7, <1>15 DEF RunInv, Working
    <3> QED
      BY <1>5, <1>9, <1>10, <1>11, <1>15, <3>1, Facts
  <2> QED
    BY <1>5, <1>9, <1>15, <2>1, <2>2, <2>3
<1>16. RunInv(r)'
  <2>1. CASE y.at # "checkpoint"
    <3>1. run.at \in {"raised", "fail", "ended"} /\ job.status # "ABSENT"
      BY <1>3, <1>7, <1>8, <1>11, <2>1
    <3> QED
      BY <1>1, <1>2, <1>10, <3>1 DEF RunInv, Working
  <2>2. CASE y.at = "checkpoint"
    <3>1. /\ run.at \in {"checkpoint", "working"} /\ run.stage = y.stage
          /\ run.durations = y.durations /\ run.spec = y.spec
          /\ run.at = "working" /\ run.stage = Compositing => run.left = DOMAIN run.durations
      BY <1>8, <2>2
    <3>2. Known(j, y.stage - 1, y.durations, y.spec)'
      <4>1. y.stage \in Int
        BY <1>5, <1>9, <2>2, Facts
      <4> QED
        BY <1>15, <2>2, <4>1, Facts DEF Known
    <3>3. job.status \notin {"ABSENT", "COMPLETED"}
      BY <1>3, <1>6, <1>11
    <3> QED
      BY <1>1, <1>2, <1>4, <1>10, <1>15, <2>2, <3>1, <3>2, <3>3 DEF RunInv, Working, Frames
  <2> QED
    BY <2>1, <2>2
<1>17. ASSUME NEW d \in calls', d.run = r PROVE CallInv(d)'
  <2>1. d \in calls \ {c} /\ CallInv(d) /\ d.kind \in {"start", "fail"}
    BY <1>1, <1>2, <1>3, <1>17, OtherCalls, CallTypes DEF Waiting
  <2>2. lambda[r].at \in {"fail", "ended"}
    BY <1>3, <1>17, <2>1 DEF CallInv
  <2>3. lambda'[r] = lambda[r]
    BY <1>2, <1>7, <1>8, <2>2
  <2> QED
    BY <1>17, <2>1, <2>3 DEF CallInv
<1> QED
  BY <1>1, <1>2, <1>3, <1>12, <1>14, <1>16, <1>17, GateStepInv

\* A result that is built is whole.
LEMMA BuiltIsWhole ==
  ASSUME NEW j \in Jobs, jobs[j].gif \in Seq(Nat), NEW du, NEW sp,
         Backed(j, Building, du, sp), public[j] = ResultOf(j)
  PROVE  /\ private[j].draft = DraftImage(private[j], sp)
         /\ \E p \in Pictures : private[j].target = Png(p)
         /\ Total(public[j].delays) = Total(jobs[j].gif)
         /\ public[j].frames = [i \in DOMAIN Indices(Len(jobs[j].gif), MAX_FRAMES) |->
                                  [frame |-> Indices(Len(jobs[j].gif), MAX_FRAMES)[i],
                                   draft |-> private[j].draft]]
<1>1. /\ private[j].target \in TargetFile /\ Readable(jobs[j].gif)
      /\ private[j].draft = DraftImage(private[j], sp)
  BY Facts DEF Backed
<1>2. \E p \in Pictures : private[j].target = Png(p)
  <2>1. PICK p \in Pictures : private[j].target = [png |-> p]
    BY <1>1 DEF TargetFile
  <2> QED
    BY <2>1 DEF Png
<1>3. PICK gif : gif = jobs[j].gif
  OBVIOUS
<1>4. Total(GifDelays(Durations(gif, MAX_FRAMES))) = Total(gif)
  BY <1>1, <1>3, ResultKeepsTime, Facts
<1>5. public[j].delays = GifDelays(Durations(gif, MAX_FRAMES))
  BY <1>3 DEF ResultOf
<1>6. public[j].frames = [i \in DOMAIN Indices(Len(gif), MAX_FRAMES) |->
                           [frame |-> Indices(Len(gif), MAX_FRAMES)[i], draft |-> private[j].draft]]
  BY <1>3 DEF ResultOf
<1> QED
  BY <1>1, <1>2, <1>3, <1>4, <1>5, <1>6

\* A run reports its result.
LEMMA HandleCompleteInv ==
  ASSUME IInv, NEW c \in calls, HandleComplete(c), locker = NoJob
  PROVE  IInv'
<1>1. PICK r, j : r = c.run /\ j = r[1]
  OBVIOUS
<1>2. PICK run \in Run :
        /\ lambda' = [lambda EXCEPT ![r] = run] /\ lambda'[r] = run
        /\ run = lambda[r] \/ (lambda[r].at = "complete" /\ run = AfterOk(lambda[r]))
        /\ calls' = calls \ {c} /\ UNCHANGED <<buckets, request, locker>>
  BY <1>1, AcceptedAnswer DEF HandleComplete
<1>3. /\ r \in Runs /\ j \in Jobs /\ RunInv(r) /\ lambda[r] \in Run
      /\ jobs[j].status # "ABSENT" /\ JobInv(j) /\ jobs \in [Jobs -> Job]
      /\ CallInv(c) /\ c.kind = "complete"
      /\ lambda[r].at \in {"complete", "raised", "fail", "ended"}
  BY <1>1, CallTypes, RunTypes DEF CallInv, HandleComplete, RunInv, IInv, Types
<1>4. run = lambda[r] \/ run.at = "ended"
  BY <1>2, <1>3, OverIs DEF AfterOk
<1>5. /\ gate.active = j /\ gate.run = r /\ ~gate.expired
      /\ private' = private /\ public' = public /\ staged' = staged /\ \A i : FilesSame(i)
  BY <1>1, <1>2 DEF HandleComplete, Owns, buckets, FilesSame
<1>6. CASE jobs[j].status # "PROCESSING"
  <2>1. UNCHANGED server
    BY <1>1, <1>6 DEF HandleComplete
  <2>2. CASE run = lambda[r]
    <3>1. lambda' = lambda
      BY <1>2, <1>3, <2>2, RunTypes
    <3> QED
      BY <1>2, <1>3, <2>1, <3>1, AnswerLostInv
  <2>3. CASE run.at = "ended"
    BY <1>2, <1>3, <2>1, <2>3, EndStepInv
  <2> QED
    BY <1>4, <2>2, <2>3
<1>7. CASE jobs[j].status = "PROCESSING"
  <2>1. PICK job : job = [jobs[j] EXCEPT !.status = "COMPLETED"]
    OBVIOUS
  <2>2. /\ job \in Job /\ job.status = "COMPLETED" /\ job.stage = jobs[j].stage
        /\ job.durations = jobs[j].durations /\ job.spec = jobs[j].spec
        /\ job.target = jobs[j].target /\ job.gif = jobs[j].gif
    BY <1>3, <2>1 DEF Job
  <2>3. /\ jobs' = [jobs EXCEPT ![j] = job] /\ jobs'[j] = job /\ jobs' \in [Jobs -> Job]
        /\ gate' = FreeGate /\ assets' = assets \cup ({j} \X {"COMPOSITION_DRAFT", "COMPOSITION_RESULT"})
    BY <1>1, <1>3, <1>5, <1>7, <2>1, <2>2 DEF HandleComplete, Update, Release, SaveAssets
  <2>4. GateStep(r, run)
    <3>1. run.at \notin {"none", "queued"} /\ run.at \notin Fresh
      BY <1>3, <1>4 DEF Fresh
    <3> QED
      BY <1>1, <1>2, <1>5, <1>7, <2>2, <2>3, <3>1 DEF GateStep, NotBegun
  <2>5. JobFiles(j)'
    <3>1. Backed(j, jobs[j].stage, jobs[j].durations, jobs[j].spec)
      BY <1>3 DEF JobInv, JobFiles
    <3>2. PICK st, du, sp : st = job.stage /\ du = job.durations /\ sp = job.spec
      OBVIOUS
    <3>3. Backed(j, st, du, sp)'
      <4>1. Backed(j, st, du, sp)
        BY <2>2, <3>1, <3>2
      <4> QED
        BY <1>5, <2>2, <2>3, <4>1, BackedKept
    <3>4. PICK gif, d : gif = jobs[j].gif /\ d = c.durations
      OBVIOUS
    <3>5. /\ Backed(j, Building, d, c.spec) /\ jobs[j].spec = c.spec
          /\ public[j] # NoFile /\ public[j] = ResultOf(j) /\ gif \in Seq(Nat)
      BY <1>1, <1>3, <1>7, <3>4, Facts DEF CallInv, Known, Job
    <3>6. Whole(j)'
      <4>1. /\ private[j].draft = DraftImage(private[j], c.spec)
            /\ \E p \in Pictures : private[j].target = Png(p)
            /\ Total(public[j].delays) = Total(gif)
            /\ public[j].frames = [i \in DOMAIN Indices(Len(gif), MAX_FRAMES) |->
                                     [frame |-> Indices(Len(gif), MAX_FRAMES)[i], draft |-> private[j].draft]]
        BY <1>3, <3>4, <3>5, BuiltIsWhole
      <4>2. jobs'[j].gif = gif /\ jobs'[j].spec = c.spec
        BY <2>2, <2>3, <3>4, <3>5
      <4>3. {<<j, "COMPOSITION_DRAFT">>, <<j, "COMPOSITION_RESULT">>} \subseteq assets'
        BY <2>3
      <4> QED
        BY <1>5, <3>5, <4>1, <4>2, <4>3 DEF Whole
    <3> QED
      BY <2>3, <3>2, <3>3, <3>6 DEF JobFiles
  <2>6. RunInv(r)'
    BY <1>1, <1>2, <1>3, <1>4, <2>2, <2>3 DEF RunInv, Working
  <2>7. ASSUME NEW d \in calls', d.run = r PROVE CallInv(d)'
    <3>1. d \in calls \ {c} /\ CallInv(d) /\ d.kind \in {"start", "fail"}
      BY <1>1, <1>2, <1>3, <2>7, OtherCalls, CallTypes DEF Waiting
    <3>2. lambda[r].at \in {"fail", "ended"}
      BY <1>3, <2>7, <3>1 DEF CallInv
    <3>3. lambda'[r] = lambda[r] \/ (lambda'[r].at = "ended" /\ lambda[r].at = "ended")
      BY <1>2, <1>4, <3>2
    <3> QED
      BY <2>7, <3>1, <3>2, <3>3 DEF CallInv
  <2> QED
    BY <1>1, <1>2, <1>3, <2>4, <2>5, <2>6, <2>7, GateStepInv
<1> QED
  BY <1>6, <1>7

\* A run reports that it failed.
LEMMA HandleFailInv ==
  ASSUME IInv, NEW c \in calls, HandleFail(c), locker = NoJob
  PROVE  IInv'
<1>1. PICK r, j : r = c.run /\ j = r[1]
  OBVIOUS
<1>2. PICK run \in Run :
        /\ lambda' = [lambda EXCEPT ![r] = run] /\ lambda'[r] = run
        /\ run = lambda[r] \/ (lambda[r].at = "fail" /\ run = AfterOk(lambda[r]))
        /\ calls' = calls \ {c} /\ UNCHANGED <<buckets, request, locker>>
  BY <1>1, AcceptedAnswer DEF HandleFail
<1>3. /\ r \in Runs /\ j \in Jobs /\ RunInv(r) /\ lambda[r] \in Run
      /\ jobs[j].status # "ABSENT" /\ JobInv(j) /\ jobs \in [Jobs -> Job]
      /\ lambda[r].at \in {"fail", "ended"}
  BY <1>1, CallTypes, RunTypes DEF CallInv, HandleFail, RunInv, IInv, Types
<1>4. run = lambda[r] \/ run.at = "ended"
  BY <1>2, <1>3, OverIs DEF AfterOk
<1>5. /\ gate.active = j /\ gate.run = r /\ ~gate.expired /\ assets' = assets
      /\ private' = private /\ public' = public /\ staged' = staged /\ \A i : FilesSame(i)
  BY <1>1, <1>2 DEF HandleFail, Owns, buckets, FilesSame
<1>6. CASE jobs[j].status # "PROCESSING"
  <2>1. UNCHANGED server
    BY <1>1, <1>6 DEF HandleFail, server
  <2>2. CASE run = lambda[r]
    <3>1. lambda' = lambda
      BY <1>2, <1>3, <2>2, RunTypes
    <3> QED
      BY <1>2, <1>3, <2>1, <3>1, AnswerLostInv
  <2>3. CASE run.at = "ended"
    BY <1>2, <1>3, <2>1, <2>3, EndStepInv
  <2> QED
    BY <1>4, <2>2, <2>3
<1>7. CASE jobs[j].status = "PROCESSING"
  <2>1. PICK job : job = Failed(jobs[j])
    OBVIOUS
  <2>2. /\ job \in Job /\ job.status = "FAILED" /\ job.stage = jobs[j].stage
        /\ job.durations = jobs[j].durations /\ job.spec = jobs[j].spec
        /\ job.target = jobs[j].target /\ job.gif = jobs[j].gif
    BY <1>3, <2>1 DEF Job, Failed
  <2>3. /\ jobs' = [jobs EXCEPT ![j] = job] /\ jobs'[j] = job /\ jobs' \in [Jobs -> Job]
        /\ gate' = FreeGate
    BY <1>1, <1>3, <1>5, <1>7, <2>1, <2>2 DEF HandleFail, Update, Release
  <2>4. GateStep(r, run)
    <3>1. run.at \notin {"none", "queued"} /\ run.at \notin Fresh
      BY <1>3, <1>4 DEF Fresh
    <3> QED
      BY <1>1, <1>2, <1>5, <1>7, <2>2, <2>3, <3>1 DEF GateStep, NotBegun
  <2>5. JobSame(j) /\ NotBegun(j)
    BY <2>2, <2>3 DEF JobSame, NotBegun
  <2>6. JobFiles(j)'
    BY <1>3, <1>5, <2>2, <2>3, <2>5, KeepJobFiles DEF JobInv
  <2>7. RunInv(r)'
    BY <1>1, <1>2, <1>3, <1>4, <2>2, <2>3 DEF RunInv, Working
  <2>8. ASSUME NEW d \in calls', d.run = r PROVE CallInv(d)'
    <3>1. d \in calls /\ CallInv(d) /\ d.run[1] = j
      BY <1>1, <1>2, <2>8, CallTypes
    <3>2. lambda'[r] = lambda[r] \/ lambda'[r].at = "ended"
      BY <1>2, <1>4
    <3> QED
      BY <1>5, <2>5, <2>8, <3>1, <3>2, KeepCall
  <2> QED
    BY <1>1, <1>2, <1>3, <2>4, <2>6, <2>7, <2>8, GateStepInv
<1> QED
  BY <1>6, <1>7

-----------------------------------------------------------------------------
(* The requests and the gate                                               *)

\* A job that is not there yet has no run and no callback.
LEMMA NoRunsYet ==
  ASSUME IInv, NEW j \in Jobs, jobs[j].status = "ABSENT"
  PROVE  /\ \A r \in Runs : r[1] = j => lambda[r].at = "none" /\ ~Claimed(r)
         /\ \A c \in calls : c.run[1] # j
<1>1. \A c \in calls : c.run[1] # j
  BY CallTypes, RunTypes DEF RunInv
<1>2. ASSUME NEW r \in Runs, r[1] = j
      PROVE  lambda[r].at = "none" /\ ~Claimed(r)
  <2>1. lambda[r].at = "none"
    BY <1>2 DEF IInv, RunInv
  <2> QED
    BY <1>1, <1>2, <2>1 DEF Claimed, Working
<1> QED
  BY <1>1, <1>2

\* A step of a request or of the gate: no run takes part.  A job stays as it
\* is recorded, but for its status, unless it is not there yet.
Stays(j) ==
  /\ JobSame(j) /\ FilesSame(j) /\ NotBegun(j)
  /\ jobs'[j].status = "COMPLETED" => jobs[j].status = "COMPLETED"
  /\ jobs[j].status # "ABSENT" => jobs'[j].status # "ABSENT"

\* A run at work is heard, or was given up with its request.
StillHeard(r) ==
  \/ gate'.active = r[1] /\ gate'.run = r /\ ~gate'.expired
  \/ request'[r[1]] = "compensated"

LEMMA ServerStepInv ==
  ASSUME IInv, UNCHANGED cloud, assets \subseteq assets', Types', GateInv',
         \A r \in Runs : Claimed(r) /\ gate'.active = r[1] => gate'.run = r,
         \A j \in Jobs : Stays(j) \/ (jobs[j].status = "ABSENT" /\ JobFiles(j)'),
         \A j \in Jobs : JobGate(j)' /\ JobUpload(j)',
         \A r \in Runs : Working(r) => StillHeard(r)
  PROVE  IInv'
<1>0. /\ OneRun /\ (\A j \in Jobs : JobInv(j)) /\ (\A r \in Runs : RunInv(r)) /\ (\A c \in calls : CallInv(c))
      /\ lambda' = lambda /\ calls' = calls
  BY DEF IInv, cloud
<1>1. OneRun'
  <2>1. \A r \in Runs : Claimed(r)' <=> Claimed(r)
    BY <1>0 DEF Claimed, Working
  <2> QED
    BY <1>0, <2>1 DEF OneRun
<1>2. ASSUME NEW j \in Jobs PROVE JobFiles(j)'
  <2>1. CASE Stays(j)
    BY <1>0, <2>1, KeepJobFiles DEF Stays, JobInv
  <2> QED
    BY <2>1
<1>3. ASSUME NEW r \in Runs PROVE RunInv(r)'
  <2>1. RunInv(r) /\ lambda'[r] = lambda[r] /\ r[1] \in Jobs
    BY <1>0, Facts
  <2>2. CASE jobs[r[1]].status = "ABSENT"
    BY <2>1, <2>2, NoRunsYet, KeepRun DEF Working
  <2>3. CASE Stays(r[1])
    <3>1. lambda[r].at # "none" => jobs'[r[1]].status # "ABSENT"
      BY <2>1, <2>3 DEF Stays, RunInv
    <3>2. Working(r) =>
            /\ JobSame(r[1]) /\ private'[r[1]] = private[r[1]]
            /\ NotBegun(r[1]) /\ jobs'[r[1]].status # "COMPLETED"
            /\ \/ gate'.active = r[1] /\ gate'.run = r /\ ~gate'.expired
               \/ request'[r[1]] = "compensated"
      BY <2>1, <2>3 DEF Stays, RunInv, StillHeard, FilesSame
    <3> QED
      BY <2>1, <3>1, <3>2, KeepRun
  <2> QED
    BY <2>1, <2>2, <2>3
<1>4. ASSUME NEW c \in calls' PROVE CallInv(c)'
  <2>1. /\ c \in calls /\ CallInv(c) /\ c.run \in Runs /\ c.run[1] \in Jobs
        /\ lambda'[c.run] = lambda[c.run] /\ jobs[c.run[1]].status # "ABSENT"
    BY <1>0, CallTypes, NoRunsYet, Facts
  <2>2. Stays(c.run[1])
    BY <2>1
  <2> QED
    BY <2>1, <2>2, KeepCall DEF Stays
<1> QED
  BY <1>1, <1>2, <1>3, <1>4 DEF IInv, JobInv

\* The parts of the invariant the steps of requests rest on.
LEMMA ServerFacts ==
  ASSUME IInv
  PROVE  /\ jobs \in [Jobs -> Job] /\ private \in [Jobs -> Files] /\ staged \in [Uploads -> File]
         /\ gate \in [active : Jobs \cup {NoJob}, run : Runs \cup {NoRun}, expired : BOOLEAN]
         /\ request \in [Jobs -> {"new", "uploading", "triggering", "compensating", "compensated", "done"}]
         /\ locker \in Jobs \cup {NoJob} /\ GateInv /\ OneRun
         /\ \A j \in Jobs : JobGate(j) /\ JobFiles(j) /\ JobUpload(j)
         /\ \A r \in Runs : RunInv(r)
BY DEF IInv, Types, JobInv

\* The user sends a file, once more.
LEMMA StageInv == ASSUME IInv, NEW u \in Uploads, Stage(u) PROVE IInv'
<1>1. PICK file \in Pictures : staged' = [staged EXCEPT ![u] = file]
  BY DEF Stage
<1>2. /\ jobs' = jobs /\ gate' = gate /\ assets' = assets /\ private' = private /\ public' = public
      /\ request' = request /\ locker' = locker /\ lambda' = lambda /\ calls' = calls
  BY DEF Stage, server, cloud
<1>3. staged' \in [Uploads -> File] /\ \A v \in Uploads : staged[v] # NoFile => staged'[v] # NoFile
  BY <1>1, ServerFacts, Facts DEF File
<1>4. Types'
  BY <1>2, <1>3 DEF IInv, Types
<1>5. GateInv'
  BY <1>2, ServerFacts DEF GateInv
<1>6. \A j \in Jobs : Stays(j)
  BY <1>2 DEF Stays, JobSame, FilesSame, NotBegun
<1>7. ASSUME NEW j \in Jobs PROVE JobGate(j)' /\ JobUpload(j)'
  <2>1. JobGate(j)'
    BY <1>2, ServerFacts DEF JobGate
  <2>2. JobUpload(j)'
    BY <1>2, <1>3, <1>6, ServerFacts, KeepUpload DEF Stays
  <2> QED
    BY <2>1, <2>2
<1>8. \A r \in Runs : /\ Claimed(r) /\ gate'.active = r[1] => gate'.run = r
                      /\ Working(r) => StillHeard(r)
  BY <1>2, ServerFacts DEF OneRun, RunInv, StillHeard
<1> QED
  BY <1>2, <1>4, <1>5, <1>6, <1>7, <1>8, ServerStepInv DEF cloud

\* A job that uploads holds the gate, and nobody has heard of it yet.
LEMMA WhileUploading ==
  ASSUME IInv, NEW j \in Jobs, request[j] = "uploading"
  PROVE  /\ locker = j /\ jobs[j].status = "ABSENT" /\ gate.active # j
         /\ gate.active = NoJob \/ gate.expired
         /\ jobs[j].gif # <<>> /\ jobs[j].stage = NoStage /\ private[j].target \in File
         /\ \A i \in Jobs \ {j} : request[i] # "uploading"
         /\ \A r \in Runs : Working(r) => request[r[1]] = "compensated"
<1>1. locker = j /\ jobs[j].status = "ABSENT" /\ jobs[j].gif # <<>>
  BY ServerFacts DEF JobGate
<1>2. gate.active # j /\ (gate.active = NoJob \/ gate.expired)
  BY <1>1, ServerFacts, Facts DEF GateInv
<1>3. jobs[j].stage = NoStage /\ private[j].target \in File
  BY <1>1, ServerFacts DEF JobGate
<1>4. \A i \in Jobs \ {j} : request[i] # "uploading"
  BY <1>1, ServerFacts DEF JobGate
<1>5. \A r \in Runs : Working(r) => request[r[1]] = "compensated"
  BY <1>2, ServerFacts, Facts DEF RunInv
<1> QED
  BY <1>1, <1>2, <1>3, <1>4, <1>5

\* The request enters the gate and stores its target, or looks its upload up.
LEMMA EnterGateInv ==
  ASSUME IInv, NEW j \in Jobs, NEW gif \in Gifs, NEW target \in Uploads \cup {Inline},
         EnterGate(j, gif, target)
  PROVE  IInv'
<1>1. /\ request[j] = "new" /\ locker = NoJob /\ locker' = j /\ (gate.active = NoJob \/ gate.expired)
      /\ gif # <<>> /\ gif \in Seq(Nat)
      /\ gate' = gate /\ assets' = assets /\ staged' = staged /\ public' = public
      /\ lambda' = lambda /\ calls' = calls /\ UNCHANGED cloud
  BY Facts DEF EnterGate, cloud
<1>2. jobs[j].status = "ABSENT" /\ jobs[j].stage = NoStage /\ private[j].target \in File /\ gate.active # j
  BY <1>1, ServerFacts, Facts DEF JobGate, GateInv
<1>3. PICK job : job = [jobs[j] EXCEPT !.gif = gif, !.target = target]
  OBVIOUS
<1>4. /\ job \in Job /\ job.status = "ABSENT" /\ job.stage = NoStage
      /\ job.gif = gif /\ job.target = target
  BY <1>1, <1>2, <1>3, ServerFacts DEF Job
<1>5. /\ jobs' \in [Jobs -> Job] /\ jobs'[j] = job /\ \A i \in Jobs \ {j} : jobs'[i] = jobs[i]
  <2>1. jobs' = [jobs EXCEPT ![j] = job]
    BY <1>3, ServerFacts DEF EnterGate
  <2> QED
    BY <1>4, <2>1, ServerFacts
<1>6. /\ request' \in [Jobs -> {"new", "uploading", "triggering", "compensating", "compensated", "done"}]
      /\ request'[j] = "uploading" /\ \A i \in Jobs \ {j} : request'[i] = request[i]
  BY ServerFacts DEF EnterGate
<1>7. /\ private' \in [Jobs -> Files] /\ private'[j].target \in File
      /\ \A i \in Jobs \ {j} : private'[i] = private[i]
      /\ target \in Uploads => staged[target] # NoFile
  <2>1. CASE target = Inline
    <3>1. PICK file \in Pictures : private' = [private EXCEPT ![j].target = file]
      BY <2>1 DEF EnterGate
    <3>2. PICK files : files = [private[j] EXCEPT !.target = file]
      OBVIOUS
    <3>3. files \in Files /\ files.target \in File
      <4>1. PICK old : old = private[j]
        OBVIOUS
      <4>2. old \in Files /\ file \in File \cup TargetFile /\ file \in File
        BY <4>1, ServerFacts DEF File
      <4> QED
        BY <3>2, <4>1, <4>2 DEF Files
    <3>4. private' = [private EXCEPT ![j] = files]
      BY <3>1, <3>2, ServerFacts
    <3> QED
      BY <2>1, <3>3, <3>4, ServerFacts, Facts
  <2>2. CASE target # Inline
    BY <1>2, <2>2, ServerFacts DEF EnterGate, Resolves
  <2> QED
    BY <2>1, <2>2
<1>8. Types'
  BY <1>1, <1>5, <1>6, <1>7 DEF IInv, Types
<1>9. GateInv'
  BY <1>1, <1>2, <1>6, ServerFacts DEF GateInv
<1>10. ASSUME NEW i \in Jobs PROVE Stays(i) \/ (jobs[i].status = "ABSENT" /\ JobFiles(i)')
  <2>1. CASE i = j
    BY <1>2, <1>4, <1>5, <2>1, Facts DEF JobFiles, Backed
  <2>2. CASE i # j
    BY <1>1, <1>5, <1>7, <2>2 DEF Stays, JobSame, FilesSame, NotBegun
  <2> QED
    BY <2>1, <2>2
<1>11. ASSUME NEW i \in Jobs PROVE JobGate(i)' /\ JobUpload(i)'
  <2>1. CASE i = j
    BY <1>1, <1>2, <1>4, <1>5, <1>6, <1>7, <2>1 DEF JobGate, JobUpload, UploadWaits
  <2>2. CASE i # j
    <3>1. request[i] # "uploading"
      BY <1>1, ServerFacts, Facts DEF JobGate
    <3>2. JobGate(i)'
      BY <1>1, <1>5, <1>6, <1>7, <2>2, <3>1, ServerFacts DEF JobGate
    <3>3. \A k \in Jobs : request[k] \in {"compensating", "compensated"}
            => request'[k] \in {"compensating", "compensated"} /\ jobs'[k].target = jobs[k].target
      BY <1>1, <1>5, <1>6
    <3>4. JobUpload(i)'
      BY <1>1, <1>5, <1>6, <2>2, <3>3, ServerFacts, KeepUpload DEF NotBegun
    <3> QED
      BY <3>2, <3>4
  <2> QED
    BY <2>1, <2>2
<1>12. ASSUME NEW r \in Runs
       PROVE  /\ Claimed(r) /\ gate'.active = r[1] => gate'.run = r
              /\ Working(r) => StillHeard(r)
  <2>1. Working(r) => r[1] # j
    BY <1>2, NoRunsYet DEF Claimed
  <2> QED
    BY <1>1, <1>6, <2>1, ServerFacts, Facts DEF OneRun, RunInv, StillHeard
<1> QED
  BY <1>1, <1>8, <1>9, <1>10, <1>11, <1>12, ServerStepInv

\* The transaction fails the stale job and commits the new one.
LEMMA AcceptInv == ASSUME IInv, NEW j \in Jobs, Accept(j) PROVE IInv'
<1>1. /\ request[j] = "uploading" /\ locker' = NoJob /\ gate' = [active |-> j, run |-> NoRun, expired |-> FALSE]
      /\ assets \subseteq assets' /\ private' = private /\ staged' = staged /\ public' = public
      /\ lambda' = lambda /\ calls' = calls /\ UNCHANGED cloud
  BY DEF Accept, Reserve, SaveAssets, buckets, cloud
<1>2. /\ jobs[j].status = "ABSENT" /\ gate.active # j
      /\ gate.active = NoJob \/ gate.expired
      /\ jobs[j].gif # <<>> /\ jobs[j].stage = NoStage /\ private[j].target \in File
      /\ \A i \in Jobs \ {j} : request[i] # "uploading"
      /\ \A r \in Runs : Working(r) => request[r[1]] = "compensated"
  BY <1>1, WhileUploading
<1>3. ASSUME NEW i \in Jobs
      PROVE  /\ jobs'[i] \in Job /\ JobSame(i)
             /\ jobs'[i].status = IF i = j THEN "PROCESSING"
                                  ELSE IF i = gate.active /\ jobs[i].status = "PROCESSING"
                                       THEN "FAILED" ELSE jobs[i].status
  <2>1. PICK job : job = jobs[i]
    OBVIOUS
  <2>2. job \in Job
    BY <2>1, ServerFacts
  <2>3. jobs'[i] = IF i = j THEN [job EXCEPT !.status = "PROCESSING"]
                   ELSE IF i = gate.active /\ job.status = "PROCESSING"
                        THEN [job EXCEPT !.status = "FAILED"] ELSE job
    BY <2>1 DEF Accept, Failed
  <2>4. PICK new : new = jobs'[i]
    OBVIOUS
  <2>5. /\ new \in Job /\ new.stage = job.stage /\ new.durations = job.durations
        /\ new.spec = job.spec /\ new.target = job.target /\ new.gif = job.gif
        /\ new.status = IF i = j THEN "PROCESSING"
                        ELSE IF i = gate.active /\ job.status = "PROCESSING"
                             THEN "FAILED" ELSE job.status
    BY <2>2, <2>3, <2>4 DEF Job
  <2> QED
    BY <2>1, <2>4, <2>5 DEF JobSame
<1>4. /\ request' \in [Jobs -> {"new", "uploading", "triggering", "compensating", "compensated", "done"}]
      /\ request'[j] = "triggering" /\ \A i \in Jobs \ {j} : request'[i] = request[i]
  BY ServerFacts DEF Accept
<1>5. Types'
  <2>1. jobs' \in [Jobs -> Job]
    <3>1. jobs' = [i \in Jobs |-> jobs'[i]]
      BY DEF Accept
    <3> QED
      BY <1>3, <3>1
  <2>2. gate' \in [active : Jobs \cup {NoJob}, run : Runs \cup {NoRun}, expired : BOOLEAN]
    BY <1>1
  <2> QED
    BY <1>1, <1>4, <2>1, <2>2 DEF IInv, Types
<1>6. GateInv'
  BY <1>1, <1>4, Facts DEF GateInv
<1>7. \A i \in Jobs : FilesSame(i)
  BY <1>1 DEF FilesSame
<1>8. ASSUME NEW i \in Jobs PROVE Stays(i) \/ (jobs[i].status = "ABSENT" /\ JobFiles(i)')
  <2>1. CASE i = j
    BY <1>2, <1>3, <2>1, Facts DEF JobFiles, Backed, JobSame
  <2>2. CASE i # j
    BY <1>3, <1>7, <2>2 DEF Stays, NotBegun
  <2> QED
    BY <2>1, <2>2
<1>9. \A k \in Jobs : request[k] \in {"compensating", "compensated"}
        => request'[k] \in {"compensating", "compensated"} /\ jobs'[k].target = jobs[k].target
  BY <1>1, <1>3, <1>4 DEF JobSame
<1>10. ASSUME NEW i \in Jobs PROVE JobGate(i)'
  <2>1. CASE i = j
    BY <1>1, <1>2, <1>3, <1>4, <2>1 DEF JobGate, JobSame
  <2>2. CASE i # j
    <3>1. jobs'[i].status # "PROCESSING"
      BY <1>3, <2>2, ServerFacts DEF JobGate
    <3>2. /\ jobs'[i].status = "ABSENT" <=> jobs[i].status = "ABSENT"
          /\ gate'.active # i /\ request'[i] = request[i] /\ request[i] # "uploading"
          /\ jobs'[i].gif = jobs[i].gif /\ jobs'[i].stage = jobs[i].stage /\ private' = private
      BY <1>1, <1>2, <1>3, <1>4, <2>2 DEF JobSame
    <3> QED
      BY <3>1, <3>2, ServerFacts DEF JobGate
  <2> QED
    BY <2>1, <2>2
<1>11. ASSUME NEW i \in Jobs PROVE JobUpload(i)'
  <2>1. CASE i = j
    <3>1. PICK u : u = jobs[j].target
      OBVIOUS
    <3>2. u \in Uploads => staged[u] # NoFile \/ Compensated(u)
      BY <1>1, <3>1, ServerFacts DEF JobUpload
    <3>3. Compensated(u) => Compensated(u)'
      BY <1>9 DEF Compensated
    <3>4. jobs'[j].target = u
      BY <1>3, <3>1 DEF JobSame
    <3>5. Compensated(jobs[j].target)' <=> Compensated(u)'
      BY <3>4 DEF Compensated
    <3> QED
      BY <1>1, <1>4, <2>1, <3>2, <3>3, <3>4, <3>5 DEF JobUpload, UploadWaits
  <2>2. CASE i # j
    BY <1>1, <1>3, <1>4, <1>9, <2>2, ServerFacts, KeepUpload DEF NotBegun, JobSame
  <2> QED
    BY <2>1, <2>2
<1>12. ASSUME NEW r \in Runs
       PROVE  /\ Claimed(r) /\ gate'.active = r[1] => gate'.run = r
              /\ Working(r) => StillHeard(r)
  <2>1. Claimed(r) => r[1] # j
    BY <1>2, NoRunsYet
  <2>2. Working(r) => request[r[1]] = "compensated" /\ r[1] # j
    BY <1>2, <2>1 DEF Claimed
  <2> QED
    BY <1>1, <1>4, <2>1, <2>2, Facts DEF StillHeard
<1> QED
  BY <1>1, <1>5, <1>6, <1>8, <1>10, <1>11, <1>12, ServerStepInv

\* A step that changes neither a job nor a file, and forgets no compensation.
LEMMA UploadStays ==
  ASSUME IInv, NEW i \in Jobs, jobs'[i].target = jobs[i].target, NotBegun(i), staged' = staged,
         lambda' = lambda, request'[i] = "uploading" => request[i] = "uploading",
         \A k \in Jobs : request[k] \in {"compensating", "compensated"}
           => request'[k] \in {"compensating", "compensated"} /\ jobs'[k].target = jobs[k].target
  PROVE  JobUpload(i)'
BY ServerFacts, KeepUpload

\* trigger() is over, or has raised.
LEMMA TriggeredInv == ASSUME IInv, NEW j \in Jobs, Triggered(j) PROVE IInv'
<1>1. /\ request[j] = "triggering" /\ jobs' = jobs /\ gate' = gate /\ assets' = assets
      /\ private' = private /\ staged' = staged /\ public' = public
      /\ locker' = locker /\ lambda' = lambda /\ calls' = calls /\ UNCHANGED cloud
  BY DEF Triggered, server, buckets, cloud
<1>2. PICK outcome \in {"done", "compensating"} : request' = [request EXCEPT ![j] = outcome]
  BY DEF Triggered
<1>3. /\ request' \in [Jobs -> {"new", "uploading", "triggering", "compensating", "compensated", "done"}]
      /\ request'[j] \in {"done", "compensating"} /\ \A i \in Jobs \ {j} : request'[i] = request[i]
  BY <1>2, ServerFacts
<1>4. Types'
  BY <1>1, <1>3 DEF IInv, Types
<1>5. GateInv'
  BY <1>1, <1>3, ServerFacts DEF GateInv
<1>6. \A i \in Jobs : Stays(i)
  BY <1>1 DEF Stays, JobSame, FilesSame, NotBegun
<1>7. ASSUME NEW i \in Jobs PROVE JobGate(i)' /\ JobUpload(i)'
  <2>1. JobGate(i)'
    BY <1>1, <1>3, ServerFacts DEF JobGate
  <2>2. JobUpload(i)'
    BY <1>1, <1>3, <1>6, UploadStays DEF Stays
  <2> QED
    BY <2>1, <2>2
<1>8. ASSUME NEW r \in Runs
      PROVE  /\ Claimed(r) /\ gate'.active = r[1] => gate'.run = r
             /\ Working(r) => StillHeard(r)
  BY <1>1, <1>3, ServerFacts, Facts DEF OneRun, RunInv, StillHeard
<1> QED
  BY <1>1, <1>4, <1>5, <1>6, <1>7, <1>8, ServerStepInv

\* The request fails its job: a run that had claimed the gate is not heard
\* any more.
LEMMA CompensateInv == ASSUME IInv, NEW j \in Jobs, Compensate(j) PROVE IInv'
<1>1. /\ request[j] = "compensating" /\ locker = NoJob /\ assets' = assets
      /\ private' = private /\ staged' = staged /\ public' = public
      /\ locker' = locker /\ lambda' = lambda /\ calls' = calls /\ UNCHANGED cloud
      /\ gate' = IF gate.active = j THEN FreeGate ELSE gate
  BY DEF Compensate, Release, buckets, cloud
<1>2. PICK job : job = Failed(jobs[j])
  OBVIOUS
<1>3. PICK old : old = jobs[j]
  OBVIOUS
<1>4. /\ job \in Job /\ job.status = "FAILED" /\ job.stage = old.stage
      /\ job.durations = old.durations /\ job.spec = old.spec
      /\ job.target = old.target /\ job.gif = old.gif
  <2>1. old \in Job
    BY <1>3, ServerFacts
  <2> QED
    BY <1>2, <1>3, <2>1 DEF Job, Failed
<1>5. /\ jobs' \in [Jobs -> Job] /\ jobs'[j] = job /\ \A i \in Jobs \ {j} : jobs'[i] = jobs[i]
  BY <1>2, <1>4, ServerFacts DEF Compensate, Update
<1>6. /\ request' \in [Jobs -> {"new", "uploading", "triggering", "compensating", "compensated", "done"}]
      /\ request'[j] = "compensated" /\ \A i \in Jobs \ {j} : request'[i] = request[i]
  BY ServerFacts DEF Compensate
<1>7. FreeGate \in [active : Jobs \cup {NoJob}, run : Runs \cup {NoRun}, expired : BOOLEAN]
  BY DEF FreeGate
<1>8. Types'
  BY <1>1, <1>5, <1>6, <1>7 DEF IInv, Types
<1>9. GateInv'
  <2>1. CASE gate.active = j
    BY <1>1, <2>1 DEF GateInv, FreeGate
  <2>2. CASE gate.active # j
    BY <1>1, <1>6, <2>2, ServerFacts DEF GateInv
  <2> QED
    BY <2>1, <2>2
<1>10. ASSUME NEW i \in Jobs PROVE Stays(i)
  BY <1>1, <1>3, <1>4, <1>5 DEF Stays, JobSame, FilesSame, NotBegun
<1>11. ASSUME NEW i \in Jobs PROVE JobGate(i)' /\ JobUpload(i)'
  <2>1. JobGate(i)'
    <3>1. CASE i = j
      <4>1. gate'.active # j /\ jobs[j].status # "ABSENT" /\ jobs[j].gif # <<>>
        BY <1>1, ServerFacts, Facts DEF FreeGate, JobGate
      <4> QED
        BY <1>3, <1>4, <1>5, <1>6, <3>1, <4>1 DEF JobGate
    <3>2. CASE i # j
      <4>1. gate'.active = i <=> gate.active = i
        BY <1>1, <3>2, Facts DEF FreeGate
      <4>2. gate.active = i => gate' = gate
        BY <1>1, <3>2
      <4> QED
        BY <1>1, <1>5, <1>6, <3>2, <4>1, <4>2, ServerFacts DEF JobGate
    <3> QED
      BY <3>1, <3>2
  <2>2. JobUpload(i)'
    <3>1. \A k \in Jobs : request[k] \in {"compensating", "compensated"}
            => request'[k] \in {"compensating", "compensated"} /\ jobs'[k].target = jobs[k].target
      BY <1>3, <1>4, <1>5, <1>6
    <3> QED
      BY <1>1, <1>6, <1>10, <3>1, UploadStays DEF Stays, JobSame
  <2> QED
    BY <2>1, <2>2
<1>12. ASSUME NEW r \in Runs
       PROVE  /\ Claimed(r) /\ gate'.active = r[1] => gate'.run = r
              /\ Working(r) => StillHeard(r)
  <2>1. CASE r[1] = j
    BY <1>1, <1>6, <2>1, Facts DEF StillHeard, FreeGate
  <2>2. CASE r[1] # j
    <3>1. gate'.active = r[1] <=> gate.active = r[1]
      BY <1>1, <2>2, Facts DEF FreeGate
    <3>2. gate.active = r[1] => gate' = gate
      BY <1>1, <2>2
    <3> QED
      BY <1>6, <2>2, <3>1, <3>2, ServerFacts, Facts DEF OneRun, RunInv, StillHeard
  <2> QED
    BY <2>1, <2>2
<1> QED
  BY <1>1, <1>8, <1>9, <1>10, <1>11, <1>12, ServerStepInv

\* A request that fails before its transaction leaves no job.
LEMMA AbandonInv == ASSUME IInv, NEW j \in Jobs, Abandon(j) PROVE IInv'
<1>1. /\ request[j] = "uploading" /\ locker' = NoJob /\ gate' = gate /\ assets' = assets
      /\ private' = private /\ staged' = staged /\ public' = public
      /\ lambda' = lambda /\ calls' = calls /\ UNCHANGED cloud
  BY DEF Abandon, buckets, cloud
<1>2. /\ jobs[j].status = "ABSENT" /\ gate.active # j /\ private[j].target \in File
      /\ \A i \in Jobs \ {j} : request[i] # "uploading"
      /\ \A r \in Runs : Working(r) => request[r[1]] = "compensated"
  BY <1>1, WhileUploading
<1>3. NewJob \in Job /\ NewJob.status = "ABSENT" /\ NewJob.stage = NoStage
  <2>1. <<>> \in Seq(Int) /\ <<>> \in Seq(Nat) /\ NoStage \in NoStage..Building /\ NoSpec \in Nat
    BY Facts DEF NoSpec
  <2> QED
    BY <2>1 DEF NewJob, Job
<1>4. /\ jobs' \in [Jobs -> Job] /\ jobs'[j] = NewJob /\ \A i \in Jobs \ {j} : jobs'[i] = jobs[i]
  BY <1>3, ServerFacts DEF Abandon
<1>5. /\ request' \in [Jobs -> {"new", "uploading", "triggering", "compensating", "compensated", "done"}]
      /\ request'[j] = "done" /\ \A i \in Jobs \ {j} : request'[i] = request[i]
  BY ServerFacts DEF Abandon
<1>6. Types'
  BY <1>1, <1>4, <1>5 DEF IInv, Types
<1>7. GateInv'
  BY <1>1, <1>5, ServerFacts DEF GateInv
<1>8. ASSUME NEW i \in Jobs PROVE Stays(i) \/ (jobs[i].status = "ABSENT" /\ JobFiles(i)')
  <2>1. CASE i = j
    BY <1>2, <1>3, <1>4, <2>1, Facts DEF JobFiles, Backed
  <2>2. CASE i # j
    BY <1>1, <1>4, <2>2 DEF Stays, JobSame, FilesSame, NotBegun
  <2> QED
    BY <2>1, <2>2
<1>9. ASSUME NEW i \in Jobs PROVE JobGate(i)' /\ JobUpload(i)'
  <2>1. CASE i = j
    BY <1>1, <1>2, <1>3, <1>4, <1>5, <2>1 DEF JobGate, JobUpload, UploadWaits
  <2>2. CASE i # j
    <3>1. JobGate(i)'
      BY <1>1, <1>2, <1>4, <1>5, <2>2, ServerFacts DEF JobGate
    <3>2. \A k \in Jobs : request[k] \in {"compensating", "compensated"}
            => request'[k] \in {"compensating", "compensated"} /\ jobs'[k].target = jobs[k].target
      BY <1>1, <1>4, <1>5
    <3>3. JobUpload(i)'
      BY <1>1, <1>4, <1>5, <2>2, <3>2, UploadStays DEF NotBegun
    <3> QED
      BY <3>1, <3>3
  <2> QED
    BY <2>1, <2>2
<1>10. ASSUME NEW r \in Runs
       PROVE  /\ Claimed(r) /\ gate'.active = r[1] => gate'.run = r
              /\ Working(r) => StillHeard(r)
  <2>1. Working(r) => request[r[1]] = "compensated" /\ r[1] # j
    BY <1>2, NoRunsYet DEF Claimed
  <2> QED
    BY <1>1, <1>5, <2>1, ServerFacts, Facts DEF OneRun, StillHeard
<1> QED
  BY <1>1, <1>6, <1>7, <1>8, <1>9, <1>10, ServerStepInv

\* A lease runs out.
LEMMA LeaseRunsOutInv == ASSUME IInv, LeaseRunsOut PROVE IInv'
<1>1. /\ gate.active # NoJob /\ ~gate.expired
      /\ gate.run # NoRun => ~Alive(gate.run)
      /\ jobs' = jobs /\ assets' = assets /\ request' = request /\ locker' = locker
      /\ private' = private /\ staged' = staged /\ public' = public
      /\ lambda' = lambda /\ calls' = calls /\ UNCHANGED cloud
      /\ gate' = [gate EXCEPT !.expired = TRUE]
  BY DEF LeaseRunsOut, buckets, cloud
<1>2. /\ gate' \in [active : Jobs \cup {NoJob}, run : Runs \cup {NoRun}, expired : BOOLEAN]
      /\ gate'.active = gate.active /\ gate'.run = gate.run /\ gate'.expired
  BY <1>1, ServerFacts
<1>3. gate.run # NoRun => lambda[gate.run].at = "ended"
  BY <1>1, ServerFacts DEF GateInv, Alive
<1>4. Types'
  BY <1>1, <1>2 DEF IInv, Types
<1>5. GateInv'
  BY <1>1, <1>2, <1>3, ServerFacts DEF GateInv
<1>6. \A i \in Jobs : Stays(i)
  BY <1>1 DEF Stays, JobSame, FilesSame, NotBegun
<1>7. ASSUME NEW i \in Jobs PROVE JobGate(i)' /\ JobUpload(i)'
  <2>1. JobGate(i)'
    BY <1>1, <1>2, ServerFacts DEF JobGate
  <2>2. JobUpload(i)'
    BY <1>1, <1>6, UploadStays DEF Stays
  <2> QED
    BY <2>1, <2>2
<1>8. ASSUME NEW r \in Runs
      PROVE  /\ Claimed(r) /\ gate'.active = r[1] => gate'.run = r
             /\ Working(r) => StillHeard(r)
  <2>1. Working(r) => ~(gate.run = r)
    BY <1>3, Facts DEF Working
  <2> QED
    BY <1>1, <1>2, <2>1, ServerFacts, Facts DEF OneRun, RunInv, StillHeard
<1> QED
  BY <1>1, <1>4, <1>5, <1>6, <1>7, <1>8, ServerStepInv

\* A status stream settles a job whose lease is over.
LEMMA ReconcileInv == ASSUME IInv, Reconcile PROVE IInv'
<1> DEFINE j == gate.active
<1>1. /\ gate.expired /\ locker = NoJob /\ gate' = FreeGate
      /\ assets' = assets /\ request' = request /\ locker' = locker
      /\ private' = private /\ staged' = staged /\ public' = public
      /\ lambda' = lambda /\ calls' = calls /\ UNCHANGED cloud
      /\ FreeGate.active = NoJob /\ FreeGate.run = NoRun /\ ~FreeGate.expired
  BY DEF Reconcile, buckets, cloud, FreeGate
<1>2. j \in Jobs
  BY <1>1, ServerFacts DEF GateInv
<1>3. ASSUME NEW i \in Jobs
      PROVE  /\ jobs'[i] \in Job /\ JobSame(i)
             /\ jobs'[i].status = IF i = j /\ jobs[i].status = "PROCESSING" THEN "FAILED" ELSE jobs[i].status
  <2>1. PICK job : job = jobs[i]
    OBVIOUS
  <2>2. job \in Job
    BY <2>1, ServerFacts
  <2>3. jobs'[i] = IF i = j /\ job.status = "PROCESSING" THEN [job EXCEPT !.status = "FAILED"] ELSE job
    BY <1>2, <2>1, ServerFacts DEF Reconcile, Update, Failed
  <2>4. PICK new : new = jobs'[i]
    OBVIOUS
  <2>5. /\ new \in Job /\ new.stage = job.stage /\ new.durations = job.durations
        /\ new.spec = job.spec /\ new.target = job.target /\ new.gif = job.gif
        /\ new.status = IF i = j /\ job.status = "PROCESSING" THEN "FAILED" ELSE job.status
    BY <2>2, <2>3, <2>4 DEF Job
  <2> QED
    BY <2>1, <2>4, <2>5 DEF JobSame
<1>4. Types'
  <2>1. jobs' \in [Jobs -> Job]
    <3>1. jobs' = [i \in Jobs |-> jobs'[i]]
      BY <1>2, ServerFacts DEF Reconcile, Update
    <3> QED
      BY <1>3, <3>1
  <2>2. FreeGate \in [active : Jobs \cup {NoJob}, run : Runs \cup {NoRun}, expired : BOOLEAN]
    BY DEF FreeGate
  <2> QED
    BY <1>1, <2>1, <2>2 DEF IInv, Types
<1>5. GateInv'
  BY <1>1 DEF GateInv
<1>6. ASSUME NEW i \in Jobs PROVE Stays(i)
  BY <1>1, <1>3 DEF Stays, FilesSame, NotBegun
<1>7. ASSUME NEW i \in Jobs PROVE JobGate(i)' /\ JobUpload(i)'
  <2>1. JobGate(i)'
    <3>1. jobs'[i].status # "PROCESSING"
      BY <1>3, ServerFacts DEF JobGate
    <3>2. /\ jobs'[i].status = "ABSENT" <=> jobs[i].status = "ABSENT"
          /\ jobs'[i].gif = jobs[i].gif /\ jobs'[i].stage = jobs[i].stage
      BY <1>3 DEF JobSame
    <3> QED
      BY <1>1, <3>1, <3>2, ServerFacts, Facts DEF JobGate
  <2>2. JobUpload(i)'
    <3>1. \A k \in Jobs : jobs'[k].target = jobs[k].target
      BY <1>3 DEF JobSame
    <3> QED
      BY <1>1, <1>6, <3>1, UploadStays DEF Stays
  <2> QED
    BY <2>1, <2>2
<1>8. ASSUME NEW r \in Runs
      PROVE  /\ Claimed(r) /\ gate'.active = r[1] => gate'.run = r
             /\ Working(r) => StillHeard(r)
  BY <1>1, ServerFacts, Facts DEF RunInv, StillHeard
<1> QED
  BY <1>1, <1>4, <1>5, <1>6, <1>7, <1>8, ServerStepInv

-----------------------------------------------------------------------------
(* The theorems                                                            *)

LEMMA InitInv == Init => IInv
<1> SUFFICES ASSUME Init PROVE IInv
  OBVIOUS
<1> USE DEF Init
<1>1. NewJob \in Job /\ NewJob.status = "ABSENT" /\ NewJob.stage = NoStage
  <2>1. <<>> \in Seq(Int) /\ <<>> \in Seq(Nat) /\ NoStage \in NoStage..Building /\ NoSpec \in Nat
    BY Facts DEF NoSpec
  <2> QED
    BY <2>1 DEF NewJob, Job
<1>2. NoFiles \in Files /\ NoFiles.target \in File
  <2>1. /\ [i \in Positions |-> NoFile] \in [Positions -> Nat \cup {NoFile}]
        /\ [i \in Positions |-> NoFile] \in [Positions -> CompositedFile \cup {NoFile}]
        /\ NoFile \in File
    BY DEF File
  <2> QED
    BY <2>1 DEF NoFiles, Files
<1>3. /\ FreeGate \in [active : Jobs \cup {NoJob}, run : Runs \cup {NoRun}, expired : BOOLEAN]
      /\ FreeGate.active = NoJob /\ FreeGate.run = NoRun /\ ~FreeGate.expired
  BY DEF FreeGate
<1>4. Idle \in Run /\ Idle.at = "none" /\ Idle.stage = NoStage
  BY OverIs DEF Idle
<1>5. Types
  BY <1>1, <1>2, <1>3, <1>4 DEF Types, File
<1>6. GateInv
  BY <1>3 DEF GateInv
<1>7. \A r \in Runs : ~Claimed(r) /\ ~Working(r)
  BY <1>4 DEF Claimed, Working
<1>8. OneRun
  BY <1>7 DEF OneRun
<1>9. ASSUME NEW j \in Jobs PROVE JobInv(j)
  <2>1. JobGate(j)
    BY <1>1, <1>2, <1>3 DEF JobGate
  <2>2. JobFiles(j)
    BY <1>1, Facts DEF JobFiles, Backed
  <2>3. JobUpload(j)
    BY <1>1 DEF JobUpload, UploadWaits
  <2> QED
    BY <2>1, <2>2, <2>3 DEF JobInv
<1>10. ASSUME NEW r \in Runs PROVE RunInv(r)
  BY <1>4 DEF RunInv, Working
<1> QED
  BY <1>5, <1>6, <1>8, <1>9, <1>10 DEF IInv

LEMMA RequestStepInv == ASSUME IInv, NEW j \in Jobs, RequestStep(j) PROVE IInv'
BY EnterGateInv, AcceptInv, TriggeredInv, CompensateInv, AbandonInv DEF RequestStep

LEMMA LambdaStepInv == ASSUME IInv, NEW r \in Runs, LambdaStep(r) PROVE IInv'
<1>1. CASE \E i \in Frames(r) : CompositeFrame(r, i)
  BY <1>1, CompositeFrameInv
<1>2. CASE Invoke(r) \/ Deliver(r) \/ FetchTarget(r) \/ StoreTarget(r) \/ StoreFails(r) \/ Discard(r)
  BY <1>2, InvokeInv, DeliverInv, FetchTargetInv, StoreTargetInv, StoreFailsInv, DiscardInv
<1>3. CASE Extract(r) \/ Analyze(r) \/ Draft(r) \/ CompositeDone(r) \/ Build(r)
  BY <1>3, ExtractInv, AnalyzeInv, DraftInv, CompositeDoneInv, BuildInv
<1>4. CASE Raise(r) \/ SendFail(r) \/ TimesOut(r) \/ Dies(r)
  BY <1>4, RaiseInv, SendFailInv, TimesOutInv, DiesInv
<1> QED
  BY <1>1, <1>2, <1>3, <1>4 DEF LambdaStep

LEMMA HandleInv == ASSUME IInv, NEW c \in calls, Handle(c) PROVE IInv'
<1>1. CASE Conflict(c) \/ Rejected(c)
  BY <1>1, NotAcceptedInv DEF Conflict, Rejected
<1> QED
  BY <1>1, HandleStartInv, HandleCheckpointInv, HandleCompleteInv, HandleFailInv DEF Handle

LEMMA StutterInv == ASSUME IInv, UNCHANGED vars PROVE IInv'
<1>1. /\ jobs' = jobs /\ gate' = gate /\ assets' = assets /\ staged' = staged
      /\ private' = private /\ public' = public /\ request' = request /\ locker' = locker
      /\ lambda' = lambda /\ calls' = calls
  BY DEF vars, server, buckets, cloud
<1>2. Types'
  BY <1>1 DEF IInv, Types
<1>3. GateInv'
  BY <1>1, ServerFacts DEF GateInv
<1>4. \A i \in Jobs : Stays(i)
  BY <1>1 DEF Stays, JobSame, FilesSame, NotBegun
<1>5. ASSUME NEW i \in Jobs PROVE JobGate(i)' /\ JobUpload(i)'
  <2>1. JobGate(i)'
    BY <1>1, ServerFacts DEF JobGate
  <2>2. JobUpload(i)'
    BY <1>1, <1>4, UploadStays DEF Stays
  <2> QED
    BY <2>1, <2>2
<1>6. \A r \in Runs : /\ Claimed(r) /\ gate'.active = r[1] => gate'.run = r
                      /\ Working(r) => StillHeard(r)
  BY <1>1, ServerFacts DEF OneRun, RunInv, StillHeard
<1> QED
  BY <1>1, <1>2, <1>3, <1>4, <1>5, <1>6, ServerStepInv DEF cloud

LEMMA StepInv == ASSUME IInv, [Next]_vars PROVE IInv'
<1>1. CASE Next
  <2>1. CASE (\E j \in Jobs : RequestStep(j)) \/ (\E u \in Uploads : Stage(u))
    BY <2>1, RequestStepInv, StageInv
  <2>2. CASE \E r \in Runs : LambdaStep(r)
    BY <2>2, LambdaStepInv
  <2>3. CASE \E c \in calls : Handle(c)
    BY <2>3, HandleInv
  <2>4. CASE LeaseRunsOut \/ Reconcile
    BY <2>4, LeaseRunsOutInv, ReconcileInv
  <2> QED
    BY <1>1, <2>1, <2>2, <2>3, <2>4 DEF Next
<1>2. CASE UNCHANGED vars
  BY <1>2, StutterInv
<1> QED
  BY <1>1, <1>2

\* The inductive invariant holds throughout: what a run, a callback on its way
\* and the server's record of a job say of the files is so, and one run of a
\* job at most has claimed the gate.
THEOREM PipelineInvariant == Spec => []IInv
<1>1. IInv /\ [Next]_vars => IInv'
  BY StepInv
<1> QED
  BY <1>1, InitInv, PTL DEF Spec

\* The files a run from the recorded stage on reads are there, with the
\* durations and the plan that go with them; and the upload waits for its run.
LEMMA BackedFilesAreThere == IInv => RunFindsItsFiles
<1> SUFFICES ASSUME IInv, NEW j \in Jobs
             PROVE  LET job == jobs[j]  files == private[j]  n == Len(job.durations) IN
                      /\ UploadWaits(j)
                      /\ job.stage >= Extracting => \E p \in Pictures : files.target = Png(p)
                      /\ job.stage >= Analyzing => n > 0 /\ \A i \in 1..n : files.frame[i] # NoFile
                      /\ job.stage >= Drafting => job.spec \in 1..n
                      /\ job.stage >= Compositing => files.draft = DraftImage(files, job.spec)
                      /\ job.stage = Building => \A i \in 1..n : files.composited[i] # NoFile
  BY DEF RunFindsItsFiles
<1>1. PICK stage, du, sp, gif, files :
        /\ stage = jobs[j].stage /\ du = jobs[j].durations /\ sp = jobs[j].spec
        /\ gif = jobs[j].gif /\ files = private[j]
  OBVIOUS
<1>2. /\ Backed(j, stage, du, sp) /\ UploadWaits(j)
      /\ stage \in NoStage..Building /\ du \in Seq(Int) /\ gif \in Seq(Nat) /\ files \in Files
  BY <1>1, ServerFacts DEF JobFiles, JobUpload, Job
<1>3. stage >= Extracting => \E p \in Pictures : files.target = Png(p)
  <2>1. stage >= Extracting => files.target \in TargetFile
    BY <1>1, <1>2 DEF Backed
  <2> QED
    BY <2>1 DEF TargetFile, Png
<1>4. ASSUME stage >= Analyzing
      PROVE  /\ Len(du) > 0 /\ DOMAIN Indices(Len(gif), MAX_FRAMES) = 1..Len(du)
             /\ \A i \in 1..Len(du) : files.frame[i] \in Nat
  <2>1. /\ gif # <<>> /\ Readable(gif) /\ du = Durations(gif, MAX_FRAMES)
        /\ \A i \in DOMAIN Indices(Len(gif), MAX_FRAMES) : files.frame[i] = Indices(Len(gif), MAX_FRAMES)[i]
    BY <1>1, <1>2, <1>4 DEF Backed
  <2>2. /\ Indices(Len(gif), MAX_FRAMES) \in Seq(Nat)
        /\ Len(Indices(Len(gif), MAX_FRAMES)) \in 1..MAX_FRAMES
        /\ DOMAIN Indices(Len(gif), MAX_FRAMES) = 1..Len(Indices(Len(gif), MAX_FRAMES))
        /\ Len(du) = Len(Indices(Len(gif), MAX_FRAMES))
    BY <1>2, <2>1, TakenFrames
  <2>3. \A i \in DOMAIN Indices(Len(gif), MAX_FRAMES) : Indices(Len(gif), MAX_FRAMES)[i] \in Nat
    BY <2>2
  <2>4. Len(du) > 0
    BY <2>2, Facts
  <2> QED
    BY <2>1, <2>2, <2>3, <2>4
<1>5. stage >= Drafting => sp \in 1..Len(du)
  BY <1>1, <1>2, <1>4, Facts DEF Backed
<1>6. stage >= Compositing => files.draft = DraftImage(files, sp)
  BY <1>1, <1>2 DEF Backed
<1>7. stage = Building => \A i \in 1..Len(du) : files.composited[i] # NoFile
  <2> SUFFICES ASSUME stage = Building, NEW i \in 1..Len(du)
               PROVE  files.composited[i] # NoFile
    OBVIOUS
  <2>1. /\ files.composited[i] = FrameImage(files, i) /\ files.frame[i] \in Nat
        /\ files.target \in TargetFile /\ sp \in 1..Len(du)
        /\ files.draft = DraftImage(files, sp)
    <3>1. stage >= Extracting /\ stage >= Analyzing /\ stage >= Drafting /\ stage >= Compositing
      BY Facts
    <3>2. i \in DOMAIN Indices(Len(gif), MAX_FRAMES) /\ files.frame[i] \in Nat /\ sp \in 1..Len(du)
      BY <1>4, <1>5, <3>1
    <3> QED
      BY <1>1, <1>2, <3>1, <3>2 DEF Backed
  <2>2. files.frame[sp] \in Nat
    BY <1>4, <2>1, Facts
  <2>3. files.draft \in DraftFile
    BY <2>1, <2>2 DEF DraftImage, DraftFile
  <2>4. FrameImage(files, i) \in CompositedFile
    BY <2>1, <2>3 DEF FrameImage, CompositedFile
  <2> QED
    BY <2>1, <2>4, Facts
<1> QED
  BY <1>1, <1>2, <1>3, <1>4, <1>5, <1>6, <1>7, Facts

\* Whenever a run stops, what is recorded of its job is backed by the files a
\* run from that stage on reads; before that, its target is where it was put.
THEOREM FilesTheorem == Spec => []RunFindsItsFiles
BY PipelineInvariant, BackedFilesAreThere, PTL

\* A completed job has a whole result where its assets say it is.
THEOREM ResultTheorem == Spec => []ResultIsWhole
<1>1. IInv => ResultIsWhole
  BY DEF IInv, JobInv, JobFiles, ResultIsWhole
<1> QED
  BY <1>1, PipelineInvariant, PTL

-----------------------------------------------------------------------------
(* What is recorded stays                                                  *)

\* No step but the handling of a checkpoint changes what is recorded of a job
\* at work, or advances a stage.
StaysPut(i) ==
  /\ jobs'[i].stage <= jobs[i].stage
  /\ jobs[i].status = "PROCESSING" =>
       /\ jobs'[i].stage = jobs[i].stage
       /\ jobs'[i].durations = jobs[i].durations /\ jobs'[i].spec = jobs[i].spec

LEMMA SamePut ==
  ASSUME IInv, NEW i \in Jobs, jobs'[i] = jobs[i]
  PROVE  StaysPut(i)
<1>1. jobs[i] \in Job
  BY ServerFacts
<1>2. jobs[i].stage \in Int
  BY <1>1, Facts DEF Job
<1> QED
  BY <1>2 DEF StaysPut

LEMMA FailedPut ==
  ASSUME IInv, NEW i \in Jobs, jobs'[i] = Failed(jobs[i])
  PROVE  StaysPut(i)
<1>1. PICK old : old = jobs[i]
  OBVIOUS
<1>2. old \in Job
  BY <1>1, ServerFacts
<1>3. PICK new : new = Failed(old)
  OBVIOUS
<1>4. new.stage = old.stage /\ new.durations = old.durations /\ new.spec = old.spec /\ old.stage \in Int
  BY <1>2, <1>3, Facts DEF Failed, Job
<1> QED
  BY <1>1, <1>3, <1>4 DEF StaysPut

LEMMA RequestPut ==
  ASSUME IInv, NEW j \in Jobs, RequestStep(j), NEW i \in Jobs
  PROVE  StaysPut(i)
<1>1. jobs \in [Jobs -> Job] /\ JobGate(j) /\ jobs[j] \in Job
  BY ServerFacts
<1>2. ASSUME NEW gif, NEW target, EnterGate(j, gif, target) PROVE StaysPut(i)
  <2>1. jobs[j].status = "ABSENT"
    BY <1>1, <1>2 DEF EnterGate, JobGate
  <2>2. i # j => jobs'[i] = jobs[i]
    BY <1>1, <1>2 DEF EnterGate
  <2>3. jobs'[j].stage = jobs[j].stage /\ jobs[j].stage \in Int
    <3>1. PICK old : old = jobs[j]
      OBVIOUS
    <3>2. jobs'[j] = [[old EXCEPT !.gif = gif] EXCEPT !.target = target]
      BY <1>1, <1>2, <3>1 DEF EnterGate
    <3>3. old \in Job /\ old.stage \in Int
      BY <1>1, <3>1, Facts DEF Job
    <3> QED
      BY <3>1, <3>2, <3>3 DEF Job
  <2> QED
    BY <2>1, <2>2, <2>3, SamePut DEF StaysPut
<1>3. CASE Accept(j)
  <2>1. CASE i = j
    <3>1. jobs[j].status = "ABSENT"
      BY <1>1, <1>3 DEF Accept, JobGate
    <3>2. PICK old : old = jobs[j]
      OBVIOUS
    <3>3. jobs'[j] = [old EXCEPT !.status = "PROCESSING"]
      BY <1>1, <1>3, <3>2 DEF Accept
    <3>4. old \in Job /\ old.stage \in Int
      BY <1>1, <3>2, Facts DEF Job
    <3>5. jobs'[j].stage = jobs[j].stage
      BY <3>2, <3>3, <3>4 DEF Job
    <3> QED
      BY <2>1, <3>1, <3>2, <3>4, <3>5 DEF StaysPut
  <2>2. CASE i # j
    <3>1. jobs'[i] = Failed(jobs[i]) \/ jobs'[i] = jobs[i]
      BY <1>3, <2>2 DEF Accept
    <3> QED
      BY <3>1, FailedPut, SamePut
  <2> QED
    BY <2>1, <2>2
<1>4. CASE Triggered(j)
  BY <1>4, SamePut DEF Triggered, server
<1>5. CASE Compensate(j)
  <2>1. jobs'[i] = Failed(jobs[i]) \/ jobs'[i] = jobs[i]
    BY <1>1, <1>5 DEF Compensate, Update
  <2> QED
    BY <2>1, FailedPut, SamePut
<1>6. CASE Abandon(j)
  <2>1. jobs[j].status = "ABSENT"
    BY <1>1, <1>6 DEF Abandon, JobGate
  <2>2. i # j => jobs'[i] = jobs[i]
    BY <1>1, <1>6 DEF Abandon
  <2>3. jobs'[j] = NewJob /\ NewJob.stage = 0 /\ jobs[j].stage \in Nat
    BY <1>1, <1>6, Facts DEF Abandon, NewJob, Job
  <2> QED
    BY <2>1, <2>2, <2>3, SamePut DEF StaysPut
<1> QED
  BY <1>2, <1>3, <1>4, <1>5, <1>6 DEF RequestStep

LEMMA CallPut ==
  ASSUME IInv, NEW c \in calls, Handle(c), ~HandleCheckpoint(c), NEW i \in Jobs
  PROVE  StaysPut(i)
<1>1. jobs \in [Jobs -> Job] /\ c.run[1] \in Jobs
  BY ServerFacts, CallTypes, Facts
<1>2. CASE HandleStart(c) \/ Conflict(c) \/ Rejected(c)
  BY <1>2, SamePut DEF HandleStart, Conflict, Rejected, server
<1>3. CASE HandleComplete(c)
  <2>1. CASE jobs' = jobs
    BY <2>1, SamePut
  <2>2. CASE jobs' = [jobs EXCEPT ![c.run[1]] = [jobs[c.run[1]] EXCEPT !.status = "COMPLETED"]]
    <3>1. i # c.run[1] => jobs'[i] = jobs[i]
      BY <1>1, <2>2
    <3>2. PICK old : old = jobs[c.run[1]]
      OBVIOUS
    <3>3. old \in Job /\ old.stage \in Int
      BY <1>1, <3>2, Facts DEF Job
    <3>4. PICK new : new = [old EXCEPT !.status = "COMPLETED"]
      OBVIOUS
    <3>5. new.stage = old.stage /\ new.durations = old.durations /\ new.spec = old.spec
      BY <3>3, <3>4 DEF Job
    <3>6. jobs'[c.run[1]] = new
      BY <1>1, <2>2, <3>2, <3>4
    <3>7. i = c.run[1] => StaysPut(i)
      BY <3>2, <3>3, <3>5, <3>6 DEF StaysPut
    <3> QED
      BY <3>1, <3>7, SamePut
  <2> QED
    BY <1>3, <2>1, <2>2 DEF HandleComplete, Update, server
<1>4. CASE HandleFail(c)
  <2>1. jobs'[i] = Failed(jobs[i]) \/ jobs'[i] = jobs[i]
    BY <1>1, <1>4 DEF HandleFail, Update
  <2> QED
    BY <2>1, FailedPut, SamePut
<1> QED
  BY <1>2, <1>3, <1>4 DEF Handle

LEMMA JobsStayPut ==
  ASSUME IInv, [Next]_vars, \A c \in calls : ~HandleCheckpoint(c), NEW i \in Jobs
  PROVE  StaysPut(i)
<1>1. CASE \E r \in Runs : LambdaStep(r)
  <2>1. jobs' = jobs
    BY <1>1 DEF LambdaStep, Invoke, Deliver, FetchTarget, StoreTarget, StoreFails, Discard, Extract,
                Analyze, Draft, CompositeFrame, CompositeDone, Build, Raise, SendFail, TimesOut, Dies, server
  <2> QED
    BY <2>1, SamePut
<1>2. CASE (\E u \in Uploads : Stage(u)) \/ LeaseRunsOut \/ UNCHANGED vars
  BY <1>2, SamePut DEF Stage, LeaseRunsOut, vars, server
<1>3. CASE Reconcile
  <2>1. gate.active \in Jobs /\ jobs \in [Jobs -> Job]
    <3>1. /\ gate \in [active : Jobs \cup {NoJob}, run : Runs \cup {NoRun}, expired : BOOLEAN]
          /\ jobs \in [Jobs -> Job] /\ GateInv /\ gate.expired
      BY <1>3, ServerFacts DEF Reconcile
    <3> QED
      BY <3>1 DEF GateInv
  <2>2. jobs'[i] = Failed(jobs[i]) \/ jobs'[i] = jobs[i]
    BY <1>3, <2>1 DEF Reconcile, Update
  <2> QED
    BY <2>2, FailedPut, SamePut
<1> QED
  BY <1>1, <1>2, <1>3, RequestPut, CallPut DEF Next

\* A run sends a checkpoint of a stage further on than the one it works at.
LEMMA SendsAhead ==
  ASSUME IInv, NEW r \in Runs, LambdaStep(r), NEW d \in calls' \ calls, d.kind = "checkpoint"
  PROVE  /\ jobs' = jobs /\ d.run = r /\ r[1] \in Jobs
         /\ jobs[r[1]].stage < d.stage
<1>1. PICK y : y = lambda[r]
  OBVIOUS
<1>2. /\ y \in Run /\ y.stage \in Int /\ r[1] \in Jobs /\ jobs[r[1]].stage \in Int
      /\ y.at \in {"fetching", "storing", "discarding", "checkpoint", "working"} => jobs[r[1]].stage <= y.stage
      /\ y.at \in {"none", "queued", "start", "fetching", "storing", "discarding"} => y.stage = NoStage
  <2>1. y \in Run /\ jobs[r[1]] \in Job /\ RunInv(r) /\ r[1] \in Jobs
    BY <1>1, RunTypes
  <2> QED
    BY <1>1, <2>1, Facts DEF Run, Job, RunInv, Working
<1>3. ASSUME NEW stage, NEW run, run = y \/ (\E ds : run = [y EXCEPT !.durations = ds])
                                  \/ (\E sp : run = [y EXCEPT !.spec = sp]),
             Checkpoint(r, stage, run)
      PROVE  d.run = r /\ d.stage = stage
  <2>1. d = [run |-> r, kind |-> "checkpoint", stage |-> [run EXCEPT !.stage = stage].stage,
             durations |-> [run EXCEPT !.stage = stage].durations, spec |-> [run EXCEPT !.stage = stage].spec]
    BY <1>3 DEF Checkpoint, Call
  <2>2. [run EXCEPT !.stage = stage].stage = stage
    BY <1>2, <1>3 DEF Run
  <2> QED
    BY <2>1, <2>2
<1>4. ASSUME NEW kind \in {"start", "complete", "fail"}, NEW run, Call(r, kind, run) PROVE FALSE
  BY <1>4 DEF Call
<1>5. CASE StoreTarget(r) \/ Discard(r)
  <2>1. Checkpoint(r, Extracting, y)
    BY <1>1, <1>5 DEF StoreTarget, Discard
  <2>2. jobs' = jobs /\ y.at \in {"storing", "discarding"}
    BY <1>1, <1>5 DEF StoreTarget, Discard, server
  <2>3. d.run = r /\ d.stage = Extracting
    BY <1>3, <2>1
  <2> QED
    BY <1>2, <2>2, <2>3, Facts
<1>6. CASE Extract(r)
  <2>1. /\ Checkpoint(r, Analyzing, [y EXCEPT !.durations = Durations(jobs[r[1]].gif, MAX_FRAMES)])
        /\ jobs' = jobs /\ y.at = "working" /\ y.stage = Extracting
    BY <1>1, <1>6 DEF Extract, At, server
  <2>2. d.run = r /\ d.stage = Analyzing
    BY <1>3, <2>1
  <2> QED
    BY <1>2, <2>1, <2>2, Facts
<1>7. CASE Analyze(r)
  <2>1. PICK spec : Checkpoint(r, Drafting, [y EXCEPT !.spec = spec])
    BY <1>1, <1>7 DEF Analyze
  <2>2. jobs' = jobs /\ y.at = "working" /\ y.stage = Analyzing
    BY <1>1, <1>7 DEF Analyze, At, server
  <2>3. d.run = r /\ d.stage = Drafting
    BY <1>3, <2>1
  <2> QED
    BY <1>2, <2>2, <2>3, Facts
<1>8. CASE Draft(r)
  <2>1. Checkpoint(r, Compositing, y) /\ jobs' = jobs /\ y.at = "working" /\ y.stage = Drafting
    BY <1>1, <1>8 DEF Draft, At, server
  <2>2. d.run = r /\ d.stage = Compositing
    BY <1>3, <2>1
  <2> QED
    BY <1>2, <2>1, <2>2, Facts
<1>9. CASE CompositeDone(r)
  <2>1. Checkpoint(r, Building, y) /\ jobs' = jobs /\ y.at = "working" /\ y.stage = Compositing
    BY <1>1, <1>9 DEF CompositeDone, At, server
  <2>2. d.run = r /\ d.stage = Building
    BY <1>3, <2>1
  <2> QED
    BY <1>2, <2>1, <2>2, Facts
<1>10. CASE Deliver(r) \/ Build(r) \/ SendFail(r)
  BY <1>4, <1>10 DEF Deliver, Build, SendFail
<1>11. CASE \/ Invoke(r) \/ FetchTarget(r) \/ StoreFails(r) \/ (\E i \in Frames(r) : CompositeFrame(r, i))
            \/ Raise(r) \/ TimesOut(r) \/ Dies(r)
  BY <1>11 DEF Invoke, FetchTarget, StoreFails, CompositeFrame, Raise, TimesOut, Dies
<1> QED
  BY <1>5, <1>6, <1>7, <1>8, <1>9, <1>10, <1>11 DEF LambdaStep

\* A handled checkpoint was the only one of its job on its way.
LEMMA OnlyCheckpoint ==
  ASSUME IInv, NEW c \in calls, HandleCheckpoint(c), NEW d \in calls', d.kind = "checkpoint"
  PROVE  d \in calls /\ d.run[1] # c.run[1]
<1>1. d \in calls \ {c} /\ c.kind = "checkpoint"
  BY DEF HandleCheckpoint, Answer
<1>2. /\ c.run \in Runs /\ d.run \in Runs /\ Claimed(c.run) /\ Claimed(d.run)
  BY <1>1, CallTypes
<1>3. d.run # c.run
  BY <1>1, OtherCalls
<1> QED
  BY <1>1, <1>2, <1>3 DEF IInv, OneRun

\* What the handling of a checkpoint records.
LEMMA Records ==
  ASSUME IInv, NEW c \in calls, HandleCheckpoint(c), NEW i \in Jobs
  PROVE  \/ jobs'[i] = jobs[i]
         \/ /\ i = c.run[1] /\ jobs[i].status = "PROCESSING"
            /\ jobs'[i].stage = c.stage
            /\ jobs'[i].durations = IF c.stage = Analyzing THEN c.durations ELSE jobs[i].durations
            /\ jobs'[i].spec = IF c.stage = Drafting THEN c.spec ELSE jobs[i].spec
<1>1. jobs \in [Jobs -> Job] /\ c.run[1] \in Jobs
  BY ServerFacts, CallTypes, Facts
<1>2. CASE i = c.run[1] /\ jobs[i].status = "PROCESSING"
  <2>1. PICK old : old = jobs[i]
    OBVIOUS
  <2>2. jobs' = [jobs EXCEPT ![i] = Recorded(old, c)]
    BY <1>2, <2>1 DEF HandleCheckpoint, Update
  <2>3. old \in Job
    BY <1>1, <2>1
  <2>4. PICK new : new = Recorded(old, c)
    OBVIOUS
  <2>5. PICK du, sp : /\ du = IF c.stage = Analyzing THEN c.durations ELSE old.durations
                      /\ sp = IF c.stage = Drafting THEN c.spec ELSE old.spec
    OBVIOUS
  <2>6. new = [old EXCEPT !.stage = c.stage, !.durations = du, !.spec = sp]
    BY <2>3, <2>4, <2>5 DEF Recorded, Job
  <2>7. new.stage = c.stage /\ new.durations = du /\ new.spec = sp
    BY <2>3, <2>6 DEF Job
  <2>8. jobs'[i] = new
    BY <1>1, <2>2, <2>4
  <2> QED
    BY <1>2, <2>1, <2>5, <2>7, <2>8
<1>3. CASE i # c.run[1] \/ jobs[i].status # "PROCESSING"
  BY <1>1, <1>3 DEF HandleCheckpoint, Update
<1> QED
  BY <1>2, <1>3

LEMMA AheadKept ==
  ASSUME IInv, CallsAreAhead, [Next]_vars
  PROVE  CallsAreAhead'
<1> SUFFICES ASSUME NEW d \in calls', d.kind = "checkpoint"
             PROVE  (jobs[d.run[1]].stage)' < d.stage
  BY DEF CallsAreAhead
<1>1. CASE d \notin calls
  <2>1. PICK r \in Runs : LambdaStep(r)
    BY <1>1 DEF Next, vars, cloud, RequestStep, EnterGate, Accept, Triggered, Compensate, Abandon, Stage,
                Handle, HandleStart, HandleCheckpoint, HandleComplete, HandleFail, Conflict, Rejected,
                Answer, LeaseRunsOut, Reconcile
  <2> QED
    BY <1>1, <2>1, SendsAhead
<1>2. CASE d \in calls
  <2>1. d.run[1] \in Jobs /\ d.stage \in Int /\ jobs[d.run[1]].stage < d.stage
        /\ jobs[d.run[1]].stage \in Int
    <3>1. d \in Callback /\ d.run[1] \in Jobs
      BY <1>2, CallTypes, Facts
    <3>2. jobs[d.run[1]] \in Job
      BY <3>1, ServerFacts
    <3> QED
      BY <1>2, <3>1, <3>2, Facts DEF Callback, Job, CallsAreAhead
  <2>2. CASE \A c \in calls : ~HandleCheckpoint(c)
    <3>1. StaysPut(d.run[1])
      BY <2>1, <2>2, JobsStayPut
    <3>2. jobs'[d.run[1]].stage <= jobs[d.run[1]].stage
      BY <3>1 DEF StaysPut
    <3>3. PICK x, z : x = jobs[d.run[1]].stage /\ z = jobs'[d.run[1]].stage
      OBVIOUS
    <3>4. z \in Int
      <4>1. jobs'[d.run[1]] \in Job
        BY <2>1, StepInv DEF IInv, Types
      <4> QED
        BY <3>3, <4>1, Facts DEF Job
    <3> QED
      BY <2>1, <3>2, <3>3, <3>4
  <2>3. ASSUME NEW c \in calls, HandleCheckpoint(c)
        PROVE  (jobs[d.run[1]].stage)' < d.stage
    <3>1. d.run[1] # c.run[1]
      BY <2>3, OnlyCheckpoint
    <3>2. jobs'[d.run[1]] = jobs[d.run[1]]
      BY <2>1, <2>3, <3>1, Records
    <3> QED
      BY <2>1, <3>2
  <2> QED
    BY <2>2, <2>3
<1> QED
  BY <1>1, <1>2

\* Whatever is recorded goes on: a checkpoint is the next stage, with what is
\* recorded already.
LEMMA RecordStays ==
  ASSUME IInv, CallsAreAhead, [Next]_vars, NEW j \in Jobs, jobs[j].status = "PROCESSING"
  PROVE  /\ jobs'[j].stage >= jobs[j].stage
         /\ jobs[j].stage >= Analyzing => jobs'[j].durations = jobs[j].durations
         /\ jobs[j].stage >= Drafting => jobs'[j].spec = jobs[j].spec
<1>1. jobs[j] \in Job /\ jobs[j].stage \in Int
  BY ServerFacts, Facts DEF Job
<1>2. CASE \A c \in calls : ~HandleCheckpoint(c)
  <2>1. StaysPut(j)
    BY <1>2, JobsStayPut
  <2> QED
    BY <1>1, <2>1 DEF StaysPut
<1>3. ASSUME NEW c \in calls, HandleCheckpoint(c), jobs'[j] # jobs[j]
      PROVE  /\ jobs'[j].stage >= jobs[j].stage
             /\ jobs[j].stage >= Analyzing => jobs'[j].durations = jobs[j].durations
             /\ jobs[j].stage >= Drafting => jobs'[j].spec = jobs[j].spec
  <2>1. /\ j = c.run[1]
        /\ jobs'[j].stage = c.stage
        /\ jobs'[j].durations = IF c.stage = Analyzing THEN c.durations ELSE jobs[j].durations
        /\ jobs'[j].spec = IF c.stage = Drafting THEN c.spec ELSE jobs[j].spec
    BY <1>3, Records
  <2>2. c.stage \in Int /\ jobs[j].stage < c.stage
    <3>1. c \in Callback /\ c.kind = "checkpoint"
      BY <1>3, CallTypes DEF HandleCheckpoint
    <3> QED
      BY <2>1, <3>1, Facts DEF Callback, CallsAreAhead
  <2> QED
    BY <1>1, <2>1, <2>2, Facts
<1> QED
  BY <1>1, <1>2, <1>3

\* A completed job has no run that writes.
LEMMA ResultStays ==
  ASSUME IInv, [Next]_vars, NEW j \in Jobs, jobs[j].status = "COMPLETED"
  PROVE  public'[j] = public[j]
<1>1. CASE \E r \in Runs : Build(r)
  <2>1. PICK r \in Runs : Build(r)
    BY <1>1
  <2>2. r[1] # j
    BY <2>1, RunTypes DEF Build, At, RunInv, Working
  <2>3. public \in [Jobs -> ResultFile \cup {NoFile}]
    BY DEF IInv, Types
  <2> QED
    BY <2>1, <2>2, <2>3 DEF Build
<1>2. CASE ~\E r \in Runs : Build(r)
  BY <1>2 DEF Next, vars, buckets, RequestStep, EnterGate, Accept, Triggered, Compensate, Abandon, Stage,
              LambdaStep, Invoke, Deliver, FetchTarget, StoreTarget, StoreFails, Discard, Extract, Analyze,
              Draft, CompositeFrame, CompositeDone, Raise, SendFail, TimesOut, Dies,
              Handle, HandleStart, HandleCheckpoint, HandleComplete, HandleFail, Conflict, Rejected,
              Answer, LeaseRunsOut, Reconcile
<1> QED
  BY <1>1, <1>2

\* However late, repeated or lost its callbacks are, what the server has recorded
\* of a job at work only goes on: each checkpoint it takes is a later stage, and
\* leaves the durations and the plan (stage_extracting_frames to stage_building_gif,
\* which do not look at the stage they replace); and the file of a completed job
\* is not written again.
THEOREM RecordTheorem == Spec => NothingIsTakenBack
<1>1. Init => CallsAreAhead
  BY DEF Init, CallsAreAhead
<1>2. IInv /\ CallsAreAhead /\ [Next]_vars => CallsAreAhead'
  BY AheadKept
<1>3. IInv /\ CallsAreAhead /\ [Next]_vars =>
        [\A j \in Jobs :
           /\ jobs[j].status = "PROCESSING" =>
                /\ jobs'[j].stage >= jobs[j].stage
                /\ jobs[j].stage >= Analyzing => jobs'[j].durations = jobs[j].durations
                /\ jobs[j].stage >= Drafting => jobs'[j].spec = jobs[j].spec
           /\ jobs[j].status = "COMPLETED" => public'[j] = public[j]]_vars
  BY RecordStays, ResultStays
<1> QED
  BY <1>1, <1>2, <1>3, PipelineInvariant, PTL DEF Spec, NothingIsTakenBack

-----------------------------------------------------------------------------
(* The GIF processor                                                       *)

LEMMA SameArithmetic ==
  /\ \A x, n : G!Round(x, n) = Round(x, n)
  /\ \A d : G!Total(d) = Total(d) /\ G!GifDelays(d) = GifDelays(d)
  /\ \A d : G!Readable(d) <=> Readable(d)
  /\ \A d : G!Buildable(d) <=> Buildable(d)
  /\ \A x, m : G!Indices(x, m) = Indices(x, m) /\ G!Durations(x, m) = Durations(x, m)
  /\ G!LongestDelay = LongestDelay
<1>1. \A x, n : G!Round(x, n) = Round(x, n)
  BY DEF G!Round, Round
<1>2. \A d : G!Total(d) = Total(d) /\ G!Centiseconds(d) = Centiseconds(d) /\ G!Between(d) = Between(d)
  BY DEF G!Total, Total, G!Centiseconds, Centiseconds, G!Between, Between
<1>3. \A d : G!GifDelays(d) = GifDelays(d)
  BY DEF G!GifDelays, GifDelays, G!Centiseconds, Centiseconds, G!Between, Between, G!Round, Round,
         G!Total, Total
<1>4. \A d : G!Readable(d) <=> Readable(d)
  BY DEF G!Readable, Readable
<1>5. G!LongestDelay = LongestDelay
  BY SMT DEF G!LongestDelay, LongestDelay
<1>6. \A d : G!Buildable(d) <=> Buildable(d)
  BY <1>3, <1>5 DEF G!Buildable, Buildable
<1>7. \A x, m : G!Indices(x, m) = Indices(x, m)
  BY DEF G!Indices, Indices, G!Round, Round
<1>8. \A x, m : G!Durations(x, m) = Durations(x, m)
  BY DEF G!Durations, Durations, G!Centiseconds, Centiseconds, G!Between, Between, G!Round, Round,
         G!Total, Total
<1> QED
  BY <1>1, <1>2, <1>3, <1>4, <1>5, <1>6, <1>7, <1>8

\* What is taken of a GIF: a frame for each delay, in order, and delays that can
\* be built if they can be at all.
LEMMA TakenIsBuildable ==
  ASSUME NEW g \in Seq(Nat), Readable(g), g # <<>>, \A i \in DOMAIN g : g[i] <= LongestDelay,
         NEW m \in Nat \ {0}
  PROVE  LET f == Indices(Len(g), m)  d == Durations(g, m) IN
           /\ Len(f) = Len(d)
           /\ (\A i \in 1..Len(f) - 1 : f[i] < f[i + 1]) /\ f[1] = 0
           /\ Len(f) > 1 => f[Len(f)] = Len(g) - 1
           /\ Total(g) <= Len(f) * LongestDelay => Buildable(d)
<1>1. Len(g) \in Nat \ {0}
  OBVIOUS
<1>2. /\ Len(Indices(Len(g), m)) = IF Len(g) > m THEN m ELSE Len(g)
      /\ Len(Durations(g, m)) = IF Len(g) > m THEN m ELSE Len(g)
  BY <1>1, IndicesAre, DurationsKeepTime
<1>3. LET f == Indices(Len(g), m) IN
        /\ \A i \in 1..Len(f) - 1 : f[i] < f[i + 1]
        /\ f[1] = 0
        /\ Len(f) > 1 => f[Len(f)] = Len(g) - 1
  BY <1>1, IndicesSpread
<1>4. Total(g) <= Len(Indices(Len(g), m)) * LongestDelay => Buildable(Durations(g, m))
  BY <1>2, DurationsFit
<1> QED
  BY <1>2, <1>3, <1>4

\* What is built plays as long as the durations, to a hundredth of a second.
LEMMA BuiltPlays ==
  ASSUME NEW d \in Seq(Nat), Buildable(d)
  PROVE  /\ DOMAIN GifDelays(d) = DOMAIN d
         /\ \A i \in DOMAIN d : GifDelays(d)[i] > 0 /\ GifDelays(d)[i] % 10 = 0
         /\ Total(GifDelays(d)) = 10 * Round(Total(d), 10)
<1> DEFINE n == Len(d)
           b == [i \in 1..n + 1 |-> Round(Total(SubSeq(d, 1, i - 1)), 10)]
           e == Centiseconds(Between(b))
<1>1. n \in Nat /\ DOMAIN d = 1..n /\ d \in Seq(Int)
  OBVIOUS
<1>2. PICK p : Sums(p, d)
  BY <1>1, SumsExist
<1>3. \A i \in 1..n + 1 : b[i] = Round(p[i - 1], 10) /\ b[i] \in Int
  <2> SUFFICES ASSUME NEW i \in 1..n + 1
               PROVE  b[i] = Round(p[i - 1], 10) /\ b[i] \in Int
    OBVIOUS
  <2>1. i - 1 \in 0..n
    BY <1>1
  <2>2. Total(SubSeq(d, 1, i - 1)) = p[i - 1]
    BY <1>1, <1>2, <2>1, TotalOfPrefix
  <2>3. p[i - 1] \in Int
    BY <1>2, <2>1 DEF Sums, SumsUpto
  <2>4. b[i] = Round(p[i - 1], 10)
    BY <2>2
  <2>5. PICK x : x = p[i - 1]
    OBVIOUS
  <2>6. x \in Int /\ 10 \in Nat \ {0}
    BY <2>3, <2>5
  <2>7. Round(x, 10) \in Int
    BY <2>6, RoundType
  <2> QED
    BY <2>4, <2>5, <2>7
<1>4. GifDelays(d) = e
  BY DEF GifDelays
<1>5. b \in Seq(Int) /\ Len(b) = n + 1
  BY <1>1, <1>3
<1>6. b[1] = 0 /\ b[n + 1] = Round(Total(d), 10)
  <2>1. p[0] = 0 /\ Total(d) = p[n]
    BY <1>1, <1>2, TotalIs DEF Sums, SumsUpto
  <2>2. 1 \in 1..n + 1 /\ n + 1 \in 1..n + 1 /\ 1 - 1 = 0 /\ (n + 1) - 1 = n
    BY <1>1
  <2>3. Round(0, 10) = 0
    BY DEF Round
  <2> HIDE DEF b
  <2> QED
    BY <1>3, <2>1, <2>2, <2>3
<1>7. b[n + 1] \in Int
  BY <1>1, <1>3
<1> HIDE DEF b, n
<1>8. /\ e \in Seq(Int) /\ Len(e) = n /\ DOMAIN e = 1..n
      /\ \A i \in 1..n : e[i] % 10 = 0
      /\ Total(e) = 10 * (b[n + 1] - b[1])
  BY <1>1, <1>5, Telescopes
<1> HIDE DEF e
<1>9. \A i \in DOMAIN d : e[i] > 0
  <2>1. PICK k \in Nat : LongestDelay = 10 * k
    BY LongestIs
  <2>2. \A i \in DOMAIN d : e[i] \in 1..LongestDelay
    BY <1>4 DEF Buildable
  <2> QED
    BY <2>1, <2>2
<1> QED
  BY <1>1, <1>4, <1>6, <1>7, <1>8, <1>9

\* A step keeps the invariant of the processor, which says what was computed
\* of which GIF; that this is right is the arithmetic above.
LEMMA ProcessorComputes ==
  ASSUME G!GifAssumption, G!Computed
  PROVE  G!TimingIsKept
<1>1. /\ ProcessorGifs \subseteq Seq(0..LongestDelay)
      /\ OldDurations \subseteq Seq(Nat)
  BY SameArithmetic DEF G!GifAssumption
<1>2. PICK k \in Nat : LongestDelay = 10 * k
  BY LongestIs
<1>3. ASSUME feasible > 0, shown_for # <<>>
      PROVE  /\ source \in Seq(Nat) /\ source # <<>> /\ \A i \in DOMAIN source : source[i] <= LongestDelay
             /\ Readable(source) /\ max_frames \in Nat \ {0}
             /\ taken = Indices(Len(source), max_frames) /\ shown_for = Durations(source, max_frames)
  <2>1. /\ source \in Seq(0..LongestDelay) /\ feasible = Len(source)
        /\ Readable(source) /\ max_frames \in 1..20
        /\ taken = Indices(Len(source), max_frames) /\ shown_for = Durations(source, max_frames)
    BY <1>1, <1>3, SameArithmetic DEF G!Computed, G!None, G!Unknown
  <2>2. 0..LongestDelay \subseteq Nat /\ \A x \in 0..LongestDelay : x <= LongestDelay
    BY <1>2
  <2>3. source \in Seq(Nat) /\ \A i \in DOMAIN source : source[i] <= LongestDelay
    <3>1. PICK g, D : g = source /\ D = 0..LongestDelay
      OBVIOUS
    <3>2. g \in Seq(D) /\ D \subseteq Nat /\ \A x \in D : x <= LongestDelay
      BY <2>1, <2>2, <3>1
    <3>3. \A i \in DOMAIN g : g[i] \in D
      BY <3>2
    <3>4. g \in Seq(Nat)
      <4>1. Len(g) \in Nat /\ DOMAIN g = 1..Len(g) /\ g = [i \in 1..Len(g) |-> g[i]]
        BY <3>2
      <4>2. \A i \in 1..Len(g) : g[i] \in Nat
        BY <3>2, <3>3, <4>1
      <4> QED
        BY <4>1, <4>2
    <3> QED
      BY <3>1, <3>2, <3>3, <3>4
  <2>4. source # <<>>
    BY <1>3, <2>1
  <2> QED
    BY <2>1, <2>3, <2>4
<1>4. G!FramesAreBuildable
  <2> SUFFICES ASSUME feasible > 0, shown_for # <<>>
               PROVE  /\ Len(taken) = Len(shown_for)
                      /\ (\A i \in 1..Len(taken) - 1 : taken[i] < taken[i + 1]) /\ taken[1] = 0
                      /\ Len(taken) > 1 => taken[Len(taken)] = Len(source) - 1
                      /\ Total(source) <= Len(taken) * LongestDelay => Buildable(shown_for)
    BY SameArithmetic DEF G!FramesAreBuildable, G!Increasing, G!None
  <2>1. PICK g, m : g = source /\ m = max_frames
    OBVIOUS
  <2>2. /\ g \in Seq(Nat) /\ Readable(g) /\ g # <<>> /\ (\A i \in DOMAIN g : g[i] <= LongestDelay)
        /\ m \in Nat \ {0} /\ taken = Indices(Len(g), m) /\ shown_for = Durations(g, m)
    BY <1>3, <2>1
  <2> QED
    BY <2>1, <2>2, TakenIsBuildable
<1>5. ASSUME built # <<>>
      PROVE  /\ \A i \in DOMAIN built : built[i] > 0 /\ built[i] % 10 = 0
             /\ IF feasible > 0 THEN Total(built) = Total(source)
                                ELSE Total(built) = 10 * Round(Total(shown_for), 10)
  <2>1. built = GifDelays(shown_for) /\ Buildable(shown_for) /\ shown_for # <<>>
    BY <1>5, SameArithmetic DEF G!Computed, G!None
  <2>2. PICK d : d = shown_for
    OBVIOUS
  <2>3. d \in Seq(Nat)
    <3>1. CASE feasible > 0
      <4>1. PICK g, m : g = source /\ m = max_frames
        OBVIOUS
      <4>2. g \in Seq(Nat) /\ Readable(g) /\ m \in Nat \ {0} /\ d = Durations(g, m)
        BY <1>3, <2>1, <2>2, <3>1, <4>1
      <4>3. d \in Seq(Int)
        BY <4>2, DurationsKeepTime
      <4>4. \A i \in DOMAIN d : d[i] > 0
        BY <2>1, <2>2 DEF Buildable
      <4> QED
        BY <4>3, <4>4
    <3>2. CASE ~(feasible > 0)
      BY <1>1, <2>1, <2>2, <3>2 DEF G!Computed, G!None
    <3> QED
      BY <3>1, <3>2
  <2>4. \A i \in DOMAIN built : built[i] > 0 /\ built[i] % 10 = 0
    BY <2>1, <2>2, <2>3, BuiltPlays
  <2>5. CASE feasible > 0
    <3>1. PICK g, m : g = source /\ m = max_frames
      OBVIOUS
    <3>2. g \in Seq(Nat) /\ Readable(g) /\ m \in Nat \ {0} /\ shown_for = Durations(g, m)
      BY <1>3, <2>1, <2>5, <3>1
    <3>3. Total(GifDelays(Durations(g, m))) = Total(g)
      BY <3>2, ResultKeepsTime
    <3> QED
      BY <2>1, <2>4, <2>5, <3>1, <3>2, <3>3
  <2>6. CASE ~(feasible > 0)
    <3>1. Total(GifDelays(d)) = 10 * Round(Total(d), 10)
      BY <2>1, <2>2, <2>3, BuiltPlays
    <3> QED
      BY <2>1, <2>2, <2>4, <2>6, <3>1
  <2> QED
    BY <2>5, <2>6
<1> QED
  BY <1>4, <1>5, SameArithmetic DEF G!TimingIsKept, G!None

LEMMA ComputedKept ==
  ASSUME G!GifAssumption, G!Computed, [G!Next]_(G!vars)
  PROVE  G!Computed'
<1> USE DEF G!Computed, G!None, G!Unknown
<1>1. CASE G!check_feasibility
  BY <1>1 DEF G!check_feasibility
<1>2. CASE G!extract_frames
  BY <1>2 DEF G!extract_frames
<1>3. CASE G!build_gif
  BY <1>3 DEF G!build_gif
<1>4. CASE UNCHANGED G!vars
  BY <1>4 DEF G!vars
<1> QED
  BY <1>1, <1>2, <1>3, <1>4 DEF G!Next

LEMMA ProcessorStarts ==
  ASSUME G!GifAssumption, G!Init
  PROVE  G!Computed
<1> USE DEF G!Init, G!Computed, G!None, G!Unknown
<1>1. CASE source \in ProcessorGifs /\ shown_for = <<>>
  BY <1>1
<1>2. CASE source = <<>> /\ shown_for \in OldDurations
  BY <1>2
<1> QED
  BY <1>1, <1>2

\* What extract_frames recorded is the frames and the durations of the GIF it
\* was given, and what build_gif wrote is made of the durations recorded.
THEOREM ProcessorInvariant == ASSUME G!GifAssumption PROVE G!Spec => []G!IInv
<1>1. G!Init => G!Computed
  BY ProcessorStarts
<1>2. G!Computed /\ [G!Next]_(G!vars) => G!Computed'
  BY ComputedKept
<1>3. G!Computed => G!IInv
  BY ProcessorComputes DEF G!IInv
<1> QED
  BY <1>1, <1>2, <1>3, PTL DEF G!Spec

\* The GIF that build_gif writes plays exactly as long as the GIF it was made
\* of, whichever frames extract_frames left out and however both rounded to the
\* hundredths of a second of the format; what extract_frames returns build_gif
\* can use.
THEOREM TimingTheorem == ASSUME G!GifAssumption PROVE G!Spec => []TimingIsKept
<1>1. G!IInv => TimingIsKept
  BY DEF G!IInv, TimingIsKept
<1> QED
  BY <1>1, ProcessorInvariant, PTL
=============================================================================
