-------------------------- MODULE CalibrationProofs --------------------------
(***************************************************************************)
(* The learned curve: pooling it yields the isotonic regression of its     *)
(* points, and the two lookups on the pooled curve are monotone and belong *)
(* together, for every curve, and so for whatever is learned.              *)
(*                                                                         *)
(* The sums of counts and of watts up to a point are a path in the plane,  *)
(* and the level of a block is the slope of the chord between its ends.    *)
(* The invariant of the pooling is that the whole path lies on or above    *)
(* the line through every chord; all the rest follows from it.             *)
(***************************************************************************)
EXTENDS Calibration, SequenceTheorems, WellFoundedInduction, TLAPS

-----------------------------------------------------------------------------
(* Induction, and the least and the greatest number of a set.              *)

LEMMA Least ==
  ASSUME NEW S \in SUBSET Nat, S # {} PROVE \E x \in S : \A y \in S : x <= y
<1> DEFINE R == OpToRel(<, Nat)
<1>1. \E x \in S : \A y \in S : ~(<<y, x>> \in R)
  <2>1. IsWellFoundedOn(R, Nat)
    BY NatLessThanWellFounded
  <2> HIDE DEF R
  <2> QED
    BY <2>1, WFMin
<1>2. \A x, y \in Nat : <<y, x>> \in R <=> y < x
  BY DEF OpToRel
<1> HIDE DEF R
<1>3. PICK x \in S : \A y \in S : ~(<<y, x>> \in R)
  BY <1>1
<1>4. \A y \in S : ~(y < x)
  BY <1>2, <1>3
<1>5. \A y \in S : x <= y
  BY <1>4
<1> QED
  BY <1>5

LEMMA Induction ==
  ASSUME NEW S, 0 \in S, \A n \in Nat : n \in S => n + 1 \in S PROVE Nat \subseteq S
<1> SUFFICES ASSUME Nat \ S # {} PROVE FALSE
  OBVIOUS
<1>1. PICK x \in Nat \ S : \A y \in Nat \ S : x <= y
  <2>1. Nat \ S \in SUBSET Nat
    OBVIOUS
  <2> QED
    BY <2>1, Least, Zenon
<1>2. x # 0
  OBVIOUS
<1>3. x - 1 \in Nat /\ x - 1 \in S
  BY <1>1, <1>2
<1>4. (x - 1) + 1 = x
  BY <1>2
<1> QED
  BY <1>1, <1>3, <1>4

LEMMA MinIsLeast ==
  ASSUME NEW S \in SUBSET Nat, S # {} PROVE Min(S) \in S /\ \A y \in S : Min(S) <= y
  BY Least DEF Min

LEMMA MaxIsGreatest ==
  ASSUME NEW S \in SUBSET Nat, S # {}, NEW N \in Nat, \A x \in S : x <= N
  PROVE  Max(S) \in S /\ \A y \in S : y <= Max(S)
<1> DEFINE D == {N - x : x \in S}
<1>1. D \in SUBSET Nat /\ D # {}
  <2>1. PICK x \in S : x \in Nat /\ x <= N
    OBVIOUS
  <2>2. N - x \in D
    BY <2>1
  <2>3. \A y \in S : N - y \in Nat
    OBVIOUS
  <2> QED
    BY <2>2, <2>3
<1>2. PICK d \in D : \A e \in D : d <= e
  BY <1>1, Least, Zenon
<1>3. PICK x \in S : d = N - x
  BY <1>2
<1>4. \A y \in S : x >= y
  <2>1. ASSUME NEW y \in S PROVE N - x <= N - y
    <3>1. N - y \in D
      OBVIOUS
    <3> QED
      BY <1>2, <1>3, <3>1
  <2> QED
    BY <1>3, <2>1
<1>5. \E z \in S : \A y \in S : z >= y
  BY <1>3, <1>4
<1>6. Max(S) \in S /\ \A y \in S : Max(S) >= y
  BY <1>5 DEF Max
<1> QED
  BY <1>6

-----------------------------------------------------------------------------
(* Products: the facts of arithmetic about fractions that follow.          *)

LEMMA Scale ==
  \A x, y \in Int, k \in Nat : x <= y => k * x <= k * y
  OBVIOUS

LEMMA Cancel ==
  \A x, y \in Int, k \in Nat \ {0} : k * x <= k * y => x <= y
  OBVIOUS

Fractions == Nat \X (Nat \ {0})

\* x / a <= y / b <= z / c
LEMMA FractionsOrder ==
  ASSUME NEW x \in Int, NEW y \in Int, NEW z \in Int,
         NEW a \in Nat, NEW b \in Nat \ {0}, NEW c \in Nat,
         x * b <= y * a, y * c <= z * b
  PROVE  x * c <= z * a
<1>1. c * (x * b) <= c * (y * a)
  BY Scale
<1>2. a * (y * c) <= a * (z * b)
  BY Scale
<1>3. c * (y * a) = a * (y * c)
  OBVIOUS
<1>4. b * (x * c) <= b * (z * a)
  <2>1. c * (x * b) = b * (x * c) /\ a * (z * b) = b * (z * a)
    OBVIOUS
  <2> QED
    BY <1>1, <1>2, <1>3, <2>1
<1> QED
  BY <1>4, Cancel

\* A chord (A, a) from which the path rises to a chord (D, d), with (C, c)
\* between the two: the later chord is the steeper one.
LEMMA ChordsRise ==
  ASSUME NEW A \in Int, NEW C \in Int, NEW D \in Int,
         NEW a \in Nat \ {0}, NEW c \in Nat, NEW d \in Nat \ {0},
         A * c <= C * a, A * (c + d) <= (C + D) * a, C * d <= D * c
  PROVE  A * d <= D * a
<1>1. CASE c = 0
  <2>1. C * d <= 0 /\ 0 <= C * a
    BY <1>1
  <2>2. C = 0
    BY <2>1
  <2> QED
    BY <1>1, <2>2
<1>2. CASE c # 0
  <2>1. d * (A * c) <= d * (C * a)
    BY Scale
  <2>2. a * (C * d) <= a * (D * c)
    BY Scale
  <2>3. c * (A * d) <= c * (D * a)
    <3>1. d * (A * c) = c * (A * d) /\ d * (C * a) = a * (C * d) /\ a * (D * c) = c * (D * a)
      OBVIOUS
    <3> QED
      BY <2>1, <2>2, <3>1
  <2> QED
    BY <1>2, <2>3, Cancel
<1> QED
  BY <1>1, <1>2

-----------------------------------------------------------------------------
(* The recursive functions of the model have the values they are defined   *)
(* by.                                                                     *)

IsSum(s, x, N) == s = [n \in 0 .. N |-> IF n = 0 THEN 0 ELSE s[n - 1] + x[n]]

LEMMA SumExists ==
  ASSUME NEW x, NEW N \in Nat PROVE \E s : IsSum(s, x, N)
<1> DEFINE S == {n \in Nat : \E s : IsSum(s, x, n)}
<1>1. 0 \in S
  <2>1. IsSum([n \in 0 .. 0 |-> 0], x, 0)
    BY DEF IsSum
  <2> QED
    BY <2>1
<1>2. ASSUME NEW n \in Nat, n \in S PROVE n + 1 \in S
  <2>1. PICK s : IsSum(s, x, n)
    BY <1>2
  <2> DEFINE t == [k \in 0 .. n + 1 |-> IF k = n + 1 THEN s[n] + x[n + 1] ELSE s[k]]
  <2>2. \A k \in 0 .. n : s[k] = IF k = 0 THEN 0 ELSE s[k - 1] + x[k]
    BY <2>1 DEF IsSum
  <2>3. ASSUME NEW k \in 0 .. n + 1 PROVE t[k] = IF k = 0 THEN 0 ELSE t[k - 1] + x[k]
    BY <2>2
  <2>4. t = [k \in 0 .. n + 1 |-> t[k]]
    OBVIOUS
  <2> HIDE DEF t
  <2>5. IsSum(t, x, n + 1)
    BY <2>3, <2>4 DEF IsSum
  <2> QED
    BY <2>5
<1> HIDE DEF S
<1>3. Nat \subseteq S
  BY <1>1, <1>2, Induction
<1> QED
  BY <1>3 DEF S

LEMMA SumIs ==
  ASSUME NEW x \in Seq(Nat)
  PROVE  /\ SumTo(x) \in [0 .. Len(x) -> Nat] /\ SumTo(x)[0] = 0
         /\ \A n \in 1 .. Len(x) : SumTo(x)[n] = SumTo(x)[n - 1] + x[n]
<1> DEFINE s == SumTo(x)
<1>1. Len(x) \in Nat
  OBVIOUS
<1>2. IsSum(s, x, Len(x))
  BY <1>1, SumExists DEF SumTo, IsSum
<1> HIDE DEF s
<1>3. \A n \in 0 .. Len(x) : s[n] = IF n = 0 THEN 0 ELSE s[n - 1] + x[n]
  BY <1>2 DEF IsSum
<1> DEFINE S == {n \in Nat : n <= Len(x) => s[n] \in Nat}
<1>4. 0 \in S
  BY <1>1, <1>3
<1>5. \A n \in Nat : n \in S => n + 1 \in S
  <2> SUFFICES ASSUME NEW n \in Nat, n \in S, n + 1 <= Len(x) PROVE s[n + 1] \in Nat
    OBVIOUS
  <2>1. s[n] \in Nat /\ x[n + 1] \in Nat
    BY <1>1
  <2>2. s[n + 1] = s[n] + x[n + 1]
    <3>1. n + 1 \in 0 .. Len(x) /\ n + 1 # 0 /\ (n + 1) - 1 = n
      BY <1>1
    <3> QED
      BY <1>3, <3>1
  <2> QED
    BY <2>1, <2>2
<1> HIDE DEF S
<1>6. Nat \subseteq S
  BY <1>4, <1>5, Induction
<1>7. s = [n \in 0 .. Len(x) |-> s[n]]
  BY <1>2 DEF IsSum
<1>8. s \in [0 .. Len(x) -> Nat]
  BY <1>6, <1>7 DEF S
<1>9. \A n \in 1 .. Len(x) : s[n] = s[n - 1] + x[n]
  BY <1>1, <1>3
<1> QED
  BY <1>1, <1>3, <1>8, <1>9 DEF s

-----------------------------------------------------------------------------
(* The path of a curve: its sums of watts over its sums of counts.         *)

\* A path goes to the right with every point.
IsPath(T, W, N) ==
  /\ T \in [0 .. N -> Nat] /\ W \in [0 .. N -> Nat]
  /\ \A i, j \in 0 .. N : i < j => W[i] < W[j] /\ T[i] <= T[j]

LEMMA PathOfCurve ==
  ASSUME NEW pts \in Curves
  PROVE  /\ Len(pts) \in Nat /\ IsPath(Total(pts), Weight(pts), Len(pts))
         /\ Total(pts)[0] = 0 /\ Weight(pts)[0] = 0
         /\ Len(pts) >= 1 => Total(pts)[1] = pts[1].watts * pts[1].count
<1> DEFINE N == Len(pts)
           x == [i \in DOMAIN pts |-> pts[i].watts * pts[i].count]
           y == [i \in DOMAIN pts |-> pts[i].count]
           T == Total(pts)
           W == Weight(pts)
<1>1. N \in Nat /\ DOMAIN pts = 1 .. N
  BY DEF Curves
<1>2. \A i \in 1 .. N : pts[i].watts \in Nat /\ pts[i].count \in Nat \ {0}
  <2>1. \A i \in 1 .. N : pts[i] \in [voltage : Voltages, watts : Nat, count : Nat \ {0}]
    BY ElementOfSeq DEF Curves
  <2> QED
    BY <2>1
<1>3. \A i \in 1 .. N : pts[i].watts * pts[i].count \in Nat
  BY <1>2
<1>4. x \in Seq(Nat) /\ y \in Seq(Nat) /\ Len(x) = N /\ Len(y) = N
  BY <1>1, <1>2, <1>3
<1>5. T = SumTo(x) /\ W = SumTo(y)
  BY DEF Total, Weight
<1>6. \A i \in 1 .. N : x[i] \in Nat /\ y[i] \in Nat \ {0}
  BY <1>1, <1>2, <1>3
<1>7. N >= 1 => x[1] = pts[1].watts * pts[1].count
  BY <1>1
<1> HIDE DEF N, T, W, x, y
<1>8. /\ T \in [0 .. N -> Nat] /\ T[0] = 0 /\ \A n \in 1 .. N : T[n] = T[n - 1] + x[n]
      /\ W \in [0 .. N -> Nat] /\ W[0] = 0 /\ \A n \in 1 .. N : W[n] = W[n - 1] + y[n]
  BY <1>4, <1>5, SumIs
<1> DEFINE S == {j \in Nat : j <= N => \A i \in 0 .. j : i < j => W[i] < W[j] /\ T[i] <= T[j]}
<1>9. 0 \in S
  OBVIOUS
<1>10. ASSUME NEW j \in Nat, j \in S PROVE j + 1 \in S
  <2> SUFFICES ASSUME j + 1 <= N, NEW i \in 0 .. j + 1, i < j + 1
               PROVE  W[i] < W[j + 1] /\ T[i] <= T[j + 1]
    OBVIOUS
  <2>1. /\ j + 1 \in 1 .. N /\ (j + 1) - 1 = j /\ i \in 0 .. j /\ i \in 0 .. N /\ j \in 0 .. N
    BY <1>1 DEF N
  <2>2. W[j + 1] = W[j] + y[j + 1] /\ T[j + 1] = T[j] + x[j + 1]
    BY <1>8, <2>1
  <2>3. i = j \/ (W[i] < W[j] /\ T[i] <= T[j])
    BY <1>10, <2>1
  <2>4. W[i] \in Nat /\ W[j] \in Nat /\ T[i] \in Nat /\ T[j] \in Nat
    BY <1>8, <2>1
  <2> QED
    BY <1>6, <2>1, <2>2, <2>3, <2>4
<1> HIDE DEF S
<1>11. Nat \subseteq S
  BY <1>9, <1>10, Induction
<1>12. ASSUME NEW i \in 0 .. N, NEW j \in 0 .. N, i < j PROVE W[i] < W[j] /\ T[i] <= T[j]
  <2>1. j \in S /\ i \in 0 .. j
    BY <1>1, <1>11, <1>12 DEF N
  <2> QED
    BY <1>12, <2>1 DEF S
<1>13. N >= 1 => T[1] = x[1]
  <2> SUFFICES ASSUME N >= 1 PROVE T[1] = x[1]
    OBVIOUS
  <2>1. 1 \in 1 .. N /\ 1 - 1 = 0
    BY <1>1 DEF N
  <2> QED
    BY <1>6, <1>8, <2>1
<1> QED
  BY <1>1, <1>7, <1>8, <1>12, <1>13 DEF IsPath, N, T, W

\* Up to n, the path is on or above the line through the chord from p to q.
Over(T, W, n, p, q) ==
  \A m \in 0 .. n : (T[q] - T[p]) * (W[m] - W[p]) <= (T[m] - T[p]) * (W[q] - W[p])

\* Of two such chords, the later is at least as steep.
LEMMA LaterIsSteeper ==
  ASSUME NEW N \in Nat, NEW T, NEW W, IsPath(T, W, N), NEW n \in 0 .. N,
         NEW p \in 0 .. n, NEW q \in 0 .. n, NEW b \in 0 .. n, NEW e \in 0 .. n,
         p < q, q <= b, b < e, Over(T, W, n, p, q), Over(T, W, n, b, e)
  PROVE  (T[q] - T[p]) * (W[e] - W[b]) <= (T[e] - T[b]) * (W[q] - W[p])
<1> DEFINE A == T[q] - T[p]
           a == W[q] - W[p]
           C == T[b] - T[q]
           c == W[b] - W[q]
           D == T[e] - T[b]
           d == W[e] - W[b]
<1>1. /\ p \in 0 .. N /\ q \in 0 .. N /\ b \in 0 .. N /\ e \in 0 .. N
  OBVIOUS
<1>2. /\ T[p] \in Nat /\ T[q] \in Nat /\ T[b] \in Nat /\ T[e] \in Nat
      /\ W[p] \in Nat /\ W[q] \in Nat /\ W[b] \in Nat /\ W[e] \in Nat
      /\ W[p] < W[q] /\ W[b] < W[e] /\ (q = b \/ W[q] < W[b])
  BY <1>1 DEF IsPath
<1>3. A \in Int /\ C \in Int /\ D \in Int /\ a \in Nat \ {0} /\ c \in Nat /\ d \in Nat \ {0}
  BY <1>2
<1>4. A * (W[b] - W[p]) <= (T[b] - T[p]) * a /\ A * (W[e] - W[p]) <= (T[e] - T[p]) * a
  BY DEF Over
<1>5. D * (W[q] - W[b]) <= (T[q] - T[b]) * d
  BY DEF Over
<1>6. /\ W[b] - W[p] = a + c /\ T[b] - T[p] = A + C
      /\ W[e] - W[p] = a + (c + d) /\ T[e] - T[p] = A + (C + D)
      /\ W[q] - W[b] = 0 - c /\ T[q] - T[b] = 0 - C
  BY <1>2
<1> HIDE DEF A, C, D, a, c, d
<1>7. A * c <= C * a
  <2>1. A * (a + c) <= (A + C) * a
    BY <1>4, <1>6
  <2>2. A * (a + c) = A * a + A * c /\ (A + C) * a = A * a + C * a
    BY <1>3
  <2> QED
    BY <1>3, <2>1, <2>2
<1>8. A * (c + d) <= (C + D) * a
  <2>1. A * (a + (c + d)) <= (A + (C + D)) * a
    BY <1>4, <1>6
  <2>2. A * (a + (c + d)) = A * a + A * (c + d) /\ (A + (C + D)) * a = A * a + (C + D) * a
    BY <1>3
  <2> QED
    BY <1>3, <2>1, <2>2
<1>9. C * d <= D * c
  <2>1. D * (0 - c) <= (0 - C) * d
    BY <1>5, <1>6
  <2>2. D * (0 - c) = 0 - D * c /\ (0 - C) * d = 0 - C * d
    BY <1>3
  <2> QED
    BY <1>3, <2>1, <2>2
<1>10. A * d <= D * a
  BY <1>3, <1>7, <1>8, <1>9, ChordsRise
<1> QED
  BY <1>10 DEF A, D, a, d

-----------------------------------------------------------------------------
(* Pooling keeps the path on or above the line through every block.        *)

LEMMA PathValues ==
  ASSUME NEW N \in Nat, NEW T, NEW W, IsPath(T, W, N)
  PROVE  /\ \A i \in 0 .. N : T[i] \in Nat /\ W[i] \in Nat
         /\ \A i, j \in 0 .. N : i < j => W[i] < W[j] /\ T[i] <= T[j]
  BY DEF IsPath

LEMMA BeforeIs ==
  ASSUME NEW n \in Nat, NEW ends \in SUBSET (0 .. n), 0 \in ends, NEW i \in Nat \ {0}
  PROVE  /\ Before(ends, i) \in ends /\ Before(ends, i) < i
         /\ \A b \in ends : b < i => b <= Before(ends, i)
<1> DEFINE S == {b \in ends : b < i}
<1>1. S \in SUBSET Nat /\ 0 \in S /\ \A b \in S : b <= n
  <2>1. \A b \in ends : b \in Nat /\ b <= n
    OBVIOUS
  <2>2. 0 < i
    OBVIOUS
  <2> QED
    BY <2>1, <2>2
<1> HIDE DEF S
<1>2. Max(S) \in S /\ \A b \in S : b <= Max(S)
  BY <1>1, MaxIsGreatest
<1> QED
  BY <1>2 DEF S, Before

\* Every block of the first n points is a chord below the path.
IsEnds(T, W, ends, n) ==
  /\ ends \in SUBSET (0 .. n) /\ 0 \in ends /\ n \in ends
  /\ \A q \in ends \ {0} : Over(T, W, n, Before(ends, q), q)

\* The means of two adjacent runs.
LEMMA StaysIs ==
  ASSUME NEW pts, NEW ends, NEW b \in Nat \ {0}, NEW n
  PROVE  LET T == Total(pts)  W == Weight(pts)  p == Before(ends, b) IN
         Stays(pts, ends, b, n) <=>
           (T[b] - T[p]) * (W[n] - W[b]) <= (T[n] - T[b]) * (W[b] - W[p])
  BY DEF Stays, AtMost, Mean

\* A block that is kept is below the new point, too.
LEMMA KeptBlock ==
  ASSUME NEW N \in Nat, NEW T, NEW W, IsPath(T, W, N), NEW n \in 1 .. N,
         NEW ends, IsEnds(T, W, ends, n - 1), NEW e \in ends \ {0}, NEW q \in ends \ {0}, q <= e,
         LET b == Before(ends, e) IN
           (T[e] - T[b]) * (W[n] - W[e]) <= (T[n] - T[e]) * (W[e] - W[b])
  PROVE  Over(T, W, n, Before(ends, q), q)
<1> DEFINE p == Before(ends, q)
           b == Before(ends, e)
<1>1. n - 1 \in Nat /\ n - 1 \in 0 .. N /\ ends \in SUBSET (0 .. n - 1) /\ 0 \in ends
  BY DEF IsEnds
<1>2. p \in ends /\ p < q /\ b \in ends /\ b < e /\ (q < e => q <= b)
  <2>1. q \in Nat \ {0} /\ e \in Nat \ {0} /\ q \in ends
    BY <1>1
  <2>2. p \in ends /\ p < q /\ b \in ends /\ b < e /\ \A k \in ends : k < e => k <= b
    BY <1>1, <2>1, BeforeIs, Zenon
  <2> HIDE DEF p, b
  <2> QED
    BY <2>1, <2>2, Zenon
<1>3. Over(T, W, n - 1, p, q) /\ Over(T, W, n - 1, b, e)
  BY DEF IsEnds
<1> HIDE DEF p, b
<1>4. (T[q] - T[p]) * (W[e] - W[b]) <= (T[e] - T[b]) * (W[q] - W[p])
  <2>1. CASE q = e
    <3>1. p = b
      BY <2>1 DEF p, b
    <3>2. b \in 0 .. N /\ e \in 0 .. N
      BY <1>1, <1>2
    <3>3. T[b] \in Nat /\ T[e] \in Nat /\ W[b] \in Nat /\ W[e] \in Nat
      BY <3>2, PathValues, Zenon
    <3>4. (T[e] - T[b]) * (W[e] - W[b]) \in Int
      BY <3>3
    <3> QED
      BY <2>1, <3>1, <3>4
  <2>2. CASE q < e
    <3>1. /\ p \in 0 .. n - 1 /\ q \in 0 .. n - 1 /\ b \in 0 .. n - 1 /\ e \in 0 .. n - 1 /\ q <= b
      BY <1>1, <1>2, <2>2
    <3> QED
      BY <1>1, <1>2, <1>3, <3>1, LaterIsSteeper
  <2>3. q \in Nat /\ e \in Nat
    BY <1>1
  <2> QED
    BY <2>1, <2>2, <2>3
<1>5. /\ p \in 0 .. N /\ q \in 0 .. N /\ b \in 0 .. N /\ e \in 0 .. N /\ n \in 0 .. N
      /\ e \in 0 .. n - 1 /\ e < n
  BY <1>1, <1>2
<1>6. /\ T[p] \in Nat /\ T[q] \in Nat /\ T[b] \in Nat /\ T[e] \in Nat /\ T[n] \in Nat
      /\ W[p] \in Nat /\ W[q] \in Nat /\ W[b] \in Nat /\ W[e] \in Nat /\ W[n] \in Nat
      /\ W[p] < W[q] /\ W[b] < W[e] /\ W[e] < W[n]
  BY <1>2, <1>5 DEF IsPath
<1>7. (T[q] - T[p]) * (W[n] - W[e]) <= (T[n] - T[e]) * (W[q] - W[p])
  <2>1. /\ T[q] - T[p] \in Int /\ T[e] - T[b] \in Int /\ T[n] - T[e] \in Int
        /\ W[q] - W[p] \in Nat /\ W[e] - W[b] \in Nat \ {0} /\ W[n] - W[e] \in Nat
    BY <1>6
  <2>2. (T[e] - T[b]) * (W[n] - W[e]) <= (T[n] - T[e]) * (W[e] - W[b])
    BY DEF b
  <2> QED
    BY <1>4, <2>1, <2>2, FractionsOrder
<1>8. (T[q] - T[p]) * (W[e] - W[p]) <= (T[e] - T[p]) * (W[q] - W[p])
  BY <1>3, <1>5 DEF Over
<1>9. (T[q] - T[p]) * (W[n] - W[p]) <= (T[n] - T[p]) * (W[q] - W[p])
  <2>1. \A A, a, x, y, X, Y \in Int :
          A * y <= Y * a /\ A * x <= X * a => A * (x + y) <= (X + Y) * a
    OBVIOUS
  <2>2. /\ W[n] - W[p] = (W[e] - W[p]) + (W[n] - W[e])
        /\ T[n] - T[p] = (T[e] - T[p]) + (T[n] - T[e])
    BY <1>6
  <2>3. /\ T[q] - T[p] \in Int /\ W[q] - W[p] \in Int /\ W[e] - W[p] \in Int
        /\ W[n] - W[e] \in Int /\ T[e] - T[p] \in Int /\ T[n] - T[e] \in Int
    BY <1>6
  <2> QED
    BY <1>7, <1>8, <2>1, <2>2, <2>3
<1>10. \A m \in 0 .. n : m = n \/ m \in 0 .. n - 1
  OBVIOUS
<1> QED
  BY <1>3, <1>9, <1>10 DEF Over, p

\* The points before the new block are above its line, since the block before
\* it is no steeper.
LEMMA BeforeNewBlock ==
  ASSUME NEW N \in Nat, NEW T, NEW W, IsPath(T, W, N), NEW n \in 1 .. N,
         NEW b \in 0 .. n - 1, NEW e \in 0 .. n - 1, b < e, Over(T, W, n - 1, b, e),
         (T[e] - T[b]) * (W[n] - W[e]) <= (T[n] - T[e]) * (W[e] - W[b]),
         NEW m \in 0 .. e
  PROVE  (T[n] - T[e]) * (W[m] - W[e]) <= (T[m] - T[e]) * (W[n] - W[e])
<1> DEFINE D == T[e] - T[b]
           d == W[e] - W[b]
           F == T[n] - T[e]
           f == W[n] - W[e]
           X == T[e] - T[m]
           x == W[e] - W[m]
<1>1. /\ b \in 0 .. N /\ e \in 0 .. N /\ n \in 0 .. N /\ m \in 0 .. N /\ m \in 0 .. n - 1
      /\ e < n /\ (m = e \/ m < e)
  OBVIOUS
<1>2. /\ T[b] \in Nat /\ T[e] \in Nat /\ T[n] \in Nat /\ T[m] \in Nat
      /\ W[b] \in Nat /\ W[e] \in Nat /\ W[n] \in Nat /\ W[m] \in Nat
      /\ W[b] < W[e] /\ W[e] < W[n] /\ W[m] <= W[e]
  <2>1. /\ T[b] \in Nat /\ T[e] \in Nat /\ T[n] \in Nat /\ T[m] \in Nat
        /\ W[b] \in Nat /\ W[e] \in Nat /\ W[n] \in Nat /\ W[m] \in Nat
        /\ W[b] < W[e] /\ W[e] < W[n] /\ (m = e \/ W[m] < W[e])
    BY <1>1, PathValues, Zenon
  <2> QED
    BY <2>1
<1>3. D \in Int /\ F \in Int /\ X \in Int /\ d \in Nat \ {0} /\ f \in Nat /\ x \in Nat
  BY <1>2
<1>4. D * (W[m] - W[b]) <= (T[m] - T[b]) * d
  BY <1>1 DEF Over
<1>5. D * f <= F * d
  OBVIOUS
<1>6. /\ W[m] - W[b] = d - x /\ T[m] - T[b] = D - X
      /\ W[m] - W[e] = 0 - x /\ T[m] - T[e] = 0 - X
  BY <1>2
<1> HIDE DEF D, d, F, f, X, x
<1>7. X * d <= D * x
  <2>1. D * (d - x) <= (D - X) * d
    BY <1>4, <1>6
  <2>2. D * (d - x) = D * d - D * x /\ (D - X) * d = D * d - X * d
    BY <1>3
  <2> QED
    BY <1>3, <2>1, <2>2
<1>8. X * f <= F * x
  BY <1>3, <1>5, <1>7, FractionsOrder
<1>9. F * (0 - x) <= (0 - X) * f
  <2>1. F * (0 - x) = 0 - F * x /\ (0 - X) * f = 0 - X * f
    BY <1>3
  <2> QED
    BY <1>3, <1>8, <2>1
<1> QED
  BY <1>6, <1>9 DEF F, f

\* The points within the new block are above its line, since the first block it
\* swallowed is steeper.
LEMMA WithinNewBlock ==
  ASSUME NEW N \in Nat, NEW T, NEW W, IsPath(T, W, N), NEW n \in 1 .. N,
         NEW e \in 0 .. n - 1, NEW g \in 0 .. n - 1, e < g, Over(T, W, n - 1, e, g),
         ~((T[g] - T[e]) * (W[n] - W[g]) <= (T[n] - T[g]) * (W[g] - W[e])),
         NEW m \in e .. n - 1
  PROVE  (T[n] - T[e]) * (W[m] - W[e]) <= (T[m] - T[e]) * (W[n] - W[e])
<1> DEFINE G == T[g] - T[e]
           u == W[g] - W[e]
           H == T[n] - T[g]
           h == W[n] - W[g]
           Y == T[m] - T[e]
           y == W[m] - W[e]
<1>1. /\ e \in 0 .. N /\ g \in 0 .. N /\ n \in 0 .. N /\ m \in 0 .. N /\ m \in 0 .. n - 1
      /\ g < n /\ (m = e \/ e < m)
  OBVIOUS
<1>2. /\ T[e] \in Nat /\ T[g] \in Nat /\ T[n] \in Nat /\ T[m] \in Nat
      /\ W[e] \in Nat /\ W[g] \in Nat /\ W[n] \in Nat /\ W[m] \in Nat
      /\ W[e] < W[g] /\ W[g] < W[n] /\ W[e] <= W[m]
  <2>1. /\ T[e] \in Nat /\ T[g] \in Nat /\ T[n] \in Nat /\ T[m] \in Nat
        /\ W[e] \in Nat /\ W[g] \in Nat /\ W[n] \in Nat /\ W[m] \in Nat
        /\ W[e] < W[g] /\ W[g] < W[n] /\ (m = e \/ W[e] < W[m])
    BY <1>1, PathValues, Zenon
  <2> QED
    BY <2>1
<1>3. /\ G \in Int /\ H \in Int /\ Y \in Int /\ u \in Nat \ {0} /\ h \in Nat \ {0} /\ y \in Nat
      /\ T[n] - T[e] = G + H /\ W[n] - W[e] = u + h
  BY <1>2
<1>4. G * y <= Y * u
  BY <1>1 DEF Over
<1>5. ~(G * h <= H * u)
  OBVIOUS
<1> HIDE DEF G, H, Y, u, h, y
<1>6. (G + H) * u <= G * (u + h)
  <2>1. (G + H) * u = G * u + H * u /\ G * (u + h) = G * u + G * h
    BY <1>3
  <2> QED
    BY <1>3, <1>5, <2>1
<1>7. (G + H) * y <= Y * (u + h)
  <2>1. G + H \in Int /\ u + h \in Nat
    BY <1>3
  <2> QED
    BY <1>3, <1>4, <1>6, <2>1, FractionsOrder
<1> QED
  BY <1>3, <1>7 DEF Y, y

LEMMA AddBlockKeeps ==
  ASSUME NEW pts \in Curves, NEW n \in 1 .. Len(pts), NEW ends,
         IsEnds(Total(pts), Weight(pts), ends, n - 1)
  PROVE  IsEnds(Total(pts), Weight(pts), AddBlock(pts, ends, n), n)
<1> DEFINE T == Total(pts)
           W == Weight(pts)
           N == Len(pts)
           K == {b \in ends : Stays(pts, ends, b, n)}
           e == Max(K)
           R == AddBlock(pts, ends, n)
<1>1. /\ N \in Nat /\ IsPath(T, W, N)
  BY PathOfCurve
<1>2. /\ n \in 1 .. N /\ n - 1 \in Nat /\ ends \in SUBSET (0 .. n - 1) /\ 0 \in ends
      /\ n - 1 \in ends /\ \A q \in ends \ {0} : Over(T, W, n - 1, Before(ends, q), q)
  BY <1>1 DEF IsEnds
<1>3. n \in Nat \ {0} /\ \A b \in ends : b \in Nat /\ b <= n - 1 /\ b < n
  <2>1. \A b \in 0 .. n - 1 : b \in Nat /\ b <= n - 1 /\ b < n
    BY <1>1
  <2> QED
    BY <1>1, <1>2, <2>1
<1>4. e \in K /\ \A b \in K : b <= e
  <2>1. 0 \in K
    BY <1>2, Zenon DEF Stays
  <2>2. K \in SUBSET Nat /\ \A b \in K : b <= n - 1
    BY <1>3, Zenon
  <2> HIDE DEF K
  <2> QED
    BY <1>2, <2>1, <2>2, MaxIsGreatest, Zenon
<1>5. R = {b \in ends : b <= e} \cup {n}
  BY DEF AddBlock
<1>6. /\ e \in ends /\ Stays(pts, ends, e, n)
      /\ \A g \in ends : e < g => ~Stays(pts, ends, g, n)
  <2>1. \A g \in ends : e < g => g \notin K
    <3>1. e \in Nat
      BY <1>4, <1>3, Zenon
    <3> HIDE DEF e, K
    <3> QED
      BY <1>4, <1>3, <3>1
  <2> QED
    BY <1>4, <2>1
<1> HIDE DEF T, W, N, K, e, R
<1>7. e \in 0 .. n - 1 /\ e \in 0 .. N /\ e \in Nat /\ e < n
  BY <1>1, <1>2, <1>6
<1>8. R \in SUBSET (0 .. n) /\ 0 \in R /\ n \in R
  <2>1. \A b \in ends : b \in 0 .. n
    BY <1>3
  <2>2. n \in 0 .. n /\ 0 \in ends /\ 0 <= e
    BY <1>2, <1>7, <1>3
  <2> QED
    BY <1>5, <2>1, <2>2
<1>9. ASSUME NEW q \in ends \ {0}, q <= e PROVE Over(T, W, n, Before(R, q), q)
  <2>1. {b \in R : b < q} = {b \in ends : b < q}
    <3>1. q \in Nat /\ q <= e /\ q < n
      BY <1>7, <1>9, <1>3
    <3>2. \A b \in ends : b < q => b <= e
      BY <1>7, <1>3, <3>1
    <3>3. ~(n < q)
      BY <1>3, <3>1
    <3> QED
      BY <1>5, <3>2, <3>3
  <2>2. Before(R, q) = Before(ends, q)
    BY <2>1 DEF Before
  <2>3. e \in ends \ {0} /\ e \in Nat \ {0}
    BY <1>2, <1>6, <1>7, <1>9
  <2>4. LET b == Before(ends, e) IN
          (T[e] - T[b]) * (W[n] - W[e]) <= (T[n] - T[e]) * (W[e] - W[b])
    BY <1>6, <2>3, StaysIs, Zenon DEF T, W
  <2>5. IsEnds(T, W, ends, n - 1)
    BY DEF T, W
  <2> QED
    BY <1>1, <1>2, <1>9, <2>2, <2>3, <2>4, <2>5, KeptBlock, Zenon
<1>10. Over(T, W, n, Before(R, n), n)
  <2>1. Before(R, n) = e
    <3>1. {b \in R : b < n} = {b \in ends : b <= e}
      <4>1. ~(n < n) /\ \A b \in ends : b < n
        BY <1>3
      <4> QED
        BY <1>5, <4>1
    <3>2. e \in {b \in ends : b <= e} /\ \A b \in {b \in ends : b <= e} : e >= b
      BY <1>2, <1>6, <1>7
    <3>3. \A x \in {b \in ends : b <= e} : (\A b \in {b \in ends : b <= e} : x >= b) => x = e
      BY <1>2, <1>6, <1>7
    <3> QED
      BY <3>1, <3>2, <3>3 DEF Before, Max
  <2>2. ASSUME NEW m \in 0 .. n
        PROVE  (T[n] - T[e]) * (W[m] - W[e]) <= (T[m] - T[e]) * (W[n] - W[e])
    <3>1. CASE m = n
      <4>1. n \in 0 .. N
        BY <1>1, <1>2
      <4>2. T[n] \in Nat /\ T[e] \in Nat /\ W[n] \in Nat /\ W[e] \in Nat
        BY <1>1, <1>7, <4>1, PathValues, Zenon
      <4> QED
        BY <3>1, <4>2
    <3>2. CASE m \in 0 .. e /\ e = 0
      <4>1. m = e /\ n \in 0 .. N
        BY <1>1, <1>2, <3>2
      <4>2. T[n] \in Nat /\ T[e] \in Nat /\ W[n] \in Nat /\ W[e] \in Nat
        BY <1>1, <1>7, <4>1, PathValues, Zenon
      <4> QED
        BY <4>1, <4>2
    <3>3. CASE m \in 0 .. e /\ e # 0
      <4> DEFINE b == Before(ends, e)
      <4>1. e \in Nat \ {0}
        BY <1>7, <3>3
      <4>2. b \in ends /\ b < e
        BY <1>2, <4>1, BeforeIs, Zenon
      <4>3. (T[e] - T[b]) * (W[n] - W[e]) <= (T[n] - T[e]) * (W[e] - W[b])
        BY <1>6, <4>1, StaysIs, Zenon DEF T, W
      <4>4. Over(T, W, n - 1, b, e)
        BY <1>2, <1>6, <3>3
      <4> HIDE DEF b
      <4>5. b \in 0 .. n - 1
        BY <1>2, <4>2
      <4> QED
        BY <1>1, <1>2, <1>7, <3>3, <4>2, <4>3, <4>4, <4>5, BeforeNewBlock, Zenon
    <3>4. CASE m \in e + 1 .. n - 1
      <4> DEFINE S == {b \in ends : e < b}
                 g == Min(S)
      <4>1. S \in SUBSET Nat /\ n - 1 \in S
        <5>1. e < n - 1
          BY <1>7, <1>3, <3>4
        <5> QED
          BY <1>2, <1>3, <5>1
      <4>2. g \in S /\ \A b \in S : g <= b
        <5> HIDE DEF S
        <5> QED
          BY <4>1, MinIsLeast
      <4>3. g \in ends /\ e < g /\ ~Stays(pts, ends, g, n) /\ g \in Nat \ {0} /\ g \in 0 .. n - 1
        <5>1. g \in ends /\ e < g
          BY <4>2
        <5> HIDE DEF g
        <5>2. g \in Nat /\ g <= n - 1 /\ g \in ends
          BY <1>3, <5>1
        <5>3. ~Stays(pts, ends, g, n)
          BY <1>6, <5>1, Zenon
        <5> QED
          BY <1>7, <1>3, <5>1, <5>2, <5>3
      <4>4. Before(ends, g) = e
        <5> HIDE DEF g
        <5>1. /\ Before(ends, g) \in ends /\ Before(ends, g) < g
              /\ \A b \in ends : b < g => b <= Before(ends, g)
          BY <1>2, <4>3, BeforeIs, Zenon
        <5> DEFINE z == Before(ends, g)
        <5>2. z \in Nat /\ z \in ends /\ z < g /\ e <= z
          BY <1>6, <1>3, <4>3, <5>1, Zenon
        <5>3. ~(e < z)
          <6> SUFFICES ASSUME e < z PROVE FALSE
            OBVIOUS
          <6> HIDE DEF z
          <6>1. z \in S
            BY <5>2
          <6> HIDE DEF S
          <6>2. g <= z
            BY <4>2, <6>1 DEF g
          <6> QED
            BY <4>3, <5>2, <6>2
        <5> HIDE DEF z
        <5>4. z = e
          BY <1>7, <5>2, <5>3
        <5> QED
          BY <5>4 DEF z
      <4>5. Over(T, W, n - 1, e, g)
        BY <1>2, <4>3, <4>4
      <4>6. ~((T[g] - T[e]) * (W[n] - W[g]) <= (T[n] - T[g]) * (W[g] - W[e]))
        BY <4>3, <4>4, StaysIs, Zenon DEF T, W
      <4> HIDE DEF g
      <4>7. m \in e .. n - 1
        BY <1>7, <3>4
      <4> QED
        BY <1>1, <1>2, <1>7, <4>3, <4>5, <4>6, <4>7, WithinNewBlock, Zenon
    <3> QED
      BY <1>2, <1>7, <2>2, <3>1, <3>2, <3>3, <3>4
  <2> QED
    BY <2>1, <2>2 DEF Over
<1>11. \A q \in R \ {0} : q = n \/ (q \in ends \ {0} /\ q <= e)
  BY <1>5
<1> QED
  BY <1>8, <1>9, <1>10, <1>11 DEF IsEnds, T, W, R

IsBlocks(f, pts, N) == f = [n \in 0 .. N |-> IF n = 0 THEN {0} ELSE AddBlock(pts, f[n - 1], n)]

LEMMA BlocksExist ==
  ASSUME NEW pts, NEW N \in Nat PROVE \E f : IsBlocks(f, pts, N)
<1> DEFINE S == {n \in Nat : \E f : IsBlocks(f, pts, n)}
<1>1. 0 \in S
  <2>1. IsBlocks([n \in 0 .. 0 |-> {0}], pts, 0)
    BY DEF IsBlocks
  <2> QED
    BY <2>1
<1>2. ASSUME NEW n \in Nat, n \in S PROVE n + 1 \in S
  <2>1. PICK f : IsBlocks(f, pts, n)
    BY <1>2
  <2> DEFINE g == [k \in 0 .. n + 1 |-> IF k = n + 1 THEN AddBlock(pts, f[n], n + 1) ELSE f[k]]
  <2>2. \A k \in 0 .. n : f[k] = IF k = 0 THEN {0} ELSE AddBlock(pts, f[k - 1], k)
    BY <2>1 DEF IsBlocks
  <2>3. ASSUME NEW k \in 0 .. n + 1 PROVE g[k] = IF k = 0 THEN {0} ELSE AddBlock(pts, g[k - 1], k)
    <3>1. CASE k = n + 1
      <4>1. g[k] = AddBlock(pts, f[n], k) /\ k # 0 /\ k - 1 = n /\ g[k - 1] = f[n]
        BY <3>1
      <4> HIDE DEF g
      <4> QED
        BY <4>1
    <3>2. CASE k = 0
      BY <2>2, <3>2
    <3>3. CASE k \in 1 .. n
      <4>1. g[k] = f[k] /\ k # 0 /\ g[k - 1] = f[k - 1] /\ k \in 0 .. n
        BY <3>3
      <4> HIDE DEF g
      <4> QED
        BY <2>2, <4>1
    <3> QED
      BY <3>1, <3>2, <3>3
  <2>4. g = [k \in 0 .. n + 1 |-> g[k]]
    OBVIOUS
  <2> HIDE DEF g
  <2>5. IsBlocks(g, pts, n + 1)
    BY <2>3, <2>4 DEF IsBlocks
  <2> QED
    BY <2>5
<1> HIDE DEF S
<1>3. Nat \subseteq S
  BY <1>1, <1>2, Induction
<1> QED
  BY <1>3 DEF S

\* The blocks of a curve are chords below its path.
LEMMA BlocksRight ==
  ASSUME NEW pts \in Curves
  PROVE  IsEnds(Total(pts), Weight(pts), Blocks(pts), Len(pts))
<1> DEFINE N == Len(pts)
           T == Total(pts)
           W == Weight(pts)
           f == CHOOSE f : IsBlocks(f, pts, N)
<1>1. N \in Nat /\ IsPath(T, W, N) /\ T[0] = 0 /\ W[0] = 0
  BY PathOfCurve
<1>2. IsBlocks(f, pts, N)
  BY <1>1, BlocksExist
<1>3. Blocks(pts) = f[N]
  BY DEF Blocks, IsBlocks
<1> HIDE DEF f, T, W
<1>4. \A n \in 0 .. N : f[n] = IF n = 0 THEN {0} ELSE AddBlock(pts, f[n - 1], n)
  BY <1>2 DEF IsBlocks
<1> DEFINE S == {n \in Nat : n <= N => IsEnds(T, W, f[n], n)}
<1>5. 0 \in S
  <2>1. f[0] = {0}
    BY <1>1, <1>4
  <2>2. IsEnds(T, W, {0}, 0)
    BY DEF IsEnds
  <2> QED
    BY <2>1, <2>2
<1>6. ASSUME NEW n \in Nat, n \in S PROVE n + 1 \in S
  <2> SUFFICES ASSUME n + 1 <= N PROVE IsEnds(T, W, f[n + 1], n + 1)
    OBVIOUS
  <2>1. IsEnds(T, W, f[n], n)
    BY <1>1, <1>6
  <2>2. n + 1 \in 1 .. N /\ (n + 1) - 1 = n /\ n + 1 \in 0 .. N /\ n + 1 # 0
    BY <1>1
  <2>3. f[n + 1] = AddBlock(pts, f[n], n + 1)
    BY <1>4, <2>2
  <2> HIDE DEF N
  <2> QED
    BY <2>1, <2>2, <2>3, AddBlockKeeps DEF T, W, N
<1> HIDE DEF S
<1>7. Nat \subseteq S
  BY <1>5, <1>6, Induction
<1> QED
  BY <1>1, <1>3, <1>7 DEF S, T, W

-----------------------------------------------------------------------------
(* The level of a point is the slope of the chord of its block.            *)

\* The block a point is in.
LEMMA BlockOf ==
  ASSUME NEW N \in Nat, NEW ends \in SUBSET (0 .. N), 0 \in ends, N \in ends, NEW i \in 1 .. N
  PROVE  LET p == Before(ends, i)  q == Min({b \in ends : b >= i}) IN
         /\ p \in ends /\ q \in ends /\ p < i /\ i <= q /\ p = Before(ends, q)
         /\ \A b \in ends : b <= p \/ q <= b
<1> DEFINE p == Before(ends, i)
           S == {b \in ends : b >= i}
           q == Min(S)
           z == Before(ends, q)
<1>1. \A b \in ends : b \in Nat /\ b <= N
  <2>1. \A b \in 0 .. N : b \in Nat /\ b <= N
    OBVIOUS
  <2> QED
    BY <2>1
<1>2. i \in Nat \ {0}
  OBVIOUS
<1>3. p \in ends /\ p < i /\ \A b \in ends : b < i => b <= p
  BY <1>2, BeforeIs, Zenon
<1>4. q \in ends /\ i <= q /\ \A b \in S : q <= b
  <2>1. S \in SUBSET Nat /\ N \in S
    <3>1. N >= i
      OBVIOUS
    <3> QED
      BY <1>1, <3>1
  <2>2. q \in S /\ \A b \in S : q <= b
    <3> HIDE DEF S
    <3> QED
      BY <2>1, MinIsLeast
  <2> QED
    BY <2>2
<1> HIDE DEF p, q
<1>5. p \in Nat /\ q \in Nat \ {0} /\ p < q
  BY <1>1, <1>2, <1>3, <1>4
<1>6. \A b \in ends : b <= p \/ q <= b
  <2> SUFFICES ASSUME NEW b \in ends, ~(b <= p) PROVE q <= b
    BY <1>1
  <2>1. ~(b < i)
    BY <1>3
  <2>2. b \in S
    BY <1>1, <2>1
  <2> HIDE DEF S
  <2> QED
    BY <1>4, <2>2
<1>7. z \in ends /\ z < q /\ \A b \in ends : b < q => b <= z
  BY <1>5, BeforeIs, Zenon
<1>8. p = z
  <2> HIDE DEF z
  <2>1. z \in Nat /\ p <= z /\ ~(q <= z)
    BY <1>1, <1>3, <1>5, <1>7
  <2> QED
    BY <1>5, <1>6, <1>7, <2>1
<1> QED
  BY <1>3, <1>4, <1>6, <1>8 DEF p, q

\* What is known of the chord of point i: its ends p and q.
IsChord(pts, i, p, q) ==
  /\ p \in 0 .. Len(pts) /\ q \in 0 .. Len(pts) /\ p < i /\ i <= q
  /\ p \in Blocks(pts) /\ q \in Blocks(pts) /\ \A b \in Blocks(pts) : b <= p \/ q <= b
  /\ Over(Total(pts), Weight(pts), Len(pts), p, q)
  /\ Level(pts, Blocks(pts), i) =
       <<Total(pts)[q] - Total(pts)[p], Weight(pts)[q] - Weight(pts)[p]>>

LEMMA ChordOf ==
  ASSUME NEW pts \in Curves, NEW i \in 1 .. Len(pts) PROVE \E p, q \in Nat : IsChord(pts, i, p, q)
<1> DEFINE ends == Blocks(pts)
           p == Before(ends, i)
           q == Min({b \in ends : b >= i})
<1>1. Len(pts) \in Nat
  BY DEF Curves
<1>2. IsEnds(Total(pts), Weight(pts), ends, Len(pts))
  BY BlocksRight
<1>3. ends \in SUBSET (0 .. Len(pts)) /\ 0 \in ends /\ Len(pts) \in ends
  BY <1>2 DEF IsEnds
<1>4. Level(pts, ends, i) = <<Total(pts)[q] - Total(pts)[p], Weight(pts)[q] - Weight(pts)[p]>>
  BY DEF Level, Mean
<1> HIDE DEF ends
<1>5. /\ p \in ends /\ q \in ends /\ p < i /\ i <= q /\ p = Before(ends, q)
      /\ \A b \in ends : b <= p \/ q <= b
  BY <1>1, <1>3, BlockOf
<1> HIDE DEF p, q
<1>6. p \in Nat /\ q \in Nat \ {0} /\ p \in 0 .. Len(pts) /\ q \in 0 .. Len(pts)
  BY <1>1, <1>3, <1>5
<1>7. Over(Total(pts), Weight(pts), Len(pts), p, q)
  BY <1>2, <1>5, <1>6 DEF IsEnds
<1> QED
  BY <1>4, <1>5, <1>6, <1>7 DEF IsChord, ends

LEMMA ChordValues ==
  ASSUME NEW pts \in Curves, NEW i \in 1 .. Len(pts),
         NEW p \in Nat, NEW q \in Nat, IsChord(pts, i, p, q)
  PROVE  LET T == Total(pts)  W == Weight(pts) IN
         /\ p \in 0 .. Len(pts) /\ q \in 0 .. Len(pts) /\ p < q
         /\ T[p] \in Nat /\ T[q] \in Nat /\ W[p] \in Nat /\ W[q] \in Nat
         /\ W[p] < W[q] /\ T[p] <= T[q]
<1>1. Len(pts) \in Nat /\ IsPath(Total(pts), Weight(pts), Len(pts))
  BY PathOfCurve
<1>2. p \in 0 .. Len(pts) /\ q \in 0 .. Len(pts) /\ p < i /\ i <= q
  BY DEF IsChord
<1>3. p < q
  BY <1>1, <1>2
<1> QED
  BY <1>1, <1>2, <1>3, PathValues, Zenon

LEMMA LevelsAreFractions ==
  ASSUME NEW pts \in Curves, NEW i \in 1 .. Len(pts)
  PROVE  Level(pts, Blocks(pts), i) \in Fractions
<1>1. PICK p, q \in Nat : IsChord(pts, i, p, q)
  BY ChordOf
<1>2. /\ Total(pts)[p] \in Nat /\ Total(pts)[q] \in Nat /\ Total(pts)[p] <= Total(pts)[q]
      /\ Weight(pts)[p] \in Nat /\ Weight(pts)[q] \in Nat /\ Weight(pts)[p] < Weight(pts)[q]
  BY <1>1, ChordValues, Zenon
<1>3. Level(pts, Blocks(pts), i) =
        <<Total(pts)[q] - Total(pts)[p], Weight(pts)[q] - Weight(pts)[p]>>
  BY <1>1 DEF IsChord
<1>4. Total(pts)[q] - Total(pts)[p] \in Nat /\ Weight(pts)[q] - Weight(pts)[p] \in Nat \ {0}
  BY <1>2
<1> QED
  BY <1>3, <1>4 DEF Fractions

\* The pooled curve does not fall.
LEMMA LevelsRise ==
  ASSUME NEW pts \in Curves, NEW i \in 1 .. Len(pts), NEW j \in 1 .. Len(pts), i <= j
  PROVE  AtMost(Level(pts, Blocks(pts), i), Level(pts, Blocks(pts), j))
<1> DEFINE N == Len(pts)
           T == Total(pts)
           W == Weight(pts)
<1>1. N \in Nat /\ IsPath(T, W, N)
  BY PathOfCurve
<1>2. PICK p, q \in Nat : IsChord(pts, i, p, q)
  BY ChordOf
<1>3. PICK b, e \in Nat : IsChord(pts, j, b, e)
  BY ChordOf
<1>4. /\ p \in 0 .. N /\ q \in 0 .. N /\ p < q /\ b \in 0 .. N /\ e \in 0 .. N /\ b < e
      /\ T[p] \in Nat /\ T[q] \in Nat /\ W[p] \in Nat /\ W[q] \in Nat
  BY <1>2, <1>3, ChordValues, Zenon
<1>5. /\ Over(T, W, N, p, q) /\ Over(T, W, N, b, e)
      /\ Level(pts, Blocks(pts), i) = <<T[q] - T[p], W[q] - W[p]>>
      /\ Level(pts, Blocks(pts), j) = <<T[e] - T[b], W[e] - W[b]>>
  BY <1>2, <1>3 DEF IsChord
<1>6. /\ p < i /\ i <= q /\ b < j /\ j <= e
      /\ (b <= p \/ q <= b) /\ (e <= p \/ q <= e)  /\ (p <= b \/ e <= p) /\ (q <= b \/ e <= q)
  BY <1>2, <1>3 DEF IsChord
<1> HIDE DEF N, T, W
<1>7. (p = b /\ q = e) \/ q <= b
  BY <1>4, <1>6
<1>8. CASE q <= b
  <2>1. N \in 0 .. N
    BY <1>1
  <2>2. (T[q] - T[p]) * (W[e] - W[b]) <= (T[e] - T[b]) * (W[q] - W[p])
    BY <1>1, <1>4, <1>5, <1>8, <2>1, LaterIsSteeper, Zenon
  <2> QED
    BY <1>5, <2>2 DEF AtMost
<1>9. CASE p = b /\ q = e
  <2>1. (T[q] - T[p]) * (W[q] - W[p]) \in Int
    BY <1>4
  <2> QED
    BY <1>5, <1>9, <2>1 DEF AtMost
<1> QED
  BY <1>7, <1>8, <1>9

-----------------------------------------------------------------------------
(* The levels are the isotonic regression.                                 *)

IsFraction(x) == x[1] \in Int /\ x[2] \in Nat \ {0}

LEMMA AtMostTransitive ==
  ASSUME NEW x, NEW y, NEW z, IsFraction(x), IsFraction(y), IsFraction(z),
         AtMost(x, y), AtMost(y, z)
  PROVE  AtMost(x, z)
<1>1. /\ x[1] \in Int /\ y[1] \in Int /\ z[1] \in Int
      /\ x[2] \in Nat /\ y[2] \in Nat \ {0} /\ z[2] \in Nat
  <2>1. \A u : IsFraction(u) => u[1] \in Int /\ u[2] \in Nat \ {0} /\ u[2] \in Nat
    BY DEF IsFraction
  <2> QED
    BY <2>1, Zenon
<1>2. x[1] * y[2] <= y[1] * x[2] /\ y[1] * z[2] <= z[1] * y[2]
  BY Zenon DEF AtMost
<1> DEFINE X == x[1]
           a == x[2]
           Y == y[1]
           b == y[2]
           Z == z[1]
           c == z[2]
<1>3. /\ X \in Int /\ Y \in Int /\ Z \in Int /\ a \in Nat /\ b \in Nat \ {0} /\ c \in Nat
      /\ X * b <= Y * a /\ Y * c <= Z * b
  BY <1>1, <1>2, Zenon
<1>4. X * c <= Z * a => AtMost(x, z)
  BY Zenon DEF AtMost
<1> HIDE DEF X, a, Y, b, Z, c
<1>5. X * c <= Z * a
  BY <1>3, FractionsOrder
<1> QED
  BY <1>4, <1>5

\* The runs that begin at a and end at k or later.
LEMMA MeanIs ==
  ASSUME NEW pts \in Curves, NEW p \in 0 .. Len(pts), NEW q \in 0 .. Len(pts), p < q
  PROVE  IsFraction(Mean(pts, p, q))
<1> DEFINE T == Total(pts)
           W == Weight(pts)
<1>1. Len(pts) \in Nat /\ IsPath(T, W, Len(pts))
  BY PathOfCurve
<1>2. Mean(pts, p, q) = <<T[q] - T[p], W[q] - W[p]>>
  BY DEF Mean
<1> HIDE DEF T, W
<1>3. T[p] \in Nat /\ T[q] \in Nat /\ W[p] \in Nat /\ W[q] \in Nat /\ W[p] < W[q] /\ T[p] <= T[q]
  BY <1>1, PathValues, Zenon
<1>4. T[q] - T[p] \in Nat /\ W[q] - W[p] \in Nat \ {0}
  BY <1>3
<1> QED
  BY <1>2, <1>4 DEF IsFraction

\* One of them has the lowest mean.
LEMMA LowestMean ==
  ASSUME NEW pts \in Curves, NEW k \in 1 .. Len(pts), NEW a \in 1 .. k
  PROVE  \E l \in k .. Len(pts) :
           \A b \in k .. Len(pts) : AtMost(Mean(pts, a - 1, l), Mean(pts, a - 1, b))
<1> DEFINE N == Len(pts)
           m(b) == Mean(pts, a - 1, b)
           IsLowest(l, n) == \A b \in k .. n : AtMost(m(l), m(b))
           S == {n \in Nat : n \in k .. N => \E l \in k .. n : IsLowest(l, n)}
<1>1. N \in Nat /\ k \in Nat \ {0} /\ k <= N /\ a - 1 \in 0 .. N /\ a - 1 < k
  BY DEF Curves
<1>2. \A b \in k .. N : IsFraction(m(b))
  <2> TAKE b \in k .. N
  <2>1. b \in 0 .. N /\ a - 1 < b
    BY <1>1
  <2> QED
    BY <1>1, <2>1, MeanIs
<1>3. \A b \in k .. N : AtMost(m(b), m(b))
  <2> TAKE b \in k .. N
  <2>1. \A x : IsFraction(x) => AtMost(x, x)
    BY DEF IsFraction, AtMost
  <2> QED
    BY <1>2, <2>1
<1>4. \A b, c, d \in k .. N : AtMost(m(b), m(c)) /\ AtMost(m(c), m(d)) => AtMost(m(b), m(d))
  <2> TAKE b, c, d \in k .. N
  <2>1. IsFraction(m(b)) /\ IsFraction(m(c)) /\ IsFraction(m(d))
    BY <1>2
  <2> QED
    BY <2>1, AtMostTransitive, Zenon
<1>5. \A b, c \in k .. N : AtMost(m(b), m(c)) \/ AtMost(m(c), m(b))
  <2> TAKE b, c \in k .. N
  <2>1. \A x, y : IsFraction(x) /\ IsFraction(y) => AtMost(x, y) \/ AtMost(y, x)
    BY DEF IsFraction, AtMost
  <2> QED
    BY <1>2, <2>1
<1> HIDE DEF m, N
<1>6. 0 \in S
  BY <1>1
<1>7. ASSUME NEW n \in Nat, n \in S PROVE n + 1 \in S
  <2> SUFFICES ASSUME n + 1 \in k .. N PROVE \E l \in k .. n + 1 : IsLowest(l, n + 1)
    OBVIOUS
  <2>1. CASE n + 1 = k
    <3>1. \A b \in k .. n + 1 : b = n + 1
      BY <1>1, <2>1
    <3>2. IsLowest(n + 1, n + 1)
      BY <1>3, <3>1
    <3>3. n + 1 \in k .. n + 1
      BY <1>1, <2>1
    <3> QED
      BY <3>2, <3>3
  <2>2. CASE n + 1 # k
    <3>1. n \in k .. N
      BY <1>1, <2>2
    <3>2. PICK l \in k .. n : IsLowest(l, n)
      BY <1>7, <3>1
    <3>3. /\ l \in k .. N /\ l \in k .. n + 1 /\ n + 1 \in k .. n + 1
          /\ \A b \in k .. n + 1 : b \in k .. N /\ (b \in k .. n \/ b = n + 1)
      BY <1>1, <3>1, <3>2
    <3>4. CASE AtMost(m(l), m(n + 1))
      <4>1. IsLowest(l, n + 1)
        BY <3>2, <3>3, <3>4
      <4> QED
        BY <3>3, <4>1
    <3>5. CASE AtMost(m(n + 1), m(l))
      <4>1. IsLowest(n + 1, n + 1)
        <5>1. ASSUME NEW b \in k .. n + 1 PROVE AtMost(m(n + 1), m(b))
          <6>1. CASE b = n + 1
            BY <1>3, <6>1
          <6>2. CASE b \in k .. n
            BY <1>4, <3>2, <3>3, <3>5, <6>2
          <6> QED
            BY <3>3, <6>1, <6>2
        <5> QED
          BY <5>1
      <4> QED
        BY <3>3, <4>1
    <3> QED
      BY <1>5, <3>3, <3>4, <3>5
  <2> QED
    BY <2>1, <2>2
<1> HIDE DEF S
<1>8. Nat \subseteq S
  BY <1>6, <1>7, Induction
<1>9. N \in S /\ N \in k .. N
  BY <1>1, <1>8
<1>10. \E l \in k .. N : IsLowest(l, N)
  BY <1>9 DEF S
<1> QED
  BY <1>10 DEF m, N

\* The mean of a run that ends with a block is at most the block's level, if it
\* begins before the block.
LEMMA RunIntoBlock ==
  ASSUME NEW pts \in Curves, NEW k \in 1 .. Len(pts), NEW p \in Nat, NEW q \in Nat,
         IsChord(pts, k, p, q), NEW a \in 0 .. k - 1
  PROVE  AtMost(Mean(pts, a, q), Mean(pts, p, q))
<1> DEFINE T == Total(pts)
           W == Weight(pts)
           A == T[q] - T[p]
           d == W[q] - W[p]
           X == T[a] - T[p]
           x == W[a] - W[p]
<1>1. Len(pts) \in Nat /\ IsPath(T, W, Len(pts))
  BY PathOfCurve
<1>2. a \in 0 .. Len(pts) /\ p \in 0 .. Len(pts) /\ q \in 0 .. Len(pts)
  BY <1>1 DEF IsChord
<1>3. A * x <= X * d
  BY <1>2 DEF IsChord, Over
<1>4. /\ Mean(pts, a, q) = <<T[q] - T[a], W[q] - W[a]>>
      /\ Mean(pts, p, q) = <<A, d>>
  BY DEF Mean
<1> HIDE DEF T, W
<1>5. /\ T[a] \in Nat /\ T[p] \in Nat /\ T[q] \in Nat
      /\ W[a] \in Nat /\ W[p] \in Nat /\ W[q] \in Nat
  BY <1>1, <1>2, PathValues, Zenon
<1>6. /\ A \in Int /\ d \in Int /\ X \in Int /\ x \in Int
      /\ T[q] - T[a] = A - X /\ W[q] - W[a] = d - x
  <2>1. \A r, s, t \in Nat : r - s \in Int /\ t - s = (t - r) - (s - r)
    OBVIOUS
  <2> QED
    BY <1>5, <2>1, Zenon
<1> HIDE DEF A, d, X, x
<1>7. (A - X) * d <= A * (d - x)
  <2>1. (A - X) * d = A * d - X * d /\ A * (d - x) = A * d - A * x
    BY <1>6
  <2> QED
    BY <1>3, <1>6, <2>1
<1>8. AtMost(<<A - X, d - x>>, <<A, d>>)
  BY <1>7 DEF AtMost
<1>9. Mean(pts, a, q) = <<A - X, d - x>>
  BY <1>4, <1>6
<1> QED
  BY <1>4, <1>8, <1>9

LEMMA PoolingComputesIt ==
  ASSUME points \in Curves PROVE PoolingIsIsotonic
<1> DEFINE N == Len(points)
           c == Pooled(points)
           M(a, b) == Mean(points, a - 1, b)
           LowestFrom(a, k) == CHOOSE m \in {M(a, b) : b \in k .. N} :
                                 \A b \in k .. N : AtMost(m, M(a, b))
<1> SUFFICES ASSUME NEW k \in DOMAIN points
             PROVE  /\ \A a \in 1 .. k : AtMost(LowestFrom(a, k), c[k].level)
                    /\ \E a \in 1 .. k : SameFraction(LowestFrom(a, k), c[k].level)
  BY DEF PoolingIsIsotonic
<1>1. N \in Nat /\ k \in 1 .. N
  BY DEF Curves
<1>2. PICK p, q \in Nat : IsChord(points, k, p, q)
  BY <1>1, ChordOf
<1>3. /\ p \in 0 .. N /\ q \in 0 .. N /\ p < k /\ k <= q
      /\ Over(Total(points), Weight(points), N, p, q)
  BY <1>2 DEF IsChord
<1>4. c[k].level = Mean(points, p, q)
  <2>1. c[k].level = Level(points, Blocks(points), k)
    BY DEF Pooled
  <2>2. Level(points, Blocks(points), k) = Mean(points, p, q)
    BY <1>2 DEF IsChord, Mean
  <2> QED
    BY <2>1, <2>2
<1>5. q \in k .. N
  BY <1>1, <1>3
<1>6. ASSUME NEW a \in 1 .. k
      PROVE  /\ \E b \in k .. N : LowestFrom(a, k) = M(a, b)
             /\ \A b \in k .. N : AtMost(LowestFrom(a, k), M(a, b))
  <2>1. PICK l \in k .. N : \A b \in k .. N : AtMost(M(a, l), M(a, b))
    BY <1>1, LowestMean
  <2>2. \E m \in {M(a, b) : b \in k .. N} : \A b \in k .. N : AtMost(m, M(a, b))
    BY <2>1
  <2>3. /\ LowestFrom(a, k) \in {M(a, b) : b \in k .. N}
        /\ \A b \in k .. N : AtMost(LowestFrom(a, k), M(a, b))
    <3> HIDE DEF M
    <3> QED
      BY <2>2
  <2> QED
    BY <2>3
<1> HIDE DEF c, LowestFrom
<1>7. ASSUME NEW a \in 1 .. k PROVE AtMost(LowestFrom(a, k), c[k].level)
  <2>1. PICK b \in k .. N : LowestFrom(a, k) = M(a, b)
    BY <1>6
  <2>2. /\ a - 1 \in 0 .. N /\ a - 1 \in 0 .. k - 1 /\ b \in 0 .. N /\ a - 1 < b /\ a - 1 < q /\ p < q
    BY <1>1, <1>3
  <2>3. IsFraction(M(a, b)) /\ IsFraction(M(a, q)) /\ IsFraction(Mean(points, p, q))
    BY <1>3, <2>2, MeanIs
  <2>4. AtMost(M(a, b), M(a, q))
    BY <1>5, <1>6, <2>1
  <2>5. AtMost(M(a, q), Mean(points, p, q))
    BY <1>1, <1>2, <2>2, RunIntoBlock
  <2> HIDE DEF M
  <2> QED
    BY <1>4, <2>1, <2>3, <2>4, <2>5, AtMostTransitive
<1>8. \E a \in 1 .. k : SameFraction(LowestFrom(a, k), c[k].level)
  <2> DEFINE a == p + 1
  <2>1. a \in 1 .. k /\ a - 1 = p
    BY <1>1, <1>3
  <2>2. PICK b \in k .. N : LowestFrom(a, k) = Mean(points, p, b)
    BY <1>6, <2>1
  <2>3. AtMost(Mean(points, p, b), Mean(points, p, q))
    BY <1>4, <1>7, <2>1, <2>2
  <2>4. AtMost(Mean(points, p, q), Mean(points, p, b))
    <3>1. b \in 0 .. N
      BY <1>1
    <3> QED
      BY <1>3, <3>1 DEF Over, AtMost, Mean
  <2>5. IsFraction(Mean(points, p, b)) /\ IsFraction(Mean(points, p, q))
    <3>1. b \in 0 .. N /\ p < b /\ p < q
      BY <1>1, <1>3
    <3> QED
      BY <1>3, <3>1, MeanIs
  <2>6. \A x, y : IsFraction(x) /\ IsFraction(y) /\ AtMost(x, y) /\ AtMost(y, x) => SameFraction(x, y)
    BY DEF IsFraction, AtMost, SameFraction
  <2>7. SameFraction(LowestFrom(a, k), c[k].level)
    BY <1>4, <2>2, <2>3, <2>4, <2>5, <2>6
  <2> QED
    BY <2>1, <2>7
<1> QED
  BY <1>7, <1>8

-----------------------------------------------------------------------------
(* A line between two points of the curve, (x, a/b) and (y, c/d).          *)

\* At a power above the first point and not above the second.
LEMMA WithinLine ==
  ASSUME NEW x \in Int, NEW y \in Int, NEW a \in Int, NEW c \in Int,
         NEW b \in Nat \ {0}, NEW d \in Nat \ {0}, NEW t \in Int,
         x < y, a < t * b, t * d <= c
  PROVE  LET w == c * b - a * d
             u == x * w + (t * b - a) * d * (y - x)
         IN  /\ w \in Nat \ {0} /\ u \in Int /\ x * w < u /\ u <= y * w
             /\ y * w <= u => t * d = c
             /\ a * d * ((y - x) * w) + (u - x * w) * w = t * (b * d * ((y - x) * w))
<1> DEFINE w == c * b - a * d
           u == x * w + (t * b - a) * d * (y - x)
           e == t * b - a
           f == c - t * d
           g == y - x
<1>1. e \in Nat \ {0} /\ f \in Nat /\ g \in Nat \ {0} /\ w \in Int /\ u \in Int
  OBVIOUS
<1>2. w = f * b + e * d
  OBVIOUS
<1>3. e * d \in Nat \ {0} /\ f * b \in Nat
  <2>1. \A i, j \in Nat \ {0} : i * j \in Nat \ {0}
    OBVIOUS
  <2>2. \A i, j \in Nat : i * j \in Nat
    OBVIOUS
  <2> HIDE DEF e, f
  <2> QED
    BY <1>1, <2>1, <2>2
<1>4. u = x * w + (e * d) * g /\ y * w = x * w + g * w
  <2>1. y = x + g
    OBVIOUS
  <2> HIDE DEF g
  <2>2. (x + g) * w = x * w + g * w
    BY <1>1
  <2> QED
    BY <2>1, <2>2 DEF g
<1>5. a * d + e * d = t * (b * d)
  OBVIOUS
<1> DEFINE r == e * d
           s == f * b
<1>6. r \in Nat \ {0} /\ s \in Nat /\ w = s + r /\ u = x * w + r * g /\ a * d + r = t * (b * d)
  BY <1>2, <1>3, <1>4, <1>5
<1>7. s = 0 => f = 0
  <2>1. \A i \in Nat, j \in Nat \ {0} : i * j = 0 => i = 0
    OBVIOUS
  <2> HIDE DEF f
  <2> QED
    BY <1>1, <2>1
<1> HIDE DEF r, s, w, u, e
<1>8. r * g \in Nat \ {0} /\ s * g \in Nat
  <2>1. \A i, j \in Nat \ {0} : i * j \in Nat \ {0}
    OBVIOUS
  <2>2. \A i, j \in Nat : i * j \in Nat
    OBVIOUS
  <2> HIDE DEF g
  <2> QED
    BY <1>1, <1>6, <2>1, <2>2
<1>9. x * w < u
  BY <1>1, <1>6, <1>8
<1>10. g * w = s * g + r * g
  <2> HIDE DEF g
  <2> QED
    BY <1>1, <1>6
<1>11. y * w = u + s * g
  BY <1>1, <1>4, <1>6, <1>8, <1>10
<1>12. u <= y * w
  BY <1>1, <1>8, <1>11
<1>13. y * w <= u => t * d = c
  <2> SUFFICES ASSUME y * w <= u PROVE t * d = c
    OBVIOUS
  <2>1. s * g = 0
    BY <1>1, <1>8, <1>11
  <2>2. \A i \in Nat, j \in Nat \ {0} : i * j = 0 => i = 0
    OBVIOUS
  <2>3. s = 0
    <3> HIDE DEF g
    <3> QED
      BY <1>1, <1>6, <2>1, <2>2
  <2>4. f = 0
    BY <1>7, <2>3
  <2> QED
    BY <2>4
<1>14. a * d * (g * w) + (u - x * w) * w = t * (b * d * (g * w))
  <2> DEFINE k == a * d
             l == b * d
             z == g * w
             h == x * w
  <2>1. k \in Int /\ l \in Int /\ z \in Int /\ h \in Int
    BY <1>1
  <2>2. k + r = t * l /\ u = h + r * g
    BY <1>6
  <2>3. z = g * w
    OBVIOUS
  <2> HIDE DEF k, l, z, h, g
  <2>4. (u - h) * w = r * z
    <3>1. u - h = r * g
      BY <1>1, <1>6, <2>1, <2>2
    <3>2. (r * g) * w = r * (g * w)
      BY <1>1, <1>6
    <3> QED
      BY <2>3, <3>1, <3>2
  <2>5. k * z + r * z = t * (l * z)
    <3>1. k * z + r * z = (k + r) * z /\ t * (l * z) = (t * l) * z
      BY <1>6, <2>1
    <3> QED
      BY <2>2, <3>1
  <2> QED
    BY <2>4, <2>5 DEF k, l, z, h
<1> QED
  BY <1>1, <1>6, <1>9, <1>12, <1>13, <1>14 DEF w, u, g

\* At a power that is not below the second point.
LEMMA BeyondLine ==
  ASSUME NEW x \in Int, NEW y \in Int, NEW a \in Int, NEW c \in Int,
         NEW b \in Nat \ {0}, NEW d \in Nat \ {0}, NEW t \in Int,
         x <= y, ~(c * b <= a * d), c <= t * d
  PROVE  LET w == c * b - a * d
             u == x * w + (t * b - a) * d * (y - x)
         IN  w \in Nat \ {0} /\ u \in Int /\ y * w <= u
<1> DEFINE w == c * b - a * d
           u == x * w + (t * b - a) * d * (y - x)
           g == y - x
           r == (t * b - a) * d
           f == t * d - c
<1>1. /\ w \in Nat \ {0} /\ u \in Int /\ g \in Nat /\ r \in Int /\ f \in Nat
      /\ r - w = f * b /\ u = x * w + r * g /\ y = x + g
  OBVIOUS
<1> HIDE DEF w, u, g, r, f
<1>2. f * b \in Nat
  <2>1. \A i, j \in Nat : i * j \in Nat
    OBVIOUS
  <2> QED
    BY <1>1, <2>1
<1>3. g * w <= g * r
  <2>1. w <= r
    BY <1>1, <1>2
  <2> QED
    BY <1>1, <2>1, Scale
<1>4. (x + g) * w = x * w + g * w /\ g * r = r * g
  BY <1>1
<1>5. y * w <= u
  BY <1>1, <1>3, <1>4
<1> QED
  BY <1>1, <1>5 DEF w, u

\* More power, more voltage.
LEMMA LineRises ==
  ASSUME NEW x \in Int, NEW g \in Nat, NEW a \in Int, NEW w \in Nat,
         NEW b \in Nat, NEW d \in Nat, NEW t \in Int, NEW s \in Int, t <= s
  PROVE  (x * w + (t * b - a) * d * g) * w <= (x * w + (s * b - a) * d * g) * w
<1>1. t * b <= s * b
  <2>1. b * t <= b * s
    BY Scale
  <2> QED
    BY <2>1
<1> DEFINE m == t * b - a
           n == s * b - a
           h == x * w
<1>2. m \in Int /\ n \in Int /\ h \in Int /\ m <= n
  BY <1>1
<1> HIDE DEF m, n, h
<1>3. (d * g) * m <= (d * g) * n
  <2>1. d * g \in Nat
    OBVIOUS
  <2> QED
    BY <1>2, <2>1, Scale
<1>4. m * d * g = (d * g) * m /\ n * d * g = (d * g) * n
  BY <1>2
<1> DEFINE p == h + m * d * g
           q == h + n * d * g
<1>5. p \in Int /\ q \in Int /\ p <= q
  BY <1>2, <1>3, <1>4
<1> HIDE DEF p, q
<1>6. w * p <= w * q
  BY <1>5, Scale
<1>7. p * w <= q * w
  BY <1>5, <1>6
<1> QED
  BY <1>7 DEF p, q, m, n, h

-----------------------------------------------------------------------------
(* The lookups on a curve that rises.                                      *)

IsPoint(p) == p.voltage \in Nat /\ p.level[1] \in Nat /\ p.level[2] \in Nat \ {0}

IsPooled(c) ==
  /\ Len(c) \in Nat /\ Len(c) >= 2 /\ DOMAIN c = 1 .. Len(c)
  /\ \A i \in 1 .. Len(c) : IsPoint(c[i]) /\ c[i].voltage <= MaxVoltage
  /\ \A i, j \in 1 .. Len(c) : i < j => c[i].voltage < c[j].voltage
  /\ \A i, j \in 1 .. Len(c) : i <= j => AtMost(c[i].level, c[j].level)
  /\ c[1].voltage = 0 => c[1].level[1] = 0

\* An AtMost or SameFraction of explicit numbers is a fact of arithmetic.
LEMMA Explicit ==
  /\ \A r, s, u, v \in Int : AtMost(<<r, s>>, <<u, v>>) <=> r * v <= u * s
  /\ \A r, s, u, v \in Int : SameFraction(<<r, s>>, <<u, v>>) <=> r * v = u * s
  /\ \A r, s \in Int : \A x : AtMost(<<r, s>>, x) <=> r * x[2] <= x[1] * s
  /\ \A r, s \in Int : \A x : AtMost(x, <<r, s>>) <=> x[1] * s <= r * x[2]
  /\ \A r, s \in Int : \A x : SameFraction(x, <<r, s>>) <=> x[1] * s = r * x[2]
  /\ \A r \in Int, s \in Nat \ {0} : IsFraction(<<r, s>>)
  BY DEF AtMost, SameFraction, IsFraction

LEMMA BetweenPoints ==
  ASSUME NEW p, NEW q, IsPoint(p), IsPoint(q), p.voltage < q.voltage, NEW t \in Nat,
         ~AtMost(<<t, 1>>, p.level), AtMost(<<t, 1>>, q.level)
  PROVE  LET v == VoltageBetween(p, q, t) IN
         /\ IsFraction(v) /\ ~AtMost(v, <<p.voltage, 1>>) /\ AtMost(v, <<q.voltage, 1>>)
         /\ AtMost(<<q.voltage, 1>>, v) => SameFraction(q.level, <<t, 1>>)
         /\ SameFraction(PowerBetween(p, q, v), <<t, 1>>)
<1> DEFINE x == p.voltage
           y == q.voltage
           a == p.level[1]
           b == p.level[2]
           c == q.level[1]
           d == q.level[2]
           w == c * b - a * d
           u == x * w + (t * b - a) * d * (y - x)
<1>1. /\ x \in Int /\ y \in Int /\ a \in Int /\ c \in Int /\ b \in Nat \ {0} /\ d \in Nat \ {0}
      /\ t \in Int /\ x < y
  BY DEF IsPoint
<1>2. ~(t * b <= a * 1) /\ t * d <= c * 1
  <2>1. t \in Int /\ 1 \in Int
    OBVIOUS
  <2> QED
    BY <2>1, Explicit, Zenon
<1>3. VoltageBetween(p, q, t) = <<u, w>>
  BY DEF VoltageBetween
<1>4. PowerBetween(p, q, <<u, w>>) =
        <<a * d * ((y - x) * w) + (u - x * w) * w, b * d * ((y - x) * w)>>
  BY DEF PowerBetween
<1>5. SameFraction(q.level, <<t, 1>>) <=> c * 1 = t * d
  BY DEF SameFraction
<1> HIDE DEF x, y, a, b, c, d
<1>6. a < t * b /\ t * d <= c
  BY <1>1, <1>2
<1>7. /\ w \in Nat \ {0} /\ u \in Int /\ x * w < u /\ u <= y * w
      /\ y * w <= u => t * d = c
      /\ a * d * ((y - x) * w) + (u - x * w) * w = t * (b * d * ((y - x) * w))
  BY <1>1, <1>6, WithinLine
<1> DEFINE m == a * d * ((y - x) * w) + (u - x * w) * w
           n == b * d * ((y - x) * w)
<1> HIDE DEF w, u
<1>8. m \in Int /\ n \in Int /\ m = t * n
  BY <1>1, <1>7
<1>9. w \in Int /\ 1 \in Int
  BY <1>7
<1>10. IsFraction(<<u, w>>)
  BY <1>7, Explicit, Zenon
<1>11. ~AtMost(<<u, w>>, <<x, 1>>) /\ AtMost(<<u, w>>, <<y, 1>>)
  <2>1. ~(u * 1 <= x * w) /\ u * 1 <= y * w
    BY <1>1, <1>7, <1>9
  <2> QED
    BY <1>1, <1>7, <1>9, <2>1, Explicit, Zenon
<1>12. AtMost(<<y, 1>>, <<u, w>>) => c * 1 = t * d
  <2>1. AtMost(<<y, 1>>, <<u, w>>) <=> y * w <= u * 1
    BY <1>1, <1>7, <1>9, Explicit, Zenon
  <2>2. u * 1 = u /\ c * 1 = c
    BY <1>1, <1>7
  <2> QED
    BY <1>7, <2>1, <2>2
<1>13. SameFraction(<<m, n>>, <<t, 1>>)
  <2> HIDE DEF m, n
  <2>1. m * 1 = t * n
    BY <1>8
  <2> QED
    BY <1>1, <1>8, <1>9, <2>1, Explicit, Zenon
<1>14. PowerBetween(p, q, <<u, w>>) = <<m, n>>
  BY <1>4
<1> HIDE DEF m, n
<1> QED
  BY <1>3, <1>5, <1>10, <1>11, <1>12, <1>13, <1>14 DEF x, y

\* Along one segment, more power takes more voltage.
LEMMA BetweenRises ==
  ASSUME NEW p, NEW q, IsPoint(p), IsPoint(q), p.voltage <= q.voltage,
         AtMost(p.level, q.level), NEW t \in Nat, NEW s \in Nat, t <= s
  PROVE  AtMost(VoltageBetween(p, q, t), VoltageBetween(p, q, s))
<1> DEFINE x == p.voltage
           y == q.voltage
           a == p.level[1]
           b == p.level[2]
           c == q.level[1]
           d == q.level[2]
           w == c * b - a * d
           g == y - x
           U(i) == x * w + (i * b - a) * d * g
<1>1. /\ x \in Int /\ y \in Int /\ a \in Int /\ c \in Int /\ b \in Nat /\ d \in Nat /\ g \in Nat
  BY DEF IsPoint
<1>2. a * d <= c * b
  BY Zenon DEF AtMost
<1>3. VoltageBetween(p, q, t) = <<U(t), w>> /\ VoltageBetween(p, q, s) = <<U(s), w>>
  BY DEF VoltageBetween
<1> HIDE DEF x, y, a, b, c, d, g
<1>4. w \in Nat /\ w \in Int
  BY <1>1, <1>2
<1> HIDE DEF w
<1>5. U(t) * w <= U(s) * w
  BY <1>1, <1>4, LineRises
<1>6. U(t) \in Int /\ U(s) \in Int
  BY <1>1, <1>4
<1> HIDE DEF U
<1>7. AtMost(<<U(t), w>>, <<U(s), w>>)
  BY <1>4, <1>5, <1>6, Explicit, Zenon
<1> QED
  BY <1>3, <1>7

LEMMA WholeNumbers ==
  \A k, l \in Int : IsFraction(<<k, 1>>) /\ (AtMost(<<k, 1>>, <<l, 1>>) <=> k <= l)
  BY DEF IsFraction, AtMost

LEMMA AtMostTotal ==
  \A x, y : IsFraction(x) /\ IsFraction(y) => AtMost(x, y) \/ AtMost(y, x)
  BY DEF IsFraction, AtMost

\* The first of the segments that ends within S.
LEMMA FirstSegment ==
  ASSUME NEW N \in Nat, NEW S \in SUBSET (1 .. N), N \in S, 1 \notin S
  PROVE  LET i == Min({k \in 1 .. N - 1 : k + 1 \in S}) IN
         /\ i \in 1 .. N - 1 /\ i + 1 \in S /\ \A k \in 1 .. i : k \notin S
<1> DEFINE D == {k \in 1 .. N - 1 : k + 1 \in S}
           i == Min(D)
<1>1. N # 1 /\ N \in 1 .. N
  OBVIOUS
<1>2. N - 1 \in 1 .. N - 1 /\ (N - 1) + 1 = N
  BY <1>1
<1>3. D \in SUBSET Nat /\ N - 1 \in D
  <2>1. \A k \in 1 .. N - 1 : k \in Nat
    OBVIOUS
  <2> QED
    BY <1>2, <2>1
<1>4. i \in D /\ \A k \in D : i <= k
  <2> HIDE DEF D
  <2> QED
    BY <1>3, MinIsLeast
<1> HIDE DEF i
<1>5. i \in 1 .. N - 1 /\ i + 1 \in S
  BY <1>4
<1>6. ASSUME NEW k \in 1 .. i, k \in S PROVE FALSE
  <2>1. k # 1
    BY <1>6
  <2>2. k - 1 \in 1 .. N - 1 /\ (k - 1) + 1 = k /\ ~(i <= k - 1)
    BY <1>5, <2>1
  <2>3. k - 1 \in D
    BY <1>6, <2>2
  <2> HIDE DEF D
  <2> QED
    BY <1>4, <2>2, <2>3
<1> QED
  BY <1>5, <1>6 DEF i

\* A voltage cannot lie on both sides of a part of the curve.
LEMMA NotBoth ==
  ASSUME NEW k \in Nat, NEW l \in Nat, k < l, NEW v, IsFraction(v)
  PROVE  ~(AtMost(v, <<k, 1>>) /\ AtMost(<<l, 1>>, v))
<1> SUFFICES ASSUME AtMost(v, <<k, 1>>), AtMost(<<l, 1>>, v) PROVE FALSE
  OBVIOUS
<1>1. k \in Int /\ l \in Int
  OBVIOUS
<1>2. IsFraction(<<k, 1>>) /\ IsFraction(<<l, 1>>) /\ (AtMost(<<l, 1>>, <<k, 1>>) <=> l <= k)
  BY <1>1, WholeNumbers, Zenon
<1>3. AtMost(<<l, 1>>, <<k, 1>>)
  BY <1>2, AtMostTransitive, Zenon
<1> QED
  BY <1>2, <1>3

LEMMA PowerBelow ==
  ASSUME NEW c, IsPooled(c), NEW v, IsFraction(v), AtMost(v, <<c[1].voltage, 1>>)
  PROVE  ExpectedPower(c, v) =
           IF c[1].voltage = 0 THEN <<0, 1>>
           ELSE <<c[1].level[1] * v[1], c[1].level[2] * c[1].voltage * v[2]>>
<1>1. 1 \in 1 .. Len(c) /\ Len(c) \in 1 .. Len(c) /\ 1 < Len(c)
  BY DEF IsPooled
<1>2. c[1].voltage \in Nat /\ Last(c).voltage \in Nat /\ c[1].voltage < Last(c).voltage
  BY <1>1 DEF IsPooled, IsPoint, Last
<1>3. ~AtMost(<<Last(c).voltage, 1>>, v)
  BY <1>2, NotBoth, Zenon
<1> QED
  BY <1>3 DEF ExpectedPower

LEMMA BelowRangeIs ==
  ASSUME NEW c, IsPooled(c), NEW t \in Nat, AtMost(<<t, 1>>, c[1].level)
  PROVE  LET v == BelowRange(c, t) IN
         /\ IsFraction(v) /\ AtMost(v, <<c[1].voltage, 1>>)
         /\ SameFraction(ExpectedPower(c, v), <<t, 1>>)
         /\ \A s \in Nat : s <= t => AtMost(BelowRange(c, s), v)
<1> DEFINE x == c[1].voltage
           n == c[1].level[1]
           d == c[1].level[2]
           v == BelowRange(c, t)
<1>1. 1 \in 1 .. Len(c)
  BY DEF IsPooled
<1>2. x \in Nat /\ n \in Nat /\ d \in Nat \ {0} /\ (x = 0 => n = 0)
  BY <1>1 DEF IsPooled, IsPoint
<1>3. t * d <= n * 1
  <2>1. t \in Int /\ 1 \in Int
    OBVIOUS
  <2> QED
    BY <2>1, Explicit, Zenon
<1>4. IsFraction(v) /\ AtMost(v, <<x, 1>>) =>
        ExpectedPower(c, v) = IF x = 0 THEN <<0, 1>> ELSE <<n * v[1], d * x * v[2]>>
  <2> HIDE DEF v
  <2> QED
    BY PowerBelow
<1>5. \A s : BelowRange(c, s) = IF n = 0 THEN <<x, 1>> ELSE <<x * s * d, n>>
  BY DEF BelowRange
<1> HIDE DEF x, n, d
<1>6. CASE n = 0
  <2>1. \A s : BelowRange(c, s) = <<x, 1>>
    BY <1>5, <1>6
  <2>2. t = 0
    <3>1. \A i \in Nat, j \in Nat \ {0} : i * j <= 0 => i = 0
      OBVIOUS
    <3> QED
      BY <1>2, <1>3, <1>6, <3>1
  <2>3. v = <<x, 1>>
    BY <2>1
  <2>4. x \in Int
    BY <1>2
  <2>5. IsFraction(v) /\ AtMost(v, <<x, 1>>)
    <3>1. IsFraction(<<x, 1>>) /\ (AtMost(<<x, 1>>, <<x, 1>>) <=> x <= x)
      BY <2>4, WholeNumbers, Zenon
    <3> QED
      BY <1>2, <2>3, <3>1
  <2>6. SameFraction(ExpectedPower(c, v), <<t, 1>>)
    <3>1. CASE x = 0
      <4>1. ExpectedPower(c, v) = <<0, 1>>
        BY <1>4, <2>5, <3>1
      <4> QED
        BY <2>2, <4>1 DEF SameFraction
    <3>2. CASE x # 0
      <4>1. ExpectedPower(c, v) = <<0 * x, d * x * 1>>
        BY <1>4, <1>6, <2>3, <2>5, <3>2
      <4>2. (0 * x) * 1 = 0 * (d * x * 1)
        BY <1>2
      <4>3. SameFraction(<<0 * x, d * x * 1>>, <<0, 1>>)
        BY <4>2 DEF SameFraction
      <4> QED
        BY <2>2, <4>1, <4>3
    <3> QED
      BY <3>1, <3>2
  <2>7. \A s \in Nat : AtMost(BelowRange(c, s), v)
    BY <2>1, <2>3, <2>5
  <2> HIDE DEF v
  <2> QED
    BY <2>5, <2>6, <2>7 DEF v, x
<1>7. CASE n # 0
  <2>1. \A s : BelowRange(c, s) = <<x * s * d, n>>
    BY <1>5, <1>7
  <2>2. v = <<x * t * d, n>> /\ x * t * d \in Nat /\ n \in Nat \ {0} /\ n \in Int /\ 1 \in Int
    BY <1>2, <1>7, <2>1
  <2>3. AtMost(v, <<x, 1>>)
    <3>1. (x * t * d) * 1 <= x * n
      <4>1. t * d \in Int /\ n \in Int /\ t * d <= n
        BY <1>2, <1>3
      <4>2. x * (t * d) <= x * n
        BY <1>2, <4>1, Scale
      <4>3. (x * t * d) * 1 = x * (t * d)
        BY <1>2
      <4> QED
        BY <4>2, <4>3
    <3>2. AtMost(<<x * t * d, n>>, <<x, 1>>)
      BY <3>1 DEF AtMost
    <3> QED
      BY <2>2, <3>2
  <2>4. IsFraction(v)
    BY <2>2 DEF IsFraction
  <2>5. SameFraction(ExpectedPower(c, v), <<t, 1>>)
    <3>1. ExpectedPower(c, v) = <<n * (x * t * d), d * x * n>>
      BY <1>2, <1>4, <1>7, <2>2, <2>3, <2>4
    <3>2. (n * (x * t * d)) * 1 = t * (d * x * n)
      BY <1>2
    <3>3. SameFraction(<<n * (x * t * d), d * x * n>>, <<t, 1>>)
      BY <3>2 DEF SameFraction
    <3> QED
      BY <3>1, <3>3
  <2>6. ASSUME NEW s \in Nat, s <= t PROVE AtMost(BelowRange(c, s), v)
    <3>1. (x * s * d) * n <= (x * t * d) * n
      <4>1. x * d * n \in Nat
        <5>1. \A i, j \in Nat : i * j \in Nat
          OBVIOUS
        <5> QED
          BY <1>2, <5>1
      <4>2. (x * d * n) * s <= (x * d * n) * t
        BY <2>6, <4>1, Scale
      <4>3. (x * s * d) * n = (x * d * n) * s /\ (x * t * d) * n = (x * d * n) * t
        BY <1>2
      <4> QED
        BY <4>2, <4>3
    <3>2. AtMost(<<x * s * d, n>>, <<x * t * d, n>>)
      BY <3>1 DEF AtMost
    <3> QED
      BY <2>1, <2>2, <3>2
  <2> HIDE DEF v
  <2> QED
    BY <2>3, <2>4, <2>5, <2>6 DEF v, x
<1> QED
  BY <1>6, <1>7

\* The base of the extrapolation is a point of the curve.
LEMMA BaseIs ==
  ASSUME NEW c, IsPooled(c)
  PROVE  \E i \in 1 .. Len(c) : BasePoint(c) = c[i]
<1> DEFINE S == {i \in DOMAIN c : i = 1 \/ c[i].voltage <= Last(c).voltage - Baseline}
<1>1. Len(c) \in Nat /\ DOMAIN c = 1 .. Len(c) /\ 1 \in 1 .. Len(c)
  BY DEF IsPooled
<1>2. S \in SUBSET Nat /\ 1 \in S /\ \A i \in S : i <= Len(c)
  <2>1. \A i \in 1 .. Len(c) : i \in Nat /\ i <= Len(c)
    BY <1>1
  <2> QED
    BY <1>1, <2>1
<1>3. Max(S) \in S
  <2> HIDE DEF S
  <2> QED
    BY <1>1, <1>2, MaxIsGreatest, Zenon
<1>4. BasePoint(c) = c[Max(S)]
  BY DEF BasePoint
<1> QED
  BY <1>1, <1>3, <1>4

\* Above the range of the curve the voltage is at least that of the last point
\* and at most what the DAC gives, and it rises with the power.
LEMMA ExtrapolatedIs ==
  ASSUME NEW c, IsPooled(c), NEW t \in Nat, AtMost(Last(c).level, <<t, 1>>)
  PROVE  LET v == Extrapolated(c, t) IN
         /\ IsFraction(v) /\ AtMost(<<Last(c).voltage, 1>>, v) /\ AtMost(v, <<MaxVoltage, 1>>)
         /\ \A s \in Nat : t <= s /\ AtMost(Last(c).level, <<s, 1>>) => AtMost(v, Extrapolated(c, s))
<1> DEFINE p == BasePoint(c)
           q == Last(c)
           y == q.voltage
           V(s) == VoltageBetween(p, q, s)
<1>1. MaxVoltage \in Int /\ MaxVoltage \in Nat
  BY VoltageAssumption
<1>2. IsPoint(p) /\ IsPoint(q) /\ p.voltage <= y /\ AtMost(p.level, q.level) /\ y <= MaxVoltage
  <2>1. PICK i \in 1 .. Len(c) : p = c[i]
    BY BaseIs
  <2>2. q = c[Len(c)] /\ Len(c) \in 1 .. Len(c) /\ Len(c) \in Nat
    BY DEF Last, IsPooled
  <2>3. i <= Len(c) /\ (i = Len(c) \/ i < Len(c))
    BY <2>2
  <2> HIDE DEF p, q
  <2>4. IsPoint(p) /\ IsPoint(q) /\ AtMost(p.level, q.level) /\ y <= MaxVoltage
    BY <2>1, <2>2, <2>3 DEF IsPooled
  <2>5. p.voltage <= y
    <3>1. y = c[Len(c)].voltage /\ p.voltage = c[i].voltage
      BY <2>1, <2>2
    <3>2. p.voltage \in Nat /\ y \in Nat
      BY <2>4 DEF IsPoint
    <3>3. i < Len(c) => p.voltage < y
      BY <2>2, <3>1, Zenon DEF IsPooled
    <3> HIDE DEF y
    <3>4. i = Len(c) => p.voltage = y
      BY <3>1
    <3> QED
      BY <2>3, <3>2, <3>3, <3>4
  <2> QED
    BY <2>4, <2>5
<1>3. p.voltage \in Int /\ y \in Int /\ y \in Nat
  BY <1>2 DEF IsPoint
<1>4. \A s : Extrapolated(c, s) =
               IF AtMost(q.level, p.level) THEN <<y, 1>>
               ELSE IF AtMost(V(s), <<MaxVoltage, 1>>) THEN V(s) ELSE <<MaxVoltage, 1>>
  BY DEF Extrapolated
<1>5. /\ IsFraction(<<y, 1>>) /\ AtMost(<<y, 1>>, <<y, 1>>) /\ AtMost(<<y, 1>>, <<MaxVoltage, 1>>)
      /\ IsFraction(<<MaxVoltage, 1>>) /\ AtMost(<<MaxVoltage, 1>>, <<MaxVoltage, 1>>)
  <2>1. y <= y /\ MaxVoltage <= MaxVoltage
    BY <1>1, <1>3
  <2> QED
    BY <1>1, <1>2, <1>3, <2>1, WholeNumbers, Zenon
<1>6. ASSUME NEW s \in Nat, AtMost(q.level, <<s, 1>>), ~AtMost(q.level, p.level)
      PROVE  IsFraction(V(s)) /\ AtMost(<<y, 1>>, V(s))
  <2> DEFINE x == p.voltage
             a == p.level[1]
             b == p.level[2]
             k == q.level[1]
             d == q.level[2]
             w == k * b - a * d
             u == x * w + (s * b - a) * d * (y - x)
  <2>1. a \in Int /\ b \in Nat \ {0} /\ k \in Int /\ d \in Nat \ {0} /\ x \in Int /\ y \in Int /\ x <= y
    BY <1>2, <1>3 DEF IsPoint
  <2>2. ~(k * b <= a * d)
    BY <1>6, Zenon DEF AtMost
  <2>3. k * 1 <= s * d
    <3>1. s \in Int /\ 1 \in Int
      OBVIOUS
    <3> QED
      BY <1>6, <3>1, Explicit, Zenon
  <2>4. V(s) = <<u, w>>
    BY DEF VoltageBetween
  <2> HIDE DEF x, y, a, b, k, d, V
  <2>5. k <= s * d
    BY <2>1, <2>3
  <2>6. w \in Nat \ {0} /\ u \in Int /\ y * w <= u
    BY <2>1, <2>2, <2>5, BeyondLine
  <2> HIDE DEF w, u
  <2>7. y * w <= u * 1 /\ w \in Int /\ 1 \in Int
    BY <2>6
  <2>8. IsFraction(<<u, w>>) /\ AtMost(<<y, 1>>, <<u, w>>)
    BY <2>1, <2>6, <2>7, Explicit, Zenon
  <2> QED
    BY <2>4, <2>8
<1>7. ASSUME NEW s \in Nat, t <= s PROVE AtMost(V(t), V(s))
  BY <1>2, <1>7, BetweenRises, Zenon
<1> DEFINE E(s) == Extrapolated(c, s)
<1> HIDE DEF p, q, y, V
<1>8. AtMost(q.level, <<t, 1>>)
  BY DEF q
<1>9. CASE AtMost(q.level, p.level)
  <2>1. \A s : E(s) = <<y, 1>>
    BY <1>4, <1>9
  <2> HIDE DEF E
  <2> QED
    BY <1>5, <2>1 DEF E, q, y
<1>10. CASE ~AtMost(q.level, p.level)
  <2>1. \A s : E(s) = IF AtMost(V(s), <<MaxVoltage, 1>>) THEN V(s) ELSE <<MaxVoltage, 1>>
    BY <1>4, <1>10
  <2> HIDE DEF E
  <2>2. IsFraction(E(t)) /\ AtMost(<<y, 1>>, E(t)) /\ AtMost(E(t), <<MaxVoltage, 1>>)
    BY <1>5, <1>6, <1>8, <1>10, <2>1
  <2>3. ASSUME NEW s \in Nat, t <= s, AtMost(q.level, <<s, 1>>) PROVE AtMost(E(t), E(s))
    <3>1. CASE AtMost(V(s), <<MaxVoltage, 1>>)
      <4>1. E(s) = V(s) /\ IsFraction(V(s)) /\ IsFraction(V(t)) /\ AtMost(V(t), V(s))
        BY <1>6, <1>7, <1>8, <1>10, <2>1, <2>3, <3>1
      <4>2. AtMost(V(t), <<MaxVoltage, 1>>)
        BY <1>5, <3>1, <4>1, AtMostTransitive, Zenon
      <4>3. E(t) = V(t)
        BY <2>1, <4>2
      <4> QED
        BY <4>1, <4>3
    <3>2. CASE ~AtMost(V(s), <<MaxVoltage, 1>>)
      <4>1. E(s) = <<MaxVoltage, 1>>
        BY <2>1, <3>2
      <4> QED
        BY <2>2, <4>1
    <3> QED
      BY <3>1, <3>2
  <2> QED
    BY <2>2, <2>3 DEF E, q, y
<1> QED
  BY <1>9, <1>10

\* Within its range the curve has a segment the power lies on, and another whose
\* voltages are those of the answer: it is the same.
LEMMA SegmentOf ==
  ASSUME NEW c, IsPooled(c), NEW t \in Nat,
         ~AtMost(<<t, 1>>, c[1].level), ~AtMost(Last(c).level, <<t, 1>>)
  PROVE  \E i \in 1 .. Len(c) - 1 :
           /\ VoltageForPower(c, t) = VoltageBetween(c[i], c[i + 1], t)
           /\ ~AtMost(<<t, 1>>, c[i].level) /\ AtMost(<<t, 1>>, c[i + 1].level)
<1> DEFINE N == Len(c)
           S == {k \in 1 .. N : AtMost(<<t, 1>>, c[k].level)}
           D == {k \in 1 .. N - 1 : AtMost(<<t, 1>>, c[k + 1].level)}
           i == Min(D)
<1>1. N \in Nat /\ N >= 2 /\ N \in 1 .. N /\ 1 \in 1 .. N
  BY DEF IsPooled
<1>2. AtMost(<<t, 1>>, c[N].level)
  <2>1. Last(c) = c[N]
    BY DEF Last
  <2>2. IsFraction(Last(c).level)
    BY <1>1, <2>1 DEF IsPooled, IsPoint, IsFraction
  <2>3. IsFraction(<<t, 1>>)
    <3>1. t \in Int
      OBVIOUS
    <3> QED
      BY <3>1, WholeNumbers, Zenon
  <2>4. AtMost(<<t, 1>>, Last(c).level)
    BY <2>2, <2>3, AtMostTotal, Zenon
  <2> QED
    BY <2>1, <2>4
<1>3. D = {k \in 1 .. N - 1 : k + 1 \in S}
  <2>1. \A k \in 1 .. N - 1 : k + 1 \in 1 .. N
    BY <1>1
  <2> QED
    BY <2>1
<1>4. S \in SUBSET (1 .. N) /\ N \in S /\ 1 \notin S
  BY <1>1, <1>2
<1>5. VoltageForPower(c, t) = VoltageBetween(c[i], c[i + 1], t)
  BY DEF VoltageForPower
<1>6. i \in 1 .. N - 1 /\ i + 1 \in S /\ \A k \in 1 .. i : k \notin S
  <2> HIDE DEF S, N
  <2>1. LET j == Min({k \in 1 .. N - 1 : k + 1 \in S}) IN
        j \in 1 .. N - 1 /\ j + 1 \in S /\ \A k \in 1 .. j : k \notin S
    BY <1>1, <1>4, FirstSegment
  <2> QED
    BY <1>3, <2>1
<1> HIDE DEF i
<1>7. i \in 1 .. i /\ i \in 1 .. N
  BY <1>1, <1>6
<1> QED
  BY <1>5, <1>6, <1>7

\* The points of a segment.
LEMMA SegmentPoints ==
  ASSUME NEW c, IsPooled(c), NEW i \in 1 .. Len(c) - 1
  PROVE  /\ Len(c) \in Nat /\ i \in 1 .. Len(c) /\ i + 1 \in 1 .. Len(c)
         /\ IsPoint(c[i]) /\ IsPoint(c[i + 1]) /\ c[i].voltage < c[i + 1].voltage
         /\ AtMost(c[i].level, c[i + 1].level)
<1>1. /\ Len(c) \in Nat /\ i \in 1 .. Len(c) /\ i + 1 \in 1 .. Len(c) /\ i < i + 1 /\ i <= i + 1
  BY DEF IsPooled
<1> QED
  BY <1>1, Zenon DEF IsPooled

\* The voltages of the points, as whole numbers.
LEMMA VoltagesRise ==
  ASSUME NEW c, IsPooled(c), NEW i \in 1 .. Len(c), NEW j \in 1 .. Len(c), i <= j
  PROVE  /\ c[i].voltage \in Nat /\ c[j].voltage \in Nat /\ c[i].voltage <= c[j].voltage
         /\ IsFraction(<<c[i].voltage, 1>>) /\ IsFraction(<<c[j].voltage, 1>>)
         /\ AtMost(<<c[i].voltage, 1>>, <<c[j].voltage, 1>>)
<1> DEFINE x == c[i].voltage
           y == c[j].voltage
<1>1. x \in Nat /\ y \in Nat
  BY DEF IsPooled, IsPoint
<1>2. i = j \/ x < y
  <2>1. i = j \/ i < j
    BY DEF IsPooled
  <2> QED
    BY <2>1, Zenon DEF IsPooled
<1>3. i = j => x = y
  OBVIOUS
<1> HIDE DEF x, y
<1>4. x <= y /\ x \in Int /\ y \in Int
  BY <1>1, <1>2, <1>3
<1>5. IsFraction(<<x, 1>>) /\ IsFraction(<<y, 1>>) /\ AtMost(<<x, 1>>, <<y, 1>>)
  BY <1>4, WholeNumbers, Zenon
<1> QED
  BY <1>1, <1>4, <1>5 DEF x, y

LEMMA PowerWithin ==
  ASSUME NEW c, IsPooled(c), NEW i \in 1 .. Len(c) - 1, NEW v, IsFraction(v),
         ~AtMost(v, <<c[i].voltage, 1>>), AtMost(v, <<c[i + 1].voltage, 1>>)
  PROVE  ExpectedPower(c, v) =
           IF AtMost(<<Last(c).voltage, 1>>, v) THEN Last(c).level
           ELSE PowerBetween(c[i], c[i + 1], v)
<1> DEFINE N == Len(c)
           X(k) == <<c[k].voltage, 1>>
           S == {k \in 1 .. N : AtMost(v, X(k))}
           D == {k \in 1 .. N - 1 : AtMost(v, <<c[k + 1].voltage, 1>>)}
           j == Min(D)
<1>1. N \in Nat /\ N >= 2 /\ N \in 1 .. N /\ 1 \in 1 .. N /\ i \in 1 .. N /\ i + 1 \in 1 .. N
  BY DEF IsPooled
<1>2. ASSUME NEW k \in 1 .. N, NEW l \in 1 .. N, k <= l, AtMost(v, X(k)) PROVE AtMost(v, X(l))
  <2>1. IsFraction(X(k)) /\ IsFraction(X(l)) /\ AtMost(X(k), X(l))
    BY <1>2, VoltagesRise, Zenon
  <2> HIDE DEF X
  <2> QED
    BY <1>2, <2>1, AtMostTransitive, Zenon
<1>3. ASSUME NEW k \in 1 .. i PROVE ~AtMost(v, X(k))
  <2>1. k \in 1 .. N /\ k <= i
    BY <1>1
  <2>2. ~AtMost(v, X(i))
    OBVIOUS
  <2> HIDE DEF X, N
  <2> QED
    BY <1>1, <1>2, <2>1, <2>2
<1>4. ~AtMost(v, <<c[1].voltage, 1>>)
  <2>1. 1 \in 1 .. i
    OBVIOUS
  <2> QED
    BY <1>3, <2>1
<1>5. Last(c) = c[N]
  BY DEF Last
<1>6. AtMost(v, X(i + 1))
  OBVIOUS
<1>7. ExpectedPower(c, v) =
        IF AtMost(<<Last(c).voltage, 1>>, v) THEN Last(c).level
        ELSE PowerBetween(c[j], c[j + 1], v)
  BY <1>4 DEF ExpectedPower
<1>8. j = i
  <2>1. D = {k \in 1 .. N - 1 : k + 1 \in S}
    <3>1. \A k \in 1 .. N - 1 : k + 1 \in 1 .. N
      BY <1>1
    <3> QED
      BY <3>1
  <2>2. S \in SUBSET (1 .. N) /\ N \in S /\ 1 \notin S
    <3>1. i + 1 <= N
      BY <1>1
    <3>2. AtMost(v, X(N))
      <4> HIDE DEF X, N
      <4> QED
        BY <1>1, <1>2, <1>6, <3>1
    <3> QED
      BY <1>1, <1>4, <3>2
  <2>3. \A k \in 1 .. i : k \notin S
    BY <1>3
  <2>4. i + 1 \in S
    BY <1>1, <1>6
  <2> HIDE DEF S, N
  <2>5. j \in 1 .. N - 1 /\ j + 1 \in S /\ \A k \in 1 .. j : k \notin S
    <3>1. LET h == Min({k \in 1 .. N - 1 : k + 1 \in S}) IN
          h \in 1 .. N - 1 /\ h + 1 \in S /\ \A k \in 1 .. h : k \notin S
      BY <1>1, <2>2, FirstSegment
    <3> QED
      BY <2>1, <3>1
  <2> HIDE DEF j
  <2>6. i \in Nat /\ j \in Nat /\ ~(i + 1 \in 1 .. j) /\ ~(j + 1 \in 1 .. i)
    BY <1>1, <2>3, <2>4, <2>5
  <2> QED
    BY <2>6
<1> QED
  BY <1>7, <1>8

-----------------------------------------------------------------------------
(* The lookups on a curve, from below, within and above its range.         *)

LEMMA VoltageCases ==
  ASSUME NEW c, NEW t
  PROVE  /\ AtMost(<<t, 1>>, c[1].level) => VoltageForPower(c, t) = BelowRange(c, t)
         /\ ~AtMost(<<t, 1>>, c[1].level) /\ AtMost(Last(c).level, <<t, 1>>) =>
              VoltageForPower(c, t) = Extrapolated(c, t)
  BY DEF VoltageForPower

\* What is known of the voltage for a power: within the range, point i is below
\* it and the next is not.
LEMMA VoltageIs ==
  ASSUME NEW c, IsPooled(c), NEW t \in Nat
  PROVE  LET v == VoltageForPower(c, t) IN
         /\ IsFraction(v)
         /\ \/ AtMost(<<t, 1>>, c[1].level) /\ AtMost(v, <<c[1].voltage, 1>>)
            \/ /\ ~AtMost(<<t, 1>>, c[1].level) /\ ~AtMost(Last(c).level, <<t, 1>>)
               /\ \E i \in 1 .. Len(c) - 1 :
                    /\ v = VoltageBetween(c[i], c[i + 1], t)
                    /\ ~AtMost(<<t, 1>>, c[i].level) /\ AtMost(<<t, 1>>, c[i + 1].level)
                    /\ AtMost(<<c[i].voltage, 1>>, v) /\ AtMost(v, <<c[i + 1].voltage, 1>>)
            \/ /\ ~AtMost(<<t, 1>>, c[1].level) /\ AtMost(Last(c).level, <<t, 1>>)
               /\ AtMost(<<Last(c).voltage, 1>>, v) /\ AtMost(v, <<MaxVoltage, 1>>)
<1> DEFINE v == VoltageForPower(c, t)
<1>1. CASE AtMost(<<t, 1>>, c[1].level)
  <2>1. v = BelowRange(c, t)
    BY <1>1, VoltageCases
  <2>2. IsFraction(BelowRange(c, t)) /\ AtMost(BelowRange(c, t), <<c[1].voltage, 1>>)
    BY <1>1, BelowRangeIs
  <2> HIDE DEF v
  <2> QED
    BY <1>1, <2>1, <2>2 DEF v
<1>2. CASE ~AtMost(<<t, 1>>, c[1].level) /\ AtMost(Last(c).level, <<t, 1>>)
  <2>1. v = Extrapolated(c, t)
    BY <1>2, VoltageCases
  <2> DEFINE e == Extrapolated(c, t)
  <2>2. IsFraction(e) /\ AtMost(<<Last(c).voltage, 1>>, e) /\ AtMost(e, <<MaxVoltage, 1>>)
    BY <1>2, ExtrapolatedIs
  <2> HIDE DEF v, e
  <2>3. v = e
    BY <2>1 DEF e
  <2> QED
    BY <1>2, <2>2, <2>3 DEF v
<1>3. CASE ~AtMost(<<t, 1>>, c[1].level) /\ ~AtMost(Last(c).level, <<t, 1>>)
  <2>1. PICK i \in 1 .. Len(c) - 1 :
          /\ v = VoltageBetween(c[i], c[i + 1], t)
          /\ ~AtMost(<<t, 1>>, c[i].level) /\ AtMost(<<t, 1>>, c[i + 1].level)
    BY <1>3, SegmentOf
  <2> DEFINE p == c[i]
             q == c[i + 1]
             u == VoltageBetween(p, q, t)
  <2>2. IsPoint(p) /\ IsPoint(q) /\ p.voltage < q.voltage /\ IsFraction(<<p.voltage, 1>>)
    <3>1. IsPoint(p) /\ IsPoint(q) /\ p.voltage < q.voltage
      BY SegmentPoints
    <3>2. p.voltage \in Int
      BY <3>1 DEF IsPoint
    <3> QED
      BY <3>1, <3>2, WholeNumbers, Zenon
  <2>3. ~AtMost(<<t, 1>>, p.level) /\ AtMost(<<t, 1>>, q.level)
    BY <2>1
  <2> HIDE DEF p, q
  <2>4. IsFraction(u) /\ ~AtMost(u, <<p.voltage, 1>>) /\ AtMost(u, <<q.voltage, 1>>)
    BY <2>2, <2>3, BetweenPoints
  <2> HIDE DEF u, v
  <2>5. AtMost(<<p.voltage, 1>>, u)
    BY <2>2, <2>4, AtMostTotal, Zenon
  <2>6. v = u
    BY <2>1 DEF u, p, q
  <2>7. IsFraction(v) /\ AtMost(<<c[i].voltage, 1>>, v) /\ AtMost(v, <<c[i + 1].voltage, 1>>)
    BY <2>4, <2>5, <2>6 DEF p, q
  <2> QED
    BY <1>3, <2>1, <2>7 DEF v
<1> QED
  BY <1>1, <1>2, <1>3

LEMMA PowerOfVoltage ==
  ASSUME NEW c, IsPooled(c), NEW t \in Nat, AtMost(<<t, 1>>, Last(c).level)
  PROVE  SameFraction(ExpectedPower(c, VoltageForPower(c, t)), <<t, 1>>)
<1> DEFINE v == VoltageForPower(c, t)
           N == Len(c)
           y == Last(c).voltage
<1>1. /\ N \in Nat /\ N >= 2 /\ 1 \in 1 .. N /\ N \in 1 .. N /\ 1 < N /\ Last(c) = c[N]
  BY DEF IsPooled, Last
<1>2. t \in Int /\ IsFraction(<<t, 1>>)
  <2>1. t \in Int
    OBVIOUS
  <2> QED
    BY <2>1, WholeNumbers, Zenon
<1>3. CASE AtMost(<<t, 1>>, c[1].level)
  <2>1. v = BelowRange(c, t)
    BY <1>3, VoltageCases
  <2>2. SameFraction(ExpectedPower(c, BelowRange(c, t)), <<t, 1>>)
    BY <1>3, BelowRangeIs
  <2> QED
    BY <2>1, <2>2
<1>4. CASE ~AtMost(<<t, 1>>, c[1].level) /\ AtMost(Last(c).level, <<t, 1>>)
  <2>1. IsFraction(v) /\ AtMost(<<y, 1>>, v)
    BY <1>4, VoltageIs
  <2>2. c[1].voltage \in Nat /\ y \in Nat /\ c[1].voltage < y
    BY <1>1 DEF IsPooled, IsPoint
  <2> HIDE DEF v
  <2>3. ~AtMost(v, <<c[1].voltage, 1>>)
    <3> HIDE DEF y
    <3> QED
      BY <2>1, <2>2, NotBoth, Zenon
  <2>4. ExpectedPower(c, v) = Last(c).level
    BY <2>1, <2>3 DEF ExpectedPower
  <2>5. IsFraction(Last(c).level)
    BY <1>1 DEF IsPooled, IsPoint, IsFraction
  <2>6. \A r, s : IsFraction(r) /\ IsFraction(s) /\ AtMost(r, s) /\ AtMost(s, r) => SameFraction(r, s)
    BY DEF IsFraction, AtMost, SameFraction
  <2>7. SameFraction(Last(c).level, <<t, 1>>)
    BY <1>2, <1>4, <2>5, <2>6
  <2> QED
    BY <2>4, <2>7 DEF v
<1>5. CASE ~AtMost(<<t, 1>>, c[1].level) /\ ~AtMost(Last(c).level, <<t, 1>>)
  <2>1. PICK i \in 1 .. N - 1 :
          /\ v = VoltageBetween(c[i], c[i + 1], t)
          /\ ~AtMost(<<t, 1>>, c[i].level) /\ AtMost(<<t, 1>>, c[i + 1].level)
    BY <1>5, SegmentOf
  <2> DEFINE p == c[i]
             q == c[i + 1]
             u == VoltageBetween(p, q, t)
  <2>2. IsPoint(p) /\ IsPoint(q) /\ p.voltage < q.voltage
    BY SegmentPoints
  <2>3. ~AtMost(<<t, 1>>, p.level) /\ AtMost(<<t, 1>>, q.level)
    BY <2>1
  <2> HIDE DEF p, q
  <2>4. /\ IsFraction(u) /\ ~AtMost(u, <<p.voltage, 1>>) /\ AtMost(u, <<q.voltage, 1>>)
        /\ AtMost(<<q.voltage, 1>>, u) => SameFraction(q.level, <<t, 1>>)
        /\ SameFraction(PowerBetween(p, q, u), <<t, 1>>)
    BY <2>2, <2>3, BetweenPoints
  <2> HIDE DEF u, v
  <2>5. v = u
    BY <2>1 DEF u, p, q
  <2>6. ExpectedPower(c, u) = IF AtMost(<<y, 1>>, u) THEN Last(c).level ELSE PowerBetween(p, q, u)
    BY <2>4, PowerWithin DEF p, q
  <2>7. CASE AtMost(<<y, 1>>, u)
    <3>1. i + 1 \in 1 .. N /\ i + 1 <= N
      BY <1>1
    <3>2. /\ q.voltage \in Nat /\ y \in Nat /\ IsFraction(<<q.voltage, 1>>) /\ IsFraction(<<y, 1>>)
          /\ AtMost(<<q.voltage, 1>>, <<y, 1>>)
      BY <1>1, <3>1, VoltagesRise DEF q
    <3>3. AtMost(<<y, 1>>, <<q.voltage, 1>>)
      <4> HIDE DEF y
      <4> QED
        BY <2>4, <2>7, <3>2, AtMostTransitive, Zenon
    <3>4. y <= q.voltage
      <4> HIDE DEF y
      <4>1. y \in Int /\ q.voltage \in Int
        BY <3>2
      <4> QED
        BY <3>3, <4>1, WholeNumbers, Zenon
    <3>5. i + 1 = N
      <4> SUFFICES ASSUME i + 1 < N PROVE FALSE
        BY <1>1, <3>1
      <4>1. c[i + 1].voltage < c[N].voltage
        BY <1>1, <3>1, Zenon DEF IsPooled
      <4>2. q.voltage < y
        BY <1>1, <4>1 DEF q
      <4> HIDE DEF y
      <4> QED
        BY <3>2, <3>4, <4>2
    <3>6. q = Last(c)
      BY <1>1, <3>5 DEF q
    <3>7. AtMost(<<q.voltage, 1>>, u)
      BY <2>7, <3>6
    <3> QED
      BY <2>4, <2>5, <2>6, <2>7, <3>6, <3>7 DEF v
  <2>8. CASE ~AtMost(<<y, 1>>, u)
    BY <2>4, <2>5, <2>6, <2>8 DEF v
  <2> QED
    BY <2>7, <2>8
<1> QED
  BY <1>3, <1>4, <1>5

LEMMA VoltageRises ==
  ASSUME NEW c, IsPooled(c), NEW t \in Nat, NEW s \in Nat, t <= s
  PROVE  AtMost(VoltageForPower(c, t), VoltageForPower(c, s))
<1> DEFINE v == VoltageForPower(c, t)
           u == VoltageForPower(c, s)
           N == Len(c)
           T == <<t, 1>>
           S == <<s, 1>>
           X(i) == <<c[i].voltage, 1>>
<1>1. N \in Nat /\ N >= 2 /\ 1 \in 1 .. N /\ N \in 1 .. N /\ Last(c) = c[N]
  BY DEF IsPooled, Last
<1>2. IsFraction(v) /\ IsFraction(u)
  BY VoltageIs
<1>3. AtMost(T, S) /\ IsFraction(T) /\ IsFraction(S)
  <2>1. t \in Int /\ s \in Int
    OBVIOUS
  <2> QED
    BY <2>1, WholeNumbers, Zenon
<1>4. \A i \in 1 .. N : IsFraction(c[i].level)
  BY DEF IsPooled, IsPoint, IsFraction
<1>5. ASSUME NEW i \in 1 .. N, NEW j \in 1 .. N, i <= j, AtMost(v, X(i)), AtMost(X(j), u)
      PROVE  AtMost(v, u)
  <2>1. IsFraction(X(i)) /\ IsFraction(X(j)) /\ AtMost(X(i), X(j))
    BY <1>5, VoltagesRise, Zenon
  <2> HIDE DEF X, v, u
  <2>2. AtMost(v, X(j))
    BY <1>2, <1>5, <2>1, AtMostTransitive, Zenon
  <2> QED
    BY <1>2, <1>5, <2>1, <2>2, AtMostTransitive, Zenon
<1> DEFINE Below(r) == AtMost(r, c[1].level)
           Above(r) == AtMost(c[N].level, r)
           Within(r, w, i) == /\ ~AtMost(r, c[i].level) /\ AtMost(r, c[i + 1].level)
                              /\ AtMost(X(i), w) /\ AtMost(w, X(i + 1))
<1>6. \/ Below(T) /\ AtMost(v, X(1))
      \/ /\ ~Below(T) /\ ~Above(T)
         /\ \E i \in 1 .. N - 1 : v = VoltageBetween(c[i], c[i + 1], t) /\ Within(T, v, i)
      \/ ~Below(T) /\ Above(T) /\ AtMost(X(N), v)
  BY <1>1, VoltageIs
<1>7. \/ Below(S) /\ AtMost(u, X(1))
      \/ /\ ~Below(S) /\ ~Above(S)
         /\ \E i \in 1 .. N - 1 : u = VoltageBetween(c[i], c[i + 1], s) /\ Within(S, u, i)
      \/ ~Below(S) /\ Above(S) /\ AtMost(X(N), u)
  BY <1>1, VoltageIs
<1>8. \A i \in 1 .. N : AtMost(S, c[i].level) => AtMost(T, c[i].level)
  <2> HIDE DEF S, T
  <2> QED
    BY <1>3, <1>4, AtMostTransitive, Zenon
<1>9. \A i \in 1 .. N : AtMost(c[i].level, T) => AtMost(c[i].level, S)
  <2> HIDE DEF S, T
  <2> QED
    BY <1>3, <1>4, AtMostTransitive, Zenon
<1>10. (Below(S) => Below(T)) /\ (Above(T) => Above(S))
  BY <1>1, <1>8, <1>9
<1>11. CASE Below(S)
  <2>1. Below(T)
    BY <1>10, <1>11
  <2>2. v = BelowRange(c, t) /\ u = BelowRange(c, s)
    BY <1>11, <2>1, VoltageCases
  <2>3. AtMost(BelowRange(c, t), BelowRange(c, s))
    BY <1>11, BelowRangeIs
  <2> QED
    BY <2>2, <2>3
<1>12. CASE ~Below(T) /\ Above(T)
  <2>1. ~Below(S) /\ Above(S)
    BY <1>10, <1>12
  <2>2. v = Extrapolated(c, t) /\ u = Extrapolated(c, s)
    BY <1>1, <1>12, <2>1, VoltageCases
  <2>3. AtMost(Extrapolated(c, t), Extrapolated(c, s))
    BY <1>1, <1>12, <2>1, ExtrapolatedIs
  <2> QED
    BY <2>2, <2>3
<1>13. CASE ~Below(S) /\ ~(~Below(T) /\ Above(T))
  <2>1. PICK i \in 1 .. N :
          /\ AtMost(v, X(i))
          /\ \/ Below(T) /\ i = 1
             \/ /\ ~Below(T) /\ i - 1 \in 1 .. N - 1 /\ v = VoltageBetween(c[i - 1], c[i], t)
                /\ ~AtMost(T, c[i - 1].level)
    <3>1. CASE Below(T)
      <4>1. AtMost(v, X(1))
        BY <1>6, <3>1
      <4> HIDE DEF v, u, T, S, X
      <4> QED
        BY <1>1, <3>1, <4>1
    <3>2. CASE ~Below(T)
      <4>1. PICK k \in 1 .. N - 1 : v = VoltageBetween(c[k], c[k + 1], t) /\ Within(T, v, k)
        BY <1>6, <1>13, <3>2
      <4>2. k + 1 \in 1 .. N /\ (k + 1) - 1 = k
        BY <1>1
      <4>3. AtMost(v, X(k + 1)) /\ ~AtMost(T, c[k].level)
        BY <4>1
      <4> HIDE DEF v, u, T, S, X, Within
      <4> QED
        BY <3>2, <4>1, <4>2, <4>3
    <3> QED
      BY <3>1, <3>2
  <2>2. PICK j \in 1 .. N :
          /\ AtMost(X(j), u)
          /\ \/ Above(S) /\ j = N
             \/ /\ ~Above(S) /\ j + 1 \in 1 .. N /\ u = VoltageBetween(c[j], c[j + 1], s)
                /\ AtMost(S, c[j + 1].level)
    <3>1. CASE Above(S)
      <4>1. AtMost(X(N), u)
        BY <1>7, <1>13, <3>1
      <4> HIDE DEF v, u, T, S, X
      <4> QED
        BY <1>1, <3>1, <4>1
    <3>2. CASE ~Above(S)
      <4>1. PICK k \in 1 .. N - 1 : u = VoltageBetween(c[k], c[k + 1], s) /\ Within(S, u, k)
        BY <1>7, <1>13, <3>2
      <4>2. k \in 1 .. N /\ k + 1 \in 1 .. N
        BY <1>1
      <4>3. AtMost(X(k), u) /\ AtMost(S, c[k + 1].level)
        BY <4>1
      <4> HIDE DEF v, u, T, S, X, Within
      <4> QED
        BY <3>2, <4>1, <4>2, <4>3
    <3> QED
      BY <3>1, <3>2
  <2>3. CASE i <= j
    <3>1. AtMost(v, X(i)) /\ AtMost(X(j), u)
      BY <2>1, <2>2
    <3> HIDE DEF v, u, X
    <3>2. AtMost(v, u)
      BY <1>5, <2>3, <3>1, Zenon
    <3> QED
      BY <3>2 DEF v, u
  <2>4. CASE j < i
    <3>1. /\ i # 1 /\ j # N
      BY <1>1, <2>4
    <3>2. /\ ~Below(T) /\ i - 1 \in 1 .. N - 1 /\ v = VoltageBetween(c[i - 1], c[i], t)
          /\ ~AtMost(T, c[i - 1].level)
      BY <2>1, <3>1
    <3>3. /\ j + 1 \in 1 .. N /\ u = VoltageBetween(c[j], c[j + 1], s)
          /\ AtMost(S, c[j + 1].level)
      BY <2>2, <3>1
    <3>4. AtMost(T, c[j + 1].level)
      BY <1>8, <3>3
    <3>5. ~(j + 1 <= i - 1)
      <4> SUFFICES ASSUME j + 1 <= i - 1 PROVE FALSE
        OBVIOUS
      <4>1. i - 1 \in 1 .. N
        BY <1>1, <3>2
      <4>2. AtMost(c[j + 1].level, c[i - 1].level)
        BY <3>3, <4>1, Zenon DEF IsPooled
      <4>3. AtMost(T, c[i - 1].level)
        <5> HIDE DEF T
        <5> QED
          BY <1>3, <1>4, <3>3, <3>4, <4>1, <4>2, AtMostTransitive, Zenon
      <4> QED
        BY <3>2, <4>3
    <3>6. j = i - 1 /\ j \in 1 .. N - 1 /\ i = j + 1
      BY <2>4, <3>2, <3>5
    <3>7. v = VoltageBetween(c[j], c[j + 1], t) /\ u = VoltageBetween(c[j], c[j + 1], s)
      BY <3>2, <3>3, <3>6
    <3>8. /\ IsPoint(c[j]) /\ IsPoint(c[j + 1]) /\ c[j].voltage < c[j + 1].voltage
          /\ AtMost(c[j].level, c[j + 1].level)
      BY <3>6, SegmentPoints
    <3>9. c[j].voltage <= c[j + 1].voltage
      BY <3>8 DEF IsPoint
    <3>10. AtMost(VoltageBetween(c[j], c[j + 1], t), VoltageBetween(c[j], c[j + 1], s))
      BY <3>8, <3>9, BetweenRises, Zenon
    <3> QED
      BY <3>7, <3>10
  <2> QED
    BY <2>3, <2>4
<1> QED
  BY <1>11, <1>12, <1>13

LEMMA VoltageBounded ==
  ASSUME NEW c, IsPooled(c), NEW t \in Nat
  PROVE  AtMost(VoltageForPower(c, t), <<MaxVoltage, 1>>)
<1> DEFINE v == VoltageForPower(c, t)
           X(i) == <<c[i].voltage, 1>>
           M == <<MaxVoltage, 1>>
<1>1. Len(c) \in Nat /\ 1 \in 1 .. Len(c)
  BY DEF IsPooled
<1>2. /\ IsFraction(v)
      /\ \/ \E i \in 1 .. Len(c) : AtMost(v, X(i))
         \/ AtMost(v, M)
  <2>1. \A i \in 1 .. Len(c) - 1 : i + 1 \in 1 .. Len(c)
    BY <1>1
  <2> QED
    BY <1>1, <2>1, VoltageIs
<1>3. ASSUME NEW i \in 1 .. Len(c) PROVE IsFraction(X(i)) /\ IsFraction(M) /\ AtMost(X(i), M)
  <2>1. c[i].voltage \in Int /\ MaxVoltage \in Int /\ c[i].voltage <= MaxVoltage
    BY VoltageAssumption DEF IsPooled, IsPoint
  <2> QED
    BY <2>1, WholeNumbers, Zenon
<1> HIDE DEF v, X, M
<1>4. AtMost(v, M)
  BY <1>2, <1>3, AtMostTransitive, Zenon
<1> QED
  BY <1>4 DEF v, M

-----------------------------------------------------------------------------
(* The pooled curve is such a curve.                                       *)

\* Without a voltage there is no power.
Dead(pts) == \A i \in DOMAIN pts : pts[i].voltage = 0 => pts[i].watts = 0

LEMMA FirstLevel ==
  ASSUME NEW pts \in Curves, Len(pts) >= 1, pts[1].watts = 0
  PROVE  Level(pts, Blocks(pts), 1)[1] = 0
<1> DEFINE N == Len(pts)
           T == Total(pts)
           W == Weight(pts)
<1>1. N \in Nat /\ IsPath(T, W, N) /\ T[0] = 0 /\ W[0] = 0 /\ T[1] = pts[1].watts * pts[1].count
  BY PathOfCurve
<1>2. 1 \in 1 .. N /\ 1 \in 0 .. N /\ 0 \in 0 .. N
  BY <1>1
<1>3. T[1] = 0
  <2>1. pts[1] \in [voltage : Voltages, watts : Nat, count : Nat \ {0}]
    BY <1>2, ElementOfSeq DEF Curves
  <2>2. pts[1].count \in Nat
    BY <2>1
  <2>3. \A k \in Nat : 0 * k = 0
    OBVIOUS
  <2> QED
    BY <1>1, <2>2, <2>3
<1>4. PICK p, q \in Nat : IsChord(pts, 1, p, q)
  BY <1>2, ChordOf
<1>5. /\ p \in 0 .. N /\ q \in 0 .. N /\ p < 1 /\ 1 <= q /\ Over(T, W, N, p, q)
      /\ Level(pts, Blocks(pts), 1) = <<T[q] - T[p], W[q] - W[p]>>
  BY <1>4 DEF IsChord
<1> HIDE DEF N, T, W
<1>6. p = 0
  BY <1>5
<1>7. T[q] \in Nat /\ W[q] \in Nat /\ W[1] \in Nat /\ W[0] < W[1] /\ T[0] <= T[q]
  <2>1. 0 < q
    BY <1>5
  <2>2. T[q] \in Nat /\ W[q] \in Nat /\ W[1] \in Nat
    BY <1>1, <1>2, <1>5, PathValues, Zenon
  <2>3. 0 < 1
    OBVIOUS
  <2>4. W[0] < W[1] /\ T[0] <= T[q]
    BY <1>1, <1>2, <1>5, <2>1, <2>3, PathValues, Zenon
  <2> QED
    BY <2>2, <2>4
<1>8. T[q] * W[1] <= 0 * W[q]
  <2>1. (T[q] - T[p]) * (W[1] - W[p]) <= (T[1] - T[p]) * (W[q] - W[p])
    BY <1>2, <1>5 DEF Over
  <2>2. \A k \in Nat : k - 0 = k
    OBVIOUS
  <2>3. T[q] - T[p] = T[q] /\ W[1] - W[p] = W[1] /\ T[1] - T[p] = 0 /\ W[q] - W[p] = W[q]
    BY <1>1, <1>3, <1>6, <1>7, <2>2
  <2> QED
    BY <2>1, <2>3
<1>9. T[q] = 0
  <2>1. \A i \in Nat, j \in Nat \ {0}, k \in Nat : i * j <= 0 * k => i = 0
    OBVIOUS
  <2>2. W[1] \in Nat \ {0}
    BY <1>1, <1>7
  <2> QED
    BY <1>7, <1>8, <2>1, <2>2
<1> QED
  BY <1>1, <1>5, <1>6, <1>9

LEMMA PooledRises ==
  ASSUME NEW pts \in Curves, Rising(pts), Dead(pts), HasCalibration(pts)
  PROVE  IsPooled(Pooled(pts))
<1> DEFINE N == Len(pts)
           c == Pooled(pts)
           L(i) == Level(pts, Blocks(pts), i)
<1>1. N \in Nat /\ N >= 2 /\ DOMAIN pts = 1 .. N
  BY DEF Curves, HasCalibration
<1>2. \A i \in 1 .. N : pts[i].voltage \in 0 .. MaxVoltage
  <2>1. \A i \in 1 .. N : pts[i] \in [voltage : Voltages, watts : Nat, count : Nat \ {0}]
    BY ElementOfSeq DEF Curves
  <2> QED
    BY <2>1 DEF Voltages
<1>3. c = [i \in 1 .. N |-> [voltage |-> pts[i].voltage, level |-> L(i)]]
  BY <1>1 DEF Pooled
<1>4. Len(c) = N /\ DOMAIN c = 1 .. N
  <2> HIDE DEF L, N
  <2> QED
    BY <1>1, <1>3
<1>5. \A i \in 1 .. N : c[i].voltage = pts[i].voltage /\ c[i].level = L(i)
  <2> HIDE DEF L, N, c
  <2> QED
    BY <1>3
<1>6. \A i \in 1 .. N : L(i) \in Fractions
  BY LevelsAreFractions
<1>7. \A i, j \in 1 .. N : i <= j => AtMost(L(i), L(j))
  BY LevelsRise
<1>8. pts[1].voltage = 0 => L(1)[1] = 0
  <2> SUFFICES ASSUME pts[1].voltage = 0 PROVE L(1)[1] = 0
    OBVIOUS
  <2>1. pts[1].watts = 0
    BY <1>1 DEF Dead
  <2> QED
    BY <1>1, <2>1, FirstLevel
<1>9. \A i, j \in 1 .. N : i < j => pts[i].voltage < pts[j].voltage
  BY <1>1 DEF Rising
<1> HIDE DEF N, c, L
<1>10. \A i \in 1 .. N : IsPoint(c[i]) /\ c[i].voltage <= MaxVoltage
  <2> TAKE i \in 1 .. N
  <2>1. L(i)[1] \in Nat /\ L(i)[2] \in Nat \ {0}
    BY <1>6 DEF Fractions
  <2>2. c[i].voltage \in Nat /\ c[i].voltage <= MaxVoltage
    BY <1>2, <1>5, VoltageAssumption
  <2> QED
    BY <1>5, <2>1, <2>2 DEF IsPoint
<1>11. 1 \in 1 .. N
  BY <1>1
<1> QED
  BY <1>1, <1>4, <1>5, <1>7, <1>8, <1>9, <1>10, <1>11 DEF IsPooled, c

-----------------------------------------------------------------------------
(* What is learned keeps the shape of a curve.                             *)

LEMMA Division ==
  ASSUME NEW a \in Nat, NEW k \in Nat \ {0}
  PROVE  a \div k \in Nat /\ k * (a \div k) <= a /\ a < k * (a \div k) + k
  OBVIOUS

\* The file and the memory hold curves.
IsCurve(pts) == pts \in Curves /\ Rising(pts) /\ Dead(pts)

LEMMA PointsOf ==
  ASSUME NEW pts \in Curves
  PROVE  /\ Len(pts) \in Nat /\ DOMAIN pts = 1 .. Len(pts)
         /\ \A i \in 1 .. Len(pts) :
              /\ pts[i] \in [voltage : Voltages, watts : Nat, count : Nat \ {0}]
              /\ pts[i].voltage \in Nat /\ pts[i].voltage <= MaxVoltage
              /\ pts[i].watts \in Nat /\ pts[i].count \in Nat \ {0}
<1>1. \A i \in 1 .. Len(pts) : pts[i] \in [voltage : Voltages, watts : Nat, count : Nat \ {0}]
  BY ElementOfSeq DEF Curves
<1>2. \A r \in [voltage : Voltages, watts : Nat, count : Nat \ {0}] :
        /\ r.voltage \in Nat /\ r.voltage <= MaxVoltage
        /\ r.watts \in Nat /\ r.count \in Nat \ {0}
  BY VoltageAssumption DEF Voltages
<1> QED
  BY <1>1, <1>2 DEF Curves

\* A sequence of points given one by one.
LEMMA CurveOf ==
  ASSUME NEW n \in Nat, NEW pts, pts = [i \in 1 .. n |-> pts[i]],
         \A i \in 1 .. n : pts[i] \in [voltage : Voltages, watts : Nat, count : Nat \ {0}],
         \A i, j \in 1 .. n : i < j => pts[i].voltage < pts[j].voltage,
         \A i \in 1 .. n : pts[i].voltage = 0 => pts[i].watts = 0
  PROVE  IsCurve(pts)
<1> DEFINE R == [voltage : Voltages, watts : Nat, count : Nat \ {0}]
<1>1. pts \in Curves
  <2>1. \A i \in 1 .. n : pts[i] \in R
    OBVIOUS
  <2> HIDE DEF R
  <2>2. pts \in [1 .. n -> R]
    BY <2>1
  <2>3. pts \in Seq(R)
    BY <2>2
  <2> QED
    BY <2>3 DEF Curves, R
<1>2. DOMAIN pts = 1 .. n
  OBVIOUS
<1> QED
  BY <1>1, <1>2 DEF IsCurve, Rising, Dead

\* Without a voltage nothing is drawn.
LEMMA NothingDrawn ==
  ASSUME NEW v \in Voltages, NEW w \in Draws[v], v < Near PROVE w = 0
  BY RodAssumption

LEMMA DrawnIsNat ==
  ASSUME NEW v \in Voltages, NEW w \in Draws[v] PROVE w \in Nat
  BY WattsAssumption

LEMMA InsertIs ==
  ASSUME NEW pts \in Curves, NEW p \in [voltage : Voltages, watts : Nat, count : Nat \ {0}],
         NEW j \in 1 .. Len(pts) + 1
  PROVE  InsertAt(pts, j, p) =
           [i \in 1 .. Len(pts) + 1 |->
              IF i < j THEN pts[i] ELSE IF i = j THEN p ELSE pts[i - 1]]
<1> DEFINE n == Len(pts)
           R == [voltage : Voltages, watts : Nat, count : Nat \ {0}]
           a == SubSeq(pts, 1, j - 1)
           b == SubSeq(pts, j, n)
           s == (a \o <<p>>) \o b
<1>1. n \in Nat /\ pts \in Seq(R)
  BY DEF Curves
<1>2. j \in Nat /\ 1 <= j /\ j <= n + 1
  BY <1>1
<1>3. /\ a \in Seq(R) /\ Len(a) = j - 1 /\ \A i \in 1 .. j - 1 : a[i] = pts[i]
  <2> HIDE DEF R
  <2> QED
    BY <1>1, <1>2
<1>4. /\ b \in Seq(R) /\ Len(b) = (n - j) + 1 /\ \A i \in 1 .. (n - j) + 1 : b[i] = pts[(j + i) - 1]
  <2> HIDE DEF R
  <2> QED
    BY <1>1, <1>2
<1>5. <<p>> \in Seq(R) /\ Len(<<p>>) = 1 /\ <<p>>[1] = p
  OBVIOUS
<1> HIDE DEF a, b, R, n
<1>6. /\ a \o <<p>> \in Seq(R) /\ Len(a \o <<p>>) = j
      /\ \A i \in 1 .. j : (a \o <<p>>)[i] = IF i < j THEN a[i] ELSE p
  <2>1. a \o <<p>> \in Seq(R) /\ Len(a \o <<p>>) = (j - 1) + 1
    BY <1>2, <1>3, <1>5, ConcatProperties
  <2>2. \A i \in 1 .. (j - 1) + 1 :
          (a \o <<p>>)[i] = IF i <= j - 1 THEN a[i] ELSE <<p>>[i - (j - 1)]
    BY <1>2, <1>3, <1>5, ConcatProperties
  <2>3. (j - 1) + 1 = j /\ \A i \in 1 .. j : (i <= j - 1 <=> i < j) /\ (~(i < j) => i - (j - 1) = 1)
    BY <1>2
  <2> QED
    BY <1>5, <2>1, <2>2, <2>3
<1>7. /\ s \in Seq(R) /\ Len(s) = n + 1
      /\ \A i \in 1 .. n + 1 : s[i] = IF i <= j THEN (a \o <<p>>)[i] ELSE b[i - j]
  <2>1. s \in Seq(R) /\ Len(s) = j + ((n - j) + 1)
    BY <1>1, <1>2, <1>4, <1>6, ConcatProperties
  <2>2. \A i \in 1 .. j + ((n - j) + 1) : s[i] = IF i <= j THEN (a \o <<p>>)[i] ELSE b[i - j]
    BY <1>1, <1>2, <1>4, <1>6, ConcatProperties
  <2>3. j + ((n - j) + 1) = n + 1
    BY <1>1, <1>2
  <2> QED
    BY <2>1, <2>2, <2>3
<1>8. ASSUME NEW i \in 1 .. n + 1
      PROVE  s[i] = IF i < j THEN pts[i] ELSE IF i = j THEN p ELSE pts[i - 1]
  <2>1. CASE i < j
    <3>1. i \in 1 .. j /\ i \in 1 .. j - 1 /\ i <= j
      BY <1>1, <1>2, <2>1
    <3> QED
      BY <1>3, <1>6, <1>7, <2>1, <3>1
  <2>2. CASE i = j
    <3>1. i \in 1 .. j /\ ~(i < j) /\ i <= j
      BY <1>1, <1>2, <2>2
    <3> QED
      BY <1>6, <1>7, <2>2, <3>1
  <2>3. CASE i > j
    <3>1. ~(i <= j) /\ i - j \in 1 .. (n - j) + 1 /\ (j + (i - j)) - 1 = i - 1 /\ ~(i < j) /\ i # j
      BY <1>1, <1>2, <2>3
    <3>2. s[i] = b[i - j] /\ b[i - j] = pts[i - 1]
      BY <1>4, <1>7, <3>1
    <3> QED
      BY <3>1, <3>2
  <2>4. i < j \/ i = j \/ i > j
    BY <1>1, <1>2
  <2> QED
    BY <2>1, <2>2, <2>3, <2>4
<1>9. s = [i \in 1 .. n + 1 |-> s[i]]
  <2> HIDE DEF s
  <2>1. s \in [1 .. n + 1 -> R]
    BY <1>1, <1>7
  <2> QED
    BY <2>1
<1>10. InsertAt(pts, j, p) = s
  BY DEF InsertAt, a, b, n
<1> HIDE DEF s
<1> QED
  BY <1>8, <1>9, <1>10 DEF n

\* A new point is put where its voltage belongs.
LEMMA SortedKeeps ==
  ASSUME NEW pts, IsCurve(pts), NEW v \in Voltages, NEW w \in Draws[v],
         \A i \in DOMAIN pts : pts[i].voltage # v
  PROVE  IsCurve(Sorted(pts, Point(v, w)))
<1> DEFINE n == Len(pts)
           R == [voltage : Voltages, watts : Nat, count : Nat \ {0}]
           p == Point(v, w)
           S == {i \in 1 .. n + 1 : i = n + 1 \/ pts[i].voltage > p.voltage}
           j == Min(S)
           s == Sorted(pts, p)
<1>1. pts \in Curves /\ Rising(pts) /\ Dead(pts)
  BY DEF IsCurve
<1>2. /\ n \in Nat /\ DOMAIN pts = 1 .. n
      /\ \A i \in 1 .. n : pts[i] \in R /\ pts[i].voltage \in Nat
  BY <1>1, PointsOf
<1>3. p \in R /\ p.voltage = v /\ p.watts = w /\ v \in Nat
  BY DrawnIsNat, VoltageAssumption DEF Point, Voltages
<1>4. v = 0 => w = 0
  <2>1. v = 0 => v < Near
    BY <1>3, VoltageAssumption
  <2> QED
    BY <2>1, NothingDrawn
<1>5. \A i \in 1 .. n : pts[i].voltage = 0 => pts[i].watts = 0
  BY <1>1, <1>2 DEF Dead
<1>6. j \in S /\ \A i \in S : j <= i
  <2>1. S \in SUBSET Nat /\ n + 1 \in S
    BY <1>2
  <2> HIDE DEF S
  <2> QED
    BY <2>1, MinIsLeast
<1>7. j \in 1 .. n + 1 /\ (j = n + 1 \/ pts[j].voltage > v)
  BY <1>3, <1>6
<1>8. s = InsertAt(pts, j, p)
  BY DEF Sorted
<1> HIDE DEF j
<1>9. s = [i \in 1 .. n + 1 |-> IF i < j THEN pts[i] ELSE IF i = j THEN p ELSE pts[i - 1]]
  BY <1>1, <1>3, <1>7, <1>8, InsertIs
<1>10. \A i, k \in 1 .. n : i < k => pts[i].voltage < pts[k].voltage
  BY <1>1, <1>2 DEF Rising
<1>11. ASSUME NEW i \in 1 .. n, i < j PROVE pts[i].voltage < v
  <2>1. i \notin S
    <3> HIDE DEF S
    <3> QED
      BY <1>2, <1>6, <1>7, <1>11
  <2>2. ~(pts[i].voltage > v)
    BY <1>2, <1>3, <2>1
  <2>3. pts[i].voltage # v
    BY <1>2
  <2> QED
    BY <1>2, <1>3, <2>2, <2>3
<1>12. ASSUME NEW i \in 1 .. n, j <= i PROVE v < pts[i].voltage
  <2>1. j \in 1 .. n /\ pts[j].voltage > v
    BY <1>2, <1>7, <1>12
  <2>2. j = i \/ pts[j].voltage < pts[i].voltage
    BY <1>2, <1>10, <1>12, <2>1
  <2> QED
    BY <1>2, <1>3, <2>1, <2>2
<1> HIDE DEF s, S, R, n, p
<1>13. ASSUME NEW i \in 1 .. n + 1
       PROVE  \/ i < j /\ i \in 1 .. n /\ s[i] = pts[i]
              \/ i = j /\ s[i] = p
              \/ j < i /\ i - 1 \in 1 .. n /\ j <= i - 1 /\ s[i] = pts[i - 1]
  <2>1. s[i] = IF i < j THEN pts[i] ELSE IF i = j THEN p ELSE pts[i - 1]
    BY <1>9
  <2>2. i \in Nat /\ i <= n + 1 /\ i >= 1 /\ j \in Nat /\ j >= 1 /\ j <= n + 1 /\ n \in Nat
    BY <1>2, <1>7
  <2>3. CASE i < j
    BY <2>1, <2>2, <2>3
  <2>4. CASE i = j
    BY <2>1, <2>2, <2>4
  <2>5. CASE j < i
    BY <2>1, <2>2, <2>5
  <2>6. i < j \/ i = j \/ j < i
    BY <2>2
  <2> QED
    BY <2>3, <2>4, <2>5, <2>6
<1>14. ASSUME NEW i \in 1 .. n + 1 PROVE s[i] \in R /\ (s[i].voltage = 0 => s[i].watts = 0)
  BY <1>2, <1>3, <1>4, <1>5, <1>13
<1>15. ASSUME NEW i \in 1 .. n + 1, NEW k \in 1 .. n + 1, i < k
       PROVE  s[i].voltage < s[k].voltage
  <2>1. CASE i < j /\ i \in 1 .. n /\ s[i] = pts[i]
    <3>1. CASE k < j /\ k \in 1 .. n /\ s[k] = pts[k]
      BY <1>10, <1>15, <2>1, <3>1
    <3>2. CASE k = j /\ s[k] = p
      BY <1>3, <1>11, <2>1, <3>2
    <3>3. CASE j < k /\ k - 1 \in 1 .. n /\ j <= k - 1 /\ s[k] = pts[k - 1]
      <4>1. pts[i].voltage < v /\ v < pts[k - 1].voltage
        BY <1>11, <1>12, <2>1, <3>3
      <4>2. pts[i].voltage \in Nat /\ pts[k - 1].voltage \in Nat
        BY <1>2, <2>1, <3>3
      <4>3. pts[i].voltage < pts[k - 1].voltage
        BY <1>3, <4>1, <4>2
      <4> QED
        BY <2>1, <3>3, <4>3
    <3> QED
      BY <1>13, <3>1, <3>2, <3>3
  <2>2. CASE i = j /\ s[i] = p
    <3>1. j < k /\ k - 1 \in 1 .. n /\ j <= k - 1 /\ s[k] = pts[k - 1]
      BY <1>2, <1>7, <1>13, <1>15, <2>2
    <3>2. v < pts[k - 1].voltage
      BY <1>12, <3>1
    <3> QED
      BY <1>3, <2>2, <3>1, <3>2
  <2>3. CASE j < i /\ i - 1 \in 1 .. n /\ j <= i - 1 /\ s[i] = pts[i - 1]
    <3>1. j < k /\ k - 1 \in 1 .. n /\ s[k] = pts[k - 1]
      BY <1>2, <1>7, <1>13, <1>15, <2>3
    <3>2. i - 1 < k - 1
      BY <1>15
    <3>3. pts[i - 1].voltage < pts[k - 1].voltage
      BY <1>10, <2>3, <3>1, <3>2
    <3> QED
      BY <2>3, <3>1, <3>3
  <2> QED
    BY <1>13, <2>1, <2>2, <2>3
<1>16. s = [i \in 1 .. n + 1 |-> s[i]] /\ n + 1 \in Nat
  BY <1>2, <1>9
<1>17. IsCurve(s)
  BY <1>14, <1>15, <1>16, CurveOf DEF R
<1> QED
  BY <1>17 DEF s, p

\* A reading near a point moves its watts and leaves its voltage.
LEMMA BlendedKeeps ==
  ASSUME NEW pts, IsCurve(pts), NEW v \in Voltages, NEW w \in Draws[v],
         NEW m \in DOMAIN pts, Gap(pts[m].voltage, v) < Near
  PROVE  IsCurve([pts EXCEPT ![m].watts = (Alpha * w + (100 - Alpha) * @) \div 100,
                             ![m].count = @ + 1])
<1> DEFINE n == Len(pts)
           R == [voltage : Voltages, watts : Nat, count : Nat \ {0}]
           x == (Alpha * w + (100 - Alpha) * pts[m].watts) \div 100
           s == [pts EXCEPT ![m].watts = (Alpha * w + (100 - Alpha) * @) \div 100,
                            ![m].count = @ + 1]
<1>1. pts \in Curves /\ Rising(pts) /\ Dead(pts)
  BY DEF IsCurve
<1>2. /\ n \in Nat /\ DOMAIN pts = 1 .. n /\ pts \in [1 .. n -> R]
      /\ \A i \in 1 .. n : pts[i] \in R
  <2>1. n \in Nat /\ DOMAIN pts = 1 .. n /\ \A i \in 1 .. n : pts[i] \in R
    BY <1>1, PointsOf
  <2>2. pts \in [1 .. n -> R]
    BY <1>1, LenProperties, Zenon DEF Curves
  <2> QED
    BY <2>1, <2>2
<1>3. m \in 1 .. n /\ w \in Nat /\ v \in Nat
  BY <1>2, DrawnIsNat, VoltageAssumption DEF Voltages
<1>4. pts[m].watts \in Nat /\ pts[m].count \in Nat /\ pts[m].voltage \in Voltages /\ pts[m].voltage \in Nat
  BY <1>1, <1>2, <1>3, PointsOf DEF Voltages
<1>5. x \in Nat
  <2>1. Alpha \in Nat /\ 100 - Alpha \in Nat
    BY WattsAssumption
  <2>2. \A i, k \in Nat : i * k \in Nat
    OBVIOUS
  <2>3. Alpha * w \in Nat /\ (100 - Alpha) * pts[m].watts \in Nat
    BY <1>3, <1>4, <2>1, <2>2, Zenon
  <2>4. Alpha * w + (100 - Alpha) * pts[m].watts \in Nat
    BY <2>3
  <2>5. \A i \in Nat : i \div 100 \in Nat
    OBVIOUS
  <2> QED
    BY <2>4, <2>5, Zenon
<1>6. pts[m].voltage = 0 => x = 0
  <2> SUFFICES ASSUME pts[m].voltage = 0 PROVE x = 0
    OBVIOUS
  <2>1. pts[m].watts = 0
    BY <1>1 DEF Dead
  <2>2. v < Near
    BY <1>3 DEF Gap
  <2>3. w = 0
    BY <2>2, NothingDrawn
  <2>4. Alpha \in Int
    BY WattsAssumption
  <2>5. \A i \in Int : (i * 0 + (100 - i) * 0) \div 100 = 0
    OBVIOUS
  <2> QED
    BY <2>1, <2>3, <2>4, <2>5
<1>7. /\ s = [i \in 1 .. n |-> s[i]]
      /\ \A i \in 1 .. n : i # m => s[i] = pts[i]
      /\ s[m] = [voltage |-> pts[m].voltage, watts |-> x, count |-> pts[m].count + 1]
  <2>1. pts[m] = [voltage |-> pts[m].voltage, watts |-> pts[m].watts, count |-> pts[m].count]
    BY <1>2, <1>3
  <2> HIDE DEF x, n, R
  <2> QED
    BY <1>2, <1>3, <2>1 DEF x
<1> HIDE DEF x, s, n
<1>8. \A i \in 1 .. n : s[i].voltage = pts[i].voltage
  BY <1>7
<1>9. ASSUME NEW i \in 1 .. n PROVE s[i] \in R
  <2>1. CASE i = m
    BY <1>4, <1>5, <1>7, <2>1
  <2>2. CASE i # m
    BY <1>2, <1>7, <2>2
  <2> QED
    BY <2>1, <2>2
<1>10. ASSUME NEW i \in 1 .. n, s[i].voltage = 0 PROVE s[i].watts = 0
  <2>1. CASE i = m
    BY <1>6, <1>7, <1>8, <1>10, <2>1
  <2>2. CASE i # m
    BY <1>1, <1>2, <1>7, <1>10, <2>2 DEF Dead
  <2> QED
    BY <2>1, <2>2
<1>11. \A i, k \in 1 .. n : i < k => s[i].voltage < s[k].voltage
  BY <1>1, <1>2, <1>8 DEF Rising
<1>12. IsCurve(s)
  BY <1>2, <1>7, <1>9, <1>10, <1>11, CurveOf
<1> QED
  BY <1>12 DEF s

LEMMA RefinedKeeps ==
  ASSUME IsCurve(points), NEW v \in Voltages, NEW w \in Draws[v]
  PROVE  IsCurve(Refined(v, w))
<1> DEFINE near == {i \in DOMAIN points : Gap(points[i].voltage, v) < Near}
<1>1. /\ Len(points) \in Nat /\ DOMAIN points = 1 .. Len(points)
      /\ \A i \in DOMAIN points : points[i].voltage \in Nat
  BY PointsOf DEF IsCurve
<1>2. CASE near = {}
  <2>1. \A i \in DOMAIN points : points[i].voltage # v
    <3> SUFFICES ASSUME NEW i \in DOMAIN points, points[i].voltage = v PROVE FALSE
      OBVIOUS
    <3>1. Gap(v, v) < Near
      BY VoltageAssumption DEF Gap, Voltages
    <3>2. i \in near
      BY <3>1
    <3> QED
      BY <1>2, <3>2
  <2>2. Refined(v, w) = Sorted(points, Point(v, w))
    BY <1>2 DEF Refined
  <2> QED
    BY <2>1, <2>2, SortedKeeps
<1>3. CASE near # {}
  <2> DEFINE m == Min(near)
  <2>1. m \in near
    <3>1. near \in SUBSET Nat
      BY <1>1
    <3> HIDE DEF near
    <3> QED
      BY <1>3, <3>1, MinIsLeast
  <2>2. Refined(v, w) = [points EXCEPT ![m].watts = (Alpha * w + (100 - Alpha) * @) \div 100,
                                       ![m].count = @ + 1]
    BY <1>3 DEF Refined
  <2>3. m \in DOMAIN points /\ Gap(points[m].voltage, v) < Near
    BY <2>1
  <2> HIDE DEF m
  <2>4. IsCurve([points EXCEPT ![m].watts = (Alpha * w + (100 - Alpha) * @) \div 100,
                               ![m].count = @ + 1])
    BY <2>3, BlendedKeeps, Zenon
  <2> QED
    BY <2>2, <2>4, Zenon
<1> QED
  BY <1>2, <1>3

\* The voltages of a sweep.
LEMMA SweepVoltages ==
  ASSUME NEW span \in Spans, NEW n \in 1 .. SweepSteps
  PROVE  /\ SweepVoltage(span, n) \in Voltages
         /\ \A k \in 1 .. SweepSteps : n < k => SweepVoltage(span, n) < SweepVoltage(span, k)
<1> DEFINE m == SweepSteps + 1
<1>1. /\ span \in Nat /\ span <= MaxVoltage /\ m \in Nat \ {0} /\ m <= span
      /\ MaxVoltage \in Nat /\ SweepSteps \in Nat
  BY VoltageAssumption DEF Voltages
<1>2. n \in Nat /\ n <= m
  BY <1>1
<1> HIDE DEF m
<1>3. \A i, k \in Nat : i * k \in Nat
  OBVIOUS
<1>4. SweepVoltage(span, n) = (n * span) \div m /\ \A k : SweepVoltage(span, k) = (k * span) \div m
  BY DEF SweepVoltage, m
<1>5. (n * span) \div m \in Nat /\ (n * span) \div m <= span
  <2> DEFINE a == n * span
             d == a \div m
  <2>1. a \in Nat
    BY <1>1, <1>2, <1>3
  <2>2. a <= m * span
    <3>1. span * n <= span * m
      BY <1>1, <1>2, Scale
    <3> QED
      BY <1>1, <1>2, <3>1
  <2> HIDE DEF a
  <2>3. d \in Nat /\ m * d <= a
    BY <1>1, <2>1, Division
  <2> HIDE DEF d
  <2>4. m * d <= m * span
    <3>1. m * d \in Int /\ m * span \in Int
      BY <1>1, <2>3
    <3> QED
      BY <2>1, <2>2, <2>3, <3>1
  <2>5. d <= span
    BY <1>1, <2>3, <2>4, Cancel
  <2> QED
    BY <2>3, <2>5 DEF d, a
<1>6. ASSUME NEW k \in 1 .. SweepSteps, n < k PROVE (n * span) \div m < (k * span) \div m
  <2> DEFINE a == n * span
             b == k * span
             d == a \div m
             e == b \div m
  <2>1. k \in Nat /\ n + 1 <= k
    BY <1>1, <1>2, <1>6
  <2>2. a \in Nat /\ b \in Nat
    BY <1>1, <1>2, <1>3, <2>1
  <2>3. a + m <= b
    <3>1. span * (n + 1) <= span * k
      BY <1>1, <1>2, <2>1, Scale
    <3>2. span * (n + 1) = a + span /\ span * k = b
      BY <1>1, <1>2, <2>1
    <3> HIDE DEF a, b
    <3> QED
      BY <1>1, <2>2, <3>1, <3>2
  <2> HIDE DEF a, b
  <2>4. d \in Nat /\ m * d <= a /\ a < m * d + m
    BY <1>1, <2>2, Division
  <2>5. e \in Nat /\ m * e <= b /\ b < m * e + m
    BY <1>1, <2>2, Division
  <2> HIDE DEF d, e
  <2>6. m * (d + 1) <= m * e + (m - 1)
    <3>1. m * (d + 1) = m * d + m /\ m * d \in Int /\ m * e \in Int
      BY <1>1, <2>4, <2>5
    <3> QED
      BY <1>1, <2>2, <2>3, <2>4, <2>5, <3>1
  <2>7. ~(e <= d)
    <3> SUFFICES ASSUME e <= d PROVE FALSE
      OBVIOUS
    <3>1. m * e <= m * d
      BY <1>1, <2>4, <2>5, Scale
    <3>2. m * (d + 1) = m * d + m /\ m * d \in Int /\ m * e \in Int
      BY <1>1, <2>4, <2>5
    <3> QED
      BY <1>1, <2>6, <3>1, <3>2
  <2> QED
    BY <2>4, <2>5, <2>7 DEF d, e, a, b
<1> QED
  BY <1>1, <1>4, <1>5, <1>6 DEF Voltages

LEMMA SweepKeeps ==
  ASSUME NEW span \in Spans, NEW pts \in SweepResults(span) PROVE IsCurve(pts)
<1> DEFINE V(n) == SweepVoltage(span, n)
<1>1. PICK s \in StepsRead :
        \E w \in {f \in [DOMAIN s -> UNION {Draws[v] : v \in Voltages}] :
                    \A i \in DOMAIN s : f[i] \in Draws[V(s[i])] /\ ~Refused(V(s[i]), f[i])} :
          pts = [i \in DOMAIN s |-> Point(V(s[i]), w[i])]
  BY DEF SweepResults
<1>2. PICK w : /\ \A i \in DOMAIN s : w[i] \in Draws[V(s[i])]
               /\ pts = [i \in DOMAIN s |-> Point(V(s[i]), w[i])]
  BY <1>1
<1>3. PICK m \in 0 .. SweepSteps :
        s \in [1 .. m -> 1 .. SweepSteps] /\ \A i, j \in 1 .. m : i < j => s[i] < s[j]
  BY DEF StepsRead
<1>4. m \in Nat /\ DOMAIN s = 1 .. m /\ \A i \in 1 .. m : s[i] \in 1 .. SweepSteps
  BY <1>3, VoltageAssumption
<1>5. \A n \in 1 .. SweepSteps :
        V(n) \in Voltages /\ \A k \in 1 .. SweepSteps : n < k => V(n) < V(k)
  BY SweepVoltages, Zenon
<1> HIDE DEF V
<1>6. pts = [i \in 1 .. m |-> Point(V(s[i]), w[i])]
  BY <1>2, <1>4
<1>7. ASSUME NEW i \in 1 .. m
      PROVE  /\ pts[i].voltage = V(s[i]) /\ pts[i].watts = w[i] /\ pts[i].count = 1
             /\ pts[i] = [voltage |-> V(s[i]), watts |-> w[i], count |-> 1]
  BY <1>6 DEF Point
<1>8. ASSUME NEW i \in 1 .. m PROVE V(s[i]) \in Voltages /\ w[i] \in Draws[V(s[i])] /\ w[i] \in Nat
  <2>1. V(s[i]) \in Voltages /\ w[i] \in Draws[V(s[i])]
    BY <1>2, <1>4, <1>5
  <2> QED
    BY <2>1, DrawnIsNat, Zenon
<1>9. ASSUME NEW i \in 1 .. m
      PROVE  pts[i] \in [voltage : Voltages, watts : Nat, count : Nat \ {0}]
  <2>1. \A x \in Voltages, y \in Nat :
          [voltage |-> x, watts |-> y, count |-> 1] \in [voltage : Voltages, watts : Nat, count : Nat \ {0}]
    OBVIOUS
  <2>2. [voltage |-> V(s[i]), watts |-> w[i], count |-> 1] \in
          [voltage : Voltages, watts : Nat, count : Nat \ {0}]
    BY <1>8, <2>1, Zenon
  <2> QED
    BY <1>7, <2>2, Zenon
<1>10. ASSUME NEW i \in 1 .. m, pts[i].voltage = 0 PROVE pts[i].watts = 0
  <2>1. V(s[i]) < Near
    <3>1. 0 < Near
      BY VoltageAssumption
    <3>2. V(s[i]) = 0
      BY <1>7, <1>10, Zenon
    <3> QED
      BY <3>1, <3>2
  <2>2. w[i] = 0
    BY <1>8, <2>1, NothingDrawn, Zenon
  <2> QED
    BY <1>7, <2>2
<1>11. ASSUME NEW i \in 1 .. m, NEW j \in 1 .. m, i < j PROVE pts[i].voltage < pts[j].voltage
  <2>1. s[i] < s[j] /\ s[i] \in 1 .. SweepSteps /\ s[j] \in 1 .. SweepSteps
    BY <1>3, <1>4, <1>11
  <2>2. V(s[i]) < V(s[j])
    BY <1>5, <2>1
  <2> QED
    BY <1>7, <2>2
<1>12. pts = [i \in 1 .. m |-> pts[i]]
  BY <1>6
<1> HIDE DEF V
<1> QED
  BY <1>4, <1>9, <1>10, <1>11, <1>12, CurveOf

\* The expected power is a fraction that is not negative.
LEMMA ExpectedIs ==
  ASSUME NEW c, IsPooled(c), NEW v \in Nat
  PROVE  ExpectedPower(c, <<v, 1>>)[1] \in Nat /\ ExpectedPower(c, <<v, 1>>)[2] \in Nat
<1> DEFINE N == Len(c)
           V == <<v, 1>>
           e == ExpectedPower(c, V)
<1>1. /\ N \in Nat /\ N >= 2 /\ 1 \in 1 .. N /\ N \in 1 .. N /\ 1 < N /\ Last(c) = c[N]
      /\ \A i \in 1 .. N : IsPoint(c[i])
      /\ c[1].voltage < c[N].voltage
  BY DEF IsPooled, Last
<1>2. v \in Int /\ IsFraction(V)
  <2>1. v \in Int
    OBVIOUS
  <2> QED
    BY <2>1, WholeNumbers, Zenon
<1>3. \A i, k \in Nat : i * k \in Nat
  OBVIOUS
<1>4. CASE AtMost(V, <<c[1].voltage, 1>>)
  <2>1. e = IF c[1].voltage = 0 THEN <<0, 1>>
            ELSE <<c[1].level[1] * V[1], c[1].level[2] * c[1].voltage * V[2]>>
    <3> HIDE DEF V
    <3> QED
      BY <1>2, <1>4, PowerBelow
  <2>2. c[1].level[1] \in Nat /\ c[1].level[2] \in Nat /\ c[1].voltage \in Nat
    BY <1>1 DEF IsPoint
  <2>3. V[1] = v /\ V[2] = 1
    OBVIOUS
  <2>4. c[1].level[1] * v \in Nat /\ c[1].level[2] * c[1].voltage * 1 \in Nat
    BY <1>3, <2>2
  <2> HIDE DEF e, V
  <2>5. e[1] \in Nat /\ e[2] \in Nat
    BY <2>1, <2>3, <2>4
  <2> QED
    BY <2>5 DEF e, V
<1>5. CASE ~AtMost(V, <<c[1].voltage, 1>>) /\ AtMost(<<Last(c).voltage, 1>>, V)
  <2>1. e = Last(c).level
    <3> HIDE DEF V
    <3> QED
      BY <1>5 DEF ExpectedPower
  <2>2. Last(c).level[1] \in Nat /\ Last(c).level[2] \in Nat
    BY <1>1 DEF IsPoint
  <2> QED
    BY <2>1, <2>2
<1>6. CASE ~AtMost(V, <<c[1].voltage, 1>>) /\ ~AtMost(<<Last(c).voltage, 1>>, V)
  <2> DEFINE D == {k \in 1 .. N - 1 : AtMost(V, <<c[k + 1].voltage, 1>>)}
             S == {k \in 1 .. N : AtMost(V, <<c[k].voltage, 1>>)}
             i == Min(D)
  <2>1. e = PowerBetween(c[i], c[i + 1], V)
    <3> HIDE DEF V
    <3> QED
      BY <1>6 DEF ExpectedPower
  <2>2. AtMost(V, <<c[N].voltage, 1>>)
    <3>1. c[N].voltage \in Int
      BY <1>1 DEF IsPoint
    <3>2. IsFraction(<<c[N].voltage, 1>>)
      BY <3>1, WholeNumbers, Zenon
    <3>3. AtMost(<<c[N].voltage, 1>>, V) \/ AtMost(V, <<c[N].voltage, 1>>)
      BY <1>2, <3>2, AtMostTotal, Zenon
    <3> QED
      BY <1>1, <1>6, <3>3
  <2>3. D = {k \in 1 .. N - 1 : k + 1 \in S}
    <3>1. \A k \in 1 .. N - 1 : k + 1 \in 1 .. N
      BY <1>1
    <3> HIDE DEF V
    <3> QED
      BY <3>1
  <2>4. S \in SUBSET (1 .. N) /\ N \in S /\ 1 \notin S
    <3> HIDE DEF V
    <3> QED
      BY <1>1, <1>6, <2>2
  <2>5. i \in 1 .. N - 1 /\ \A k \in 1 .. i : k \notin S
    <3> HIDE DEF S, N
    <3>1. LET h == Min({k \in 1 .. N - 1 : k + 1 \in S}) IN
          h \in 1 .. N - 1 /\ h + 1 \in S /\ \A k \in 1 .. h : k \notin S
      BY <1>1, <2>4, FirstSegment
    <3> QED
      BY <2>3, <3>1
  <2> HIDE DEF i
  <2>6. i \in 1 .. i /\ i \in 1 .. N /\ i + 1 \in 1 .. N
    BY <1>1, <2>5
  <2>7. ~AtMost(V, <<c[i].voltage, 1>>)
    <3> HIDE DEF V
    <3> QED
      BY <2>5, <2>6
  <2> DEFINE p == c[i]
             q == c[i + 1]
             x == p.voltage
             y == q.voltage
             a == p.level[1]
             b == p.level[2]
             k == q.level[1]
             d == q.level[2]
  <2>8. IsPoint(p) /\ IsPoint(q) /\ x < y /\ AtMost(p.level, q.level)
    BY <2>5, SegmentPoints
  <2>9. x \in Nat /\ y \in Nat /\ a \in Nat /\ b \in Nat /\ k \in Nat /\ d \in Nat
    BY <2>8 DEF IsPoint
  <2>10. a * d <= k * b
    BY <2>8, Zenon DEF AtMost
  <2>11. ~(v * 1 <= x * 1)
    BY <2>7 DEF AtMost
  <2>12. PowerBetween(p, q, V) =
           <<a * d * ((y - x) * 1) + (v - x * 1) * (k * b - a * d), b * d * ((y - x) * 1)>>
    BY DEF PowerBetween
  <2>13. e = PowerBetween(p, q, V)
    BY <2>1
  <2> HIDE DEF p, q, x, y, a, b, k, d, e
  <2>14. /\ (y - x) * 1 \in Nat /\ v - x * 1 \in Nat /\ k * b - a * d \in Nat
    <3>1. a * d \in Nat /\ k * b \in Nat
      BY <1>3, <2>9
    <3>2. k * b - a * d \in Nat
      BY <2>10, <3>1
    <3> QED
      BY <2>8, <2>9, <2>11, <3>2
  <2>15. /\ a * d * ((y - x) * 1) \in Nat /\ (v - x * 1) * (k * b - a * d) \in Nat
         /\ b * d * ((y - x) * 1) \in Nat
    BY <1>3, <2>9, <2>14, Zenon
  <2>16. a * d * ((y - x) * 1) + (v - x * 1) * (k * b - a * d) \in Nat
    <3>1. \A g, h \in Nat : g + h \in Nat
      OBVIOUS
    <3> QED
      BY <2>15, <3>1, Zenon
  <2> QED
    BY <2>12, <2>13, <2>15, <2>16 DEF e
<1> QED
  BY <1>4, <1>5, <1>6

LEMMA GapIs == \A a, b \in Nat : Gap(a, b) \in Nat
  BY DEF Gap

LEMMA DeviatedKeeps ==
  ASSUME IsCurve(points), NEW v \in Voltages, NEW w \in Nat,
         history \in Seq(Nat), Len(history) <= HistoryMax
  PROVE  Deviated(v, w) \in Seq(Nat) /\ Len(Deviated(v, w)) <= HistoryMax
<1> DEFINE e == ExpectedPower(Pooled(points), <<v, 1>>)
           h == Append(history, Deviation(v, w))
<1>1. v \in Nat /\ Len(history) \in Nat
  BY VoltageAssumption DEF Voltages
<1>2. /\ HistoryMax \in Nat \ {0} /\ HistoryKeep \in Nat \ {0} /\ HistoryKeep <= HistoryMax
  BY HistoryAssumption
<1>3. CASE ~HasCalibration(points) \/ e[1] = 0
  <2>1. Deviated(v, w) = history
    BY <1>3 DEF Deviated
  <2> QED
    BY <2>1
<1>4. CASE HasCalibration(points) /\ e[1] # 0
  <2>1. e[1] \in Nat /\ e[2] \in Nat
    <3>1. IsPooled(Pooled(points))
      BY <1>4, PooledRises DEF IsCurve
    <3> QED
      BY <1>1, <3>1, ExpectedIs
  <2>2. Deviation(v, w) = (100 * Gap(w * e[2], e[1])) \div e[1]
    BY DEF Deviation
  <2>3. Deviated(v, w) = IF Len(h) > HistoryMax THEN Recent(h, HistoryKeep) ELSE h
    BY <1>4 DEF Deviated
  <2>4. Deviation(v, w) \in Nat
    <3> HIDE DEF e
    <3>1. \A i, k \in Nat : i * k \in Nat
      OBVIOUS
    <3>2. w * e[2] \in Nat /\ e[1] \in Nat \ {0} /\ 100 \in Nat
      BY <1>4, <2>1, <3>1
    <3>3. 100 * Gap(w * e[2], e[1]) \in Nat
      BY <2>1, <3>1, <3>2, GapIs, Zenon
    <3>4. (100 * Gap(w * e[2], e[1])) \div e[1] \in Nat
      BY <3>2, <3>3, Division, Zenon
    <3> QED
      BY <2>2, <3>4
  <2>5. h \in Seq(Nat) /\ Len(h) = Len(history) + 1
    BY <2>4
  <2> HIDE DEF h
  <2>6. CASE Len(h) > HistoryMax
    <3> DEFINE n == Len(h)
               k == IF n > HistoryKeep THEN n - HistoryKeep + 1 ELSE 1
    <3>1. n > HistoryKeep /\ k = n - HistoryKeep + 1 /\ n \in Nat
      BY <1>1, <1>2, <2>5, <2>6
    <3>2. k \in Int /\ n \in Int /\ k >= 1 /\ k <= n /\ n - k + 1 = HistoryKeep
      BY <1>2, <3>1
    <3>3. \A i \in 1 .. n : h[i] \in Nat
      BY <2>5, ElementOfSeq
    <3>4. \A i \in k .. n : h[i] \in Nat
      <4> HIDE DEF k, n
      <4>1. \A i \in k .. n : i \in 1 .. n
        BY <3>2
      <4> QED
        BY <3>3, <4>1
    <3>5. Recent(h, HistoryKeep) = SubSeq(h, k, n)
      BY DEF Recent
    <3> HIDE DEF k, n
    <3>6. SubSeq(h, k, n) \in Seq(Nat) /\ Len(SubSeq(h, k, n)) = IF k <= n THEN n - k + 1 ELSE 0
      BY <3>2, <3>4, SubSeqProperties, Zenon
    <3>7. Len(SubSeq(h, k, n)) = HistoryKeep
      BY <3>2, <3>6
    <3>8. Deviated(v, w) = SubSeq(h, k, n)
      BY <2>3, <2>6, <3>5
    <3> QED
      BY <1>2, <3>6, <3>7, <3>8
  <2>7. CASE ~(Len(h) > HistoryMax)
    <3>1. Deviated(v, w) = h
      BY <2>3, <2>7
    <3> QED
      BY <1>1, <1>2, <2>5, <2>7, <3>1
  <2> QED
    BY <2>6, <2>7
<1> QED
  BY <1>3, <1>4

-----------------------------------------------------------------------------
(* The invariant: curves in memory and in the file, none with power at no  *)
(* voltage.                                                                *)

Ages == 0 .. MaxAge + 1
IInv ==
  /\ IsCurve(points) /\ age \in Ages
  /\ file \in [points : Curves, age : Ages] /\ IsCurve(file.points)
  /\ history \in Seq(Nat) /\ Len(history) <= HistoryMax

LEMMA AgesAre == 0 \in Ages /\ \A a \in Ages : Later(a) \in Ages
  BY HistoryAssumption DEF Ages, Later

LEMMA NoPoints == IsCurve(<<>>) /\ <<>> \in Curves
  BY DEF IsCurve, Curves, Rising, Dead

LEMMA InitInv == Init => IInv
<1> SUFFICES ASSUME Init PROVE IInv
  OBVIOUS
<1>1. /\ points = <<>> /\ age = 0 /\ history = <<>>
      /\ file = [points |-> <<>>, age |-> 0]
  BY DEF Init
<1>2. file \in [points : Curves, age : Ages] /\ file.points = <<>>
  BY <1>1, NoPoints, AgesAre
<1>3. history \in Seq(Nat) /\ Len(history) <= HistoryMax
  BY <1>1, HistoryAssumption
<1> QED
  BY <1>1, <1>2, <1>3, NoPoints, AgesAre DEF IInv

\* A write leaves the new curve, or the old one.
LEMMA SaveKeeps ==
  ASSUME IInv, Save, IsCurve(points'), age' \in Ages
  PROVE  file' \in [points : Curves, age : Ages] /\ IsCurve(file'.points)
<1>1. file' = [points |-> points', age |-> age'] \/ file' = file
  BY DEF Save
<1>2. points' \in Curves
  BY DEF IsCurve
<1>3. CASE file' = [points |-> points', age |-> age']
  BY <1>2, <1>3
<1>4. CASE file' = file
  BY <1>4 DEF IInv
<1> QED
  BY <1>1, <1>3, <1>4

LEMMA StepInv == IInv /\ [Next]_vars => IInv'
<1> SUFFICES ASSUME IInv, [Next]_vars PROVE IInv'
  OBVIOUS
<1> SUFFICES /\ IsCurve(points') /\ age' \in Ages
             /\ file' \in [points : Curves, age : Ages] /\ IsCurve(file'.points)
             /\ history' \in Seq(Nat) /\ Len(history') <= HistoryMax
  BY DEF IInv, IsCurve, Curves, Rising, Dead, Ages
<1>1. /\ IsCurve(points) /\ age \in Ages
      /\ file \in [points : Curves, age : Ages] /\ IsCurve(file.points)
      /\ history \in Seq(Nat) /\ Len(history) <= HistoryMax
  BY DEF IInv
<1>2. <<>> \in Seq(Nat) /\ Len(<<>>) <= HistoryMax
  BY HistoryAssumption
<1>3. CASE Update
  <2>1. PICK v \in Driven : \E w \in Draws[v] :
          points' = Refined(v, w) /\ history' = Deviated(v, w) /\ age' = age /\ Save
    BY <1>3 DEF Update
  <2>2. PICK w \in Draws[v] : points' = Refined(v, w) /\ history' = Deviated(v, w) /\ age' = age /\ Save
    BY <2>1
  <2>3. v \in Voltages
    BY VoltageAssumption
  <2>4. w \in Nat
    BY <2>3, DrawnIsNat
  <2>5. IsCurve(points')
    BY <1>1, <2>2, <2>3, RefinedKeeps
  <2>6. history' \in Seq(Nat) /\ Len(history') <= HistoryMax
    BY <1>1, <2>2, <2>3, <2>4, DeviatedKeeps
  <2>7. age' \in Ages
    BY <1>1, <2>2
  <2> QED
    BY <2>2, <2>5, <2>6, <2>7, SaveKeeps
<1>4. CASE SetCalibration
  <2>1. PICK span \in Spans : \E pts \in SweepResults(span) : points' = pts
    BY <1>4 DEF SetCalibration
  <2>2. IsCurve(points')
    BY <2>1, SweepKeeps
  <2>3. age' = 0 /\ history' = <<>> /\ Save
    BY <1>4 DEF SetCalibration
  <2>4. age' \in Ages
    BY <2>3, AgesAre
  <2> QED
    BY <1>2, <2>2, <2>3, <2>4, SaveKeeps
<1>5. CASE Restart
  BY <1>1, <1>2, <1>5 DEF Restart
<1>6. CASE FileLost
  <2>1. /\ file' = [points |-> <<>>, age |-> 0] /\ points' = <<>> /\ age' = 0 /\ history' = <<>>
    BY <1>6 DEF FileLost
  <2> QED
    BY <1>2, <2>1, NoPoints, AgesAre
<1>7. CASE TimePasses
  <2>1. /\ age' = Later(age) /\ file' = [file EXCEPT !.age = Later(@)]
        /\ points' = points /\ history' = history
    BY <1>7 DEF TimePasses
  <2>2. age' \in Ages /\ Later(file.age) \in Ages
    BY <1>1, <2>1, AgesAre
  <2>3. file' \in [points : Curves, age : Ages] /\ file'.points = file.points
    BY <1>1, <2>1, <2>2
  <2> QED
    BY <1>1, <2>1, <2>2, <2>3
<1>8. CASE UNCHANGED vars
  BY <1>1, <1>8 DEF vars
<1> QED
  BY <1>3, <1>4, <1>5, <1>6, <1>7, <1>8 DEF Next

LEMMA Invariance == Spec => []IInv
<1>1. IInv /\ UNCHANGED vars => IInv'
  BY StepInv
<1> QED
  BY InitInv, StepInv, PTL DEF Spec

\* Every variable keeps its type; a curve rises in voltage, no two points share
\* one, and the history of deviations keeps its bound, whatever the rod draws,
\* the sweeps bring home and the file keeps (calibration.rs: update, set_calibration,
\* load).
THEOREM TypeCorrect == Spec => []TypeOK
<1>1. IInv => TypeOK
  BY DEF IInv, TypeOK, IsCurve, Ages
<1> QED
  BY <1>1, Invariance, PTL

\* monotonic_points, which joins adjacent points until nothing falls any more,
\* yields the isotonic regression of any curve that is ever learned: the max-min
\* formula over the means of its runs.
THEOREM PoolingIsRegression == Spec => []PoolingIsIsotonic
<1>1. IInv => PoolingIsIsotonic
  BY PoolingComputesIt DEF IInv, IsCurve
<1> QED
  BY <1>1, Invariance, PTL

\* voltage_for_power and expected_power are inverse to each other on the range
\* of every curve that can be used.
THEOREM LookupsAgree == Spec => []VoltageGivesPower
<1>1. IInv => VoltageGivesPower
  <2> SUFFICES ASSUME IInv, HasCalibration(points), NEW t \in Targets,
                      AtMost(<<t, 1>>, Last(Pooled(points)).level)
               PROVE  SameFraction(ExpectedPower(Pooled(points), VoltageForPower(Pooled(points), t)), <<t, 1>>)
    BY DEF VoltageGivesPower
  <2>1. IsPooled(Pooled(points))
    BY PooledRises DEF IInv, IsCurve
  <2>2. t \in Nat
    BY WattsAssumption
  <2> QED
    BY <2>1, <2>2, PowerOfVoltage
<1> QED
  BY <1>1, Invariance, PTL

\* The voltage rises with the power that is asked for, below, within and above
\* the range of every curve that can be used, and keeps to what the DAC gives.
THEOREM VoltageFollowsPower == Spec => []MorePowerMoreVoltage
<1>1. IInv => MorePowerMoreVoltage
  <2> DEFINE c == Pooled(points)
             asked == {[watts |-> t, volts |-> VoltageForPower(c, t)] : t \in Targets}
  <2> SUFFICES ASSUME IInv, HasCalibration(points), NEW a \in asked, NEW b \in asked
               PROVE  /\ a.watts <= b.watts => AtMost(a.volts, b.volts)
                      /\ AtMost(a.volts, <<MaxVoltage, 1>>)
    BY DEF MorePowerMoreVoltage
  <2>1. IsPooled(c)
    BY PooledRises DEF IInv, IsCurve
  <2> HIDE DEF c
  <2>2. PICK t \in Targets : a = [watts |-> t, volts |-> VoltageForPower(c, t)]
    OBVIOUS
  <2>3. PICK s \in Targets : b = [watts |-> s, volts |-> VoltageForPower(c, s)]
    OBVIOUS
  <2>4. t \in Nat /\ s \in Nat
    BY WattsAssumption
  <2>5. a.watts = t /\ a.volts = VoltageForPower(c, t) /\ b.watts = s /\ b.volts = VoltageForPower(c, s)
    BY <2>2, <2>3
  <2>6. t <= s => AtMost(VoltageForPower(c, t), VoltageForPower(c, s))
    BY <2>1, <2>4, VoltageRises
  <2>7. AtMost(VoltageForPower(c, t), <<MaxVoltage, 1>>)
    BY <2>1, <2>4, VoltageBounded
  <2> QED
    BY <2>5, <2>6, <2>7
<1> QED
  BY <1>1, Invariance, PTL

-----------------------------------------------------------------------------
(* A curve with power out of reach of the dead band keeps it.              *)

Far(p) == p.watts > ZeroWatts /\ p.voltage >= Meaningful + Near

\* The first powered point out of reach stays one, or is moved up by one.
LEMMA SortedLasts ==
  ASSUME NEW pts \in Curves, NEW p \in [voltage : Voltages, watts : Nat, count : Nat \ {0}],
         Lasting(pts)
  PROVE  Lasting(Sorted(pts, p))
<1> DEFINE n == Len(pts)
           S == {i \in 1 .. n + 1 : i = n + 1 \/ pts[i].voltage > p.voltage}
           j == Min(S)
           s == InsertAt(pts, j, p)
<1>1. n \in Nat /\ DOMAIN pts = 1 .. n
  BY PointsOf
<1>2. PICK k \in 1 .. n : Far(pts[k])
  BY <1>1 DEF Lasting, Far
<1>3. j \in 1 .. n + 1
  <2>1. S \in SUBSET Nat /\ n + 1 \in S
    BY <1>1
  <2>2. S \subseteq 1 .. n + 1
    OBVIOUS
  <2> HIDE DEF S
  <2> QED
    BY <2>1, <2>2, MinIsLeast
<1> HIDE DEF j
<1>4. s = [i \in 1 .. n + 1 |-> IF i < j THEN pts[i] ELSE IF i = j THEN p ELSE pts[i - 1]]
  BY <1>3, InsertIs
<1> HIDE DEF s
<1>5. Len(s) = n + 1 /\ DOMAIN s = 1 .. n + 1
  BY <1>1, <1>4
<1>6. \E i \in 1 .. n + 1 : s[i] = pts[k]
  <2>1. CASE k < j
    <3>1. k \in 1 .. n + 1
      BY <1>1
    <3> QED
      BY <1>4, <2>1, <3>1
  <2>2. CASE ~(k < j)
    <3>1. k + 1 \in 1 .. n + 1 /\ ~(k + 1 < j) /\ k + 1 # j /\ (k + 1) - 1 = k
      BY <1>1, <1>3, <2>2
    <3> QED
      BY <1>4, <3>1
  <2> QED
    BY <2>1, <2>2
<1>7. Len(s) >= 2
  BY <1>1, <1>5 DEF Lasting
<1>8. Lasting(s)
  BY <1>2, <1>5, <1>6, <1>7 DEF Lasting, Far
<1> QED
  BY <1>8 DEF Sorted, s, j

\* Two powers blended give a power.
LEMMA BlendIsPower ==
  ASSUME NEW w \in Nat, NEW o \in Nat, w > ZeroWatts, o > ZeroWatts
  PROVE  (Alpha * w + (100 - Alpha) * o) \div 100 > ZeroWatts
<1> DEFINE z == ZeroWatts + 1
           x == Alpha * w + (100 - Alpha) * o
<1>1. Alpha \in Nat /\ 100 - Alpha \in Nat /\ ZeroWatts \in Nat /\ z \in Nat /\ w >= z /\ o >= z
  BY WattsAssumption
<1>2. \A a, b, c \in Nat : b >= c => a * b >= a * c
  OBVIOUS
<1>3. \A a, b \in Nat : a * b \in Nat
  OBVIOUS
<1> HIDE DEF z
<1>4. Alpha * w >= Alpha * z /\ (100 - Alpha) * o >= (100 - Alpha) * z
  BY <1>1, <1>2, Zenon
<1>5. /\ Alpha * w \in Nat /\ (100 - Alpha) * o \in Nat
      /\ Alpha * z \in Nat /\ (100 - Alpha) * z \in Nat
  BY <1>1, <1>3, Zenon
<1>6. Alpha * z + (100 - Alpha) * z = 100 * z
  <2>1. \A a, c \in Nat : a * c + (100 - a) * c = 100 * c
    OBVIOUS
  <2> QED
    BY <1>1, <2>1
<1>7. x \in Nat /\ x >= 100 * z
  BY <1>1, <1>4, <1>5, <1>6
<1> HIDE DEF x
<1>8. x \div 100 \in Nat /\ x < 100 * (x \div 100) + 100
  BY <1>7, Division
<1>9. x \div 100 >= z
  BY <1>1, <1>7, <1>8
<1> QED
  BY <1>1, <1>9 DEF x, z

\* Only what is read near a point moves it, and 0 W are refused there.
LEMMA BlendedLasts ==
  ASSUME NEW pts \in Curves, Lasting(pts), NEW v \in Voltages, NEW w \in Draws[v], ~Refused(v, w),
         NEW m \in DOMAIN pts, Gap(pts[m].voltage, v) < Near
  PROVE  Lasting([pts EXCEPT ![m].watts = (Alpha * w + (100 - Alpha) * @) \div 100,
                             ![m].count = @ + 1])
<1> DEFINE n == Len(pts)
           R == [voltage : Voltages, watts : Nat, count : Nat \ {0}]
           x == (Alpha * w + (100 - Alpha) * pts[m].watts) \div 100
           s == [pts EXCEPT ![m].watts = (Alpha * w + (100 - Alpha) * @) \div 100,
                            ![m].count = @ + 1]
<1>1. n \in Nat /\ DOMAIN pts = 1 .. n /\ \A i \in 1 .. n : pts[i] \in R
  BY PointsOf
<1>2. pts \in [1 .. n -> R]
  BY LenProperties, Zenon DEF Curves
<1>3. /\ m \in 1 .. n /\ w \in Nat /\ v \in Nat
      /\ pts[m].voltage \in Nat /\ pts[m].watts \in Nat
  BY <1>1, DrawnIsNat, VoltageAssumption, PointsOf DEF Voltages
<1>4. PICK k \in 1 .. n : Far(pts[k])
  BY <1>1 DEF Lasting, Far
<1>5. /\ s = [i \in 1 .. n |-> s[i]]
      /\ \A i \in 1 .. n : i # m => s[i] = pts[i]
      /\ s[m].voltage = pts[m].voltage /\ s[m].watts = x
  <2>1. pts[m] = [voltage |-> pts[m].voltage, watts |-> pts[m].watts, count |-> pts[m].count]
    BY <1>1, <1>3
  <2> HIDE DEF x, n, R
  <2> QED
    BY <1>2, <1>3, <2>1 DEF x
<1> HIDE DEF s, x
<1>6. Len(s) = n /\ DOMAIN s = 1 .. n
  BY <1>1, <1>5
<1>7. Far(s[k])
  <2>1. CASE k # m
    BY <1>4, <1>5, <2>1
  <2>2. CASE k = m
    <3>1. pts[m].watts > ZeroWatts /\ pts[m].voltage >= Meaningful + Near
      BY <1>4, <2>2 DEF Far
    <3>2. v > Meaningful
      BY <1>3, <3>1, VoltageAssumption DEF Gap
    <3>3. w > ZeroWatts
      BY <1>3, <3>2, WattsAssumption DEF Refused
    <3>4. x > ZeroWatts
      BY <1>3, <3>1, <3>3, BlendIsPower DEF x
    <3> QED
      <4>1. s[m].voltage >= Meaningful + Near /\ s[m].watts > ZeroWatts
        BY <1>5, <3>1, <3>4
      <4> QED
        BY <2>2, <4>1, Zenon DEF Far
  <2> QED
    BY <2>1, <2>2
<1>8. Len(s) >= 2
  BY <1>6 DEF Lasting
<1>9. Lasting(s)
  BY <1>6, <1>7, <1>8 DEF Lasting, Far
<1> QED
  BY <1>9 DEF s

LEMMA RefinedLasts ==
  ASSUME points \in Curves, Lasting(points), NEW v \in Voltages, NEW w \in Draws[v], ~Refused(v, w)
  PROVE  Lasting(Refined(v, w))
<1> DEFINE near == {i \in DOMAIN points : Gap(points[i].voltage, v) < Near}
<1>1. CASE near = {}
  <2>1. Refined(v, w) = Sorted(points, Point(v, w))
    BY <1>1 DEF Refined
  <2>2. Point(v, w) \in [voltage : Voltages, watts : Nat, count : Nat \ {0}]
    BY DrawnIsNat DEF Point
  <2> QED
    BY <2>1, <2>2, SortedLasts
<1>2. CASE near # {}
  <2> DEFINE m == Min(near)
  <2>1. m \in near
    <3>1. near \in SUBSET Nat
      BY PointsOf
    <3> HIDE DEF near
    <3> QED
      BY <1>2, <3>1, MinIsLeast
  <2>2. Refined(v, w) = [points EXCEPT ![m].watts = (Alpha * w + (100 - Alpha) * @) \div 100,
                                       ![m].count = @ + 1]
    BY <1>2 DEF Refined
  <2>3. m \in DOMAIN points /\ Gap(points[m].voltage, v) < Near
    BY <2>1
  <2> HIDE DEF m
  <2>4. Lasting([points EXCEPT ![m].watts = (Alpha * w + (100 - Alpha) * @) \div 100,
                               ![m].count = @ + 1])
    BY <2>3, BlendedLasts, Zenon
  <2> QED
    BY <2>2, <2>4, Zenon
<1> QED
  BY <1>1, <1>2

\* Whatever the feedback loop reads, a curve with power out of reach of the dead
\* band is not learned away, and no sweep without power replaces it, in memory
\* or in the file (calibration.rs: update, set_calibration, save).
THEOREM LastingCurveKept == Spec => CurveNeverLost
<1> DEFINE Kept ==
      Lasting(points) =>
        /\ \/ Lasting(points') \/ Restart \/ FileLost
           \/ SetCalibration /\ HasCalibration(points')
        /\ HasCalibration(file.points) => HasCalibration(file'.points) \/ FileLost
<1>1. IInv /\ [Next]_vars => Kept
  <2> SUFFICES ASSUME IInv, [Next]_vars, Lasting(points) PROVE Kept
    OBVIOUS
  <2>1. \A pts : Lasting(pts) => HasCalibration(pts)
    BY DEF Lasting, HasCalibration
  <2>2. ASSUME Save, HasCalibration(points'), HasCalibration(file.points)
        PROVE  HasCalibration(file'.points)
    <3>1. file' = [points |-> points', age |-> age'] \/ file' = file
      BY <2>2 DEF Save
    <3>2. [points |-> points', age |-> age'].points = points'
      OBVIOUS
    <3> QED
      BY <2>2, <3>1, <3>2
  <2>3. CASE Update
    <3>0. PICK v \in Driven : \E w \in Draws[v] : ~Refused(v, w) /\ points' = Refined(v, w) /\ Save
      BY <2>3 DEF Update
    <3>1. PICK w \in Draws[v] : ~Refused(v, w) /\ points' = Refined(v, w) /\ Save
      BY <3>0
    <3>2. points \in Curves /\ v \in Voltages
      BY VoltageAssumption DEF IInv, IsCurve
    <3>3. Lasting(points')
      BY <3>1, <3>2, RefinedLasts
    <3> QED
      BY <2>1, <2>2, <3>1, <3>3
  <2>4. CASE SetCalibration
    <3>1. Save /\ Len(points') >= 2 /\ WorthKeeping(points')
      BY <2>4 DEF SetCalibration
    <3>2. HasCalibration(points')
      BY <3>1 DEF HasCalibration, WorthKeeping
    <3> QED
      BY <2>2, <2>4, <3>1, <3>2
  <2>5. CASE Restart
    BY <2>5 DEF Restart
  <2>6. CASE FileLost
    BY <2>6
  <2>7. CASE TimePasses
    <3>1. points' = points /\ file' = [file EXCEPT !.age = Later(@)]
      BY <2>7 DEF TimePasses
    <3>2. file'.points = file.points
      BY <3>1 DEF IInv
    <3> QED
      BY <3>1, <3>2
  <2>8. CASE UNCHANGED vars
    BY <2>8 DEF vars
  <2> QED
    BY <2>3, <2>4, <2>5, <2>6, <2>7, <2>8 DEF Next
<1>2. IInv /\ [Next]_vars => [Kept]_vars
  BY <1>1
<1> QED
  BY <1>2, Invariance, PTL DEF Spec, CurveNeverLost
=============================================================================
