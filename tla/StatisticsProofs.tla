-------------------------- MODULE StatisticsProofs --------------------------
(***************************************************************************)
(* Theorems about Statistics, for every number of packets in a frame and   *)
(* of frames, every length of a second and every width of the clock and of *)
(* an int that the assumptions of the module allow.                        *)
(***************************************************************************)
EXTENDS Statistics, FiniteSetTheorems, TLAPS

-----------------------------------------------------------------------------
(* Loops.                                                                  *)

\* The library has induction only with an operator for the statement; for a
\* set of numbers the order of their intervals gives a least one.
LEMMA LeastNumber ==
  ASSUME NEW S, S \subseteq Nat, S # {} PROVE \E m \in S : \A n \in S : m <= n
<1> DEFINE Below == {1 .. n : n \in S}
<1>1. Below \subseteq FiniteSubsetsOf(Nat) /\ Below # {}
  <2>1. \A n \in S : 1 .. n \subseteq Nat /\ IsFiniteSet(1 .. n)
    BY FS_Interval
  <2> QED BY <2>1 DEF FiniteSubsetsOf
<1>2. PICK X \in Below : \A Y \in Below : ~(<<Y, X>> \in StrictSubsetOrdering(Nat))
  <2> HIDE DEF Below
  <2> QED BY ONLY <1>1, FS_StrictSubsetOrderingWellFounded, WFMin
<1>3. PICK m \in S : X = 1 .. m
  OBVIOUS
<1>4. ASSUME NEW n \in S, n < m PROVE FALSE
  <2>1. <<1 .. n, 1 .. m>> \in (SUBSET Nat) \X (SUBSET Nat)
    OBVIOUS
  <2>2. 1 .. n \subseteq 1 .. m /\ m \in 1 .. m /\ m \notin 1 .. n
    BY <1>4
  <2>3. <<1 .. n, 1 .. m>> \in StrictSubsetOrdering(Nat)
    BY <2>1, <2>2 DEF StrictSubsetOrdering
  <2> QED BY <1>2, <1>3, <2>3
<1> QED BY <1>4

\* What holds before a loop and is kept by each of its rounds holds after it.
LEMMA AllRounds ==
  ASSUME NEW N \in Nat, NEW S, 0 \in S,
         \A i \in 1 .. N : i - 1 \in S => i \in S
  PROVE  0 .. N \subseteq S
<1> SUFFICES ASSUME ~(0 .. N \subseteq S) PROVE FALSE
  OBVIOUS
<1> DEFINE Missing == (0 .. N) \ S
<1>1. PICK m \in Missing : \A n \in Missing : m <= n
  <2> Missing \subseteq Nat /\ Missing # {}
    OBVIOUS
  <2> HIDE DEF Missing
  <2> QED BY LeastNumber
<1>2. m \in 1 .. N /\ m - 1 \in 0 .. N /\ ~(m <= m - 1)
  OBVIOUS
<1> QED BY <1>1, <1>2

\* The rounds of a loop over 1 .. N: state x0 before the first, and step[<<x, i>>]
\* after round i when x is the state before it.
IsLoop(f, N, x0, step) ==
  f = [i \in 0 .. N |-> IF i = 0 THEN x0 ELSE step[<<f[i - 1], i>>]]

LEMMA LoopStays ==
  ASSUME NEW N \in Nat, NEW X, NEW x0 \in X, NEW step \in [X \X (1 .. N) -> X],
         NEW f, IsLoop(f, N, x0, step)
  PROVE  f \in [0 .. N -> X]
<1> DEFINE S == {i \in 0 .. N : f[i] \in X}
<1>1. f[0] = x0 /\ \A i \in 1 .. N : f[i] = step[<<f[i - 1], i>>]
  BY DEF IsLoop
<1>2. ASSUME NEW i \in 1 .. N, i - 1 \in S PROVE i \in S
  <2>1. <<f[i - 1], i>> \in X \X (1 .. N)
    BY <1>2
  <2>2. step[<<f[i - 1], i>>] \in X
    BY <2>1
  <2> QED BY <1>1, <2>2
<1>3. 0 \in S
  BY <1>1
<1>4. 0 .. N \subseteq S
  <2> HIDE DEF S
  <2> QED BY <1>2, <1>3, AllRounds
<1> QED BY <1>4 DEF IsLoop

LEMMA LoopExists ==
  ASSUME NEW N \in Nat, NEW X, NEW x0 \in X, NEW step \in [X \X (1 .. N) -> X]
  PROVE  \E f : IsLoop(f, N, x0, step)
<1> DEFINE Rounds(n) == {f \in [0 .. n -> X] :
                           f[0] = x0 /\ \A i \in 1 .. n : f[i] = step[<<f[i - 1], i>>]}
           S == {n \in 0 .. N : Rounds(n) # {}}
<1>1. 0 \in S
  <2>1. [i \in 0 .. 0 |-> x0] \in Rounds(0)
    OBVIOUS
  <2> QED BY <2>1
<1>2. ASSUME NEW n \in 1 .. N, n - 1 \in S PROVE n \in S
  <2>1. PICK f : f \in Rounds(n - 1)
    BY <1>2
  <2> DEFINE g == [i \in 0 .. n |-> IF i = n THEN step[<<f[n - 1], n>>] ELSE f[i]]
  <2>2. n - 1 \in 0 .. (n - 1) /\ \A i \in 0 .. n : i # n => i \in 0 .. (n - 1)
    OBVIOUS
  <2>3. f[n - 1] \in X /\ step[<<f[n - 1], n>>] \in X
    BY <2>1, <2>2
  <2>4. g \in [0 .. n -> X] /\ g[0] = x0
    BY <2>1, <2>2, <2>3
  <2>5. ASSUME NEW i \in 1 .. n PROVE g[i] = step[<<g[i - 1], i>>]
    <3>1. i - 1 \in 0 .. n /\ i - 1 # n /\ g[i - 1] = f[i - 1]
      OBVIOUS
    <3>2. CASE i = n
      BY <3>1, <3>2
    <3>3. CASE i # n
      <4>1. i \in 1 .. (n - 1)
        BY <3>3
      <4> QED BY <2>1, <3>1, <3>3, <4>1
    <3> QED BY <3>2, <3>3
  <2>6. g \in Rounds(n)
    <3> HIDE DEF g
    <3> QED BY <2>4, <2>5
  <2> HIDE DEF g, Rounds
  <2> QED BY <2>6
<1>3. N \in S
  <2> HIDE DEF S
  <2> QED BY <1>1, <1>2, AllRounds
<1>4. PICK f : f \in Rounds(N)
  BY <1>3
<1> QED BY <1>4 DEF IsLoop

-----------------------------------------------------------------------------
(* Sums.                                                                   *)

\* f[i] is the sum of the first i of v[1], v[2], ...
Sums(f, v, n) ==
  /\ f \in [0 .. n -> Int] /\ f[0] = 0
  /\ \A i \in 1 .. n : v[i] \in Int /\ f[i] = f[i - 1] + v[i]

LEMMA TotalIsASum ==
  ASSUME NEW n \in Nat, NEW v, \A i \in 1 .. n : v[i] \in Int
  PROVE  \E f : Sums(f, v, n) /\ Total(v, n) = f[n]
<1> DEFINE step == [x \in Int \X (1 .. n) |-> x[1] + v[x[2]]]
           Rounds(f) == f = [i \in 0 .. n |-> IF i = 0 THEN 0 ELSE f[i - 1] + v[i]]
<1>1. step \in [Int \X (1 .. n) -> Int] /\ 0 \in Int
  OBVIOUS
<1>2. ASSUME NEW f, IsLoop(f, n, 0, step) PROVE Rounds(f)
  <2>1. f \in [0 .. n -> Int]
    <3> HIDE DEF step
    <3> QED BY <1>1, <1>2, LoopStays
  <2>2. f = [i \in 0 .. n |-> IF i = 0 THEN 0 ELSE step[<<f[i - 1], i>>]]
    BY <1>2 DEF IsLoop
  <2>3. ASSUME NEW i \in 1 .. n PROVE step[<<f[i - 1], i>>] = f[i - 1] + v[i]
    <3>1. i - 1 \in 0 .. n
      OBVIOUS
    <3>2. <<f[i - 1], i>> \in Int \X (1 .. n)
      BY <2>1, <3>1
    <3> QED BY <3>2
  <2>4. \A i \in 0 .. n : i # 0 => i \in 1 .. n
    OBVIOUS
  <2> HIDE DEF step
  <2> QED BY <2>2, <2>3, <2>4
<1>3. ASSUME NEW f, Rounds(f) PROVE Sums(f, v, n)
  <2>1. f[0] = 0 /\ \A i \in 1 .. n : f[i] = f[i - 1] + v[i]
    BY <1>3
  <2>2. IsLoop(f, n, 0, step)
    <3> DEFINE S == {i \in 0 .. n : f[i] \in Int}
    <3>1. 0 \in S
      BY <2>1
    <3>2. ASSUME NEW i \in 1 .. n, i - 1 \in S PROVE i \in S
      <4>1. f[i - 1] \in Int /\ v[i] \in Int /\ i \in 0 .. n
        BY <3>2
      <4> QED BY <2>1, <4>1
    <3>3. 0 .. n \subseteq S
      <4> HIDE DEF S
      <4> QED BY <3>1, <3>2, AllRounds
    <3>4. ASSUME NEW i \in 1 .. n PROVE step[<<f[i - 1], i>>] = f[i - 1] + v[i]
      <4>1. i - 1 \in 0 .. n
        OBVIOUS
      <4>2. <<f[i - 1], i>> \in Int \X (1 .. n)
        BY <3>3, <4>1
      <4> QED BY <4>2
    <3>5. \A i \in 0 .. n : i # 0 => i \in 1 .. n
      OBVIOUS
    <3> HIDE DEF step
    <3> QED BY <1>3, <3>4, <3>5 DEF IsLoop
  <2>3. f \in [0 .. n -> Int]
    <3> HIDE DEF step
    <3> QED BY <1>1, <2>2, LoopStays
  <2> QED BY <2>1, <2>3 DEF Sums
<1>4. PICK f : Rounds(f)
  <2>1. \E f : IsLoop(f, n, 0, step)
    <3> HIDE DEF step
    <3> QED BY <1>1, LoopExists
  <2> HIDE DEF step
  <2> QED BY <1>2, <2>1
<1>5. PICK g : Rounds(g) /\ Total(v, n) = g[n]
  BY <1>4 DEF Total
<1> QED BY <1>3, <1>5

\* One more to add: the sum of as many as before, and that one.
LEMMA TotalStep ==
  ASSUME NEW n \in Nat \ {0}, NEW v, NEW u, \A i \in 1 .. n : v[i] \in Int,
         \A i \in 1 .. n - 1 : u[i] = v[i]
  PROVE  /\ Total(v, n) = Total(u, n - 1) + v[n]
         /\ Total(v, n) \in Int /\ Total(u, n - 1) \in Int
<1>1. n - 1 \in Nat /\ \A i \in 1 .. n - 1 : i \in 1 .. n
  OBVIOUS
<1>2. PICK f : Sums(f, v, n) /\ Total(v, n) = f[n]
  BY TotalIsASum
<1>3. PICK g : Sums(g, u, n - 1) /\ Total(u, n - 1) = g[n - 1]
  BY <1>1, TotalIsASum
<1> DEFINE S == {i \in 0 .. n - 1 : f[i] = g[i]}
<1>4. 0 \in S
  BY <1>2, <1>3 DEF Sums
<1>5. ASSUME NEW i \in 1 .. n - 1, i - 1 \in S PROVE i \in S
  BY <1>1, <1>2, <1>3, <1>5 DEF Sums
<1>6. 0 .. n - 1 \subseteq S
  <2> HIDE DEF S
  <2> QED BY <1>1, <1>4, <1>5, AllRounds
<1>7. f[n - 1] = g[n - 1]
  BY <1>1, <1>6
<1>8. n \in 1 .. n /\ n \in 0 .. n /\ n - 1 \in 0 .. n - 1
  OBVIOUS
<1> QED BY <1>2, <1>3, <1>7, <1>8 DEF Sums

LEMMA TotalOfNone == ASSUME NEW v PROVE Total(v, 0) = 0
<1>1. PICK f : Sums(f, v, 0) /\ Total(v, 0) = f[0]
  BY TotalIsASum
<1> QED BY <1>1 DEF Sums

LEMMA TotalBound ==
  ASSUME NEW n \in Nat, NEW v, NEW b \in Nat, \A i \in 1 .. n : v[i] \in 0 .. b
  PROVE  Total(v, n) \in 0 .. n * b
<1>1. PICK f : Sums(f, v, n) /\ Total(v, n) = f[n]
  <2> \A i \in 1 .. n : v[i] \in Int
    OBVIOUS
  <2> QED BY TotalIsASum
<1> DEFINE S == {i \in 0 .. n : f[i] \in 0 .. i * b}
<1>2. 0 \in S
  BY <1>1 DEF Sums
<1>3. ASSUME NEW i \in 1 .. n, i - 1 \in S PROVE i \in S
  <2>1. f[i] = f[i - 1] + v[i]
    BY <1>1 DEF Sums
  <2>2. f[i - 1] \in 0 .. (i - 1) * b /\ v[i] \in 0 .. b
    BY <1>3
  <2>3. (i - 1) * b + b = i * b /\ (i - 1) * b \in Nat
    OBVIOUS
  <2>4. f[i] \in 0 .. i * b
    <3> DEFINE x == (i - 1) * b
               y == i * b
    <3> HIDE DEF x, y
    <3>1. f[i - 1] \in 0 .. x /\ x + b = y /\ x \in Nat
      BY <2>2, <2>3 DEF x, y
    <3>2. f[i] \in 0 .. y
      BY <2>1, <2>2, <3>1
    <3> QED BY <3>2 DEF y
  <2> QED BY <2>4
<1>4. 0 .. n \subseteq S
  <2> HIDE DEF S
  <2> QED BY <1>2, <1>3, AllRounds
<1> QED BY <1>1, <1>4

-----------------------------------------------------------------------------
(* Arithmetic of int.                                                      *)

LEMMA Halves ==
  /\ IntMod \div 2 \in Nat \ {0} /\ IntMod = 2 * (IntMod \div 2)
  /\ Ints \subseteq Int /\ 0 \in Ints
<1>1. IntMod \in Nat \ {0} /\ IntMod % 2 = 0
  BY StatParams
<1>2. \A n \in Nat \ {0} : n % 2 = 0 => n \div 2 \in Nat \ {0} /\ n = 2 * (n \div 2)
  OBVIOUS
<1> QED BY <1>1, <1>2 DEF Ints

LEMMA IntsAreInt == ASSUME NEW x \in Ints PROVE x \in Int
BY Halves

LEMMA Remainder ==
  ASSUME NEW n \in Int, NEW m \in Nat \ {0}
  PROVE  n % m \in 0 .. m - 1 /\ (n \in 0 .. m - 1 => n % m = n)
OBVIOUS

\* There is one way to divide.
LEMMA RemainderIs ==
  ASSUME NEW m \in Nat \ {0}, NEW k \in Int, NEW d \in 0 .. m - 1,
         NEW n \in Int, n = m * k + d
  PROVE  n % m = d
<1> DEFINE u == n % m
           v == n \div m
<1>1. u \in 0 .. m - 1 /\ v \in Int /\ n = m * v + u
  OBVIOUS
<1> HIDE DEF u, v
<1>2. m * (v - k) = d - u
  <2>1. m * (v - k) = m * v - m * k
    BY <1>1
  <2> QED BY <1>1, <2>1
<1>3. v - k = 0
  <2>1. v - k >= 1 => m * (v - k) >= m
    BY <1>1
  <2>2. v - k <= -1 => m * (v - k) <= -m
    BY <1>1
  <2> QED BY <1>1, <1>2, <2>1, <2>2
<1>4. d = u
  BY <1>1, <1>2, <1>3
<1> QED BY <1>4 DEF u

\* An overflowing number is an int again, and one that is an int is itself.
LEMMA Int32IsInt ==
  ASSUME NEW n \in Int
  PROVE  Int32(n) \in Ints /\ (n \in Ints => Int32(n) = n)
<1> DEFINE H == IntMod \div 2
<1>1. H \in Nat \ {0} /\ IntMod = 2 * H /\ IntMod \in Nat \ {0}
  BY Halves, StatParams
<1>2. (n + H) % IntMod \in 0 .. IntMod - 1
  BY <1>1, Remainder
<1>3. n \in Ints => n + H \in 0 .. IntMod - 1
  BY <1>1 DEF Ints
<1>4. n \in Ints => (n + H) % IntMod = n + H
  <2> DEFINE m == n + H
  <2>1. m \in Int
    BY <1>1
  <2> HIDE DEF m
  <2>2. m \in 0 .. IntMod - 1 => m % IntMod = m
    BY <1>1, <2>1, Remainder
  <2> QED BY <1>3, <2>2 DEF m
<1>5. Int32(n) = ((n + H) % IntMod) - H /\ Ints = (-H) .. H - 1
  BY DEF Int32, Ints
<1> HIDE DEF H
<1>6. Int32(n) \in Ints
  BY <1>1, <1>2, <1>5
<1> QED BY <1>1, <1>4, <1>5, <1>6

\* Overflows on the way do not change what a sum is modulo overflow.
LEMMA Int32Plus ==
  ASSUME NEW a \in Int, NEW b \in Int
  PROVE  Int32(Int32(a) + b) = Int32(a + b)
<1> DEFINE H == IntMod \div 2
           M == IntMod
           n == a + H
           q == n \div M
           x == n % M
           y == x + b
           r == y \div M
           u == y % M
<1>1. M \in Nat \ {0} /\ H \in Nat
  BY Halves, StatParams
<1>2. n \in Int
  BY <1>1
<1>3. x \in Int /\ q \in Int /\ n = M * q + x
  <2> HIDE DEF n, M
  <2> QED BY <1>1, <1>2
<1>4. y \in Int
  <2> HIDE DEF x
  <2> QED BY <1>3
<1>5. u \in 0 .. M - 1 /\ r \in Int /\ y = M * r + u
  <2> HIDE DEF y, M
  <2> QED BY <1>1, <1>4
<1>6. q + r \in Int /\ M * (q + r) = M * q + M * r /\ M * q \in Int /\ M * r \in Int
  <2> HIDE DEF q, r, M
  <2> QED BY <1>1, <1>3, <1>5
<1>7. n + b = M * (q + r) + u
  <2> HIDE DEF x, q, r, u, n, M
  <2> QED BY <1>2, <1>3, <1>5, <1>6
<1>8. (n + b) % M = u
  <2> DEFINE k == q + r
             z == n + b
  <2>1. k \in Int /\ z \in Int
    <3> HIDE DEF q, r, n
    <3> QED BY <1>2, <1>6
  <2>2. z = M * k + u
    BY <1>7
  <2>3. M \in Nat \ {0} /\ u \in 0 .. M - 1
    BY <1>1, <1>5
  <2> HIDE DEF k, z, u, M
  <2>4. z % M = u
    BY ONLY <2>1, <2>2, <2>3, RemainderIs
  <2> QED BY <2>4 DEF z
<1>9. Int32(a + b) = u - H
  <2>1. (a + b) + H = n + b
    BY <1>1
  <2> QED BY <1>8, <2>1 DEF Int32
<1>10. Int32(Int32(a) + b) = u - H
  <2>1. Int32(a) = x - H
    BY DEF Int32
  <2>2. ((x - H) + b) + H = y
    <3> HIDE DEF x, H
    <3> QED BY <1>1, <1>3
  <2> HIDE DEF x, y, H, M
  <2> QED BY <2>1, <2>2 DEF Int32, u, H, M
<1> QED BY <1>9, <1>10

\* The average divides by a positive number, and is a whole one.
LEMMA QuotientIsInt ==
  ASSUME NEW a \in Int, NEW b \in Nat \ {0} PROVE Quotient(a, b) \in Int
<1>1. a \div b \in Int
  OBVIOUS
<1>2. (-a) \div b \in Int
  <2>1. -a \in Int
    OBVIOUS
  <2> QED BY <2>1
<1>3. -((-a) \div b) \in Int
  <2> DEFINE q == (-a) \div b
  <2> HIDE DEF q
  <2> QED BY <1>2 DEF q
<1> QED BY <1>1, <1>3 DEF Quotient

\* The largest and the smallest number seen, none before the first.
IsHighest(m, S) == m \in S \cup {0} /\ \A x \in S : x <= m
IsLowest(m, S, none) == m \in S \cup {none} /\ \A x \in S : m <= x

LEMMA OneMoreSeen ==
  ASSUME NEW S, S \subseteq Nat, NEW x \in Nat, NEW m, NEW none \in Nat
  PROVE  /\ IsHighest(m, S) => IsHighest(Larger(m, x), S \cup {x})
         /\ IsLowest(m, S, none) => IsLowest(Smaller(m, x), S \cup {x}, none)
<1>1. ASSUME IsHighest(m, S) PROVE IsHighest(Larger(m, x), S \cup {x})
  <2>1. m \in Nat
    BY <1>1 DEF IsHighest
  <2>2. CASE m > x
    BY <1>1, <2>1, <2>2 DEF IsHighest, Larger
  <2>3. CASE ~(m > x)
    BY <1>1, <2>1, <2>3 DEF IsHighest, Larger
  <2> QED BY <2>2, <2>3
<1>2. ASSUME IsLowest(m, S, none) PROVE IsLowest(Smaller(m, x), S \cup {x}, none)
  <2>1. m \in Nat
    BY <1>2 DEF IsLowest
  <2>2. CASE m < x
    BY <1>2, <2>1, <2>2 DEF IsLowest, Smaller
  <2>3. CASE ~(m < x)
    BY <1>2, <2>1, <2>3 DEF IsLowest, Smaller
  <2> QED BY <2>2, <2>3
<1> QED BY <1>1, <1>2

LEMMA HighestIsMax ==
  ASSUME NEW S, S \subseteq Nat, S # {}, NEW m, IsHighest(m, S) PROVE m = Max(S)
<1>1. m \in Nat
  BY DEF IsHighest
<1>2. m \in S
  <2>1. PICK x \in S : x <= m
    BY DEF IsHighest
  <2>2. m = 0 => x = m
    BY <2>1
  <2> QED BY <2>2 DEF IsHighest
<1>3. \A y \in S : m >= y
  BY <1>1 DEF IsHighest
<1>4. PICK x \in S : x = Max(S) /\ \A y \in S : x >= y
  BY <1>2, <1>3 DEF Max
<1> QED BY <1>2, <1>3, <1>4

LEMMA LowestIsMin ==
  ASSUME NEW S, S \subseteq Nat, S # {}, NEW none \in Nat,
         \A x \in S : x < none, NEW m, IsLowest(m, S, none)
  PROVE  m = Min(S)
<1>1. m \in Nat
  BY DEF IsLowest
<1>2. m \in S
  <2>1. PICK x \in S : m <= x
    BY DEF IsLowest
  <2>2. x < none /\ x \in Nat
    BY <2>1
  <2>3. m # none
    BY <1>1, <2>1, <2>2
  <2> QED BY <2>3 DEF IsLowest
<1>3. PICK x \in S : x = Min(S) /\ \A y \in S : x <= y
  BY <1>2 DEF IsLowest, Min
<1>4. m <= x /\ x <= m /\ x \in Nat
  BY <1>2, <1>3 DEF IsLowest
<1> QED BY <1>1, <1>3, <1>4

Both == [all : Ints, last : Ints]

LEMMA PlusIsBoth ==
  ASSUME NEW c \in Both, NEW n \in Int PROVE Plus(c, n) \in Both
<1>1. c.all \in Ints /\ c.last \in Ints
  BY DEF Both
<1>2. c.all + n \in Int /\ c.last + n \in Int
  BY <1>1, IntsAreInt
<1>3. Int32(c.all + n) \in Ints /\ Int32(c.last + n) \in Ints
  BY <1>2, Int32IsInt
<1>4. \A x, y \in Ints : [all |-> x, last |-> y] \in Both
  BY DEF Both
<1> QED BY <1>3, <1>4 DEF Plus

LEMMA ExtremesAreCounters ==
  ASSUME NEW c \in Counter, NEW n \in Int
  PROVE  Highest(c, n) \in Counter /\ Lowest(c, n) \in Counter
BY DEF Highest, Lowest, Larger, Smaller, Counter

LEMMA AverageIsCounter ==
  ASSUME NEW num, num.all \in Nat \ {0}, num.last \in Nat \ {0},
         NEW bytes \in Both
  PROVE  Average(num, bytes) \in Counter
<1>1. bytes.all \in Int /\ bytes.last \in Int
  BY Halves DEF Both
<1> QED BY <1>1, QuotientIsInt DEF Average, Counter

\* The clock of 32 bits: the delay that is read off a timestamp is the real
\* one, whether or not the clock wrapped in between.
LEMMA DelayIsReal ==
  ASSUME NEW t \in Nat, NEW d \in 0 .. MaxDelay
  PROVE  Delay(Clock32(t - d), t) = d
<1>1. ClockMod \in Nat \ {0} /\ MaxDelay \in Nat /\ MaxDelay < ClockMod \div 2
  BY StatParams, DelaysFit
<1> DEFINE M == ClockMod
           a == t % M
           b == (t - d) % M
           q == t \div M
           r == (t - d) \div M
<1>2. /\ a \in 0 .. M - 1 /\ b \in 0 .. M - 1 /\ q \in Int /\ r \in Int
      /\ t = M * q + a /\ t - d = M * r + b
  BY <1>1
<1>3. d < M \div 2 /\ d \in 0 .. M - 1
  BY <1>1
<1>4. a - b = d + M * (r - q)
  <2> HIDE DEF a, b, q, r, M
  <2>1. M * (r - q) = M * r - M * q
    BY <1>1, <1>2 DEF M
  <2> QED BY <1>1, <1>2, <2>1 DEF M
<1>5. (a - b) % M = d
  <2> DEFINE k == r - q
             z == a - b
  <2>1. k \in Int /\ z \in Int /\ z = M * k + d
    <3> HIDE DEF a, b, q, r, M
    <3>1. k \in Int /\ z \in Int
      BY <1>2
    <3>2. M * k \in Int
      BY <1>1, <3>1 DEF M
    <3> HIDE DEF k
    <3> QED BY <1>3, <1>4, <3>1, <3>2 DEF k
  <2> HIDE DEF k, z
  <2>2. z % M = d
    BY <1>1, <1>3, <2>1, RemainderIs
  <2> QED BY <2>2 DEF z
<1>6. (Clock32(t) - Clock32(t - d)) % ClockMod = d
  BY <1>5 DEF Clock32
<1> QED BY <1>3, <1>6 DEF Delay

-----------------------------------------------------------------------------
(* The struct.                                                             *)

Stat ==
  [time_start : Nat, time_last : Nat, pck_num : Both, pck_bytes : Both,
   frames : Both, pck_max : Counter, pck_min : Counter, pck_avg : Counter,
   pck_invalid : Both, enc : Nat, delay : Ints, delay_min : Nat,
   delay_max : Nat]

\* The fields that count packets and frames.
SameCounts(st, old) ==
  st.pck_num = old.pck_num /\ st.frames = old.frames

\* The first call of update_stat sets times and minima.
LEMMA StartedIsStat ==
  ASSUME s \in Stat, NEW t \in Nat
  PROVE  Started(t) \in Stat /\ SameCounts(Started(t), s)
<1>1. CASE s.time_start # 0
  BY <1>1 DEF Started, SameCounts
<1>2. CASE s.time_start = 0
  <2>1. NoMin \in Nat /\ NoMinDelay \in Nat
    BY StatParams
  <2>2. [all |-> NoMin, last |-> NoMin] \in Counter
    BY <2>1 DEF Counter
  <2> QED BY <1>2, <2>1, <2>2 DEF Started, SameCounts, Stat
<1> QED BY <1>1, <1>2

\* One round of the sender's loop over the list of packets.
LEMMA CountPckIsStat ==
  ASSUME NEW c \in [stat : Stat, tot : Nat], NEW p \in Pcks
  PROVE  /\ CountPck(c, p) \in [stat : Stat, tot : Nat]
         /\ SameCounts(CountPck(c, p).stat, c.stat)
<1>1. p.bytes \in Nat /\ p.valid \in BOOLEAN
  BY StatParams
<1>2. c.stat \in Stat /\ c.tot + p.bytes \in Nat
  BY <1>1
<1>3. /\ Highest(c.stat.pck_max, p.bytes) \in Counter
      /\ Lowest(c.stat.pck_min, p.bytes) \in Counter
      /\ Plus(c.stat.pck_invalid, 1) \in Both
  <2>1. /\ c.stat.pck_max \in Counter /\ c.stat.pck_min \in Counter
        /\ c.stat.pck_invalid \in Both
    BY <1>2 DEF Stat
  <2>2. p.bytes \in Int /\ 1 \in Int
    BY <1>1
  <2> QED BY <2>1, <2>2, ExtremesAreCounters, PlusIsBoth
<1>4. CASE p.valid
  BY <1>2, <1>3, <1>4 DEF CountPck, SameCounts, Stat
<1>5. CASE ~p.valid
  BY <1>2, <1>3, <1>5 DEF CountPck, SameCounts, Stat
<1> QED BY <1>1, <1>4, <1>5

\* The loop.
ListRounds(g, st, list) ==
  /\ g[0] = [stat |-> st, tot |-> 0]
  /\ \A i \in 1 .. NPck : g[i] = CountPck(g[i - 1], list[i])
  /\ CountList(st, list) = g[NPck]

LEMMA CountListRounds ==
  ASSUME NEW st \in Stat, NEW list \in [1 .. NPck -> Pcks]
  PROVE  \E g : ListRounds(g, st, list)
<1> DEFINE X == [stat : Stat, tot : Nat]
           x0 == [stat |-> st, tot |-> 0]
           step == [x \in X \X (1 .. NPck) |-> CountPck(x[1], list[x[2]])]
           Rounds(f) == f = [i \in 0 .. NPck |->
                               IF i = 0 THEN [stat |-> st, tot |-> 0]
                               ELSE CountPck(f[i - 1], list[i])]
<1>1. NPck \in Nat
  BY StatParams
<1>2. x0 \in X
  OBVIOUS
<1>3. step \in [X \X (1 .. NPck) -> X]
  <2>1. ASSUME NEW c \in X, NEW i \in 1 .. NPck
        PROVE  CountPck(c, list[i]) \in X
    <3>1. list[i] \in Pcks
      OBVIOUS
    <3> QED BY <3>1, CountPckIsStat
  <2> HIDE DEF X
  <2> QED BY <2>1
<1>4. PICK f : IsLoop(f, NPck, x0, step)
  <2> HIDE DEF X, x0, step
  <2> QED BY <1>1, <1>2, <1>3, LoopExists
<1>5. f \in [0 .. NPck -> X]
  <2> HIDE DEF X, x0, step
  <2> QED BY <1>1, <1>2, <1>3, <1>4, LoopStays
<1>6. Rounds(f)
  <2>1. f = [i \in 0 .. NPck |-> IF i = 0 THEN x0 ELSE step[<<f[i - 1], i>>]]
    BY <1>4 DEF IsLoop
  <2>2. ASSUME NEW i \in 1 .. NPck
        PROVE  step[<<f[i - 1], i>>] = CountPck(f[i - 1], list[i])
    <3>1. i - 1 \in 0 .. NPck
      BY <1>1
    <3>2. <<f[i - 1], i>> \in X \X (1 .. NPck)
      <4> HIDE DEF X
      <4> QED BY <1>5, <3>1
    <3> HIDE DEF X
    <3> QED BY <3>2
  <2>3. \A i \in 0 .. NPck : i # 0 => i \in 1 .. NPck
    BY <1>1
  <2> HIDE DEF step
  <2> QED BY <2>1, <2>2, <2>3
<1>7. PICK g : Rounds(g) /\ CountList(st, list) = g[NPck]
  BY <1>6 DEF CountList
<1>8. g[0] = [stat |-> st, tot |-> 0]
  BY <1>1, <1>7
<1>9. \A i \in 1 .. NPck : g[i] = CountPck(g[i - 1], list[i])
  BY <1>1, <1>7
<1> QED BY <1>7, <1>8, <1>9 DEF ListRounds

Lengths(list) == [j \in 1 .. NPck |-> list[j].bytes]
Flags(list) == [j \in 1 .. NPck |-> IF list[j].valid THEN 0 ELSE 1]
SizesUpTo(list, i) == {list[j].bytes : j \in 1 .. i}

\* The struct and the bytes after i packets of the list, from st: no frame is
\* counted, the invalid ones of them are, to the n before, and their sizes are
\* seen besides those of S.
AfterPcks(c, st, list, i, S, n) ==
  /\ c \in [stat : Stat, tot : Nat]
  /\ SameCounts(c.stat, st) /\ c.stat.pck_bytes = st.pck_bytes /\ c.stat.enc = st.enc
  /\ c.stat.time_start = st.time_start /\ c.stat.time_last = st.time_last
  /\ c.tot = Total(Lengths(list), i)
  /\ c.stat.pck_invalid.last = Int32(n + Total(Flags(list), i))
  /\ IsHighest(c.stat.pck_max.last, S \cup SizesUpTo(list, i))
  /\ IsLowest(c.stat.pck_min.last, S \cup SizesUpTo(list, i), NoMin)

LEMMA ListValues ==
  ASSUME NEW list \in [1 .. NPck -> Pcks]
  PROVE  \A j \in 1 .. NPck : /\ list[j] \in Pcks /\ list[j].bytes \in Nat
                             /\ list[j].valid \in BOOLEAN
                             /\ Lengths(list)[j] = list[j].bytes
                             /\ Flags(list)[j] = IF list[j].valid THEN 0 ELSE 1
BY StatParams DEF Lengths, Flags

LEMMA AfterOneMore ==
  ASSUME NEW st \in Stat, NEW list \in [1 .. NPck -> Pcks], NEW i \in 1 .. NPck,
         NEW S, S \subseteq Nat, NEW n \in Int, NEW c, AfterPcks(c, st, list, i - 1, S, n)
  PROVE  AfterPcks(CountPck(c, list[i]), st, list, i, S, n)
<1> DEFINE p == list[i]
           d == CountPck(c, p)
           seen == S \cup SizesUpTo(list, i - 1)
<1>1. /\ NPck \in Nat /\ NoMin \in Nat /\ i \in Nat \ {0}
      /\ \A j \in 1 .. i : j \in 1 .. NPck
  BY StatParams
<1>2. p \in Pcks /\ p.bytes \in Nat /\ p.valid \in BOOLEAN
  BY ListValues
<1>3. c \in [stat : Stat, tot : Nat]
  BY DEF AfterPcks
<1>4. d \in [stat : Stat, tot : Nat] /\ SameCounts(d.stat, c.stat)
  BY <1>2, <1>3, CountPckIsStat
<1>5. SizesUpTo(list, i) = SizesUpTo(list, i - 1) \cup {p.bytes}
  <2>1. 1 .. i = (1 .. i - 1) \cup {i}
    OBVIOUS
  <2> QED BY <2>1 DEF SizesUpTo
<1>6. seen \subseteq Nat
  <2>1. \A j \in 1 .. i - 1 : j \in 1 .. NPck
    BY <1>1
  <2> QED BY <2>1, ListValues DEF SizesUpTo
<1>7. /\ IsHighest(Larger(c.stat.pck_max.last, p.bytes), seen \cup {p.bytes})
      /\ IsLowest(Smaller(c.stat.pck_min.last, p.bytes), seen \cup {p.bytes}, NoMin)
  <2>1. IsHighest(c.stat.pck_max.last, seen) /\ IsLowest(c.stat.pck_min.last, seen, NoMin)
    BY DEF AfterPcks
  <2> HIDE DEF seen, p
  <2> QED BY <1>1, <1>2, <1>6, <2>1, OneMoreSeen
<1>8. seen \cup {p.bytes} = S \cup SizesUpTo(list, i)
  BY <1>5
<1>9. /\ Total(Lengths(list), i) = Total(Lengths(list), i - 1) + p.bytes
      /\ Total(Flags(list), i) = Total(Flags(list), i - 1) + Flags(list)[i]
      /\ Total(Flags(list), i - 1) \in Int
  <2>1. \A j \in 1 .. i : Lengths(list)[j] \in Int
    BY <1>1, ListValues
  <2>2. \A j \in 1 .. i : Flags(list)[j] \in Int
    BY <1>1, ListValues
  <2>3. Total(Lengths(list), i) = Total(Lengths(list), i - 1) + Lengths(list)[i]
    BY <1>1, <2>1, TotalStep
  <2>4. /\ Total(Flags(list), i) = Total(Flags(list), i - 1) + Flags(list)[i]
        /\ Total(Flags(list), i - 1) \in Int
    BY <1>1, <2>2, TotalStep
  <2> QED BY <2>3, <2>4, ListValues
<1>10. d.stat.pck_invalid.last = Int32(n + Total(Flags(list), i))
  <2> DEFINE m == n + Total(Flags(list), i - 1)
  <2>1. c.stat.pck_invalid.last = Int32(m) /\ m \in Int
    BY <1>9 DEF AfterPcks
  <2>2. CASE p.valid
    <3>1. Flags(list)[i] = 0
      BY <2>2, ListValues
    <3>2. n + Total(Flags(list), i) = m
      BY <1>9, <3>1
    <3>3. d.stat.pck_invalid = c.stat.pck_invalid
      BY <1>3, <2>2 DEF CountPck, Stat
    <3> QED BY <2>1, <3>2, <3>3
  <2>3. CASE ~p.valid
    <3>1. Flags(list)[i] = 1
      BY <2>3, ListValues
    <3>2. n + Total(Flags(list), i) = m + 1
      BY <1>9, <3>1
    <3>3. d.stat.pck_invalid = Plus(c.stat.pck_invalid, 1)
      BY <1>3, <2>3 DEF CountPck, Stat
    <3>4. Int32(Int32(m) + 1) = Int32(m + 1)
      <4> HIDE DEF m
      <4> QED BY <2>1, Int32Plus
    <3> HIDE DEF m, d
    <3> QED BY <2>1, <3>2, <3>3, <3>4 DEF Plus
  <2> QED BY <1>2, <2>2, <2>3
<1>11. /\ d.tot = Total(Lengths(list), i)
       /\ d.stat.pck_max.last = Larger(c.stat.pck_max.last, p.bytes)
       /\ d.stat.pck_min.last = Smaller(c.stat.pck_min.last, p.bytes)
  <2>1. c.tot = Total(Lengths(list), i - 1)
    BY DEF AfterPcks
  <2>2. /\ d.tot = c.tot + p.bytes
        /\ d.stat.pck_max = Highest(c.stat.pck_max, p.bytes)
        /\ d.stat.pck_min = Lowest(c.stat.pck_min, p.bytes)
    BY <1>3 DEF CountPck, Stat
  <2> HIDE DEF d, p
  <2> QED BY <1>9, <2>1, <2>2 DEF Highest, Lowest
<1>12. /\ d.stat.pck_bytes = c.stat.pck_bytes /\ d.stat.enc = c.stat.enc
       /\ d.stat.time_start = c.stat.time_start /\ d.stat.time_last = c.stat.time_last
  BY <1>3 DEF CountPck, Stat
<1> HIDE DEF d, p, seen
<1>13. AfterPcks(d, st, list, i, S, n)
  <2>1. SameCounts(d.stat, st)
    BY <1>4 DEF SameCounts, AfterPcks
  <2> QED BY <1>4, <1>7, <1>8, <1>10, <1>11, <1>12, <2>1 DEF AfterPcks
<1> QED BY <1>13 DEF d, p

LEMMA AfterTheList ==
  ASSUME NEW st \in Stat, NEW list \in [1 .. NPck -> Pcks], NEW S, S \subseteq Nat,
         NEW n \in Int, st.pck_invalid.last = Int32(n),
         IsHighest(st.pck_max.last, S), IsLowest(st.pck_min.last, S, NoMin)
  PROVE  AfterPcks(CountList(st, list), st, list, NPck, S, n)
<1>1. PICK g : ListRounds(g, st, list)
  BY CountListRounds
<1> DEFINE T == {i \in 0 .. NPck : AfterPcks(g[i], st, list, i, S, n)}
<1>2. 0 \in T
  <2>1. Total(Lengths(list), 0) = 0 /\ Total(Flags(list), 0) = 0
    BY TotalOfNone
  <2>2. SizesUpTo(list, 0) = {} /\ n + 0 = n /\ 0 \in 0 .. NPck
    BY StatParams DEF SizesUpTo
  <2>3. g[0] \in [stat : Stat, tot : Nat] /\ g[0].stat = st /\ g[0].tot = 0
    BY <1>1 DEF ListRounds
  <2>4. S \cup SizesUpTo(list, 0) = S
    BY <2>2
  <2> QED BY <2>1, <2>2, <2>3, <2>4 DEF AfterPcks, SameCounts
<1>3. ASSUME NEW i \in 1 .. NPck, i - 1 \in T PROVE i \in T
  <2>1. g[i] = CountPck(g[i - 1], list[i])
    BY <1>1 DEF ListRounds
  <2>2. AfterPcks(g[i - 1], st, list, i - 1, S, n)
    BY <1>3
  <2>3. AfterPcks(CountPck(g[i - 1], list[i]), st, list, i, S, n)
    <3> DEFINE c == g[i - 1]
    <3> HIDE DEF c
    <3> QED BY <2>2, AfterOneMore DEF c
  <2>4. AfterPcks(g[i], st, list, i, S, n) /\ i \in 0 .. NPck
    BY <2>1, <2>3
  <2> QED BY <2>4
<1>4. 0 .. NPck \subseteq T /\ NPck \in Nat
  <2> HIDE DEF T
  <2> QED BY <1>2, <1>3, AllRounds, StatParams
<1> QED BY <1>1, <1>4 DEF ListRounds

\* It counts no frame and leaves pck_num alone, whatever was seen before.
LEMMA CountListIsStat ==
  ASSUME NEW st \in Stat, NEW list \in [1 .. NPck -> Pcks]
  PROVE  /\ CountList(st, list) \in [stat : Stat, tot : Nat]
         /\ SameCounts(CountList(st, list).stat, st)
<1>1. PICK g : ListRounds(g, st, list)
  BY CountListRounds
<1> DEFINE T == {i \in 0 .. NPck : /\ g[i] \in [stat : Stat, tot : Nat]
                                  /\ SameCounts(g[i].stat, st)}
<1>2. 0 \in T
  BY <1>1, StatParams DEF SameCounts, ListRounds
<1>3. ASSUME NEW i \in 1 .. NPck, i - 1 \in T PROVE i \in T
  <2>1. list[i] \in Pcks /\ g[i] = CountPck(g[i - 1], list[i])
    BY <1>1 DEF ListRounds
  <2> QED BY <1>3, <2>1, CountPckIsStat DEF SameCounts
<1>4. 0 .. NPck \subseteq T /\ NPck \in Nat
  <2> HIDE DEF T
  <2> QED BY <1>2, <1>3, AllRounds, StatParams
<1> QED BY <1>1, <1>4 DEF ListRounds

-----------------------------------------------------------------------------
(* The invariant.                                                          *)

SentFrame == [list : [1 .. NPck -> Pcks], took : Encodings]
ShownFrame == [delay : 0 .. MaxDelay, invalid : 0 .. MaxInvalid]
Frame == SentFrame \cup ShownFrame

\* What the counters say: every frame is in a line or in the window, and the
\* sender counted NPck packets for each, so that no average divides by zero.
CountsOf(st, w, n) ==
  /\ st.frames.all \in 0 .. MaxFrames
  /\ st.frames.last = Len(w) /\ n + Len(w) = st.frames.all
  /\ program = "sender" => /\ st.pck_num.all = NPck * st.frames.all
                           /\ st.pck_num.last = NPck * Len(w)

StatInv ==
  /\ program \in {"sender", "receiver"} /\ now \in Nat \ {0}
  /\ s \in Stat /\ window \in Seq(Frame) /\ printed \in Nat
  /\ CountsOf(s, window, printed)
  /\ Len(window) > 0 => now - s.time_last < Second

LEMMA StatInvInit == Init => StatInv
<1> SUFFICES ASSUME Init PROVE StatInv
  OBVIOUS
<1>1. Zero \in Both /\ Zero \in Counter
  BY Halves DEF Zero, Both, Counter
<1>2. s \in Stat
  BY <1>1, Halves DEF Init, Stat
<1>3. now \in Nat \ {0} /\ program \in {"sender", "receiver"}
  BY StatParams DEF Init
<1>4. s.frames = Zero /\ s.pck_num = Zero /\ window = <<>> /\ printed = 0
  BY DEF Init
<1>5. NPck * 0 = 0 /\ MaxFrames \in Nat
  BY StatParams
<1>6. CountsOf(s, window, printed)
  BY <1>4, <1>5 DEF CountsOf, Zero
<1>7. window \in Seq(Frame)
  BY <1>4
<1> QED BY <1>2, <1>3, <1>4, <1>6, <1>7 DEF StatInv

\* Numbers of frames and of packets fit an int.
LEMMA CountersAreInts ==
  ASSUME NEW n \in 0 .. MaxFrames PROVE n \in Ints /\ NPck * n \in Ints
<1>1. NPck \in Nat \ {0} /\ MaxFrames \in Nat /\ IntMod \div 2 \in Nat
  BY StatParams, Halves
<1> DEFINE H == IntMod \div 2
           all == NPck * MaxFrames
           these == NPck * n
           rest == NPck * (MaxFrames - n)
<1>2. /\ all = these + rest /\ these >= n
      /\ all \in Nat /\ these \in Nat /\ rest \in Nat
  BY <1>1
<1>3. all < H
  BY CountersFit
<1>4. Ints = (-H) .. H - 1
  BY DEF Ints
<1> HIDE DEF all, these, rest, H
<1>5. n \in Ints /\ these \in Ints
  BY <1>1, <1>2, <1>3, <1>4 DEF H
<1> QED BY <1>5 DEF these

\* One frame more.
LEMMA FrameCounted ==
  ASSUME StatInv, s.frames.all < MaxFrames
  PROVE  /\ Plus(s.frames, 1) = [all |-> s.frames.all + 1, last |-> Len(window) + 1]
         /\ s.frames.all + 1 \in 1 .. MaxFrames
         /\ Len(window) + 1 \in 1 .. MaxFrames
         /\ printed + Len(window) + 1 = s.frames.all + 1
<1>1. /\ s.frames.all \in 0 .. MaxFrames /\ s.frames.last = Len(window)
      /\ printed + Len(window) = s.frames.all
      /\ printed \in Nat /\ Len(window) \in Nat /\ MaxFrames \in Nat
  BY StatParams DEF StatInv, CountsOf
<1>2. /\ s.frames.all + 1 \in 1 .. MaxFrames
      /\ Len(window) + 1 \in 1 .. MaxFrames
      /\ printed + Len(window) + 1 = s.frames.all + 1
  BY <1>1
<1>3. \A n \in 1 .. MaxFrames : n \in 0 .. MaxFrames /\ n \in Int
  BY <1>1
<1>4. \A n \in 1 .. MaxFrames : Int32(n) = n
  BY <1>3, CountersAreInts, Int32IsInt
<1> QED BY <1>1, <1>2, <1>4 DEF Plus

\* What the sender's update_stat makes of the struct.
LEMMA SentIsStat ==
  ASSUME StatInv, s.frames.all < MaxFrames, program = "sender",
         NEW took \in Encodings, NEW t \in Nat, NEW list \in [1 .. NPck -> Pcks]
  PROVE  LET st == CountSent(t, list, took)
         IN /\ st \in Stat /\ st.frames = Plus(s.frames, 1)
            /\ st.pck_num = [all  |-> NPck * (s.frames.all + 1),
                             last |-> NPck * (Len(window) + 1)]
<1> DEFINE c     == CountList(Started(t), list)
           num   == Plus(c.stat.pck_num, NPck)
           bytes == Plus(c.stat.pck_bytes, c.tot)
           st    == CountSent(t, list, took)
<1>1. c \in [stat : Stat, tot : Nat] /\ SameCounts(c.stat, s)
  BY StartedIsStat, CountListIsStat DEF StatInv, SameCounts
<1>2. c.stat \in Stat /\ c.tot \in Nat
  BY <1>1
<1>3. num = [all  |-> NPck * (s.frames.all + 1),
             last |-> NPck * (Len(window) + 1)]
  <2> DEFINE a == s.frames.all
             l == Len(window)
  <2>1. /\ a \in Nat /\ l \in Nat /\ NPck \in Nat
        /\ a + 1 \in 0 .. MaxFrames /\ l + 1 \in 0 .. MaxFrames
    <3>1. a \in 0 .. MaxFrames /\ l \in Nat
      BY DEF StatInv, CountsOf
    <3>2. \A n \in 1 .. MaxFrames : n \in 0 .. MaxFrames
      BY StatParams
    <3>3. a + 1 \in 1 .. MaxFrames /\ l + 1 \in 1 .. MaxFrames
      BY FrameCounted
    <3> HIDE DEF a, l
    <3> QED BY <3>1, <3>2, <3>3, StatParams
  <2>2. c.stat.pck_num.all = NPck * a /\ c.stat.pck_num.last = NPck * l
    BY <1>1 DEF SameCounts, StatInv, CountsOf
  <2> HIDE DEF a, l, c
  <2>3. NPck * a + NPck = NPck * (a + 1) /\ NPck * l + NPck = NPck * (l + 1)
    BY <2>1
  <2>4. NPck * (a + 1) \in Ints /\ NPck * (l + 1) \in Ints
    BY <2>1, CountersAreInts
  <2>5. Int32(NPck * (a + 1)) = NPck * (a + 1) /\ Int32(NPck * (l + 1)) = NPck * (l + 1)
    BY <2>4, IntsAreInt, Int32IsInt
  <2> QED BY <2>2, <2>3, <2>5 DEF Plus, a, l
<1>4. num.all \in Nat \ {0} /\ num.last \in Nat \ {0} /\ num \in Both
  <2> DEFINE a == s.frames.all + 1
             l == Len(window) + 1
  <2>1. a \in 1 .. MaxFrames /\ l \in 1 .. MaxFrames /\ NPck \in Nat \ {0}
    BY FrameCounted, StatParams
  <2>2. MaxFrames \in Nat
    BY StatParams
  <2> HIDE DEF a, l
  <2>3. NPck * a \in Nat \ {0} /\ NPck * l \in Nat \ {0}
    BY <2>1
  <2>4. NPck * a \in Ints /\ NPck * l \in Ints
    <3>1. a \in 0 .. MaxFrames /\ l \in 0 .. MaxFrames
      BY <2>1, <2>2
    <3> QED BY <3>1, CountersAreInts
  <2> HIDE DEF num
  <2>5. num = [all |-> NPck * a, last |-> NPck * l]
    BY <1>3 DEF a, l
  <2> QED BY <2>3, <2>4, <2>5 DEF Both
<1>5. bytes \in Both
  <2>1. c.stat.pck_bytes \in Both /\ c.tot \in Int
    BY <1>2 DEF Stat
  <2> QED BY <2>1, PlusIsBoth
<1>6. Average(num, bytes) \in Counter
  <2> HIDE DEF num, bytes
  <2> QED BY <1>4, <1>5, AverageIsCounter
<1>7. c.stat.frames = s.frames /\ Plus(s.frames, 1) \in Both
  <2>1. s.frames \in Both /\ 1 \in Int
    BY DEF StatInv, Stat
  <2>2. c.stat.frames = s.frames
    BY <1>1 DEF SameCounts
  <2> QED BY <2>1, <2>2, PlusIsBoth
<1>8. c.stat.enc + took \in Nat
  <2>1. took \in Nat
    BY StatParams
  <2> QED BY <1>2, <2>1 DEF Stat
<1>9. st = [c.stat EXCEPT !.pck_num = num, !.pck_bytes = bytes,
                    !.frames = Plus(@, 1), !.pck_avg = Average(num, bytes),
                    !.enc = @ + took]
  BY DEF CountSent
<1> HIDE DEF c, num, bytes, st
<1>10. st \in Stat /\ st.frames = Plus(s.frames, 1) /\ st.pck_num = num
  BY <1>2, <1>4, <1>5, <1>6, <1>7, <1>8, <1>9 DEF Stat
<1> QED BY <1>3, <1>10 DEF st

\* And the receiver's.
LEMMA ShownIsStat ==
  ASSUME StatInv, s.frames.all < MaxFrames, NEW t \in Nat,
         NEW d \in 0 .. MaxDelay, NEW n \in 0 .. MaxInvalid
  PROVE  LET st == [CountShown(t, d) EXCEPT !.pck_invalid = Plus(@, n)]
         IN st \in Stat /\ st.frames = Plus(s.frames, 1)
<1> DEFINE b  == Started(t)
           st == [CountShown(t, d) EXCEPT !.pck_invalid = Plus(@, n)]
<1>1. b \in Stat /\ b.frames = s.frames
  BY StartedIsStat DEF StatInv, SameCounts
<1>2. d \in Nat /\ n \in Int
  BY StatParams
<1>3. Int32(b.delay + d) \in Ints
  <2>1. b.delay \in Ints
    BY <1>1 DEF Stat
  <2>2. b.delay + d \in Int
    BY <1>2, <2>1, IntsAreInt
  <2> QED BY <2>2, Int32IsInt
<1>4. Plus(b.frames, 1) \in Both /\ Plus(b.pck_invalid, n) \in Both
  <2>1. b.frames \in Both /\ b.pck_invalid \in Both /\ 1 \in Int
    BY <1>1 DEF Stat
  <2> QED BY <1>2, <2>1, PlusIsBoth
<1>5. Larger(b.delay_max, d) \in Nat /\ Smaller(b.delay_min, d) \in Nat
  BY <1>1, <1>2 DEF Stat, Larger, Smaller
<1>6. st = [b EXCEPT !.frames = Plus(@, 1), !.delay = Int32(@ + d),
                     !.delay_max = Larger(@, d), !.delay_min = Smaller(@, d),
                     !.pck_invalid = Plus(@, n)]
  BY <1>1 DEF CountShown, Stat
<1> HIDE DEF b, st
<1>7. st \in Stat /\ st.frames = Plus(s.frames, 1)
  BY <1>1, <1>3, <1>4, <1>5, <1>6 DEF Stat
<1> QED BY <1>7 DEF st

\* The line, if a second has gone by, and the reset that goes with it.
LEMMA LineKeepsInv ==
  ASSUME StatInv, NEW t \in Nat \ {0}, NEW st \in Stat, NEW w \in Seq(Frame),
         NEW reset \in Stat, NEW line,
         CountsOf(st, w, printed), now' = t, program' = program,
         reset.frames = [all |-> st.frames.all, last |-> 0],
         program = "sender" =>
           reset.pck_num = [all |-> st.pck_num.all, last |-> 0],
         LineIfDue(st, t, w, line, reset)
  PROVE  StatInv'
<1>1. st.frames.all \in 0 .. MaxFrames /\ st.frames.last = Len(w)
  BY DEF CountsOf
<1>2. CASE Due(st, t)
  <2>1. s' = reset /\ printed' = printed + st.frames.last /\ window' = <<>>
    BY <1>2 DEF LineIfDue
  <2>2. printed' \in Nat /\ printed' = st.frames.all
    BY <1>1, <2>1 DEF StatInv, CountsOf
  <2>3. /\ s'.frames.all = st.frames.all /\ s'.frames.last = 0
        /\ program = "sender" => /\ s'.pck_num.all = st.pck_num.all
                                 /\ s'.pck_num.last = 0
    BY <2>1
  <2>4. NPck * 0 = 0 /\ printed' + 0 = printed' /\ Len(window') = 0
    BY <2>1, <2>2, StatParams
  <2>5. CountsOf(s, window, printed)'
    BY <1>1, <2>2, <2>3, <2>4 DEF CountsOf
  <2>6. window' \in Seq(Frame) /\ s' \in Stat /\ ~(Len(window') > 0)
    BY <2>1
  <2> QED BY <2>2, <2>5, <2>6 DEF StatInv
<1>3. CASE ~Due(st, t)
  <2>1. s' = st /\ printed' = printed /\ window' = w
    BY <1>3 DEF LineIfDue
  <2>2. CountsOf(s, window, printed)'
    BY <2>1 DEF CountsOf
  <2>3. t - s'.time_last < Second
    <3>1. st.time_last \in Nat /\ Second \in Nat
      BY StatParams DEF Stat
    <3> QED BY <1>3, <2>1, <3>1 DEF Due
  <2> QED BY <2>1, <2>2, <2>3 DEF StatInv
<1> QED BY <1>2, <1>3

LEMMA StatInvStep == StatInv /\ [Next]_vars => StatInv'
<1> SUFFICES ASSUME StatInv, [Next]_vars PROVE StatInv'
  OBVIOUS
<1>1. CASE SenderStat
  <2>1. program = "sender" /\ s.frames.all < MaxFrames /\ program' = program
    BY <1>1 DEF SenderStat
  <2>2. PICK gap \in Gaps, took \in Encodings, list \in [1 .. NPck -> Pcks] :
          LET t  == now + gap
              st == CountSent(t, list, took)
          IN /\ now' = t
             /\ LineIfDue(st, t, Append(window, [list |-> list, took |-> took]),
                      SenderLine(st), SenderReset(st, t))
    BY <1>1 DEF SenderStat
  <2> DEFINE t  == now + gap
             st == CountSent(t, list, took)
             w  == Append(window, [list |-> list, took |-> took])
             reset == SenderReset(st, t)
  <2>3. t \in Nat \ {0}
    BY StatParams DEF StatInv
  <2>4. /\ st \in Stat /\ st.frames = Plus(s.frames, 1)
        /\ st.pck_num = [all  |-> NPck * (s.frames.all + 1),
                         last |-> NPck * (Len(window) + 1)]
    BY <2>1, <2>3, SentIsStat
  <2>5. w \in Seq(Frame) /\ Len(w) = Len(window) + 1
    <3>1. [list |-> list, took |-> took] \in Frame
      BY DEF Frame, SentFrame, ShownFrame
    <3> QED BY <3>1 DEF StatInv
  <2>6. CountsOf(st, w, printed)
    <3> HIDE DEF st, w
    <3>1. printed \in Nat /\ Len(window) \in Nat
      BY DEF StatInv
    <3>2. \A n \in 1 .. MaxFrames : n \in 0 .. MaxFrames
      BY StatParams
    <3>3. /\ st.frames.all = s.frames.all + 1 /\ st.frames.last = Len(w)
          /\ st.frames.all \in 0 .. MaxFrames
      BY <2>1, <2>4, <2>5, <3>2, FrameCounted
    <3>4. printed + Len(w) = st.frames.all
      BY <2>1, <2>5, <3>1, <3>3, FrameCounted
    <3>5. st.pck_num.all = NPck * st.frames.all /\ st.pck_num.last = NPck * Len(w)
      BY <2>4, <2>5, <3>3
    <3> QED BY <3>3, <3>4, <3>5 DEF CountsOf
  <2>7. /\ reset \in Stat
        /\ reset.frames = [all |-> st.frames.all, last |-> 0]
        /\ reset.pck_num = [all |-> st.pck_num.all, last |-> 0]
    <3> HIDE DEF st
    <3>1. /\ 0 \in Ints /\ 0 \in Int /\ NoMin \in Int /\ 0 \in Nat /\ t \in Nat
      BY <2>3, Halves, StatParams
    <3> HIDE DEF t
    <3>2. st.pck_num \in Both /\ st.pck_bytes \in Both /\ st.frames \in Both
      BY <2>4 DEF Stat
    <3>3. st.pck_invalid \in Both
      BY <2>4 DEF Stat
    <3>4. st.pck_max \in Counter /\ st.pck_min \in Counter /\ st.pck_avg \in Counter
      BY <2>4 DEF Stat
    <3>5. \A c \in Both : /\ [c EXCEPT !.last = 0] \in Both
                         /\ [c EXCEPT !.last = 0] = [all |-> c.all, last |-> 0]
      BY <3>1 DEF Both
    <3>6. \A c \in Counter, n \in Int : [c EXCEPT !.last = n] \in Counter
      BY DEF Counter
    <3>7. reset = [st EXCEPT !.pck_num = [@ EXCEPT !.last = 0],
                             !.pck_bytes = [@ EXCEPT !.last = 0],
                             !.frames = [@ EXCEPT !.last = 0],
                             !.pck_max = [@ EXCEPT !.last = 0],
                             !.pck_min = [@ EXCEPT !.last = NoMin],
                             !.pck_avg = [@ EXCEPT !.last = 0],
                             !.pck_invalid = [@ EXCEPT !.last = 0],
                             !.time_last = t, !.enc = 0]
      BY DEF SenderReset
    <3> HIDE DEF reset
    <3> QED BY <2>4, <3>1, <3>2, <3>3, <3>4, <3>5, <3>6, <3>7 DEF Stat
  <2>8. now' = t /\ LineIfDue(st, t, w, SenderLine(st), reset)
    BY <2>2
  <2> HIDE DEF t, st, w, reset
  <2> QED BY <2>1, <2>3, <2>4, <2>5, <2>6, <2>7, <2>8, LineKeepsInv
<1>2. CASE ReceiverStat
  <2>1. program = "receiver" /\ s.frames.all < MaxFrames /\ program' = program
    BY <1>2 DEF ReceiverStat
  <2>2. PICK gap \in Gaps, d \in 0 .. MaxDelay, n \in 0 .. MaxInvalid :
          LET t  == now + gap
              st == [CountShown(t, Delay(Clock32(t - d), t))
                       EXCEPT !.pck_invalid = Plus(@, n)]
          IN /\ now' = t
             /\ LineIfDue(st, t, Append(window, [delay |-> d, invalid |-> n]),
                      ReceiverLine(st), ReceiverReset(st, t))
    BY <1>2 DEF ReceiverStat
  <2> DEFINE t  == now + gap
             st == [CountShown(t, d) EXCEPT !.pck_invalid = Plus(@, n)]
             w  == Append(window, [delay |-> d, invalid |-> n])
             reset == ReceiverReset(st, t)
  <2>3. t \in Nat \ {0}
    BY StatParams DEF StatInv
  <2>4. st \in Stat /\ st.frames = Plus(s.frames, 1)
    BY <2>1, <2>3, ShownIsStat
  <2>5. w \in Seq(Frame) /\ Len(w) = Len(window) + 1
    <3>1. [delay |-> d, invalid |-> n] \in Frame
      BY DEF Frame, SentFrame, ShownFrame
    <3> QED BY <3>1 DEF StatInv
  <2>6. CountsOf(st, w, printed)
    <3> HIDE DEF st, w
    <3>1. printed \in Nat /\ Len(window) \in Nat
      BY DEF StatInv
    <3>2. \A k \in 1 .. MaxFrames : k \in 0 .. MaxFrames
      BY StatParams
    <3>3. /\ st.frames.all = s.frames.all + 1 /\ st.frames.last = Len(w)
          /\ st.frames.all \in 0 .. MaxFrames
      BY <2>1, <2>4, <2>5, <3>2, FrameCounted
    <3>4. printed + Len(w) = st.frames.all
      BY <2>1, <2>5, <3>1, <3>3, FrameCounted
    <3> QED BY <2>1, <3>3, <3>4 DEF CountsOf
  <2>7. reset \in Stat /\ reset.frames = [all |-> st.frames.all, last |-> 0]
    <3> HIDE DEF st
    <3>1. 0 \in Ints /\ NoMinDelay \in Nat /\ 0 \in Nat /\ t \in Nat
      BY <2>3, Halves, StatParams
    <3> HIDE DEF t
    <3> QED BY <2>4, <3>1 DEF ReceiverReset, Stat, Both
  <2>8. now' = t /\ LineIfDue(st, t, w, ReceiverLine(st), reset)
    <3>1. Delay(Clock32(t - d), t) = d
      <4> HIDE DEF t
      <4> QED BY <2>3, DelayIsReal
    <3> QED BY <2>2, <3>1
  <2> HIDE DEF t, st, w, reset
  <2> QED BY <2>1, <2>3, <2>4, <2>5, <2>6, <2>7, <2>8, LineKeepsInv
<1>3. CASE UNCHANGED vars
  BY <1>3 DEF vars, StatInv, CountsOf
<1> QED BY <1>1, <1>2, <1>3 DEF Next

LEMMA StatInvHolds == Spec => []StatInv
<1> QED BY StatInvInit, StatInvStep, PTL DEF Spec

\* The fields of the struct, which are ints, hold ints whatever overflows, and
\* no average divides by zero.
THEOREM StatTypeCorrect == Spec => []TypeOK
<1>1. StatInv => TypeOK
  <2> SUFFICES ASSUME StatInv PROVE TypeOK
    OBVIOUS
  <2>1. s \in Stat
    BY DEF StatInv
  <2>2. {s.pck_num, s.pck_bytes, s.frames, s.pck_invalid} \subseteq [all : Ints, last : Ints]
    BY <2>1 DEF Stat, Both
  <2>3. {s.pck_max, s.pck_min, s.pck_avg} \subseteq Counter
    BY <2>1 DEF Stat
  <2>4. /\ {s.time_start, s.time_last, s.enc, s.delay_min, s.delay_max} \subseteq Nat
        /\ s.delay \in Ints
    BY <2>1 DEF Stat
  <2> QED BY <2>2, <2>3, <2>4 DEF StatInv, TypeOK
<1> QED BY <1>1, StatInvHolds, PTL

\* However long the pauses of the camera, every frame counted is in exactly one
\* line or among the frames of the last second that wait for theirs.
THEOREM FrameAlwaysInOneLine == Spec => []FrameInOneLine
<1>1. StatInv => FrameInOneLine
  BY DEF StatInv, CountsOf, FrameInOneLine
<1> QED BY <1>1, StatInvHolds, PTL

-----------------------------------------------------------------------------
(* What the line says.                                                     *)

\* The sum of F over the frames w.
SumOver(F, w) == Total([i \in 1 .. Len(w) |-> F[w[i]]], Len(w))

LEMMA SumOverAppend ==
  ASSUME NEW X, NEW F \in [X -> Int], NEW w \in Seq(X), NEW f \in X
  PROVE  /\ SumOver(F, Append(w, f)) = SumOver(F, w) + F[f]
         /\ SumOver(F, w) \in Int
<1> DEFINE a == Append(w, f)
           n == Len(a)
           v == [i \in 1 .. n |-> F[a[i]]]
           u == [i \in 1 .. Len(w) |-> F[w[i]]]
<1>1. /\ n \in Nat \ {0} /\ n - 1 = Len(w) /\ a[n] = f
      /\ \A i \in 1 .. Len(w) : a[i] = w[i]
  OBVIOUS
<1>2. a \in Seq(X) /\ \A i \in 1 .. n : a[i] \in X
  OBVIOUS
<1>3. \A i \in 1 .. n : v[i] \in Int
  BY <1>2
<1>4. \A i \in 1 .. n - 1 : u[i] = v[i]
  BY <1>1
<1>5. v[n] = F[f]
  BY <1>1
<1>6. SumOver(F, a) = Total(v, n) /\ SumOver(F, w) = Total(u, n - 1)
  BY <1>1 DEF SumOver
<1> HIDE DEF u, v, n, a
<1>7. Total(v, n) = Total(u, n - 1) + v[n] /\ Total(u, n - 1) \in Int
  BY <1>1, <1>3, <1>4, TotalStep
<1> QED BY <1>5, <1>6, <1>7 DEF a

LEMMA SumOverNone == ASSUME NEW F PROVE SumOver(F, <<>>) = 0
BY TotalOfNone DEF SumOver

LEMMA SumOverBound ==
  ASSUME NEW X, NEW b \in Nat, NEW F \in [X -> 0 .. b], NEW w \in Seq(X)
  PROVE  SumOver(F, w) \in 0 .. Len(w) * b
<1> DEFINE n == Len(w)
           v == [i \in 1 .. n |-> F[w[i]]]
<1>1. n \in Nat /\ \A i \in 1 .. n : v[i] \in 0 .. b
  OBVIOUS
<1> HIDE DEF v, n
<1>2. Total(v, n) \in 0 .. n * b
  BY <1>1, TotalBound
<1> QED BY <1>2 DEF SumOver, n, v

SentBytes == [f \in SentFrame |-> Bytes(f)]
SentInvalid == [f \in SentFrame |-> Invalid(f)]
SentTook == [f \in SentFrame |-> f.took]
ShownDelay == [f \in ShownFrame |-> f.delay]
ShownInvalid == [f \in ShownFrame |-> f.invalid]

LEMMA FrameBounds ==
  ASSUME NEW f \in SentFrame, NEW b \in Nat, \A p \in Pcks : p.bytes <= b
  PROVE  Bytes(f) \in 0 .. NPck * b /\ Invalid(f) \in 0 .. NPck
<1>1. f.list \in [1 .. NPck -> Pcks] /\ NPck \in Nat
  BY StatParams DEF SentFrame
<1>2. \A j \in 1 .. NPck : Lengths(f.list)[j] \in 0 .. b
  BY <1>1, ListValues
<1>3. \A j \in 1 .. NPck : Flags(f.list)[j] \in 0 .. 1
  BY <1>1, ListValues
<1>4. Bytes(f) = Total(Lengths(f.list), NPck) /\ Invalid(f) = Total(Flags(f.list), NPck)
  BY DEF Bytes, Invalid, Lengths, Flags
<1>5. Total(Lengths(f.list), NPck) \in 0 .. NPck * b
  BY <1>1, <1>2, TotalBound
<1>6. Total(Flags(f.list), NPck) \in 0 .. NPck * 1
  BY <1>1, <1>3, TotalBound
<1> QED BY <1>1, <1>4, <1>5, <1>6

LEMMA FrameFunctions ==
  /\ SentBytes \in [SentFrame -> Int] /\ SentInvalid \in [SentFrame -> Int]
  /\ SentTook \in [SentFrame -> Int] /\ ShownDelay \in [ShownFrame -> Int]
  /\ ShownInvalid \in [ShownFrame -> Int]
<1>1. ASSUME NEW f \in SentFrame PROVE Bytes(f) \in Int /\ Invalid(f) \in Int
  <2>1. NoMin \in Nat /\ \A p \in Pcks : p.bytes <= NoMin
    BY StatParams
  <2>2. Bytes(f) \in 0 .. NPck * NoMin /\ Invalid(f) \in 0 .. NPck
    BY <2>1, FrameBounds
  <2> QED BY <2>2
<1>2. ASSUME NEW f \in SentFrame PROVE f.took \in Int
  <2>1. f.took \in Encodings
    BY DEF SentFrame
  <2>2. \A e \in Encodings : e \in Int
    BY StatParams
  <2> QED BY <2>1, <2>2
<1>3. \A f \in ShownFrame : f.delay \in Int /\ f.invalid \in Int
  BY DEF ShownFrame
<1> QED BY <1>1, <1>2, <1>3 DEF SentBytes, SentInvalid, SentTook, ShownDelay, ShownInvalid

\* What the struct holds of the frames w since the last line.
SumsOfSender(st, w) ==
  /\ st.pck_bytes.last = Int32(SumOver(SentBytes, w))
  /\ st.pck_invalid.last = Int32(SumOver(SentInvalid, w))
  /\ st.enc = SumOver(SentTook, w)
  /\ IsHighest(st.pck_max.last, Sizes(w))
  /\ st.time_start # 0 => IsLowest(st.pck_min.last, Sizes(w), NoMin)

SumsOfReceiver(st, w) ==
  /\ st.delay = Int32(SumOver(ShownDelay, w))
  /\ st.pck_invalid.last = Int32(SumOver(ShownInvalid, w))
  /\ IsHighest(st.delay_max, Delays(w))
  /\ st.time_start # 0 => IsLowest(st.delay_min, Delays(w), NoMinDelay)

\* And frames are at least Min(Gaps) apart, so that few are in a window.
LineInv ==
  /\ program = "sender" => window \in Seq(SentFrame) /\ SumsOfSender(s, window)
  /\ program = "receiver" => window \in Seq(ShownFrame) /\ SumsOfReceiver(s, window)
  /\ s.time_last <= now /\ (s.time_start = 0 => window = <<>>)
  /\ Len(window) > 0 => (Len(window) - 1) * Min(Gaps) <= now - s.time_last
  /\ LineIsOfItsWindow

LEMMA SizesAppend ==
  ASSUME NEW w \in Seq(SentFrame), NEW f \in SentFrame
  PROVE  /\ Sizes(Append(w, f)) = Sizes(w) \cup SizesUpTo(f.list, NPck)
         /\ Sizes(w) \subseteq {n \in Nat : n < NoMin}
<1> DEFINE a == Append(w, f)
<1>1. /\ 1 .. Len(a) = (1 .. Len(w)) \cup {Len(a)} /\ a[Len(a)] = f
      /\ \A i \in 1 .. Len(w) : a[i] = w[i]
  OBVIOUS
<1>2. Sizes(a) = Sizes(w) \cup SizesUpTo(f.list, NPck)
  <2> HIDE DEF a
  <2> QED BY <1>1 DEF Sizes, SizesUpTo
<1>3. ASSUME NEW i \in 1 .. Len(w), NEW j \in 1 .. NPck
      PROVE  w[i].list[j].bytes \in {n \in Nat : n < NoMin}
  <2>1. w[i].list \in [1 .. NPck -> Pcks]
    <3>1. w[i] \in SentFrame
      OBVIOUS
    <3> QED BY <3>1 DEF SentFrame
  <2>2. w[i].list[j] \in Pcks
    BY <2>1
  <2>3. \A p \in Pcks : p.bytes \in Nat /\ p.bytes < NoMin
    BY StatParams
  <2> QED BY <2>2, <2>3
<1> QED BY <1>2, <1>3 DEF Sizes

LEMMA DelaysAppend ==
  ASSUME NEW w \in Seq(ShownFrame), NEW f \in ShownFrame
  PROVE  /\ Delays(Append(w, f)) = Delays(w) \cup {f.delay}
         /\ Delays(w) \subseteq {n \in Nat : n < NoMinDelay}
<1> DEFINE a == Append(w, f)
<1>1. /\ 1 .. Len(a) = (1 .. Len(w)) \cup {Len(a)} /\ a[Len(a)] = f
      /\ \A i \in 1 .. Len(w) : a[i] = w[i]
  OBVIOUS
<1>2. Delays(a) = Delays(w) \cup {f.delay}
  <2> HIDE DEF a
  <2> QED BY <1>1 DEF Delays
<1>3. ASSUME NEW i \in 1 .. Len(w) PROVE w[i].delay \in {n \in Nat : n < NoMinDelay}
  <2>1. w[i].delay \in 0 .. MaxDelay
    <3>1. w[i] \in ShownFrame
      OBVIOUS
    <3> QED BY <3>1 DEF ShownFrame
  <2> QED BY <2>1, StatParams, DelaysFit
<1> QED BY <1>2, <1>3 DEF Delays

\* What the first call sets, and what it leaves alone.
LEMMA StartedKeeps ==
  ASSUME s \in Stat, NEW t \in Nat \ {0}
  PROVE  LET b == Started(t)
         IN /\ b.pck_bytes = s.pck_bytes /\ b.pck_invalid = s.pck_invalid
            /\ b.pck_max = s.pck_max /\ b.delay = s.delay /\ b.delay_max = s.delay_max
            /\ b.time_start # 0
            /\ b.time_last = IF s.time_start = 0 THEN t ELSE s.time_last
<1>1. CASE s.time_start # 0
  BY <1>1 DEF Started
<1>2. CASE s.time_start = 0
  BY <1>2 DEF Started, Stat
<1> QED BY <1>1, <1>2

LEMMA StartedSets ==
  ASSUME s \in Stat, NEW t, s.time_start = 0
  PROVE  /\ Started(t).enc = 0
         /\ program = "sender" => Started(t).pck_min.last = NoMin
         /\ program = "receiver" => Started(t).delay_min = NoMinDelay
BY DEF Started, Stat

\* A frame sent: sums and extremes are those of the window with it.
LEMMA SentSums ==
  ASSUME s \in Stat, program = "sender", window \in Seq(SentFrame),
         SumsOfSender(s, window), s.time_start = 0 => window = <<>>,
         NEW took \in Encodings, NEW t \in Nat \ {0}, NEW list \in [1 .. NPck -> Pcks]
  PROVE  LET st == CountSent(t, list, took)
             w  == Append(window, [list |-> list, took |-> took])
         IN /\ SumsOfSender(st, w) /\ st.time_start # 0
            /\ st.time_last = IF s.time_start = 0 THEN t ELSE s.time_last
            /\ st.pck_avg.last = Quotient(st.pck_bytes.last, st.pck_num.last)
<1> DEFINE b  == Started(t)
           c  == CountList(b, list)
           f  == [list |-> list, took |-> took]
           w  == Append(window, f)
           st == CountSent(t, list, took)
           n  == SumOver(SentInvalid, window)
           m  == SumOver(SentBytes, window)
<1>1. f \in SentFrame /\ f.list = list /\ f.took = took
  BY DEF SentFrame
<1>2. b \in Stat
  BY StartedIsStat
<1>3. /\ SumOver(SentBytes, w) = m + Bytes(f) /\ m \in Int
      /\ SumOver(SentInvalid, w) = n + Invalid(f) /\ n \in Int
      /\ SumOver(SentTook, w) = SumOver(SentTook, window) + took
  <2>1. SentBytes[f] = Bytes(f) /\ SentInvalid[f] = Invalid(f) /\ SentTook[f] = took
    BY <1>1 DEF SentBytes, SentInvalid, SentTook
  <2> HIDE DEF f
  <2>2. SumOver(SentBytes, w) = m + SentBytes[f] /\ m \in Int
    BY <1>1, FrameFunctions, SumOverAppend
  <2>3. SumOver(SentInvalid, w) = n + SentInvalid[f] /\ n \in Int
    BY <1>1, FrameFunctions, SumOverAppend
  <2>4. SumOver(SentTook, w) = SumOver(SentTook, window) + SentTook[f]
    <3>1. SentTook \in [SentFrame -> Int]
      BY FrameFunctions
    <3> QED BY <1>1, <3>1, SumOverAppend
  <2> QED BY <2>1, <2>2, <2>3, <2>4
<1>4. Bytes(f) = Total(Lengths(list), NPck) /\ Invalid(f) = Total(Flags(list), NPck)
  BY <1>1 DEF Bytes, Invalid, Lengths, Flags
<1>5. Sizes(w) = Sizes(window) \cup SizesUpTo(list, NPck) /\ Sizes(window) \subseteq Nat
  BY <1>1, SizesAppend
<1>6. /\ b.pck_invalid.last = Int32(n) /\ b.pck_bytes.last = Int32(m)
      /\ IsHighest(b.pck_max.last, Sizes(window))
  BY StartedKeeps DEF SumsOfSender
<1>7. IsLowest(b.pck_min.last, Sizes(window), NoMin) /\ b.enc = SumOver(SentTook, window)
  <2>1. CASE s.time_start # 0
    BY <2>1 DEF Started, SumsOfSender
  <2>2. CASE s.time_start = 0
    <3>1. window = <<>> /\ Sizes(window) = {}
      BY <2>2 DEF Sizes
    <3>2. b.pck_min.last = NoMin /\ b.enc = 0
      BY <2>2, StartedSets
    <3> QED BY <3>1, <3>2, SumOverNone DEF IsLowest
  <2> QED BY <2>1, <2>2
<1>8. AfterPcks(c, b, list, NPck, Sizes(window), n)
  <2> HIDE DEF b, n
  <2> QED BY <1>2, <1>3, <1>5, <1>6, <1>7, AfterTheList DEF n
<1>9. /\ c.stat \in Stat /\ c.tot = Bytes(f) /\ c.stat.pck_bytes = b.pck_bytes
      /\ c.stat.enc = b.enc /\ c.stat.time_start = b.time_start
      /\ c.stat.time_last = b.time_last
      /\ c.stat.pck_invalid.last = Int32(n + Invalid(f))
      /\ IsHighest(c.stat.pck_max.last, Sizes(w))
      /\ IsLowest(c.stat.pck_min.last, Sizes(w), NoMin)
  <2> HIDE DEF b, c, f, w, n
  <2> QED BY <1>4, <1>5, <1>8 DEF AfterPcks
<1>10. /\ st.pck_bytes = Plus(c.stat.pck_bytes, c.tot)
       /\ st.pck_invalid = c.stat.pck_invalid /\ st.pck_max = c.stat.pck_max
       /\ st.pck_min = c.stat.pck_min /\ st.enc = c.stat.enc + took
       /\ st.time_start = c.stat.time_start /\ st.time_last = c.stat.time_last
       /\ st.pck_avg.last = Quotient(st.pck_bytes.last, st.pck_num.last)
  <2> HIDE DEF c
  <2> QED BY <1>9 DEF CountSent, Average, Stat, c
<1>11. st.pck_bytes.last = Int32(m + Bytes(f))
  <2>1. Bytes(f) \in Int
    <3>1. SentBytes[f] = Bytes(f)
      BY <1>1 DEF SentBytes
    <3> QED BY <1>1, <3>1, FrameFunctions
  <2>2. st.pck_bytes.last = Int32(Int32(m) + Bytes(f))
    <3> HIDE DEF st, c, b, f, m
    <3> QED BY <1>6, <1>9, <1>10 DEF Plus
  <2>3. m \in Int
    BY <1>3
  <2> HIDE DEF st, f, m
  <2>4. Int32(Int32(m) + Bytes(f)) = Int32(m + Bytes(f))
    BY <2>1, <2>3, Int32Plus
  <2> QED BY <2>2, <2>4
<1>12. b.time_start # 0 /\ b.time_last = IF s.time_start = 0 THEN t ELSE s.time_last
  BY StartedKeeps
<1> HIDE DEF b, c, f, w, st, n, m
<1>13. SumsOfSender(st, w)
  BY <1>3, <1>7, <1>9, <1>10, <1>11 DEF SumsOfSender
<1> QED BY <1>9, <1>10, <1>12, <1>13 DEF st, w, f

\* A frame shown: the same.
LEMMA ShownSums ==
  ASSUME s \in Stat, program = "receiver", window \in Seq(ShownFrame),
         SumsOfReceiver(s, window), s.time_start = 0 => window = <<>>,
         NEW t \in Nat \ {0}, NEW d \in 0 .. MaxDelay, NEW k \in 0 .. MaxInvalid
  PROVE  LET st == [CountShown(t, d) EXCEPT !.pck_invalid = Plus(@, k)]
             w  == Append(window, [delay |-> d, invalid |-> k])
         IN /\ SumsOfReceiver(st, w) /\ st.time_start # 0
            /\ st.time_last = IF s.time_start = 0 THEN t ELSE s.time_last
<1> DEFINE b  == Started(t)
           f  == [delay |-> d, invalid |-> k]
           w  == Append(window, f)
           st == [CountShown(t, d) EXCEPT !.pck_invalid = Plus(@, k)]
           n  == SumOver(ShownInvalid, window)
           m  == SumOver(ShownDelay, window)
<1>1. f \in ShownFrame /\ f.delay = d /\ f.invalid = k
  BY DEF ShownFrame
<1>2. b \in Stat
  BY StartedIsStat
<1>3. /\ SumOver(ShownDelay, w) = m + d /\ m \in Int
      /\ SumOver(ShownInvalid, w) = n + k /\ n \in Int
  <2>1. ShownDelay[f] = d /\ ShownInvalid[f] = k
    BY <1>1 DEF ShownDelay, ShownInvalid
  <2> HIDE DEF f
  <2>2. SumOver(ShownDelay, w) = m + ShownDelay[f] /\ m \in Int
    BY <1>1, FrameFunctions, SumOverAppend
  <2>3. SumOver(ShownInvalid, w) = n + ShownInvalid[f] /\ n \in Int
    BY <1>1, FrameFunctions, SumOverAppend
  <2> QED BY <2>1, <2>2, <2>3
<1>4. Delays(w) = Delays(window) \cup {d} /\ Delays(window) \subseteq Nat
  BY <1>1, DelaysAppend
<1>5. /\ b.pck_invalid.last = Int32(n) /\ b.delay = Int32(m)
      /\ IsHighest(b.delay_max, Delays(window))
  BY StartedKeeps DEF SumsOfReceiver
<1>6. IsLowest(b.delay_min, Delays(window), NoMinDelay)
  <2>1. CASE s.time_start # 0
    BY <2>1 DEF Started, SumsOfReceiver
  <2>2. CASE s.time_start = 0
    <3>1. Delays(window) = {}
      BY <2>2 DEF Delays
    <3>2. b.delay_min = NoMinDelay
      BY <2>2, StartedSets
    <3> QED BY <3>1, <3>2 DEF IsLowest
  <2> QED BY <2>1, <2>2
<1>7. /\ st.delay = Int32(b.delay + d) /\ st.pck_invalid = Plus(b.pck_invalid, k)
      /\ st.delay_max = Larger(b.delay_max, d) /\ st.delay_min = Smaller(b.delay_min, d)
      /\ st.time_start = b.time_start /\ st.time_last = b.time_last
  <2> HIDE DEF b
  <2> QED BY <1>2 DEF CountShown, Stat, b
<1>8. d \in Nat /\ k \in Nat /\ NoMinDelay \in Nat
  BY StatParams
<1>9. b.time_start # 0 /\ b.time_last = IF s.time_start = 0 THEN t ELSE s.time_last
  BY StartedKeeps
<1> HIDE DEF b, f, w, st, n, m
<1>10. st.delay = Int32(m + d) /\ st.pck_invalid.last = Int32(n + k)
  <2>1. m \in Int /\ n \in Int /\ d \in Int /\ k \in Int
    BY <1>3, <1>8
  <2>2. Int32(Int32(m) + d) = Int32(m + d)
    BY <2>1, Int32Plus
  <2>3. Int32(Int32(n) + k) = Int32(n + k)
    BY <2>1, Int32Plus
  <2> QED BY <1>5, <1>7, <2>2, <2>3 DEF Plus
<1>11. /\ IsHighest(st.delay_max, Delays(w))
       /\ IsLowest(st.delay_min, Delays(w), NoMinDelay)
  <2> DEFINE S == Delays(window)
  <2>1. S \subseteq Nat /\ IsHighest(b.delay_max, S) /\ IsLowest(b.delay_min, S, NoMinDelay)
    BY <1>4, <1>5, <1>6
  <2> HIDE DEF S
  <2>2. /\ IsHighest(Larger(b.delay_max, d), S \cup {d})
        /\ IsLowest(Smaller(b.delay_min, d), S \cup {d}, NoMinDelay)
    BY <1>8, <2>1, OneMoreSeen
  <2> QED BY <1>4, <1>7, <2>2 DEF S
<1>12. SumsOfReceiver(st, w)
  BY <1>3, <1>10, <1>11 DEF SumsOfReceiver
<1> QED BY <1>7, <1>9, <1>12 DEF st, w, f

-----------------------------------------------------------------------------
(* How long a window gets, and what fits an int.                           *)

LEMMA Monotone ==
  ASSUME NEW a \in Nat, NEW b \in Nat, NEW k \in Nat, a <= b PROVE a * k <= b * k
<1>1. b * k = a * k + (b - a) * k /\ (b - a) * k \in Nat
  OBVIOUS
<1> DEFINE x == a * k
           y == b * k
           z == (b - a) * k
<1>2. x \in Nat /\ y \in Nat
  OBVIOUS
<1> HIDE DEF x, y, z
<1>3. y = x + z /\ z \in Nat
  BY <1>1 DEF x, y, z
<1>4. x <= y
  BY <1>2, <1>3
<1> QED BY <1>4 DEF x, y

LEMMA AtMostTheQuotient ==
  ASSUME NEW a \in Nat, NEW g \in Nat \ {0}, NEW n \in Nat
  PROVE  /\ n \div g \in Nat /\ (n \div g) * g <= n
         /\ a * g <= n => a <= n \div g
<1> DEFINE q == n \div g
           r == n % g
<1>1. q \in Nat /\ r \in 0 .. g - 1 /\ n = g * q + r
  OBVIOUS
<1> HIDE DEF q, r
<1>2. g * q = q * g /\ q * g \in Nat /\ (q + 1) * g = q * g + g
  BY <1>1
<1>3. q * g <= n
  BY <1>1, <1>2
<1>4. ASSUME a > q, a * g <= n PROVE FALSE
  <2>1. (q + 1) * g <= a * g
    BY <1>1, <1>4, Monotone
  <2>2. a * g \in Nat
    OBVIOUS
  <2> QED BY <1>1, <1>2, <1>4, <2>1, <2>2
<1> QED BY <1>1, <1>3, <1>4 DEF q

LEMMA LeastGap ==
  ASSUME Gaps # {}
  PROVE  /\ Min(Gaps) \in Nat \ {0} /\ \A g \in Gaps : Min(Gaps) <= g
         /\ MostFrames \in Nat \ {0}
<1>1. Gaps \subseteq Nat \ {0} /\ Second \in Nat \ {0}
  BY StatParams
<1>2. PICK m \in Gaps : \A g \in Gaps : m <= g
  <2>1. Gaps \subseteq Nat
    BY <1>1
  <2> QED BY <2>1, LeastNumber
<1>3. Min(Gaps) \in Gaps /\ \A g \in Gaps : Min(Gaps) <= g
  BY <1>2 DEF Min
<1>4. Min(Gaps) \in Nat \ {0} /\ Second - 1 \in Nat
  <2>1. Second - 1 \in Nat
    BY <1>1
  <2>2. \A g \in Gaps : g \in Nat \ {0}
    BY <1>1
  <2> QED BY <1>3, <2>1, <2>2
<1>5. (Second - 1) \div Min(Gaps) \in Nat
  BY <1>4, AtMostTheQuotient
<1> QED BY <1>3, <1>4, <1>5 DEF MostFrames

LEMMA WindowStep ==
  ASSUME StatInv, LineInv, NEW gap \in Gaps
  PROVE  /\ Len(window) + 1 <= MostFrames
         /\ Len(window) * Min(Gaps)
              <= (now + gap) - (IF s.time_start = 0 THEN now + gap ELSE s.time_last)
<1> DEFINE g == Min(Gaps)
           n == Len(window)
           q == (Second - 1) \div g
           e == now - s.time_last
<1>1. g \in Nat \ {0} /\ g <= gap /\ gap \in Nat \ {0} /\ Second \in Nat \ {0}
  BY LeastGap, StatParams
<1>2. n \in Nat /\ s.time_last \in Nat /\ now \in Nat
  BY DEF StatInv, Stat
<1>3. e \in Nat
  <2>1. s.time_last <= now
    BY DEF LineInv
  <2> QED BY <1>2, <2>1
<1>4. n > 0 => (n - 1) * g <= e /\ e < Second
  BY DEF StatInv, LineInv
<1>5. MostFrames = q + 2
  BY DEF MostFrames
<1>6. q \in Nat
  <2>1. Second - 1 \in Nat
    BY <1>1
  <2> HIDE DEF g
  <2> QED BY <1>1, <2>1, AtMostTheQuotient
<1>7. CASE n = 0
  <2>1. n * g = 0
    <3> HIDE DEF n, g
    <3> QED BY <1>1, <1>7
  <2>2. (now + gap) - (IF s.time_start = 0 THEN now + gap ELSE s.time_last) >= 0
    <3>1. CASE s.time_start = 0
      BY <1>1, <1>2, <3>1
    <3>2. CASE s.time_start # 0
      BY <1>1, <1>2, <1>3, <3>2
    <3> QED BY <3>1, <3>2
  <2>3. n + 1 <= q + 2
    <3> HIDE DEF n, q
    <3> QED BY <1>6, <1>7
  <2> QED BY <1>5, <2>1, <2>2, <2>3
<1>8. CASE n # 0
  <2>1. s.time_start # 0
    BY <1>8 DEF LineInv
  <2>2. n - 1 \in Nat /\ n > 0
    BY <1>2, <1>8
  <2>3. (n - 1) * g \in Nat /\ n * g = (n - 1) * g + g
    <3> HIDE DEF n, g
    <3> QED BY <1>1, <1>2, <2>2
  <2>4. (n - 1) * g <= Second - 1
    <3> DEFINE x == (n - 1) * g
    <3>1. x \in Nat /\ x <= e /\ e < Second
      BY <1>4, <2>2, <2>3
    <3> HIDE DEF x, e
    <3>2. x <= Second - 1
      BY <1>1, <1>3, <3>1
    <3> QED BY <3>2 DEF x
  <2>5. n - 1 <= q
    <3>1. Second - 1 \in Nat
      BY <1>1
    <3> HIDE DEF g, n
    <3> QED BY <1>1, <2>2, <2>4, <3>1, AtMostTheQuotient
  <2>6. n + 1 <= q + 2
    <3> HIDE DEF n, q
    <3> QED BY <1>2, <1>6, <2>5
  <2>7. n * g <= e + gap
    <3> DEFINE x == (n - 1) * g
               y == n * g
    <3>1. x \in Nat /\ y = x + g /\ x <= e
      BY <1>4, <2>2, <2>3
    <3> HIDE DEF x, y, e, g
    <3>2. y <= e + gap
      BY <1>1, <1>3, <3>1
    <3> QED BY <3>2 DEF y
  <2>8. e + gap = (now + gap) - s.time_last
    BY <1>1, <1>2
  <2> QED BY <1>5, <2>1, <2>6, <2>7, <2>8
<1> QED BY <1>7, <1>8

\* A sum of n numbers of at most b each fits an int if n * b does.
LEMMA SumFits ==
  ASSUME NEW X, NEW b \in Nat, NEW F \in [X -> 0 .. b], NEW w \in Seq(X),
         NEW m \in Nat, Len(w) <= m, m * b < IntMod \div 2
  PROVE  SumOver(F, w) \in Nat /\ Int32(SumOver(F, w)) = SumOver(F, w)
<1> DEFINE H == IntMod \div 2
           x == SumOver(F, w)
           y == Len(w) * b
           z == m * b
<1>1. Len(w) \in Nat
  OBVIOUS
<1>2. x \in 0 .. y /\ y <= z /\ z < H
  BY <1>1, SumOverBound, Monotone
<1>3. H \in Nat /\ y \in Int /\ z \in Int
  BY <1>1, Halves
<1>4. Ints = (-H) .. H - 1
  BY DEF Ints
<1> HIDE DEF H, x, y, z
<1>5. x \in Nat /\ x \in Ints
  BY <1>2, <1>3, <1>4
<1>6. Int32(x) = x
  BY <1>5, Int32IsInt
<1> QED BY <1>5, <1>6 DEF x

\* A number that no size of a packet exceeds, and with which a window fits.
LEMMA LargestSize ==
  ASSUME MostFrames \in Nat \ {0}
  PROVE  \E b \in Nat : /\ \A p \in Pcks : p.bytes <= b
                       /\ MostFrames * (NPck * b) < IntMod \div 2
<1> DEFINE H == IntMod \div 2
           k == MostFrames * NPck
           b == (H - 1) \div k
<1>1. NPck \in Nat \ {0} /\ H \in Nat \ {0} /\ H - 1 \in Nat
  BY StatParams, Halves
<1>2. k \in Nat \ {0}
  BY <1>1
<1>3. ASSUME NEW p \in Pcks PROVE p.bytes <= b
  <2>1. p.bytes \in Nat /\ k * p.bytes < H
    BY StatParams, WindowFits
  <2>2. p.bytes * k = k * p.bytes /\ k * p.bytes \in Nat
    <3> HIDE DEF k
    <3> QED BY <1>2, <2>1
  <2>3. p.bytes * k <= H - 1
    <3> DEFINE x == p.bytes * k
    <3>1. x \in Nat /\ x < H
      BY <2>1, <2>2
    <3> HIDE DEF x, H
    <3>2. x <= H - 1
      BY <1>1, <3>1
    <3> QED BY <3>2 DEF x
  <2> HIDE DEF k, H
  <2> QED BY <1>1, <1>2, <2>1, <2>3, AtMostTheQuotient
<1>4. b \in Nat /\ b * k <= H - 1
  <2> HIDE DEF k, H
  <2> QED BY <1>1, <1>2, AtMostTheQuotient
<1>5. MostFrames * (NPck * b) = b * k
  <2> HIDE DEF b
  <2> QED BY <1>1, <1>4
<1>6. MostFrames * (NPck * b) < H
  <2> DEFINE x == b * k
  <2>1. x \in Int
    <3> HIDE DEF b, k
    <3> QED BY <1>2, <1>4
  <2>2. x <= H - 1 /\ MostFrames * (NPck * b) = x
    BY <1>4, <1>5
  <2> HIDE DEF x, H, b
  <2> QED BY <1>1, <2>1, <2>2
<1> QED BY <1>3, <1>4, <1>6

-----------------------------------------------------------------------------
(* The line is true.                                                       *)

LEMMA SenderLineTrue ==
  ASSUME MostFrames \in Nat \ {0}, NEW w \in Seq(SentFrame), w # <<>>,
         Len(w) <= MostFrames, Len(w) <= MaxFrames,
         NEW st, SumsOfSender(st, w), st.time_start # 0,
         st.pck_num.last = NPck * Len(w), st.frames.last = Len(w),
         st.pck_avg.last = Quotient(st.pck_bytes.last, st.pck_num.last)
  PROVE  SenderLine(st) = SenderTruth(w)
<1> DEFINE n == Len(w)
           bytes == SumOver(SentBytes, w)
<1>1. /\ n \in Nat \ {0} /\ NPck \in Nat \ {0} /\ MaxFrames \in Nat
      /\ \A i \in 1 .. n : w[i] \in SentFrame
  BY StatParams
<1>2. /\ Total([i \in 1 .. n |-> Bytes(w[i])], n) = bytes
      /\ Total([i \in 1 .. n |-> w[i].took], n) = SumOver(SentTook, w)
      /\ Total([i \in 1 .. n |-> Invalid(w[i])], n) = SumOver(SentInvalid, w)
  <2>1. [i \in 1 .. n |-> Bytes(w[i])] = [i \in 1 .. n |-> SentBytes[w[i]]]
    BY <1>1 DEF SentBytes
  <2>2. [i \in 1 .. n |-> w[i].took] = [i \in 1 .. n |-> SentTook[w[i]]]
    BY <1>1 DEF SentTook
  <2>3. [i \in 1 .. n |-> Invalid(w[i])] = [i \in 1 .. n |-> SentInvalid[w[i]]]
    BY <1>1 DEF SentInvalid
  <2> QED BY <2>1, <2>2, <2>3 DEF SumOver
<1>3. bytes \in Nat /\ st.pck_bytes.last = bytes
  <2>1. PICK b \in Nat : /\ \A p \in Pcks : p.bytes <= b
                        /\ MostFrames * (NPck * b) < IntMod \div 2
    BY LargestSize
  <2>2. PICK c \in Nat : c = NPck * b
    BY <1>1
  <2>3. SentBytes \in [SentFrame -> 0 .. c]
    BY <2>1, <2>2, FrameBounds DEF SentBytes
  <2>4. MostFrames \in Nat /\ MostFrames * c < IntMod \div 2
    BY <2>1, <2>2
  <2> HIDE DEF bytes
  <2>5. bytes \in Nat /\ Int32(bytes) = bytes
    BY ONLY <2>3, <2>4, c \in Nat, w \in Seq(SentFrame), Len(w) <= MostFrames,
            SumFits DEF bytes
  <2> QED BY <2>5 DEF SumsOfSender, bytes
<1>4. st.pck_invalid.last = SumOver(SentInvalid, w)
  <2>1. SentInvalid \in [SentFrame -> 0 .. NPck]
    <3>1. NoMin \in Nat /\ \A p \in Pcks : p.bytes <= NoMin
      BY StatParams
    <3> QED BY <3>1, FrameBounds DEF SentInvalid
  <2>2. MaxFrames * NPck < IntMod \div 2
    <3>1. MaxFrames * NPck = NPck * MaxFrames
      BY <1>1
    <3> QED BY <3>1, CountersFit
  <2>3. Int32(SumOver(SentInvalid, w)) = SumOver(SentInvalid, w)
    BY <1>1, <2>1, <2>2, SumFits
  <2> QED BY <2>3 DEF SumsOfSender
<1>5. /\ st.pck_max.last = Max(Sizes(w)) /\ st.pck_min.last = Min(Sizes(w))
  <2> DEFINE S == Sizes(w)
  <2>1. S \subseteq {k \in Nat : k < NoMin}
    BY <1>1, SizesAppend
  <2>2. S # {}
    <3>1. 1 \in 1 .. n /\ 1 \in 1 .. NPck
      BY <1>1
    <3>2. w[1].list[1].bytes \in S
      BY <3>1 DEF Sizes
    <3> QED BY <3>2
  <2>3. IsHighest(st.pck_max.last, S) /\ IsLowest(st.pck_min.last, S, NoMin)
    BY DEF SumsOfSender
  <2>4. S \subseteq Nat /\ NoMin \in Nat /\ \A x \in S : x < NoMin
    BY <2>1, StatParams
  <2> HIDE DEF S
  <2>5. st.pck_max.last = Max(S) /\ st.pck_min.last = Min(S)
    BY <2>2, <2>3, <2>4, HighestIsMax, LowestIsMin
  <2> QED BY <2>5 DEF S
<1>6. st.pck_avg.last = bytes \div (NPck * n)
  <2> DEFINE k == NPck * n
  <2>1. st.pck_avg.last = Quotient(bytes, k)
    BY <1>3
  <2> HIDE DEF k, bytes
  <2> QED BY <1>3, <2>1 DEF Quotient, k
<1>7. st.enc = SumOver(SentTook, w)
  BY DEF SumsOfSender
<1> HIDE DEF bytes
<1> QED BY <1>2, <1>3, <1>4, <1>5, <1>6, <1>7 DEF SenderLine, SenderTruth

LEMMA ReceiverLineTrue ==
  ASSUME MostFrames \in Nat \ {0}, NEW w \in Seq(ShownFrame), w # <<>>,
         Len(w) <= MostFrames, NEW st, SumsOfReceiver(st, w), st.time_start # 0,
         st.frames.last = Len(w)
  PROVE  ReceiverLine(st) = ReceiverTruth(w)
<1> DEFINE n == Len(w)
           delays == SumOver(ShownDelay, w)
<1>1. /\ n \in Nat \ {0} /\ MaxDelay \in Nat /\ MaxInvalid \in Nat
      /\ \A i \in 1 .. n : w[i] \in ShownFrame
  BY StatParams
<1>2. /\ Total([i \in 1 .. n |-> w[i].delay], n) = delays
      /\ Total([i \in 1 .. n |-> w[i].invalid], n) = SumOver(ShownInvalid, w)
  <2>1. [i \in 1 .. n |-> w[i].delay] = [i \in 1 .. n |-> ShownDelay[w[i]]]
    BY <1>1 DEF ShownDelay
  <2>2. [i \in 1 .. n |-> w[i].invalid] = [i \in 1 .. n |-> ShownInvalid[w[i]]]
    BY <1>1 DEF ShownInvalid
  <2> QED BY <2>1, <2>2 DEF SumOver
<1>3. delays \in Nat /\ st.delay = delays
  <2>1. ShownDelay \in [ShownFrame -> 0 .. MaxDelay]
    BY DEF ShownDelay, ShownFrame
  <2>2. MostFrames * MaxDelay < IntMod \div 2
    BY WindowFits
  <2>3. delays \in Nat /\ Int32(delays) = delays
    BY <1>1, <2>1, <2>2, SumFits
  <2> QED BY <2>3 DEF SumsOfReceiver
<1>4. st.pck_invalid.last = SumOver(ShownInvalid, w)
  <2>1. ShownInvalid \in [ShownFrame -> 0 .. MaxInvalid]
    BY DEF ShownInvalid, ShownFrame
  <2>2. MostFrames * MaxInvalid < IntMod \div 2
    BY WindowFits
  <2>3. Int32(SumOver(ShownInvalid, w)) = SumOver(ShownInvalid, w)
    BY <1>1, <2>1, <2>2, SumFits
  <2> QED BY <2>3 DEF SumsOfReceiver
<1>5. st.delay_max = Max(Delays(w)) /\ st.delay_min = Min(Delays(w))
  <2> DEFINE S == Delays(w)
  <2>1. S \subseteq {k \in Nat : k < NoMinDelay}
    BY <1>1, DelaysAppend
  <2>2. S # {}
    <3>1. w[1].delay \in S
      BY <1>1 DEF Delays
    <3> QED BY <3>1
  <2>3. IsHighest(st.delay_max, S) /\ IsLowest(st.delay_min, S, NoMinDelay)
    BY DEF SumsOfReceiver
  <2>4. S \subseteq Nat /\ NoMinDelay \in Nat /\ \A x \in S : x < NoMinDelay
    BY <2>1, StatParams
  <2> HIDE DEF S
  <2>5. st.delay_max = Max(S) /\ st.delay_min = Min(S)
    BY <2>2, <2>3, <2>4, HighestIsMax, LowestIsMin
  <2> QED BY <2>5 DEF S
<1>6. Quotient(st.delay, st.frames.last) = delays \div n
  BY <1>3 DEF Quotient
<1> HIDE DEF delays
<1> QED BY <1>2, <1>4, <1>5, <1>6 DEF ReceiverLine, ReceiverTruth

LEMMA LineInvInit == Init => LineInv
<1> SUFFICES ASSUME Init PROVE LineInv
  OBVIOUS
<1>1. /\ window = <<>> /\ s.time_start = 0 /\ s.time_last = 0 /\ now \in Nat
      /\ s.pck_bytes.last = 0 /\ s.pck_invalid.last = 0 /\ s.enc = 0
      /\ s.pck_max.last = 0 /\ s.delay = 0 /\ s.delay_max = 0
  BY StatParams DEF Init, Zero
<1>2. Int32(0) = 0
  BY Halves, Int32IsInt
<1>3. Sizes(<<>>) = {} /\ Delays(<<>>) = {}
  BY DEF Sizes, Delays
<1>4. SumsOfSender(s, window) /\ SumsOfReceiver(s, window)
  BY <1>1, <1>2, <1>3, SumOverNone DEF SumsOfSender, SumsOfReceiver, IsHighest
<1>5. LineIsOfItsWindow
  BY DEF Init, LineIsOfItsWindow
<1>6. <<>> \in Seq(SentFrame) /\ <<>> \in Seq(ShownFrame) /\ ~(Len(<<>>) > 0)
  OBVIOUS
<1>7. s.time_last <= now
  BY <1>1
<1> QED BY <1>1, <1>4, <1>5, <1>6, <1>7 DEF LineInv

\* The line, if it is due, of the frames w, and the reset.
LEMMA LineKeepsLineInv ==
  ASSUME StatInv, LineInv, NEW gap \in Gaps, NEW st \in Stat, NEW w, NEW line,
         NEW reset, now' = now + gap, program' = program, Len(w) = Len(window) + 1,
         program = "sender" => /\ w \in Seq(SentFrame) /\ SumsOfSender(st, w)
                              /\ SumsOfSender(reset, <<>>) /\ line = SenderTruth(w),
         program = "receiver" => /\ w \in Seq(ShownFrame) /\ SumsOfReceiver(st, w)
                                /\ SumsOfReceiver(reset, <<>>)
                                /\ line = ReceiverTruth(w),
         st.time_start # 0, reset.time_start # 0, reset.time_last = now + gap,
         st.time_last = IF s.time_start = 0 THEN now + gap ELSE s.time_last,
         LineIfDue(st, now + gap, w, line, reset)
  PROVE  LineInv'
<1>1. /\ gap \in Nat \ {0} /\ now \in Nat /\ s.time_last \in Nat /\ s.time_last <= now
      /\ program \in {"sender", "receiver"}
  BY StatParams DEF StatInv, LineInv, Stat
<1>2. CASE Due(st, now + gap)
  <2>1. s' = reset /\ report' = [line |-> line, of |-> w] /\ window' = <<>>
    BY <1>2 DEF LineIfDue
  <2>2. LineIsOfItsWindow'
    <3>1. CASE program = "sender"
      BY <2>1, <3>1 DEF LineIsOfItsWindow
    <3>2. CASE program = "receiver"
      BY <2>1, <3>2 DEF LineIsOfItsWindow
    <3> QED BY <1>1, <3>1, <3>2
  <2>3. /\ (program = "sender" => window \in Seq(SentFrame) /\ SumsOfSender(s, window))'
        /\ (program = "receiver" => window \in Seq(ShownFrame) /\ SumsOfReceiver(s, window))'
    BY <2>1
  <2>4. s'.time_last <= now' /\ s'.time_start # 0 /\ ~(Len(window') > 0)
    BY <1>1, <2>1
  <2> QED BY <2>2, <2>3, <2>4 DEF LineInv
<1>3. CASE ~Due(st, now + gap)
  <2>1. s' = st /\ report' = report /\ window' = w
    BY <1>3 DEF LineIfDue
  <2>2. LineIsOfItsWindow'
    BY <2>1 DEF LineIsOfItsWindow, LineInv
  <2>3. /\ (program = "sender" => window \in Seq(SentFrame) /\ SumsOfSender(s, window))'
        /\ (program = "receiver" => window \in Seq(ShownFrame) /\ SumsOfReceiver(s, window))'
    BY <2>1
  <2>4. s'.time_last <= now' /\ s'.time_start # 0
    BY <1>1, <2>1
  <2>5. (Len(window') - 1) * Min(Gaps) <= now' - s'.time_last
    <3>1. Len(window') - 1 = Len(window)
      <4>1. Len(window) \in Nat
        BY DEF StatInv
      <4> QED BY <2>1, <4>1
    <3>2. Len(window) * Min(Gaps)
            <= (now + gap) - (IF s.time_start = 0 THEN now + gap ELSE s.time_last)
      BY WindowStep
    <3> QED BY <2>1, <3>1, <3>2
  <2> QED BY <2>2, <2>3, <2>4, <2>5 DEF LineInv
<1> QED BY <1>2, <1>3

LEMMA LineInvStep == StatInv /\ LineInv /\ [Next]_vars => LineInv'
<1> SUFFICES ASSUME StatInv, LineInv, [Next]_vars PROVE LineInv'
  OBVIOUS
<1> USE DEF StatInv
<1>1. CASE SenderStat
  <2>1. program = "sender" /\ s.frames.all < MaxFrames /\ program' = program
    BY <1>1 DEF SenderStat
  <2>2. PICK gap \in Gaps, took \in Encodings, list \in [1 .. NPck -> Pcks] :
          LET t  == now + gap
              st == CountSent(t, list, took)
          IN /\ now' = t
             /\ LineIfDue(st, t, Append(window, [list |-> list, took |-> took]),
                      SenderLine(st), SenderReset(st, t))
    BY <1>1 DEF SenderStat
  <2> DEFINE t  == now + gap
             st == CountSent(t, list, took)
             f  == [list |-> list, took |-> took]
             w  == Append(window, f)
             reset == SenderReset(st, t)
             line == SenderLine(st)
  <2>3. t \in Nat \ {0} /\ now' = t /\ LineIfDue(st, t, w, line, reset)
    BY <2>2, StatParams
  <2>4. /\ s \in Stat /\ window \in Seq(SentFrame) /\ SumsOfSender(s, window)
        /\ s.time_start = 0 => window = <<>>
    BY <2>1 DEF LineInv
  <2>5. f \in SentFrame
    BY DEF SentFrame
  <2>6. w \in Seq(SentFrame) /\ Len(w) = Len(window) + 1 /\ w # <<>>
    <3>1. window \in Seq(SentFrame)
      BY <2>4
    <3> HIDE DEF f
    <3> QED BY ONLY <2>5, <3>1
  <2>7. /\ st \in Stat /\ st.frames = Plus(s.frames, 1)
        /\ st.pck_num = [all  |-> NPck * (s.frames.all + 1),
                         last |-> NPck * (Len(window) + 1)]
    BY <2>1, <2>3, SentIsStat
  <2>8. /\ SumsOfSender(st, w) /\ st.time_start # 0
        /\ st.time_last = IF s.time_start = 0 THEN t ELSE s.time_last
        /\ st.pck_avg.last = Quotient(st.pck_bytes.last, st.pck_num.last)
    BY <2>1, <2>3, <2>4, SentSums
  <2>9. /\ SumsOfSender(reset, <<>>) /\ reset.time_start # 0 /\ reset.time_last = t
    <3> HIDE DEF st, t
    <3>1. /\ reset.pck_bytes.last = 0 /\ reset.pck_max.last = 0 /\ reset.enc = 0
          /\ reset.pck_min.last = NoMin /\ reset.pck_invalid.last = 0
          /\ reset.time_start = st.time_start /\ reset.time_last = t
      BY <2>7 DEF SenderReset, Stat, Both, Counter
    <3>2. Int32(0) = 0 /\ Sizes(<<>>) = {}
      BY Halves, Int32IsInt DEF Sizes
    <3> HIDE DEF reset
    <3> QED BY <2>8, <3>1, <3>2, SumOverNone DEF SumsOfSender, IsHighest, IsLowest
  <2>10. line = SenderTruth(w)
    <3>1. /\ Len(w) <= MostFrames /\ Len(w) <= MaxFrames
          /\ MostFrames \in Nat \ {0}
      <4>1. Len(window) + 1 <= MostFrames
        BY WindowStep
      <4>2. Len(window) + 1 \in 1 .. MaxFrames
        BY <2>1, FrameCounted
      <4>3. MostFrames \in Nat \ {0}
        BY LeastGap
      <4> QED BY <2>6, <4>1, <4>2, <4>3
    <3>2. st.pck_num.last = NPck * Len(w) /\ st.frames.last = Len(w)
      <4> HIDE DEF st, w
      <4> QED BY <2>1, <2>6, <2>7, FrameCounted
    <3> HIDE DEF st, w
    <3> QED BY <2>6, <2>8, <3>1, <3>2, SenderLineTrue
  <2> HIDE DEF st, w, reset, line
  <2> QED BY <2>1, <2>3, <2>6, <2>7, <2>8, <2>9, <2>10, LineKeepsLineInv
<1>2. CASE ReceiverStat
  <2>1. program = "receiver" /\ s.frames.all < MaxFrames /\ program' = program
    BY <1>2 DEF ReceiverStat
  <2>2. PICK gap \in Gaps, d \in 0 .. MaxDelay, n \in 0 .. MaxInvalid :
          LET t  == now + gap
              st == [CountShown(t, Delay(Clock32(t - d), t))
                       EXCEPT !.pck_invalid = Plus(@, n)]
          IN /\ now' = t
             /\ LineIfDue(st, t, Append(window, [delay |-> d, invalid |-> n]),
                      ReceiverLine(st), ReceiverReset(st, t))
    BY <1>2 DEF ReceiverStat
  <2> DEFINE t  == now + gap
             st == [CountShown(t, d) EXCEPT !.pck_invalid = Plus(@, n)]
             f  == [delay |-> d, invalid |-> n]
             w  == Append(window, f)
             reset == ReceiverReset(st, t)
             line == ReceiverLine(st)
  <2>3. t \in Nat \ {0}
    BY StatParams
  <2>4. /\ s \in Stat /\ window \in Seq(ShownFrame) /\ SumsOfReceiver(s, window)
        /\ s.time_start = 0 => window = <<>>
    BY <2>1 DEF LineInv
  <2>5. f \in ShownFrame
    BY DEF ShownFrame
  <2>6. w \in Seq(ShownFrame) /\ Len(w) = Len(window) + 1 /\ w # <<>>
    <3>1. window \in Seq(ShownFrame)
      BY <2>4
    <3> HIDE DEF f
    <3> QED BY ONLY <2>5, <3>1
  <2>7. st \in Stat /\ st.frames = Plus(s.frames, 1)
    BY <2>1, <2>3, ShownIsStat
  <2>8. /\ SumsOfReceiver(st, w) /\ st.time_start # 0
        /\ st.time_last = IF s.time_start = 0 THEN t ELSE s.time_last
    BY <2>1, <2>3, <2>4, ShownSums
  <2>9. /\ SumsOfReceiver(reset, <<>>) /\ reset.time_start # 0 /\ reset.time_last = t
    <3> HIDE DEF st, t
    <3>1. /\ reset.delay = 0 /\ reset.delay_max = 0 /\ reset.delay_min = NoMinDelay
          /\ reset.pck_invalid.last = 0
          /\ reset.time_start = st.time_start /\ reset.time_last = t
      BY <2>7 DEF ReceiverReset, Stat, Both
    <3>2. Int32(0) = 0 /\ Delays(<<>>) = {}
      BY Halves, Int32IsInt DEF Delays
    <3> HIDE DEF reset
    <3> QED BY <2>8, <3>1, <3>2, SumOverNone DEF SumsOfReceiver, IsHighest, IsLowest
  <2>10. line = ReceiverTruth(w)
    <3>1. Len(w) <= MostFrames /\ MostFrames \in Nat \ {0}
      <4>1. Len(window) + 1 <= MostFrames
        BY WindowStep
      <4>2. MostFrames \in Nat \ {0}
        BY LeastGap
      <4> QED BY <2>6, <4>1, <4>2
    <3>2. st.frames.last = Len(w)
      <4> HIDE DEF st, w
      <4> QED BY <2>1, <2>6, <2>7, FrameCounted
    <3> HIDE DEF st, w
    <3> QED BY <2>6, <2>8, <3>1, <3>2, ReceiverLineTrue
  <2>11. now' = t /\ LineIfDue(st, t, w, line, reset)
    <3>1. Delay(Clock32(t - d), t) = d
      <4> HIDE DEF t
      <4> QED BY <2>3, DelayIsReal
    <3> QED BY <2>2, <3>1
  <2> HIDE DEF st, w, reset, line
  <2> QED BY <2>1, <2>3, <2>6, <2>7, <2>8, <2>9, <2>10, <2>11, LineKeepsLineInv
<1>3. CASE UNCHANGED vars
  BY <1>3 DEF vars, LineInv, SumsOfSender, SumsOfReceiver, LineIsOfItsWindow
<1> QED BY <1>1, <1>2, <1>3 DEF Next

\* A line is about the frames since the line before it, exactly: the average,
\* the extremes, the rate and the invalid ones of both programs are theirs, and
\* the delay is the real one although clock and totals wrap.
THEOREM LineAlwaysOfItsWindow == Spec => []LineIsOfItsWindow
<1>1. LineInv => LineIsOfItsWindow
  BY DEF LineInv
<1> QED BY <1>1, LineInvInit, LineInvStep, StatInvHolds, PTL DEF Spec
=============================================================================
