---------------------------- MODULE WordsProofs ----------------------------
EXTENDS Words, WellFoundedInduction, TLAPS

(* checked_add refuses exactly the overflowing sums, with one exception:   *)
(* two odd operands whose sum is 2^w.                                      *)
THEOREM CheckedAddCharacterised ==
  ASSUME NEW h \in Nat \ {0}, NEW x \in Word(2 * h), NEW y \in Word(2 * h)
  PROVE  CheckedAddRefused(2 * h, x, y)
           <=> Overflows(2 * h, x, y) /\ ~MissedOverflow(2 * h, x, y)
<1>1. x \div 2 \in Int /\ x % 2 \in {0, 1} /\ x = 2 * (x \div 2) + (x % 2)
  BY SMT DEF Word
<1>2. y \div 2 \in Int /\ y % 2 \in {0, 1} /\ y = 2 * (y \div 2) + (y % 2)
  BY SMT DEF Word
<1>3. (2 * h - 1) \div 2 = h - 1
  BY SMT
<1> QED
  BY <1>1, <1>2, <1>3, SMT DEF Word, CheckedAddRefused, Overflows, MissedOverflow

(* An accepted sum is the mathematical sum, or 0 in the exceptional case. *)
THEOREM CheckedAddValue ==
  ASSUME NEW h \in Nat \ {0}, NEW x \in Word(2 * h), NEW y \in Word(2 * h),
         ~CheckedAddRefused(2 * h, x, y)
  PROVE  WrapAdd(2 * h, x, y) = IF MissedOverflow(2 * h, x, y) THEN 0 ELSE x + y
<1>1. CASE MissedOverflow(2 * h, x, y)
  BY <1>1, SMT DEF WrapAdd, MissedOverflow
<1>2. CASE ~MissedOverflow(2 * h, x, y)
  <2>1. x + y < 2 * h
    BY <1>2, CheckedAddCharacterised, SMT DEF Overflows, Word
  <2>2. WrapAdd(2 * h, x, y) = x + y
    BY <2>1, SMT DEF WrapAdd, Word
  <2> QED
    BY <1>2, <2>2
<1> QED
  BY <1>1, <1>2

-----------------------------------------------------------------------------
LEMMA Least ==
  ASSUME NEW S, S \subseteq Nat, S # {}
  PROVE  \E x \in S : \A y \in S : x <= y
<1>1. PICK x \in S : \A y \in S : ~(<<y, x>> \in OpToRel(<, Nat))
  BY NatLessThanWellFounded, WFMin
<1>2. \A y \in S : x <= y
  <2> SUFFICES ASSUME NEW y \in S, ~(x <= y) PROVE FALSE
    OBVIOUS
  <2>1. y < x /\ x \in Nat /\ y \in Nat
    BY SMT
  <2>2. <<y, x>> \in OpToRel(<, Nat)
    BY <2>1 DEF OpToRel
  <2> QED
    BY <1>1, <2>2
<1> QED
  BY <1>2

LEMMA Induction ==
  ASSUME NEW S, S \subseteq Nat, 0 \in S, \A n \in S : n + 1 \in S
  PROVE  \A n \in Nat : n \in S
<1> SUFFICES ASSUME Nat \ S # {} PROVE FALSE
  OBVIOUS
<1>1. PICK m \in Nat \ S : \A y \in Nat \ S : m <= y
  BY Least
<1>2. m - 1 \in Nat /\ m - 1 \notin Nat \ S
  BY <1>1, SMT
<1>3. (m - 1) + 1 \in S
  BY <1>2
<1> QED
  BY <1>1, <1>3, SMT

Approximates(g, n, T, a, h) ==
  g \in [0 .. n -> T] /\ g[0] = a /\ \A k \in 0 .. n - 1 : g[k + 1] = h[k][g[k]]

LEMMA Approximations ==
  ASSUME NEW T, NEW a \in T, NEW h \in [Nat -> [T -> T]]
  PROVE  \A n \in Nat : \E g : Approximates(g, n, T, a, h)
<1> DEFINE S == {n \in Nat : \E g : Approximates(g, n, T, a, h)}
<1>1. 0 \in S
  <2>1. Approximates([k \in 0 .. 0 |-> a], 0, T, a, h)
    BY SMT DEF Approximates
  <2> QED
    BY <2>1
<1>2. ASSUME NEW n \in S PROVE n + 1 \in S
  <2>1. PICK g : Approximates(g, n, T, a, h)
    OBVIOUS
  <2> DEFINE e == [k \in 0 .. n + 1 |-> IF k = n + 1 THEN h[n][g[n]] ELSE g[k]]
  <2>2. n \in Nat /\ n \in 0 .. n /\ g[n] \in T
    BY <2>1, SMT DEF Approximates
  <2>3. h[n][g[n]] \in T
    BY <2>2
  <2>4. \A k \in 0 .. n + 1 : e[k] \in T
    BY <2>1, <2>2, <2>3, SMT DEF Approximates
  <2>5. e[0] = a
    BY <2>1, <2>2, SMT DEF Approximates
  <2>6. ASSUME NEW k \in 0 .. n PROVE e[k + 1] = h[k][e[k]]
    <3>1. CASE k = n
      BY <2>2, <3>1, SMT
    <3>2. CASE k # n
      <4>1. k \in 0 .. n - 1 /\ k + 1 # n + 1 /\ k + 1 \in 0 .. n + 1 /\ k # n + 1 /\ k \in 0 .. n + 1
        BY <2>2, <3>2, SMT
      <4>2. g[k + 1] = h[k][g[k]]
        BY <2>1, <4>1 DEF Approximates
      <4> QED
        BY <4>1, <4>2
    <3> QED
      BY <3>1, <3>2
  <2>7. e \in [0 .. n + 1 -> T]
    BY <2>4
  <2>8. (n + 1) - 1 = n /\ n + 1 \in Nat
    BY <2>2, SMT
  <2> HIDE DEF e
  <2>9. Approximates(e, n + 1, T, a, h)
    BY <2>5, <2>6, <2>7, <2>8 DEF Approximates
  <2> QED
    BY <2>8, <2>9
<1> HIDE DEF S
<1>3. \A n \in Nat : n \in S
  BY <1>1, <1>2, Induction DEF S
<1> QED
  BY <1>3 DEF S

LEMMA ApproximationsAgree ==
  ASSUME NEW T, NEW a, NEW h, NEW m \in Nat, NEW n \in Nat, m <= n, NEW f, NEW g,
         Approximates(f, m, T, a, h), Approximates(g, n, T, a, h)
  PROVE  \A k \in 0 .. m : f[k] = g[k]
<1> DEFINE S == {k \in Nat : k <= m => f[k] = g[k]}
<1>1. 0 \in S
  BY DEF Approximates
<1>2. ASSUME NEW k \in S PROVE k + 1 \in S
  <2>1. CASE k + 1 <= m
    <3>1. k \in 0 .. m - 1 /\ k \in 0 .. n - 1 /\ k <= m
      BY <2>1, SMT
    <3> QED
      BY <3>1 DEF Approximates
  <2>2. CASE ~(k + 1 <= m)
    BY <2>2
  <2> QED
    BY <2>1, <2>2
<1> HIDE DEF S
<1>3. \A k \in Nat : k \in S
  BY <1>1, <1>2, Induction DEF S
<1> QED
  BY <1>3, SMT DEF S

(* A function on the naturals may be defined by recursion. *)
Recurs(f, T, a, h) == f \in [Nat -> T] /\ f[0] = a /\ \A n \in Nat : f[n + 1] = h[n][f[n]]

LEMMA Recursion ==
  ASSUME NEW T, NEW a \in T, NEW h \in [Nat -> [T -> T]]
  PROVE  \E f : Recurs(f, T, a, h)
<1> DEFINE App(n) == CHOOSE g : Approximates(g, n, T, a, h)
           f == [n \in Nat |-> App(n)[n]]
<1>1. \A n \in Nat : Approximates(App(n), n, T, a, h)
  BY Approximations
<1> HIDE DEF App
<1>2. \A n \in Nat : f[n] \in T
  BY <1>1 DEF Approximates
<1>3. f[0] = a
  BY <1>1 DEF Approximates
<1>4. ASSUME NEW n \in Nat PROVE f[n + 1] = h[n][f[n]]
  <2>1. n + 1 \in Nat /\ n <= n + 1 /\ n \in 0 .. (n + 1) - 1 /\ n \in 0 .. n
    BY SMT
  <2>2. App(n + 1)[n + 1] = h[n][App(n + 1)[n]]
    BY <1>1, <2>1 DEF Approximates
  <2>3. App(n)[n] = App(n + 1)[n]
    BY <1>1, <2>1, ApproximationsAgree
  <2> QED
    BY <2>1, <2>2, <2>3
<1>5. f \in [Nat -> T]
  BY <1>2
<1> HIDE DEF f
<1> QED
  BY <1>3, <1>4, <1>5 DEF Recurs

LEMMA PowerRecursive ==
  /\ Power[0] = 1
  /\ \A k \in Nat : Power[k] \in Nat \ {0} /\ Power[k + 1] = 2 * Power[k]
<1> DEFINE T == Nat \ {0}
           h == [n \in Nat |-> [x \in T |-> 2 * x]]
           Body(p) == [k \in Nat |-> IF k = 0 THEN 1 ELSE 2 * p[k - 1]]
<1>1. PICK f : Recurs(f, T, 1, h)
  <2>1. 1 \in T /\ \A x \in T : 2 * x \in T
    BY SMT
  <2>2. h \in [Nat -> [T -> T]]
    BY <2>1
  <2> HIDE DEF h, T
  <2> QED
    BY <2>1, <2>2, Recursion
<1> USE DEF Recurs
<1>2. f = Body(f)
  <2>1. ASSUME NEW k \in Nat, k # 0 PROVE f[k] = 2 * f[k - 1]
    <3>1. k - 1 \in Nat /\ (k - 1) + 1 = k
      BY <2>1, SMT
    <3>2. f[(k - 1) + 1] = h[k - 1][f[k - 1]]
      BY <1>1, <3>1
    <3> QED
      BY <1>1, <3>1, <3>2
  <2> QED
    BY <1>1, <2>1
<1>3. Power = CHOOSE p : p = Body(p)
  BY DEF Power
<1>4. Power = Body(Power)
  BY <1>2, <1>3
<1>5. Power[0] = 1 /\ \A k \in Nat : Power[k + 1] = 2 * Power[k]
  <2>1. \A k \in Nat : k + 1 \in Nat /\ k + 1 # 0 /\ (k + 1) - 1 = k
    BY SMT
  <2>2. \A k \in Nat : Power[k] = IF k = 0 THEN 1 ELSE 2 * Power[k - 1]
    BY <1>4
  <2> HIDE DEF Body
  <2> QED
    BY <2>1, <2>2
<1>6. \A k \in Nat : Power[k] \in Nat \ {0}
  <2> DEFINE S == {k \in Nat : Power[k] \in Nat \ {0}}
  <2>1. 0 \in S
    BY <1>5
  <2>2. ASSUME NEW n \in S PROVE n + 1 \in S
    BY <1>5, SMT
  <2> HIDE DEF S
  <2>3. \A n \in Nat : n \in S
    BY <2>1, <2>2, Induction DEF S
  <2> QED
    BY <2>3 DEF S
<1> QED
  BY <1>5, <1>6

Tabulates(power, set) == \A k \in set : power[k] = Power[k]

LEMMA SumsRecursive ==
  ASSUME NEW power, NEW set, Tabulates(power, set)
  PROVE  /\ SumsOf(power, set)[0] = 0
         /\ \A n \in Nat :
              /\ SumsOf(power, set)[n] \in Nat
              /\ SumsOf(power, set)[n + 1]
                   = SumsOf(power, set)[n] + (IF n \in set THEN Power[n] ELSE 0)
<1> DEFINE d(n) == IF n \in set THEN power[n] ELSE 0
           h == [n \in Nat |-> [x \in Nat |-> x + d(n)]]
           Body(p) == [n \in Nat |-> IF n = 0 THEN 0 ELSE p[n - 1] + d(n - 1)]
<1>1. \A n \in Nat : d(n) \in Nat /\ d(n) = IF n \in set THEN Power[n] ELSE 0
  BY PowerRecursive DEF Tabulates
<1>2. SumsOf(power, set) = CHOOSE p : p = Body(p)
  BY DEF SumsOf
<1> HIDE DEF d
<1>3. PICK f : Recurs(f, Nat, 0, h)
  <2>1. \A n, x \in Nat : x + d(n) \in Nat
    BY <1>1, SMT
  <2>2. h \in [Nat -> [Nat -> Nat]]
    BY <2>1
  <2> HIDE DEF h
  <2> QED
    BY <2>2, Recursion
<1> USE DEF Recurs
<1>4. f = Body(f)
  <2>1. ASSUME NEW k \in Nat, k # 0 PROVE f[k] = f[k - 1] + d(k - 1)
    <3>1. k - 1 \in Nat /\ (k - 1) + 1 = k
      BY <2>1, SMT
    <3>2. f[(k - 1) + 1] = h[k - 1][f[k - 1]]
      BY <1>3, <3>1
    <3> QED
      BY <1>3, <3>1, <3>2
  <2> QED
    BY <1>3, <2>1
<1>5. SumsOf(power, set) = Body(SumsOf(power, set))
  BY <1>2, <1>4
<1> DEFINE g == SumsOf(power, set)
<1>6. g = Body(g)
  BY <1>5
<1> HIDE DEF g
<1>7. g[0] = 0 /\ \A n \in Nat : g[n + 1] = g[n] + d(n)
  <2>1. \A k \in Nat : k + 1 \in Nat /\ k + 1 # 0 /\ (k + 1) - 1 = k
    BY SMT
  <2>2. \A k \in Nat : g[k] = IF k = 0 THEN 0 ELSE g[k - 1] + d(k - 1)
    BY <1>6
  <2> HIDE DEF Body
  <2> QED
    BY <2>1, <2>2
<1>8. \A k \in Nat : g[k] \in Nat
  <2> DEFINE S == {k \in Nat : g[k] \in Nat}
  <2>1. 0 \in S
    BY <1>7
  <2>2. ASSUME NEW n \in S PROVE n + 1 \in S
    BY <1>1, <1>7, SMT
  <2> HIDE DEF S
  <2>3. \A n \in Nat : n \in S
    BY <2>1, <2>2, Induction DEF S
  <2> QED
    BY <2>3 DEF S
<1> QED
  BY <1>1, <1>7, <1>8 DEF g

LEMMA QuotientUnique ==
  ASSUME NEW m \in Nat \ {0}, NEW q \in Int, NEW r \in 0 .. m - 1
  PROVE  (m * q + r) \div m = q /\ (m * q + r) % m = r
BY Z3

LEMMA Division ==
  ASSUME NEW x \in Int, NEW m \in Nat \ {0}
  PROVE  /\ x \div m \in Int /\ x % m \in 0 .. m - 1 /\ x = m * (x \div m) + (x % m)
         /\ x \in Nat => x \div m \in Nat
BY Z3

(* the powers below n divide that of n, with an even quotient *)
LEMMA PowerDivides ==
  ASSUME NEW k \in Nat
  PROVE  \A n \in Nat : k < n => \E c \in Nat : Power[n] = Power[k] * (2 * c)
<1> DEFINE S == {n \in Nat : k < n => \E c \in Nat : Power[n] = Power[k] * (2 * c)}
<1>1. 0 \in S
  BY SMT
<1>2. ASSUME NEW n \in S PROVE n + 1 \in S
  <2>1. n \in Nat /\ Power[n + 1] = 2 * Power[n] /\ Power[k] \in Nat /\ n + 1 \in Nat
    BY PowerRecursive
  <2>2. CASE k < n
    <3>1. PICK c \in Nat : Power[n] = Power[k] * (2 * c)
      BY <2>2
    <3>2. 2 * (Power[k] * (2 * c)) = Power[k] * (2 * (2 * c)) /\ 2 * c \in Nat
      BY <2>1, SMT
    <3> QED
      BY <2>1, <3>1, <3>2
  <2>3. CASE k = n
    <3>1. 2 * Power[k] = Power[k] * (2 * 1)
      BY <2>1, SMT
    <3> QED
      BY <2>1, <2>3, <3>1
  <2>4. CASE n < k
    <3>1. ~(k < n + 1)
      BY <2>1, <2>4, SMT
    <3> QED
      BY <2>1, <3>1
  <2> QED
    BY <2>1, <2>2, <2>3, <2>4, SMT
<1> HIDE DEF S
<1>3. \A n \in Nat : n \in S
  BY <1>1, <1>2, Induction DEF S
<1> QED
  BY <1>3 DEF S

LEMMA SumBelowPower ==
  ASSUME NEW power, NEW set, Tabulates(power, set)
  PROVE  \A n \in Nat : SumsOf(power, set)[n] \in 0 .. Power[n] - 1
<1> DEFINE g == SumsOf(power, set)
           S == {n \in Nat : g[n] \in 0 .. Power[n] - 1}
<1>1. /\ g[0] = 0
      /\ \A n \in Nat : g[n] \in Nat /\ g[n + 1] = g[n] + (IF n \in set THEN Power[n] ELSE 0)
  BY SumsRecursive
<1> HIDE DEF g
<1>2. 0 \in S
  BY <1>1, PowerRecursive
<1>3. ASSUME NEW n \in S PROVE n + 1 \in S
  <2>1. /\ n \in Nat /\ Power[n] \in Nat /\ Power[n + 1] = 2 * Power[n]
        /\ g[n] \in 0 .. Power[n] - 1
    BY PowerRecursive
  <2> QED
    BY <1>1, <2>1, SMT
<1> HIDE DEF S
<1>4. \A n \in Nat : n \in S
  BY <1>2, <1>3, Induction DEF S
<1> QED
  BY <1>4 DEF S, g

(* the bits of a sum are those summed *)
LEMMA BitsOfSum ==
  ASSUME NEW power, NEW set, Tabulates(power, set)
  PROVE  \A n \in Nat : BitsBelow(Power, n, SumsOf(power, set)[n]) = set \cap 0 .. n - 1
<1> DEFINE g == SumsOf(power, set)
           Bit(n, k) == (g[n] \div Power[k]) % 2 = 1
           S == {n \in Nat : \A k \in 0 .. n - 1 : Bit(n, k) <=> k \in set}
<1>1. /\ g[0] = 0
      /\ \A n \in Nat : g[n] \in 0 .. Power[n] - 1 /\ g[n + 1] = g[n] + (IF n \in set THEN Power[n] ELSE 0)
  BY SumsRecursive, SumBelowPower
<1> HIDE DEF g
<1>2. 0 \in S
  BY SMT
<1>3. ASSUME NEW n \in S, NEW k \in 0 .. n PROVE Bit(n + 1, k) <=> k \in set
  <2> DEFINE p == Power[n]
             q == Power[k]
             s == g[n]
             b == IF n \in set THEN 1 ELSE 0
  <2>1. n \in Nat /\ k \in Nat /\ p \in Nat \ {0} /\ q \in Nat \ {0} /\ s \in 0 .. p - 1 /\ b \in {0, 1}
    BY <1>1, PowerRecursive
  <2>2. g[n + 1] = s + b * p
    BY <1>1, <2>1
  <2>3. CASE k = n
    <3>1. g[n + 1] = p * b + s
      BY <2>1, <2>2, SMT
    <3> HIDE DEF p, s, b
    <3>2. (p * b + s) \div p = b
      BY <2>1, QuotientUnique
    <3>3. b % 2 = 1 <=> b = 1
      BY <2>1, SMT
    <3> QED
      BY <2>3, <3>1, <3>2, <3>3 DEF p, b
  <2>4. CASE k # n
    <3>1. k \in 0 .. n - 1 /\ k < n
      BY <2>1, <2>4, SMT
    <3>2. PICK c \in Nat : p = q * (2 * c)
      BY <2>1, <3>1, PowerDivides
    <3> DEFINE u == s \div q
               v == s % q
    <3>3. (u % 2 = 1) <=> k \in set
      BY <3>1
    <3> HIDE DEF p, q, s, b
    <3>4. u \in Nat /\ v \in 0 .. q - 1 /\ s = q * u + v
      <4>1. s \in Int /\ s \in Nat
        BY <2>1, SMT
      <4> QED
        BY <2>1, <4>1, Division
    <3> HIDE DEF u, v
    <3>5. g[n + 1] = q * (u + 2 * (b * c)) + v
      <4>1. b * (q * (2 * c)) = q * (2 * (b * c))
        BY <2>1, <3>2, SMT
      <4>2. b * c \in Nat
        BY <2>1, <3>2, SMT
      <4> DEFINE w == b * c
      <4> HIDE DEF w
      <4>3. (q * u + v) + q * (2 * w) = q * (u + 2 * w) + v
        BY <2>1, <3>4, <4>2, Z3 DEF w
      <4> QED
        BY <2>2, <3>2, <3>4, <4>1, <4>3 DEF w
    <3>6. u + 2 * (b * c) \in Int
      BY <2>1, <3>2, <3>4, SMT
    <3>7. g[n + 1] \div q = u + 2 * (b * c)
      BY <2>1, <3>4, <3>5, <3>6, QuotientUnique
    <3>8. (u + 2 * (b * c)) % 2 = u % 2
      <4>1. b * c \in Nat
        BY <2>1, <3>2, SMT
      <4>2. \A w \in Nat : (u + 2 * w) % 2 = u % 2
        BY <3>4, SMT
      <4> QED
        BY <4>1, <4>2
    <3> QED
      BY <3>3, <3>7, <3>8 DEF q
  <2> QED
    BY <2>3, <2>4
<1>4. ASSUME NEW n \in S PROVE n + 1 \in S
  <2>1. n + 1 \in Nat /\ (n + 1) - 1 = n
    BY SMT
  <2> HIDE DEF Bit
  <2> QED
    BY <1>3, <2>1
<1> HIDE DEF S
<1>5. \A n \in Nat : n \in S
  BY <1>2, <1>4, Induction DEF S
<1> QED
  BY <1>5, SMT DEF S, g, BitsBelow

(* one more bit of a word *)
LEMMA NextDigit ==
  ASSUME NEW x \in Nat, NEW p \in Nat \ {0}
  PROVE  x % (2 * p) = (x % p) + p * ((x \div p) % 2)
<1> DEFINE q == x \div p
           r == x % p
           c == q \div 2
           d == q % 2
<1>1. q \in Nat /\ r \in 0 .. p - 1 /\ x = p * q + r
  <2>1. x \in Int
    OBVIOUS
  <2> QED
    BY <2>1, Division
<1>2. c \in Int /\ d \in 0 .. 1 /\ q = 2 * c + d
  <2>1. q \in Int /\ 2 \in Nat \ {0}
    BY <1>1, SMT
  <2> HIDE DEF q
  <2> QED
    BY <2>1, Division
<1> HIDE DEF q, r, c, d
<1>3. p * d + r \in 0 .. 2 * p - 1
  BY <1>1, <1>2, SMT
<1>4. x = (2 * p) * c + (p * d + r)
  <2>1. p * (2 * c + d) + r = (2 * p) * c + (p * d + r)
    BY <1>1, <1>2, SMT
  <2> QED
    BY <1>1, <1>2, <2>1
<1>5. 2 * p \in Nat \ {0}
  BY SMT
<1> DEFINE m == 2 * p
           v == p * d + r
<1>6. m \in Nat \ {0} /\ v \in 0 .. m - 1 /\ x = m * c + v
  BY <1>3, <1>4, <1>5
<1> HIDE DEF m, v
<1>7. x % m = v
  BY <1>2, <1>6, QuotientUnique
<1> QED
  BY <1>1, <1>2, <1>7, SMT DEF m, v, q, r, d

(* the sum of the bits of a word is the word *)
LEMMA SumOfBits ==
  ASSUME NEW N \in Nat, NEW x \in Nat, NEW power, Tabulates(power, 0 .. N - 1)
  PROVE  \A n \in 0 .. N : SumsOf(power, BitsBelow(Power, N, x))[n] = x % Power[n]
<1> DEFINE g == SumsOf(power, BitsBelow(Power, N, x))
           S == {n \in Nat : n <= N => g[n] = x % Power[n]}
<1>1. /\ g[0] = 0
      /\ \A n \in Nat : g[n + 1] = g[n] + (IF n \in BitsBelow(Power, N, x) THEN Power[n] ELSE 0)
  <2>1. Tabulates(power, BitsBelow(Power, N, x))
    BY DEF Tabulates, BitsBelow
  <2> QED
    BY <2>1, SumsRecursive
<1> HIDE DEF g
<1>2. 0 \in S
  <2>1. x % 1 = 0
    BY SMT
  <2> QED
    BY <1>1, <2>1, PowerRecursive
<1>3. ASSUME NEW n \in S PROVE n + 1 \in S
  <2> SUFFICES ASSUME n + 1 <= N PROVE g[n + 1] = x % Power[n + 1]
    BY SMT
  <2> DEFINE p == Power[n]
  <2>1. n \in 0 .. N - 1 /\ n \in Nat /\ n <= N
    BY SMT
  <2>2. p \in Nat \ {0} /\ Power[n + 1] = 2 * p /\ g[n] = x % p
    BY <2>1, PowerRecursive
  <2>3. n \in BitsBelow(Power, N, x) <=> (x \div p) % 2 = 1
    BY <2>1 DEF BitsBelow
  <2>4. g[n + 1] = (x % p) + (IF (x \div p) % 2 = 1 THEN p ELSE 0)
    BY <1>1, <2>1, <2>2, <2>3
  <2> DEFINE d == (x \div p) % 2
  <2>5. d \in {0, 1}
    <3>1. x \div p \in Int
      <4>1. x \in Int
        OBVIOUS
      <4> QED
        BY <2>2, <4>1, Division
    <3> QED
      BY <3>1, SMT
  <2>6. x % (2 * p) = (x % p) + p * d
    BY <2>2, NextDigit
  <2> HIDE DEF d, p
  <2>7. p * d = IF d = 1 THEN p ELSE 0
    BY <2>2, <2>5, SMT
  <2> QED
    BY <2>2, <2>4, <2>6, <2>7 DEF d
<1> HIDE DEF S
<1>4. \A n \in Nat : n \in S
  BY <1>2, <1>3, Induction DEF S
<1> QED
  BY <1>4, SMT DEF S, g

(* bits that are not there add nothing *)
LEMMA SumOfLowBits ==
  ASSUME NEW j \in Nat, NEW set, set \subseteq 0 .. j - 1,
         NEW power, Tabulates(power, set)
  PROVE  \A n \in Nat : j <= n => SumsOf(power, set)[n] = SumsOf(power, set)[j]
<1> DEFINE g == SumsOf(power, set)
           S == {n \in Nat : j <= n => g[n] = g[j]}
<1>1. \A n \in Nat : /\ g[n] \in Nat
                    /\ g[n + 1] = g[n] + (IF n \in set THEN Power[n] ELSE 0)
  <2> HIDE DEF S
  <2> QED
    BY SumsRecursive
<1> HIDE DEF g
<1>2. 0 \in S
  BY SMT
<1>3. ASSUME NEW n \in S PROVE n + 1 \in S
  <2>1. n + 1 \in Nat /\ n \in Nat
    BY SMT
  <2>2. CASE j <= n
    <3>1. n \notin set
      BY <2>2, SMT
    <3>2. g[n + 1] = g[n] + 0
      BY <1>1, <2>1, <3>1
    <3> QED
      BY <1>1, <2>1, <2>2, <3>2, SMT
  <2>3. CASE n < j
    <3>1. j <= n + 1 => j = n + 1
      BY <2>3, SMT
    <3> QED
      BY <2>1, <3>1
  <2> QED
    BY <2>1, <2>2, <2>3, SMT
<1> HIDE DEF S
<1>4. \A n \in Nat : n \in S
  BY <1>2, <1>3, Induction DEF S
<1> QED
  BY <1>4 DEF S, g
=============================================================================
