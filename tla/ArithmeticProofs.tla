-------------------------- MODULE ArithmeticProofs --------------------------
(* The address arithmetic and the flags, for words of every width.         *)
EXTENDS MCArithmetic, WordsProofs

(* What rounding down to the granule subtracts leaves a multiple of it.    *)
LEMMA RoundedIsMultiple ==
  ASSUME NEW b \in Nat, NEW g \in Nat \ {0}
  PROVE  (b - (b % g)) % g = 0 /\ b % g \in 0 .. g - 1 /\ b % g <= b
<1> DEFINE q == b \div g
           r == b % g
<1>1. b = g * q + r /\ r \in 0 .. g - 1 /\ q \in Nat /\ r <= b
  BY SMT
<1>2. b - r = g * q
  <2> HIDE DEF q, r
  <2> QED
    BY <1>1, SMT
<1>3. (g * q) % g = 0
  <2> HIDE DEF q, r
  <2> QED
    BY <1>1, SMTT(30)
<1> QED
  BY <1>1, <1>2, <1>3

(* A difference of two words, as the hardware keeps it. *)
LEMMA WordDifference ==
  ASSUME NEW a \in Word(WordMod), NEW b \in Word(WordMod)
  PROVE  (a - b) % WordMod = IF a < b THEN a - b + WordMod ELSE a - b
BY FlagsAssumption, SMTT(30) DEF Word

LEMMA WordSum ==
  ASSUME NEW a \in Word(WordMod), NEW b \in Word(WordMod)
  PROVE  WrapAdd(WordMod, a, b) = IF a + b < WordMod THEN a + b ELSE a + b - WordMod
BY FlagsAssumption, SMTT(30) DEF Word, WrapAdd

(* The lowest digit of a predecessor. *)
LEMMA DigitOfPredecessor ==
  ASSUME NEW v \in Nat \ {0}, NEW n \in Nat \ {0, 1}
  PROVE  (v - 1) % n = IF v % n = 0 THEN n - 1 ELSE (v % n) - 1
<1> DEFINE q == v \div n
           r == v % n
<1>1. v = n * q + r /\ r \in 0 .. n - 1 /\ q \in Nat
  BY SMT
<1> HIDE DEF q, r
<1>2. CASE r = 0
  <2>1. v - 1 = n * (q - 1) + (n - 1) /\ q - 1 \in Int
    BY <1>1, <1>2, SMT
  <2>2. (n * (q - 1) + (n - 1)) % n = n - 1
    <3> DEFINE p == q - 1
    <3> HIDE DEF p
    <3>1. p \in Int
      BY <2>1 DEF p
    <3>2. (n * p + (n - 1)) % n = n - 1
      BY <3>1, SMTT(30)
    <3> QED
      BY <3>2 DEF p
  <2> QED
    BY <1>2, <2>1, <2>2 DEF r
<1>3. CASE r # 0
  <2>1. v - 1 = n * q + (r - 1) /\ r - 1 \in 0 .. n - 1
    BY <1>1, <1>3, SMT
  <2>2. (n * q + (r - 1)) % n = r - 1
    <3> DEFINE m == r - 1
    <3> HIDE DEF m
    <3>1. m \in 0 .. n - 1
      BY <2>1 DEF m
    <3>2. (n * q + m) % n = m
      BY <1>1, <3>1, SMTT(30)
    <3> QED
      BY <3>2 DEF m
  <2> QED
    BY <1>3, <2>1, <2>2 DEF r
<1> QED
  BY <1>2, <1>3

LEMMA HalfWord == \E h \in Nat \ {0} : WordMod = 2 * h /\ WordMod \div 2 = h
BY FlagsAssumption, SMT

-----------------------------------------------------------------------------
(* The properties of the runs, of any two words *)

LEMMA WordsCheckedAdd ==
  ASSUME TypeOK PROVE CheckedAddExact
<1>1. PICK h \in Nat \ {0} : WordMod = 2 * h
  BY HalfWord
<1>2. x \in Word(2 * h) /\ y \in Word(2 * h)
  BY <1>1 DEF TypeOK
<1>3. CheckedAddRefused(2 * h, x, y)
        <=> Overflows(2 * h, x, y) /\ ~MissedOverflow(2 * h, x, y)
  BY <1>2, CheckedAddCharacterised
<1>4. ~CheckedAddRefused(2 * h, x, y) =>
        WrapAdd(2 * h, x, y) = IF MissedOverflow(2 * h, x, y) THEN 0 ELSE x + y
  BY <1>2, CheckedAddValue
<1> QED
  BY <1>1, <1>3, <1>4 DEF CheckedAddExact

LEMMA WordsAlignUp ==
  ASSUME TypeOK PROVE AlignUpIsCeiling
<1> DEFINE b == WrapAdd(WordMod, x, Granule - 1)
<1>1. /\ WordMod \in Nat /\ Granule \in Nat \ {0} /\ Granule <= WordMod
      /\ x \in 0 .. WordMod - 1
  <2>1. WordMod \in Nat /\ 0 < WordMod /\ Granule \in Nat \ {0} /\ x \in 0 .. WordMod - 1
    BY FlagsAssumption, GranuleAssumption, SMT DEF TypeOK, Word
  <2> DEFINE n == WordMod \div Granule
  <2>2. n \in Nat /\ WordMod = Granule * n
    BY <2>1, GranuleAssumption, SMT
  <2>3. 1 <= n
    <3> HIDE DEF n
    <3> QED
      BY <2>1, <2>2, SMT
  <2>4. Granule <= WordMod
    <3> HIDE DEF n
    <3> QED
      BY <2>1, <2>2, <2>3, SMTT(30)
  <2> QED
    BY <2>1, <2>4
<1>2. b = IF x <= WordMod - Granule THEN x + Granule - 1 ELSE x + Granule - 1 - WordMod
  BY <1>1, WordSum, SMT DEF Word
<1>3. b \in Nat /\ (x > WordMod - Granule => b < Granule)
  BY <1>1, <1>2, SMT
<1>4. AlignUp(WordMod, Granule, x) = b - (b % Granule)
  BY DEF AlignUp
<1>5. (b - (b % Granule)) % Granule = 0 /\ b % Granule \in 0 .. Granule - 1 /\ b % Granule <= b
  BY <1>1, <1>3, RoundedIsMultiple
<1>6. x > WordMod - Granule => b % Granule = b
  <2> HIDE DEF b
  <2> QED
    BY <1>1, <1>3, SMT
<1> DEFINE r == b % Granule
<1>7. IF x <= WordMod - Granule THEN x <= b - r /\ b - r < x + Granule ELSE b - r = 0
  <2> HIDE DEF r
  <2> QED
    BY <1>1, <1>2, <1>5, <1>6, SMT DEF r
<1> QED
  BY <1>4, <1>5, <1>7 DEF AlignUpIsCeiling

LEMMA WordsFlags ==
  ASSUME TypeOK PROVE FlagsOfWholeWords
<1>1. PICK h \in Nat \ {0} : WordMod = 2 * h /\ WordMod \div 2 = h
  BY HalfWord
<1>2. x \in 0 .. 2 * h - 1 /\ y \in 0 .. 2 * h - 1
  BY <1>1 DEF TypeOK, Word
<1>3. /\ \A v : SignBit(v) <=> v >= h
      /\ \A v : Signed(v) = IF v >= h THEN v - 2 * h ELSE v
  BY <1>1 DEF SignBit, Signed
<1> DEFINE d == (x - y) % WordMod
           s == WrapAdd(WordMod, x, y)
<1>4. d = IF x < y THEN x - y + 2 * h ELSE x - y
  BY <1>1, WordDifference DEF TypeOK
<1>5. s = IF x + y < 2 * h THEN x + y ELSE x + y - 2 * h
  BY <1>1, WordSum DEF TypeOK
<1>6. /\ CmpAndSetFlags(x, y).flags.CF = (x < y)
      /\ CmpAndSetFlags(x, y).flags.SF = SignBit(d)
      /\ CmpAndSetFlags(x, y).flags.ZF = (d = 0)
      /\ CmpAndSetFlags(x, y).flags.OF = SubOverflow(x, y)
  BY DEF CmpAndSetFlags, SubAndSetFlags
<1>7. /\ AddAndSetFlags(x, y).flags.CF = AddCarry(x, y)
      /\ AddAndSetFlags(x, y).flags.OF = (SignBit(x) = SignBit(y) /\ SignBit(s) # SignBit(x))
      /\ AddAndSetFlags(x, y).result = s
  BY DEF AddAndSetFlags
<1>8. SubOverflow(x, y) <=> (x >= h) # (y >= h) /\ (d >= h) # (x >= h)
  BY <1>3 DEF SubOverflow
<1>9. AddCarry(x, y) <=> s < x
  BY DEF AddCarry
<1> HIDE DEF d, s
<1>10. (d >= h) # ((x >= h) # (y >= h) /\ (d >= h) # (x >= h)) <=> Signed(x) < Signed(y)
  BY <1>2, <1>3, <1>4, SMT
<1>11. d = 0 <=> x = y
  BY <1>2, <1>4, SMT
<1>12. s < x <=> x + y >= 2 * h
  BY <1>2, <1>5, SMT
<1>13. ((x >= h) = (y >= h) /\ (s >= h) # (x >= h)) <=> Signed(x) + Signed(y) # Signed(s)
  BY <1>2, <1>3, <1>5, SMT
<1>14. /\ CmpAndSetFlags(x, y).flags.CF <=> x < y
       /\ CmpAndSetFlags(x, y).flags.ZF <=> x = y
  BY <1>6, <1>11
<1>15. CmpAndSetFlags(x, y).flags.SF # CmpAndSetFlags(x, y).flags.OF <=> Signed(x) < Signed(y)
  <2>1. SignBit(d) <=> d >= h
    BY <1>3
  <2>2. SignBit(d) # SubOverflow(x, y) <=> Signed(x) < Signed(y)
    <3>1. SubOverflow(x, y) \in BOOLEAN /\ SignBit(d) \in BOOLEAN
      BY DEF SubOverflow, SignBit
    <3> QED
      BY <1>8, <1>10, <2>1, <3>1
  <2> QED
    BY <1>6, <2>2
<1>16. AddAndSetFlags(x, y).flags.CF <=> x + y >= WordMod
  BY <1>1, <1>7, <1>9, <1>12
<1>17. AddAndSetFlags(x, y).flags.OF
         <=> Signed(x) + Signed(y) # Signed(AddAndSetFlags(x, y).result)
  BY <1>3, <1>7, <1>13
<1> QED
  BY <1>14, <1>15, <1>16, <1>17 DEF FlagsOfWholeWords

LEMMA WordsNarrow ==
  ASSUME TypeOK PROVE NarrowIsUnsigned
<1> SUFFICES ASSUME x < ByteMod, y < ByteMod
             PROVE  LET fl == SubAndSetFlags(x, y).flags
                        add == AddAndSetFlags(x, y).flags
                    IN  /\ fl.SF # fl.OF <=> x < y
                        /\ ~fl.OF /\ ~add.CF /\ ~add.OF /\ ~add.SF
  BY DEF NarrowIsUnsigned
<1>1. PICK h \in Nat \ {0} : WordMod = 2 * h /\ WordMod \div 2 = h
  BY HalfWord
<1>2. ByteMod \in Nat /\ 2 * ByteMod <= h /\ x \in 0 .. ByteMod - 1 /\ y \in 0 .. ByteMod - 1
  BY <1>1, FlagsAssumption, SMT DEF TypeOK, Word
<1>3. \A v : SignBit(v) <=> v >= h
  BY <1>1 DEF SignBit
<1> DEFINE d == (x - y) % WordMod
           s == WrapAdd(WordMod, x, y)
<1>4. d = IF x < y THEN x - y + 2 * h ELSE x - y
  BY <1>1, WordDifference DEF TypeOK
<1>5. s = IF x + y < 2 * h THEN x + y ELSE x + y - 2 * h
  BY <1>1, WordSum DEF TypeOK
<1>6. /\ SubAndSetFlags(x, y).flags.SF = SignBit(d)
      /\ SubAndSetFlags(x, y).flags.OF = SubOverflow(x, y)
  BY DEF SubAndSetFlags
<1>7. /\ AddAndSetFlags(x, y).flags.CF = (s < x)
      /\ AddAndSetFlags(x, y).flags.SF = SignBit(s)
      /\ AddAndSetFlags(x, y).flags.OF = (SignBit(x) = SignBit(y) /\ SignBit(s) # SignBit(x))
  BY DEF AddAndSetFlags, AddCarry
<1> HIDE DEF d, s
<1>8. ~SignBit(x) /\ ~SignBit(y)
  <2>1. ~(x >= h) /\ ~(y >= h)
    BY <1>2, SMT
  <2> QED
    BY <1>3, <2>1
<1>9. ~SubOverflow(x, y)
  <2>1. SignBit(x) = FALSE /\ SignBit(y) = FALSE
    BY <1>8 DEF SignBit
  <2> QED
    BY <2>1 DEF SubOverflow
<1>10. SignBit(d) <=> x < y
  <2>1. d >= h <=> x < y
    BY <1>2, <1>4, SMT
  <2> QED
    BY <1>3, <2>1
<1>11. s = x + y /\ ~(s < x)
  BY <1>2, <1>5, SMT
<1>12. SubAndSetFlags(x, y).flags.SF # SubAndSetFlags(x, y).flags.OF <=> x < y
  <2>1. SignBit(d) \in BOOLEAN /\ SubOverflow(x, y) = FALSE
    BY <1>9 DEF SignBit, SubOverflow
  <2> QED
    BY <1>6, <1>10, <2>1
<1>13. ~SubAndSetFlags(x, y).flags.OF /\ ~AddAndSetFlags(x, y).flags.CF
  BY <1>6, <1>7, <1>9, <1>11
<1>14. ~SignBit(s)
  <2>1. ~(s >= h)
    BY <1>2, <1>11, SMT
  <2> QED
    BY <1>3, <2>1
<1>15. ~AddAndSetFlags(x, y).flags.OF /\ ~AddAndSetFlags(x, y).flags.SF
  <2>1. SignBit(s) = FALSE /\ SignBit(x) = FALSE
    BY <1>8, <1>14 DEF SignBit
  <2> QED
    BY <1>7, <2>1
<1> QED
  BY <1>12, <1>13, <1>15

LEMMA WordsDec ==
  ASSUME TypeOK PROVE DecIsSubOfOne
<1>1. PICK h \in Nat \ {0} : WordMod = 2 * h /\ WordMod \div 2 = h
  BY HalfWord
<1>2. x \in 0 .. 2 * h - 1 /\ 1 < h /\ NibbleMod \in Nat \ {0, 1}
  BY <1>1, FlagsAssumption, SMT DEF TypeOK, Word
<1> DEFINE d == (x - 1) % WordMod
           dec == dec_and_set_flags(Before, x).flags
           sub == SubAndSetFlags(x, 1).flags
<1>3. d = IF x < 1 THEN x - 1 + 2 * h ELSE x - 1
  <2>1. 1 \in Word(WordMod) /\ x \in Word(WordMod)
    BY <1>1, <1>2, SMT DEF Word
  <2> QED
    BY <1>1, <2>1, WordDifference
<1>4. dec_and_set_flags(Before, x).result = SubAndSetFlags(x, 1).result
  BY DEF dec_and_set_flags, SubAndSetFlags
<1>5. /\ dec.ZF = sub.ZF /\ dec.SF = sub.SF /\ dec.PF = sub.PF
      /\ dec.CF = Before.CF
      /\ dec.OF = DecOverflow(x, d) /\ sub.OF = SubOverflow(x, 1)
      /\ dec.AF = (Low(x) < Low(d))
  BY DEF dec_and_set_flags, SubAndSetFlags, Before
<1>6. SubOverflow(x, 1) = DecOverflow(x, d)
  <2>1. ~(1 >= h)
    BY <1>2, SMT
  <2>2. SignBit(1) = FALSE /\ SignBit(x) \in BOOLEAN /\ SignBit(d) \in BOOLEAN
    BY <1>1, <2>1 DEF SignBit
  <2>3. CASE SignBit(x) = TRUE /\ SignBit(d) = FALSE
    <3>1. SubOverflow(x, 1) = TRUE
      BY <2>2, <2>3 DEF SubOverflow
    <3>2. DecOverflow(x, d) = TRUE
      BY <2>3 DEF DecOverflow
    <3> QED
      BY <3>1, <3>2
  <2>4. CASE SignBit(x) = FALSE \/ SignBit(d) = TRUE
    <3>1. SubOverflow(x, 1) = FALSE
      BY <2>2, <2>4 DEF SubOverflow
    <3>2. DecOverflow(x, d) = FALSE
      BY <2>4 DEF DecOverflow
    <3> QED
      BY <3>1, <3>2
  <2> QED
    BY <2>2, <2>3, <2>4
<1>7. dec.AF <=> Low(x) = 0
  <2>1. Low(d) = IF Low(x) = 0 THEN NibbleMod - 1 ELSE Low(x) - 1
    <3>1. CASE x = 0
      <4>1. Low(d) = NibbleMod - 1
        <5>1. d = WordMod - 1 /\ WordMod \in Nat \ {0}
          BY <1>1, <1>2, <1>3, <3>1, SMT
        <5>2. (WordMod - 1) % NibbleMod = NibbleMod - 1
          BY <1>2, <5>1, DigitOfPredecessor, FlagsAssumption
        <5> QED
          BY <5>1, <5>2 DEF Low
      <4>2. Low(x) = 0
        BY <1>2, <3>1, SMT DEF Low
      <4> QED
        BY <4>1, <4>2
    <3>2. CASE x # 0
      <4>1. d = x - 1 /\ x \in Nat \ {0}
        BY <1>2, <1>3, <3>2, SMT
      <4> QED
        BY <1>2, <4>1, DigitOfPredecessor DEF Low
    <3> QED
      BY <3>1, <3>2
  <2>2. Low(x) \in 0 .. NibbleMod - 1
    BY <1>2, SMT DEF Low
  <2>3. Low(x) < Low(d) <=> Low(x) = 0
    <3> DEFINE lx == Low(x)
               ld == Low(d)
    <3> HIDE DEF lx, ld
    <3>1. ld = IF lx = 0 THEN NibbleMod - 1 ELSE lx - 1
      BY <2>1 DEF lx, ld
    <3>2. lx \in 0 .. NibbleMod - 1
      BY <2>2 DEF lx
    <3>3. lx < ld <=> lx = 0
      BY <1>2, <3>1, <3>2, SMT
    <3> QED
      BY <3>3 DEF lx, ld
  <2> QED
    BY <1>5, <2>3
<1>8. \A f \in {"OF", "ZF", "SF", "PF"} : dec[f] = sub[f]
  BY <1>5, <1>6
<1> QED
  BY <1>4, <1>5, <1>7, <1>8 DEF DecIsSubOfOne

(* A word is the set of its bits. *)
LEMMA BitsAndBack ==
  /\ \A set \in SUBSET (0 .. Width - 1) : Bits(FromBits(set)) = set
  /\ \A v \in Word(WordMod) : FromBits(Bits(v)) = v
<1>1. Width \in Nat /\ WordMod = Power[Width] /\ Tabulates(Places2, 0 .. Width - 1)
  BY FlagsAssumption DEF Places2, Tabulates
<1>2. ASSUME NEW set \in SUBSET (0 .. Width - 1)
      PROVE  Bits(FromBits(set)) = set
  <2>1. Tabulates(Places2, set)
    BY <1>1 DEF Tabulates
  <2>2. BitsBelow(Power, Width, FromBits(set)) = set
    <3>1. BitsBelow(Power, Width, SumsOf(Places2, set)[Width]) = set \cap 0 .. Width - 1
      BY <1>1, <2>1, BitsOfSum
    <3> QED
      BY <3>1 DEF FromBits
  <2> QED
    BY <1>1, <2>2 DEF Bits, BitsBelow, Tabulates
<1>3. ASSUME NEW v \in Word(WordMod)
      PROVE  FromBits(Bits(v)) = v
  <2>1. v \in Nat /\ v % WordMod = v /\ Width \in 0 .. Width
    BY FlagsAssumption, SMT DEF Word
  <2>2. SumsOf(Places2, BitsBelow(Power, Width, v))[Width] = v % Power[Width]
    BY <1>1, <2>1, SumOfBits
  <2>3. Bits(v) = BitsBelow(Power, Width, v)
    BY <1>1 DEF Bits, BitsBelow, Tabulates
  <2> QED
    BY <1>1, <2>1, <2>2, <2>3 DEF FromBits
<1> QED
  BY <1>2, <1>3

(* With A and B the bits of x and y: AND and OR of the result with y add  *)
(* nothing, and XOR takes y away again.                                    *)
LEMMA WordsLogicAl ==
  ASSUME TypeOK PROVE LogicAlFlags
<1> DEFINE A == Bits(x)
           B == Bits(y)
           meet == A \cap B
           join == A \cup B
           both == (A \cup B) \ (A \cap B)
<1>1. A \subseteq 0 .. Width - 1 /\ B \subseteq 0 .. Width - 1
  BY DEF Bits, BitsBelow
<1>2. meet \subseteq 0 .. Width - 1 /\ join \subseteq 0 .. Width - 1 /\ both \subseteq 0 .. Width - 1
  BY <1>1
<1>3. Bits(FromBits(meet)) = meet /\ Bits(FromBits(join)) = join /\ Bits(FromBits(both)) = both
  BY <1>2, BitsAndBack
<1>4. FromBits(A) = x
  BY BitsAndBack DEF TypeOK
<1>5. meet \cap B = meet /\ join \cup B = join /\ (both \cup B) \ (both \cap B) = A
  OBVIOUS
<1>6. /\ Apply("and", x, y) = FromBits(meet) /\ Apply("or", x, y) = FromBits(join)
      /\ Apply("xor", x, y) = FromBits(both)
  BY DEF Apply
<1>7. /\ Apply("and", FromBits(meet), y) = FromBits(meet \cap B)
      /\ Apply("or", FromBits(join), y) = FromBits(join \cup B)
      /\ Apply("xor", FromBits(both), y) = FromBits((both \cup B) \ (both \cap B))
  <2> HIDE DEF meet, join, both
  <2> QED
    BY <1>3 DEF Apply
<1>8. /\ Apply("and", Apply("and", x, y), y) = Apply("and", x, y)
      /\ Apply("or", Apply("or", x, y), y) = Apply("or", x, y)
      /\ Apply("xor", Apply("xor", x, y), y) = x
  <2> HIDE DEF A, B, meet, join, both
  <2> QED
    BY <1>4, <1>5, <1>6, <1>7
<1>9. \A op \in {"or", "and"} : Apply(op, Apply(op, x, y), y) = Apply(op, x, y)
  BY <1>8
<1>10. \A op \in {"or", "and"} :
         LogicAl(Before, op, x, y).flags = SetLogicOpFlags(Before, LogicAl(Before, op, x, y).result)
  BY <1>9 DEF LogicAl
<1>11. LogicAl(Before, "and", x, y).flags = SetLogicOpFlags(Before, Apply("and", x, y))
  BY <1>8 DEF LogicAl
<1>12. LogicAl(Before, "xor", x, y).flags = SetLogicOpFlags(Before, x)
  BY <1>8 DEF LogicAl
<1> QED
  BY <1>10, <1>11, <1>12 DEF LogicAlFlags, TestAndSetFlags

-----------------------------------------------------------------------------
(* Theorems: every pair of words is reached, and every one has the         *)
(* properties.                                                             *)

LEMMA WordsInvariance == Spec => []TypeOK
<1>1. WordMod \in Nat \ {0}
  BY FlagsAssumption, SMT
<1>2. Init => TypeOK
  BY <1>1, SMT DEF Init, TypeOK, Word
<1>3. TypeOK /\ [NextX \/ NextY]_<<x, y>> => TypeOK'
  <2> SUFFICES ASSUME TypeOK, [NextX \/ NextY]_<<x, y>> PROVE TypeOK'
    OBVIOUS
  <2>1. \A v \in Word(WordMod) : WrapAdd(WordMod, v, 1) \in Word(WordMod)
    BY <1>1, SMT DEF Word, WrapAdd
  <2> QED
    BY <2>1 DEF NextX, NextY, TypeOK
<1> QED
  BY <1>2, <1>3, PTL DEF Spec

(* checked_add is exact but for odd + odd = 2^w (Fs.hpp:92-97). *)
THEOREM CheckedAddSound == Spec => []CheckedAddExact
BY WordsInvariance, WordsCheckedAdd, PTL

(* The allocator's rounding is the ceiling, or 0 in the top granule        *)
(* (Mmu.cpp:119).                                                          *)
THEOREM AlignUpSound == Spec => []AlignUpIsCeiling
BY WordsInvariance, WordsAlignUp, PTL

(* JZ, JL and JLE decide the orders of whole words after SUB and CMP, and  *)
(* CF and OF tell that a sum does not fit (Flags.cpp:59-115, 174-193).     *)
THEOREM WholeWordFlagsSound == Spec => []FlagsOfWholeWords
BY WordsInvariance, WordsFlags, PTL

(* The flags of narrow operands are those of unsigned words, of every      *)
(* width of the operand (Flags.cpp:59-75, 101-118).                        *)
THEOREM NarrowFlagsUnsigned == Spec => []NarrowIsUnsigned
BY WordsInvariance, WordsNarrow, PTL

(* DEC sets the flags of SUB of one but CF and AF (Flags.cpp:219-243). *)
THEOREM DecFlagsSound == Spec => []DecIsSubOfOne
BY WordsInvariance, WordsDec, PTL

(* The second application that the flags come from gives AND and OR the    *)
(* same value, and takes XOR back to the old AL, whatever the width.       *)
THEOREM LogicAlFlagsSound == Spec => []LogicAlFlags
BY WordsInvariance, WordsLogicAl, PTL
=============================================================================
