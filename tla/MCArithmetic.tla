---------------------------- MODULE MCArithmetic ----------------------------
(* Compares the address arithmetic and the flags with their references on  *)
(* every pair of words below WordMod.                                      *)
EXTENDS Flags

CONSTANT Granule   \* mem_alloc's 16
ASSUME GranuleAssumption ==
  Granule \in Nat \ {0} /\ WordMod = Granule * (WordMod \div Granule)

VARIABLES x, y

Init == x = 0 /\ y = 0
NextX == x' = WrapAdd(WordMod, x, 1) /\ y' = y
NextY == y' = WrapAdd(WordMod, y, 1) /\ x' = x
Spec == Init /\ [][NextX \/ NextY]_<<x, y>>

(* The variables are words. *)
TypeOK == x \in Word(WordMod) /\ y \in Word(WordMod)

Signed(v) == IF SignBit(v) THEN v - WordMod ELSE v
Before == [CF |-> TRUE, OF |-> TRUE, ZF |-> TRUE, SF |-> TRUE, PF |-> TRUE, AF |-> TRUE]

(* checked_add refuses the overflowing sums except odd + odd = 2^w, and    *)
(* hands back the exact sum of every other accepted pair (Fs.hpp:92-97).   *)
CheckedAddExact ==
  /\ CheckedAddRefused(WordMod, x, y)
       <=> Overflows(WordMod, x, y) /\ ~MissedOverflow(WordMod, x, y)
  /\ ~CheckedAddRefused(WordMod, x, y) /\ ~MissedOverflow(WordMod, x, y)
       => WrapAdd(WordMod, x, y) = x + y

(* The allocator's rounding yields the least multiple of the granule that  *)
(* is not below the size, and wraps to 0 for the top granule of sizes      *)
(* (Mmu.cpp:119).                                                          *)
AlignUpIsCeiling ==
  LET up == AlignUp(WordMod, Granule, x) IN
    /\ up % Granule = 0
    /\ IF x <= WordMod - Granule THEN x <= up /\ up < x + Granule ELSE up = 0

(* After SUB or CMP of whole words the conditions of the jumps decide both *)
(* orders: CF the unsigned one, SF # OF the signed one, ZF equality.  After *)
(* ADD of whole words CF and OF say that the unsigned and the signed sum   *)
(* do not fit (Flags.cpp:59-78, 101-115, 174-193, Emulator.cpp:268-285).   *)
FlagsOfWholeWords ==
  LET cmp == CmpAndSetFlags(x, y).flags
      add == AddAndSetFlags(x, y)
  IN  /\ cmp.CF <=> x < y
      /\ cmp.SF # cmp.OF <=> Signed(x) < Signed(y)
      /\ cmp.ZF <=> x = y
      /\ add.flags.CF <=> x + y >= WordMod
      /\ add.flags.OF <=> Signed(x) + Signed(y) # Signed(add.result)

(* Operands narrower than a word are compared as 64-bit words with no      *)
(* sign: JL then decides the unsigned order, not that of the operand size, *)
(* and an ADD that leaves the operand size sets neither CF nor OF nor SF   *)
(* (Flags.cpp:59-75, 101-118, Emulator.cpp:179-190).                       *)
NarrowIsUnsigned ==
  x < ByteMod /\ y < ByteMod =>
    LET fl == SubAndSetFlags(x, y).flags
        add == AddAndSetFlags(x, y).flags
    IN  /\ fl.SF # fl.OF <=> x < y
        /\ ~fl.OF /\ ~add.CF /\ ~add.OF /\ ~add.SF

(* DEC sets the flags of a subtraction of one, but for CF, which stays,    *)
(* and an AF that only the lowest nibble decides (Flags.cpp:219-243).      *)
DecIsSubOfOne ==
  LET dec == dec_and_set_flags(Before, x)
      sub == SubAndSetFlags(x, 1)
  IN  /\ dec.result = sub.result
      /\ \A f \in {"OF", "ZF", "SF", "PF"} : dec.flags[f] = sub.flags[f]
      /\ dec.flags.CF = Before.CF
      /\ dec.flags.AF <=> Low(x) = 0

(* The flags of OR and AND of AL are those of its new value, although they *)
(* are computed by a second application; those of XOR are of the value AL  *)
(* had before, so that JZ after XOR tests the old AL.  TEST has the flags  *)
(* of AND and leaves AL (Emulator.cpp:145-162, 202-205, 354-356).          *)
LogicAlFlags ==
  x < ByteMod /\ y < ByteMod =>
    /\ \A op \in {"or", "and"} :
         LogicAl(Before, op, x, y).flags
           = SetLogicOpFlags(Before, LogicAl(Before, op, x, y).result)
    /\ TestAndSetFlags(Before, x, y)
         = [result |-> x, flags |-> LogicAl(Before, "and", x, y).flags]
    /\ LogicAl(Before, "xor", x, y).flags = SetLogicOpFlags(Before, x)
=============================================================================
