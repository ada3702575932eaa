------------------------------- MODULE Words -------------------------------
(***************************************************************************)
(* Unsigned machine words and the address arithmetic built on them.  A     *)
(* word of w bits is a natural below m = 2^w; the operators take the       *)
(* modulus m, so that theorems can quantify over it.                       *)
(***************************************************************************)
EXTENDS Integers

Word(m) == 0 .. m - 1

(* unsigned addition as the hardware performs it *)
WrapAdd(m, x, y) == (x + y) % m

(***************************************************************************)
(* checked_add (core/Fs.hpp): the optional it returns is empty exactly     *)
(* when CheckedAddRefused holds, and holds WrapAdd(m, x1, x2) otherwise.   *)
(* The halves are rounded down before they are compared with max / 2.      *)
(***************************************************************************)
MutRefusedAtHalf(m, x1, x2) == x1 \div 2 + x2 \div 2 >= (m - 1) \div 2

CheckedAddRefused(m, x1, x2) == x1 \div 2 + x2 \div 2 > (m - 1) \div 2

(* (size + 0xf) & ~0xf, with the granule Align = 16 of the code *)
MutAlignDown(m, align, size) == size - (size % align)

AlignUp(m, align, size) ==
  LET bumped == WrapAdd(m, size, align - 1) IN bumped - (bumped % align)

(* 1 << k *)
Power[k \in Nat] == IF k = 0 THEN 1 ELSE 2 * Power[k - 1]

(* The bits of a word below the n-th, and the value of such a set of bits  *)
(* from the n-th down; power has what Power has, tabulated.                *)
BitsBelow(power, n, v) == {k \in 0 .. n - 1 : (v \div power[k]) % 2 = 1}
SumsOf(power, set) ==
  LET sum[n \in Nat] ==
        IF n = 0 THEN 0 ELSE sum[n - 1] + (IF n - 1 \in set THEN power[n - 1] ELSE 0)
  IN sum

(***************************************************************************)
(* What checked_add is meant to be: refuse the sums that do not fit.       *)
(***************************************************************************)
Overflows(m, x, y) == x + y >= m

(* The one class of sums that do not fit and are returned all the same. *)
MissedOverflow(m, x, y) == x % 2 = 1 /\ y % 2 = 1 /\ x + y = m
=============================================================================
