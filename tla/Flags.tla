------------------------------- MODULE Flags -------------------------------
(***************************************************************************)
(* The arithmetic of emulation/x86/Flags.cpp, and the instructions of the  *)
(* accumulator that Run executes itself with it.  Every function works on  *)
(* words of 64 bits, whatever the operand size of the instruction is.  An  *)
(* operator gives the value that the function returns and the flags after  *)
(* it, and takes those before where the function leaves some of them.      *)
(***************************************************************************)
EXTENDS Words, FiniteSets

CONSTANTS
  Width,       \* bits of a word, 64 in the code
  ByteBits,    \* bits of a byte, 8
  WordMod,     \* 2^Width
  NibbleMod,   \* 2^4
  ByteMod      \* 2^8

ASSUME FlagsAssumption ==
  /\ Width \in Nat /\ ByteBits \in Nat /\ 0 < ByteBits /\ ByteBits < Width
  /\ NibbleMod \in Nat \ {0, 1} /\ ByteMod \in Nat /\ ByteMod = NibbleMod * NibbleMod
  /\ WordMod = Power[Width] /\ WordMod \in Nat /\ WordMod = 2 * (WordMod \div 2) /\ 4 * ByteMod <= WordMod
  /\ WordMod % NibbleMod = 0

Places2 == [k \in 0 .. Width - 1 |-> Power[k]]
Bits(v) == BitsBelow(Places2, Width, v)
FromBits(set) == SumsOf(Places2, set)[Width]

Apply(op, a, b) ==
  LET A == Bits(a)
      B == Bits(b)
  IN FromBits(CASE op = "or" -> A \cup B
                [] op = "and" -> A \cap B
                [] op = "xor" -> (A \cup B) \ (A \cap B))

(* the loops over the bytes of two words shift by 2^(8 * i) *)
Places == {Power[k] : k \in {k \in 0 .. Width - 1 : k % ByteBits = 0}}
ByteAt(v, place) == (v \div place) % ByteMod
Low(byte) == byte % NibbleMod
High(byte) == byte - Low(byte)

SignBit(v) == v >= WordMod \div 2
EvenOnes(v) == Cardinality(Bits(v)) % 2 = 0

MutSignOfOperand(minuend, subtrahend) ==
  SignBit(minuend) # SignBit(subtrahend) /\ SignBit(minuend)

SubOverflow(minuend, subtrahend) ==
  /\ SignBit(minuend) # SignBit(subtrahend)
  /\ SignBit((minuend - subtrahend) % WordMod) # SignBit(minuend)

(* any nibble of any byte, each for itself *)
SubAuxiliary(minuend, subtrahend) ==
  \E p \in Places :
    \/ Low(ByteAt(minuend, p)) < Low(ByteAt(subtrahend, p))
    \/ High(ByteAt(minuend, p)) < High(ByteAt(subtrahend, p))

MutSubBytes(minuend, subtrahend) ==
  LET result == (minuend - subtrahend) % ByteMod IN
  [result |-> result,
   flags |-> [CF |-> minuend < subtrahend, OF |-> SubOverflow(minuend, subtrahend),
              ZF |-> result = 0, SF |-> SignBit(result), PF |-> EvenOnes(result),
              AF |-> SubAuxiliary(minuend, subtrahend)]]

SubAndSetFlags(minuend, subtrahend) ==
  LET result == (minuend - subtrahend) % WordMod IN
  [result |-> result,
   flags |-> [CF |-> minuend < subtrahend, OF |-> SubOverflow(minuend, subtrahend),
              ZF |-> result = 0, SF |-> SignBit(result), PF |-> EvenOnes(result),
              AF |-> SubAuxiliary(minuend, subtrahend)]]

(* the operand comes back, for the destination to be written with *)
CmpAndSetFlags(src1, src2) == [SubAndSetFlags(src1, src2) EXCEPT !.result = src1]

AddCarry(operand1, operand2) == WrapAdd(WordMod, operand1, operand2) < operand1

AddAuxiliary(operand1, operand2) ==
  \E p \in Places :
    \/ Low(ByteAt(operand1, p)) + Low(ByteAt(operand2, p)) >= NibbleMod
    \/ High(ByteAt(operand1, p)) + High(ByteAt(operand2, p)) > ByteMod - NibbleMod

AddAndSetFlags(operand1, operand2) ==
  LET result == WrapAdd(WordMod, operand1, operand2) IN
  [result |-> result,
   flags |-> [CF |-> AddCarry(operand1, operand2),
              OF |-> SignBit(operand1) = SignBit(operand2) /\ SignBit(result) # SignBit(operand1),
              ZF |-> result = 0, SF |-> SignBit(result), PF |-> EvenOnes(result),
              AF |-> AddAuxiliary(operand1, operand2)]]

(* AF stays *)
SetLogicOpFlags(fl, value) ==
  [fl EXCEPT !.ZF = (value = 0), !.SF = SignBit(value), !.PF = EvenOnes(value),
             !.CF = FALSE, !.OF = FALSE]

(* the first operand comes back *)
TestAndSetFlags(fl, src1, src2) ==
  [result |-> src1, flags |-> SetLogicOpFlags(fl, Apply("and", src1, src2))]

MutDecOverflow(src, result) == SignBit(src) # SignBit(result)
DecOverflow(src, result) == SignBit(src) /\ ~SignBit(result)

(* CF stays *)
dec_and_set_flags(fl, src) ==
  LET result == (src - 1) % WordMod IN
  [result |-> result,
   flags |-> [fl EXCEPT !.OF = DecOverflow(src, result), !.ZF = (result = 0),
                        !.SF = SignBit(result), !.PF = EvenOnes(result),
                        !.AF = Low(src) < Low(result)]]
-----------------------------------------------------------------------------
(* The instructions of Run with an immediate and AL.  OR, AND and XOR      *)
(* write the register first and then apply the operation again, to the new *)
(* AL, for the flags.                                                      *)

MutFlagsOfFirst(fl, op, al, imm) ==
  [result |-> Apply(op, al, imm), flags |-> SetLogicOpFlags(fl, Apply(op, al, imm))]

LogicAl(fl, op, al, imm) ==
  LET first == Apply(op, al, imm) IN
  [result |-> first, flags |-> SetLogicOpFlags(fl, Apply(op, first, imm))]
=============================================================================
