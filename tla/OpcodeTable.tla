---------------------------- MODULE OpcodeTable ----------------------------
(***************************************************************************)
(* The compressed opcode table of Ldasm::DecodeInstruction and what it     *)
(* unpacks to: for each of seven maps of 256 opcodes, the flags that say   *)
(* what follows the opcode.                                                *)
(***************************************************************************)
EXTENDS Integers, Sequences, SequencesExt

table_compressed == <<
  65, 20, 18, 32, 65, 20, 18, 32, 65, 20, 18, 32, 65, 20, 18, 32, 65, 20,
  18, 32, 65, 20, 18, 32, 65, 20, 18, 32, 65, 20, 18, 164, 0, 33, 64, 18,
  19, 20, 21, 64, 144, 4, 21, 19, 37, 140, 1, 152, 0, 20, 18, 96, 136, 4,
  136, 0, 37, 32, 33, 21, 19, 20, 64, 20, 32, 65, 36, 32, 136, 1, 136, 4,
  34, 16, 20, 138, 0, 33, 96, 97, 137, 0, 17, 16, 21, 148, 1, 64, 136, 1,
  144, 0, 172, 1, 32, 33, 69, 49, 16, 33, 32, 65, 144, 2, 144, 1, 48, 17,
  21, 17, 80, 17, 21, 141, 1, 21, 113, 21, 17, 53, 17, 136, 0, 193, 1, 32,
  21, 113, 16, 49, 16, 97, 32, 154, 1, 48, 49, 144, 0, 49, 157, 0, 33, 96,
  49, 137, 0, 17, 16, 17, 16, 65, 32, 138, 1, 96, 138, 1, 96, 138, 1, 155,
  0, 81, 144, 0, 65, 16, 49, 136, 0, 53, 16, 53, 16, 136, 5, 64, 101, 48,
  21, 32, 53, 149, 0, 37, 96, 53, 16, 21, 16, 21, 48, 49, 143, 0, 65, 69,
  64, 136, 1, 136, 0, 136, 1, 223, 0, 21, 144, 0, 21, 255, 0, 149, 0, 49,
  96, 33, 80, 49, 96, 33, 32, 33, 32, 17, 143, 0, 17, 137, 0, 69, 136, 0,
  69, 156, 0, 69, 145, 0, 33, 143, 0, 17, 237, 0, 65, 140, 0, 140, 1, 165,
  0, 49, 32, 33, 48, 17, 80, 49, 32, 33, 48, 17, 80, 49, 172, 0, 17, 16,
  17, 255, 0, 238, 0 >>

(* A byte below 128 is a run: its length, then its flags.  A larger one is *)
(* a longer run, whose flags are the next byte.                            *)
Repeated(count, value) == [k \in 1 .. count |-> value]
Unpack(acc, d) ==
  IF acc.count > 0 THEN [out |-> acc.out \o Repeated(acc.count, d), count |-> 0]
  ELSE IF d >= 128 THEN [acc EXCEPT !.count = d - 128]
  ELSE [acc EXCEPT !.out = @ \o Repeated(d \div 16, d % 16)]

Unpacked == FoldLeft(Unpack, [out |-> <<>>, count |-> 0], table_compressed).out

(* F_MODRM, F_Z and F_B; the other flags are not in the table *)
FlagNames(bits) ==
  {f \in {"modrm", "Z", "B"} :
     CASE f = "modrm" -> bits % 2 = 1 [] f = "Z" -> (bits \div 2) % 2 = 1 [] f = "B" -> bits \div 4 = 1}

ONEBYTE == 0
MAP_0F == 256
MAP_0F38 == 512
MAP_0F3A == 768
XOP_08 == 1024
XOP_09 == 1280
XOP_0A == 1536

TableFlags(map, opcode) == FlagNames(Unpacked[map + opcode + 1])
=============================================================================
