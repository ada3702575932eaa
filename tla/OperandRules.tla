---------------------------- MODULE OperandRules ----------------------------
(***************************************************************************)
(* What an instruction with operands does on the architecture, where the   *)
(* code is known to leave it, and the properties of Operands.              *)
(***************************************************************************)
EXTENDS Operands

HasModRM == Form \in {"RM", "MR", "MR8", "M", "MI"}
Op == IF Form = "AL" THEN OpOfAl ELSE IF Form = "A" THEN "sub" ELSE Handler.op
NoRex == inst.rex = {}
InMemory == HasModRM /\ MODRM_MOD # 3
Relative == InMemory /\ ~inst.p_sib /\ MODRM_MOD = 0 /\ MODRM_RM = 5
Based == InMemory /\ ~inst.p_sib /\ ~Relative
Reg == Extended("R", MODRM_REG)
Rm == Extended("B", MODRM_RM)

(* bytes of the operand, and those of the source of MOVZX and MOVSXD       *)
Wide == IF Form \in {"MR8", "AL"} THEN 1 ELSE inst.osize \div 8
WideSource == IF Form = "RM" /\ Op # "lea" THEN Src.bytes ELSE Wide

TrueDispSize ==
  CASE MODRM_MOD = 1 -> 1
    [] MODRM_MOD = 2 \/ Relative \/ (MODRM_MOD = 0 /\ inst.p_sib /\ SIB_BASE = 5) -> 4
    [] OTHER -> 0
TrueDispAt == inst.pos_opcode + inst.opcode_size + (IF inst.p_sib THEN 2 ELSE 1)
Field(pos, n) == IF n = 0 THEN 0 ELSE Datum(pos, n, 0)
Negative(v, n) == n # 0 /\ v >= Mod(n) \div 2
SignExtended(v, n) == IF n = 0 THEN 0 ELSE Cast(v, S(n))

FullAddress ==
  LET disp == SignExtended(Field(TrueDispAt, TrueDispSize), TrueDispSize)
      index == Extended("X", SIB_INDEX)
      base == IF MODRM_MOD = 0 /\ SIB_BASE = 5 THEN 0 ELSE registers[Extended("B", SIB_BASE)]
  IN disp + (CASE inst.p_sib -> base + (IF index = 4 THEN 0 ELSE SIB_SCALE * registers[index])
               [] Relative -> registers[Rip] + Len(inst.code)
               [] OTHER -> registers[Rm])
Address == FullAddress % Mod(inst.asize \div 8)

ImmediateBytes ==
  CASE Form = "AL" -> 1
    [] Form = "OI" -> Wide
    [] Form = "A" -> IF Wide = 2 THEN 2 ELSE 4
    [] OTHER -> Src.bytes
ImmediateAt ==
  IF HasModRM THEN TrueDispAt + TrueDispSize ELSE inst.pos_opcode + inst.opcode_size
Encoded == Field(ImmediateAt, ImmediateBytes)
TrueLength ==
  IF HasModRM /\ Form # "MI" THEN TrueDispAt + TrueDispSize ELSE ImmediateAt + ImmediateBytes

(* without REX the byte registers 4 to 7 are AH, CH, DH and BH             *)
HighByte(r, n) == n = 1 /\ NoRex /\ r \in 4 .. 7
Home(r, n) == IF HighByte(r, n) THEN r - 4 ELSE r
Get(r, n) ==
  IF n = 1 THEN get_byte_register(registers[Home(r, n)], HighByte(r, n)) ELSE registers[r] % Mod(n)
Put(r, n, v) ==
  CASE n = 1 -> SetRegByte(Home(r, n), HighByte(r, n), v)
    [] n = 4 -> SetReg(r, 8, v % Mod(4))
    [] OTHER -> SetReg(r, n, v)

Source ==
  LET raw == IF InMemory THEN Load(Address, WideSource) ELSE Get(Rm, WideSource) IN
  CASE Name = "Lea_32" \/ Name = "Lea_64" -> Address
    [] Name = "Movsxd_63" -> SignExtended(raw, WideSource)
    [] OTHER -> raw

(* OR of a register to a register or memory has the opcode 09              *)
Stores == Form \in {"MR", "MR8", "M", "MI"} \/ Name = "Or_09"
OtherOperand ==
  CASE Form \in {"MR", "MR8"} -> Get(Reg, Wide)
    [] Form = "M" -> 0
    [] OTHER -> IF ImmediateBytes = Wide THEN Encoded ELSE SignExtended(Encoded, ImmediateBytes)

Faults == InMemory /\ Op # "lea" /\ ~Mapped(Address, WideSource)

DestinationRegister ==
  CASE Form = "RM" -> Reg
    [] Form \in {"I", "AL", "A"} -> Rax
    [] Form = "OI" -> Extended("B", opcode - 184)
    [] OTHER -> Home(Rm, Wide)

(* registers and memory afterwards                                         *)
Architecture ==
  LET toRegister(r, b) == <<Put(r, Wide, Value(Op, Get(r, Wide), b)), memory>> IN
  CASE Op \in {"cmp", "test"} -> <<registers, memory>>
    [] Op \notin {"cmp", "test"} /\ Form = "RM" -> toRegister(Reg, Source)
    [] Op \notin {"cmp", "test"} /\ Stores /\ InMemory ->
         LET o == ToMemory(Address, Wide, Value(Op, Load(Address, Wide), OtherOperand)) IN
         <<registers, o.memory>>
    [] Op \notin {"cmp", "test"} /\ Stores /\ HasModRM /\ ~InMemory -> toRegister(Rm, OtherOperand)
    [] OTHER -> toRegister(DestinationRegister, OtherOperand)
-----------------------------------------------------------------------------
(* Where the code leaves the architecture.  The README lists them.         *)

SibSlips ==            \* Sib.cpp:21, 36, 49
  InMemory /\ inst.p_sib /\
    \/ SIB_BASE = 0
    \/ SIB_BASE = 5 /\ MODRM_MOD # 0
    \/ SIB_INDEX = 4 /\ ("X" \in inst.rex \/ SIB_BASE = 5)
NegativeDisplacement ==   \* Fs.hpp:66
  InMemory /\ Negative(Field(TrueDispAt, TrueDispSize), TrueDispSize)
NotRelative == Relative /\ Form \in {"MI", "MR", "M"}   \* OperandEncoding.hpp:364, 771, 1121
PrefixShifts ==        \* OperandEncoding.hpp:359, Emulator.cpp:146, 184
  inst.pos_opcode # 0 /\
    \/ Form = "MI" /\ (Handler.from = "start" \/ (InMemory /\ ~inst.p_sib /\ TrueDispSize # 0))
    \/ Form = "I" /\ Handler.from = "start"
    \/ Form \in {"AL", "A"}
TwoByteShifts == Name = "Movzx_0FB6" /\ InMemory /\ TrueDispSize # 0   \* OperandEncoding.hpp:230
BaseIsCast ==          \* OperandEncoding.hpp:170, 298
  Based /\ LET type == IF Form = "RM" THEN Src ELSE Dst IN
           Cast(registers[Rm], type) # registers[Rm]
AddressKeepsCarry ==   \* asize is read by LEA alone: OperandEncoding.hpp:176, 298
  InMemory /\ inst.asize = 32 /\ FullAddress \notin 0 .. Mod(4) - 1
ByteRegisters ==       \* OperandEncoding.hpp:49-60, InstructionHandler.cpp:289, 321
  \/ Form = "MR8" /\ (Based \/ (InMemory /\ TrueDispSize # 0 /\ ~Relative) \/ Reg > 3)
  \/ Form = "MR8" /\ ~InMemory /\ Rm > 3 /\ (~NoRex \/ Op = "test")
  \/ Name = "Movzx_0FB6" /\ ~InMemory /\ NoRex /\ Rm \in 4 .. 7
ImmediateUnsigned ==   \* OperandEncoding.hpp:290, 411
  /\ Form \in {"MI", "I", "A"} /\ ImmediateBytes < Wide /\ Negative(Encoded, ImmediateBytes)
  /\ Form # "A" => ~Src.signed
ImmediateMisplaced ==  \* OperandEncoding.hpp:276, 375
  Form = "MI" /\ inst.p_sib /\ MODRM_MOD = 0 /\ SIB_BASE = 5
OsizeSigned == Form \in {"OI", "A"} /\ inst.osize = 64 /\ osize_signed   \* DecodeContext.hpp:14
OtherLength == Name # "Or_09" /\ Len(inst.code) # TrueLength   \* Decoder has the lengths
Or09 == Name = "Or_09"                                \* InstructionHandler.cpp:54
UpperHalfKept ==       \* Emulator.hpp:58
  /\ inst.osize = 32
  /\ \/ Form \in {"RM", "I", "OI", "A"} /\ Op # "cmp"
     \/ Form = "MI" /\ ~InMemory /\ Op # "cmp"
     \/ Form = "MR" /\ ~InMemory /\ Op = "test"
  /\ registers[DestinationRegister] >= Mod(4)
CarryIsKept ==         \* OperandEncoding.hpp:690, 1025
  /\ inst.osize = 32 /\ Form \in {"MR", "M"} /\ ~InMemory
  /\ Value(Op, Get(Rm, 4), OtherOperand) >= Mod(4)
DisplacementMissing == InMemory /\ TrueDispAt + TrueDispSize > Len(inst.code)   \* Fs.hpp:59
EightBytesStored == InMemory /\ inst.osize # 64 /\ Form \in {"MR", "M", "MI"}   \* OperandEncoding.hpp:314

(* the operand is not read where the architecture has it                   *)
Misread ==
  SibSlips \/ NegativeDisplacement \/ NotRelative \/ BaseIsCast \/ (Form = "MR8" /\ Based)

Deviates ==
  \/ SibSlips \/ NegativeDisplacement \/ NotRelative \/ PrefixShifts \/ TwoByteShifts \/ BaseIsCast
  \/ AddressKeepsCarry \/ ByteRegisters \/ ImmediateUnsigned \/ ImmediateMisplaced \/ OsizeSigned
  \/ OtherLength \/ DisplacementMissing \/ Or09 \/ UpperHalfKept \/ CarryIsKept \/ EightBytesStored
-----------------------------------------------------------------------------
(* Properties *)

Executes == state = "ready" /\ state' # "ready"

(* MOVZX looks an uninitialised register up, and the lookup fails          *)
LookupFaults == Name = "Movzx_0FB6" /\ state' = "terminated"   \* ModRM.cpp:68, 163

(* Apart from the named deviations an instruction has the effect of the    *)
(* architecture on registers and memory, for every operand size, addressing *)
(* form and prefix; where the architecture faults it changes nothing.      *)
(* MOVZX has that effect if its lookup does not fail                       *)
(* (OperandEncoding.hpp:32-1234, ModRM.cpp:61-121, Sib.cpp:11-71).         *)
AgreesWithArchitecture ==
  [][Executes /\ ~Deviates /\ ~LookupFaults =>
       IF Faults THEN UNCHANGED <<registers, memory>>
       ELSE <<registers', memory'>> = Architecture /\ state' = "next"]_vars

(* Even where it deviates, an instruction changes its own destination      *)
(* register and no memory, or at most eight bytes in a row and no register. *)
(* OR 09 changes RAX, byte instructions the register four below (Operand-  *)
(* Encoding.hpp:49-60, InstructionHandler.cpp:51-56).                      *)
OnlyDestinationChanges ==
  [][Executes =>
       \/ /\ memory' = memory
          /\ \A r \in DOMAIN registers :
               registers'[r] # registers[r] =>
                 \/ Form = "MR8" /\ r \in {Rm - 4, Rm, Rm % 4}
                 \/ Form # "MR8" /\ r = DestinationRegister
       \/ /\ registers' = registers /\ InMemory /\ Stores
          /\ \E a \in DOMAIN memory : \A b \in DOMAIN memory :
               memory'[b] # memory[b] => b \in a .. a + 7]_vars

(* A store of two or four bytes overwrites the bytes behind the operand,   *)
(* up to the eighth, with the sign, the carry or the borrow of the result: *)
(* CMP and TEST of memory clear them, too (OperandEncoding.hpp:314, 1052). *)
NarrowStoreSpills ==
  [][Executes /\ EightBytesStored /\ ~SibSlips /\ ~NegativeDisplacement /\ ~NotRelative
       /\ ~PrefixShifts /\ ~BaseIsCast /\ ~AddressKeepsCarry /\ ~DisplacementMissing
       /\ Mapped(Address, 8) =>
       LET behind == {k \in Wide .. 7 : memory'[Address + k] # 0}
           all(v) == \A k \in Wide .. 7 : memory'[Address + k] = v
       IN /\ Op \in {"cmp", "test", "and", "or", "xor"} /\ ~Dst.signed => behind = {}
          /\ \/ behind = {} \/ all(ByteMod - 1)
             \/ behind = {Wide} /\ memory'[Address + Wide] = 1 /\ Op = "add"
          /\ Op \in {"cmp", "test"} =>
               \A k \in 0 .. Wide - 1 : memory'[Address + k] = memory[Address + k]]_vars

(* Whatever ends the emulator changes nothing: a failed read, code that    *)
(* ends before its displacement does, and MOVZX's lookup of a register     *)
(* that is not set (ModRM.cpp:68, 163-170).  A failed read goes unnoticed  *)
(* in the templates of register destinations and immediates, and for 16    *)
(* and 32 bits through a bare register; the others end wherever the        *)
(* architecture faults (OperandEncoding.hpp:171-172, 299-300, 1050, 1063,  *)
(* 1076).                                                                  *)
FailedLoadChangesNothing ==
  [][Executes =>
       /\ state' = "terminated" =>
            /\ UNCHANGED <<registers, memory>>
            /\ InMemory \/ Name = "Movzx_0FB6"
            /\ Form \in {"RM", "MI"} =>
                 DisplacementMissing \/ Name = "Movzx_0FB6" \/ (inst.p_sib /\ SIB_BASE = 5)
       /\ Faults /\ ~Misread /\ Form \in {"MR", "M", "MR8"} =>
            \/ state' = "terminated"
            \/ /\ Form = "MR" /\ TrueDispSize = 0 /\ ~inst.p_sib /\ inst.osize # 64
               /\ UNCHANGED <<registers, memory>>]_vars

(* What the stack held in an uninitialised Sib matters only if the base    *)
(* is 101 and the index 100: the other combinations overwrite or ignore it *)
(* (Sib.cpp:21-45, 69).  What it held in an uninitialised ModRM matters to *)
(* MOVZX, and only to whether its lookup fails (ModRM.cpp:45-54, 68, 98).  *)
GarbageOnlyWithoutIndexAndBase ==
  state = "ready" /\ ~(InMemory /\ inst.p_sib /\ SIB_BASE = 5 /\ SIB_INDEX = 4) =>
    Cardinality({Effects(Form, r) : r \in {r \in Residues : r.past = 0 /\ ~LookupFails(r)}}) = 1

(* In a build whose field osize has a sign MOV of a 64-bit immediate does  *)
(* nothing, while the templates, which mask the field, are the same in     *)
(* both builds (DecodeContext.hpp:14, InstructionHandler.cpp:225-235).     *)
SignedOsizeSkipsMov ==
  [][Executes /\ Form = "OI" /\ ~OtherLength =>
       IF osize_signed /\ inst.osize = 64 THEN UNCHANGED <<registers, memory>>
       ELSE registers'[DestinationRegister] % Mod(Wide) = Encoded]_vars
=============================================================================
