------------------------------ MODULE Operands ------------------------------
(***************************************************************************)
(* One instruction with operands, from the decoded bytes to its effect on  *)
(* registers and memory: the handlers of InstructionHandler.cpp, and the   *)
(* templates of OperandEncoding.hpp that they are made of.  The templates  *)
(* take the flags by value, so that no flag is a part of their effect.     *)
(*                                                                         *)
(* A word is eight bytes, of ByteMod values each; a byte of code that is   *)
(* read as data counts modulo ByteMod.  Guest memory is Size bytes that    *)
(* may all be read and written (Mmu has the permissions).                  *)
(***************************************************************************)
EXTENDS Flags, Sequences

CONSTANTS
  Size,          \* bytes of guest memory
  Instructions,  \* {[code, pos_opcode, opcode_size, rex, osize, asize, p_sib]}
  Files,         \* contents of the registers
  Images,        \* contents of memory
  Residues,      \* what variables without an initialiser may hold
  Builds         \* whether the two-bit field osize has a sign: of BOOLEAN

Rax == 0
Rip == 16
Wild == 17         \* an index outside the array of registers
None == 18         \* no register

VARIABLES
  registers, memory,
  inst,            \* the instruction and its decoding context
  osize_signed,    \* of the build
  state            \* "ready", "next" or "terminated"

vars == <<registers, memory, inst, osize_signed, state>>

(* integer types, by their bytes and sign *)
U(n) == [bytes |-> n, signed |-> FALSE]
S(n) == [bytes |-> n, signed |-> TRUE]

(* ByteMod ^ n, for up to eight bytes *)
Powers ==
  LET b == ByteMod
      q == b * b * b * b
  IN <<1, b, b * b, b * b * b, q, q * b, q * b * b, q * b * b * b, q * q>>
Mod(n) == Powers[n + 1]

(* An instruction has a byte behind its opcode, ModRM or an immediate, and *)
(* behind it the SIB byte that is said to be there.                        *)
ASSUME OperandsAssumption ==
  /\ WordMod = Mod(8) /\ Size \in Nat /\ Size < WordMod
  /\ Files \subseteq [0 .. Rip -> Word(WordMod)]
  /\ Images \subseteq [0 .. Size - 1 -> Word(ByteMod)]
  /\ Residues \subseteq [index : 0 .. 15 \cup {Wild}, use_base : BOOLEAN, past : Nat,
                          rm : 0 .. 7 \cup {Wild}]
  /\ \E junk \in Residues : junk.past = 0 /\ junk.rm # Wild
  /\ Builds \subseteq BOOLEAN
  /\ \A i \in Instructions :
       /\ i.code \in Seq(0 .. 255) /\ i.pos_opcode \in Nat /\ i.opcode_size \in {1, 2}
       /\ i.pos_opcode + i.opcode_size + (IF i.p_sib THEN 2 ELSE 1) <= Len(i.code)
       /\ i.osize \in {16, 32, 64} /\ i.asize \in {32, 64} /\ i.p_sib \in BOOLEAN

(* static_cast, of a word to a type and back to a word *)
Cast(v, type) ==
  LET low == v % Mod(type.bytes) IN
  IF type.signed /\ low >= Mod(type.bytes) \div 2 THEN (low - Mod(type.bytes)) % WordMod ELSE low

(* the value of eight bytes, the lowest first *)
LittleEndian(b) ==
  b[0] + b[1] * Mod(1) + b[2] * Mod(2) + b[3] * Mod(3)
    + b[4] * Mod(4) + b[5] * Mod(5) + b[6] * Mod(6) + b[7] * Mod(7)

(* read_from_vec and read_disp_from_inst: nothing checks the former's end  *)
Datum(pos, n, past) ==
  LittleEndian([k \in 0 .. 7 |->
    IF k >= n THEN 0
    ELSE (IF pos + k < Len(inst.code) THEN inst.code[pos + k + 1] ELSE past) % ByteMod])

(* SetReg: what lies above the type stays *)
SetReg(r, n, v) == [registers EXCEPT ![r] = @ - (@ % Mod(n)) + (v % Mod(n))]
SetRegByte(r, high, v) ==
  LET place == IF high THEN ByteMod ELSE 1 IN
  [registers EXCEPT ![r] = @ + ((v % ByteMod) - ((@ \div place) % ByteMod)) * place]
get_byte_register(v, high) == (IF high THEN v \div ByteMod ELSE v) % ByteMod

Mapped(addr, n) == addr + n <= Size
Load(addr, n) == LittleEndian([k \in 0 .. 7 |-> IF k < n THEN memory[addr + k] ELSE 0])

(* outcomes of an instruction *)
Outcome(file, mem, st) == [registers |-> file, memory |-> mem, state |-> st]
Skip == Outcome(registers, memory, "next")
Terminate == Outcome(registers, memory, "terminated")   \* value() of an empty result
ToRegister(file) == Outcome(file, memory, "next")

(* a write that fails is not noticed *)
ToMemory(addr, n, v) ==
  IF Mapped(addr, n)
  THEN Outcome(registers,
               [a \in DOMAIN memory |-> IF a \in addr .. addr + n - 1
                                        THEN (v \div Mod(a - addr)) % ByteMod ELSE memory[a]],
               "next")
  ELSE Skip

MutStoreOperand(addr, v, n) == ToMemory(addr, n, v)
(* WriteFrom of to_byte_vec: functions return 64 bits, whatever the operand has *)
ToOperand(addr, v, n) == ToMemory(addr, 8, v)
-----------------------------------------------------------------------------
(* ModRM and SIB *)

ByteOfCode(k) == inst.code[inst.pos_opcode + inst.opcode_size + k]
MODRM_MOD == ByteOfCode(1) \div 64
MODRM_REG == (ByteOfCode(1) \div 8) % 8
MODRM_RM == ByteOfCode(1) % 8
SIB_SCALE == <<1, 2, 4, 8>>[ByteOfCode(2) \div 64 + 1]
SIB_INDEX == (ByteOfCode(2) \div 8) % 8
SIB_BASE == ByteOfCode(2) % 8
Extended(bit, r) == IF bit \in inst.rex THEN r + 8 ELSE r

MutNoRexB == IF MODRM_MOD = 0 /\ MODRM_RM = 5 THEN None ELSE MODRM_RM
(* rm_mod_mapping; disp_size is in bytes *)
RmRegister == IF MODRM_MOD = 0 /\ MODRM_RM = 5 THEN None ELSE Extended("B", MODRM_RM)
DispSize == CASE MODRM_MOD = 1 -> 1
              [] MODRM_MOD = 2 \/ RmRegister = None -> 4
              [] OTHER -> 0

set_modrm_byte ==
  [reg |-> Extended("R", MODRM_REG), rm |-> RmRegister,
   disp_size |-> DispSize, is_addr |-> MODRM_MOD # 3]

MutStaleIndex(junk) ==
  LET index == IF SIB_INDEX = 4 THEN junk.index ELSE Extended("X", SIB_INDEX) IN
  IF index = Wild THEN [kind |-> "wild", disp_size |-> DispSize, calc |-> 0]
  ELSE [kind |-> "memory", disp_size |-> DispSize,
        calc |-> (SIB_SCALE * registers[index] + registers[Extended("B", SIB_BASE)]) % WordMod]

(***************************************************************************)
(* index_reg and use_base are set only on the paths that decide them; on   *)
(* the others they hold what the stack held.  A register number outside    *)
(* the array is taken to fault.                                            *)
(***************************************************************************)
set_sib_byte(junk) ==
  LET use_indx == SIB_INDEX # 4
      index == IF use_indx THEN Extended("X", SIB_INDEX) ELSE junk.index
      use_base == IF SIB_BASE = 5 THEN junk.use_base ELSE SIB_BASE # 0
      scaled == SIB_SCALE * registers[index]
      base == registers[Extended("B", SIB_BASE)]
      valid == IF use_indx \/ use_base THEN "memory" ELSE "invalid"
  IN CASE SIB_BASE = 5 /\ DispSize = 0 ->
            IF index = Wild THEN [kind |-> "wild", disp_size |-> 4, calc |-> 0]
            ELSE [kind |-> "memory", disp_size |-> 4, calc |-> scaled % WordMod]
       [] SIB_BASE = 5 /\ DispSize # 0 -> [kind |-> valid, disp_size |-> DispSize, calc |-> 0]
       [] OTHER -> [kind |-> valid, disp_size |-> DispSize,
                    calc |-> ((IF use_indx THEN scaled ELSE 0) + (IF use_base THEN base ELSE 0)) % WordMod]

Displacement(pos, n) == IF n = 0 THEN 0 ELSE Datum(pos, n, 0)
(* where the code ends before the displacement does there is no value() *)
Reached(kind, pos, n) ==
  IF kind = "memory" /\ n # 0 /\ pos + n > Len(inst.code) THEN "wild" ELSE kind

(***************************************************************************)
(* Where a template looks for its operand.  Without an SIB byte the base   *)
(* register is cast to type, origin stands in for a missing base, and the  *)
(* displacement, read at pos, has no sign.                                 *)
(***************************************************************************)
ModRMLocation(type, pos, origin) ==
  LET m == set_modrm_byte IN
  [kind |-> Reached("memory", pos, m.disp_size),
   addr |-> WrapAdd(WordMod, IF m.rm = None THEN origin ELSE Cast(registers[m.rm], type),
                    Displacement(pos, m.disp_size))]
SibLocation(junk) ==
  LET s == set_sib_byte(junk) IN
  [kind |-> Reached(s.kind, inst.pos_opcode + 3, s.disp_size),
   addr |-> WrapAdd(WordMod, s.calc, Displacement(inst.pos_opcode + 3, s.disp_size))]
Location(type, pos, origin, junk) ==
  IF inst.p_sib THEN SibLocation(junk) ELSE ModRMLocation(type, pos, origin)

(* what is read from a location, and the outcome once the read is tried *)
OperandAt(loc, type) == Cast(Load(loc.addr, type.bytes), type)
OnMemory(loc, type, missed, outcome) ==
  CASE loc.kind = "invalid" -> Skip
    [] loc.kind = "wild" -> Terminate
    [] loc.kind = "memory" /\ ~Mapped(loc.addr, type.bytes) -> missed
    [] OTHER -> outcome
-----------------------------------------------------------------------------
(* The handlers: the template, the function, and the types for operands of *)
(* 16, 32 and 64 bits.  An offset counts from the opcode or from the first *)
(* byte of the instruction.                                                *)

Sized(a, b, c) == [size \in {16, 32, 64} |-> CASE size = 16 -> a [] size = 32 -> b [] OTHER -> c]
OperandTypes ==
  [Unsigned |-> Sized(U(2), U(4), U(8)), Signed |-> Sized(S(2), S(4), S(8)),
   imm8 |-> Sized(U(1), U(1), U(1)), simm8 |-> Sized(S(1), S(1), S(1)),
   imm32 |-> Sized(U(2), U(4), U(4)), simm32 |-> Sized(S(2), S(4), S(4)),
   Mixed |-> Sized(U(2), U(4), S(8)), mixed32 |-> Sized(U(2), U(4), S(4)),
   u32 |-> Sized(U(4), U(4), U(4)), u64 |-> Sized(U(8), U(8), U(8))]

HandlerOf(form, op, dst, src, from) == [form |-> form, op |-> op, dst |-> dst, src |-> src, from |-> from]
MR(op) == HandlerOf("MR", op, "Unsigned", "Unsigned", "opcode")
RM(op) == HandlerOf("RM", op, "Unsigned", "Unsigned", "opcode")
I(op, from) == HandlerOf("I", op, "Unsigned", "imm32", from)
MI(op, imm, from) == HandlerOf("MI", op, "Unsigned", imm, from)

AddHandlers ==
  [Add_01 |-> MR("add"), Add_03 |-> RM("add"), Add_05 |-> I("add", "start"),
   Add_81 |-> MI("add", "imm32", "start"),
   Add_83 |-> HandlerOf("MI", "add", "Signed", "simm8", "opcode")]
OrHandlers ==     \* 09 takes an immediate
  [Or_09 |-> I("or", "start"), Or_0D |-> I("or", "opcode"),
   Or_81 |-> MI("or", "imm32", "start"), Or_83 |-> MI("or", "imm8", "start")]
AndHandlers ==
  [And_21 |-> MR("and"), And_25 |-> I("and", "opcode"),
   And_81 |-> MI("and", "imm32", "start"), And_83 |-> MI("and", "imm8", "start")]
SubHandlers ==
  [Sub_29 |-> MR("sub"), Sub_2B |-> RM("sub"),
   Sub_81 |-> MI("sub", "imm32", "start"), Sub_83 |-> MI("sub", "imm8", "opcode")]
XorHandlers ==
  [Xor_31 |-> MR("xor"), Xor_33 |-> RM("xor"), Xor_35 |-> I("xor", "opcode"),
   Xor_81 |-> MI("xor", "imm32", "start"), Xor_83 |-> MI("xor", "imm8", "opcode")]
MovHandlers ==
  [Mov_88 |-> HandlerOf("MR8", "mov", "Unsigned", "Unsigned", "opcode"),
   Mov_89 |-> MR("mov"), Mov_8B |-> RM("mov"),
   Mov_C7 |-> HandlerOf("MI", "mov", "Mixed", "mixed32", "opcode"),
   Mov_B8 |-> HandlerOf("OI", "mov", "Unsigned", "Unsigned", "opcode")]
LeaHandlers ==    \* a case of TestRun's switch alone: Run steps over 8D
  [Lea_32 |-> HandlerOf("RM", "lea", "Unsigned", "u32", "opcode"),
   Lea_64 |-> HandlerOf("RM", "lea", "Unsigned", "u64", "opcode")]
ExtendHandlers ==
  [Movsxd_63 |-> HandlerOf("RM", "mov", "Signed", "simm32", "opcode"),
   Movzx_0FB6 |-> HandlerOf("RM", "mov", "Unsigned", "imm8", "opcode")]
CompareHandlers ==
  [Cmp_3B |-> RM("cmp"), Cmp_83 |-> MI("cmp", "imm8", "opcode"),
   Test_84 |-> HandlerOf("MR8", "test", "Unsigned", "Unsigned", "opcode"), Test_85 |-> MR("test")]
Dec_FF == [Dec_FF |-> HandlerOf("M", "dec", "Unsigned", "Unsigned", "opcode")]

HandlerNames ==
  UNION {DOMAIN AddHandlers, DOMAIN OrHandlers, DOMAIN AndHandlers, DOMAIN SubHandlers,
         DOMAIN XorHandlers, DOMAIN MovHandlers, DOMAIN LeaHandlers, DOMAIN ExtendHandlers,
         DOMAIN CompareHandlers, DOMAIN Dec_FF}
Handlers ==
  [name \in HandlerNames |->
     CASE name \in DOMAIN AddHandlers -> AddHandlers[name]
       [] name \in DOMAIN OrHandlers -> OrHandlers[name]
       [] name \in DOMAIN AndHandlers -> AndHandlers[name]
       [] name \in DOMAIN SubHandlers -> SubHandlers[name]
       [] name \in DOMAIN XorHandlers -> XorHandlers[name]
       [] name \in DOMAIN MovHandlers -> MovHandlers[name]
       [] name \in DOMAIN LeaHandlers -> LeaHandlers[name]
       [] name \in DOMAIN ExtendHandlers -> ExtendHandlers[name]
       [] name \in DOMAIN CompareHandlers -> CompareHandlers[name]
       [] name \in DOMAIN Dec_FF -> Dec_FF[name]]

opcode == IF inst.opcode_size = 1 THEN inst.code[inst.pos_opcode + 1]
          ELSE inst.code[inst.pos_opcode + 1] * 256 + inst.code[inst.pos_opcode + 2]

(* The switch of Run, and 8D of TestRun: the handler of the opcode, AL or  *)
(* A for what Run does to the accumulator itself, or nothing that is here. *)
Plain(op) ==
  CASE op = 1 -> "Add_01" [] op = 3 -> "Add_03" [] op = 5 -> "Add_05"
    [] op = 9 -> "Or_09" [] op = 13 -> "Or_0D" [] op = 33 -> "And_21"
    [] op = 37 -> "And_25" [] op = 41 -> "Sub_29" [] op = 43 -> "Sub_2B"
    [] op = 49 -> "Xor_31" [] op = 51 -> "Xor_33" [] op = 53 -> "Xor_35"
    [] op = 59 -> "Cmp_3B" [] op = 99 -> "Movsxd_63"
    [] op \in {12, 36, 44, 52} -> "AL" [] op = 45 -> "A"
    [] OTHER -> "none"
Groups(op) ==
  CASE op = 129 ->
         <<"Add_81", "Or_81", "none", "none", "And_81", "Sub_81", "Xor_81", "none">>[MODRM_REG + 1]
    [] op = 131 ->
         <<"Add_83", "Or_83", "none", "none", "And_83", "Sub_83", "Xor_83", "Cmp_83">>[MODRM_REG + 1]
    [] op = 255 -> IF MODRM_REG = 1 THEN "Dec_FF" ELSE "none"
Upper(op) ==
  CASE op = 132 -> "Test_84" [] op = 133 -> "Test_85" [] op = 136 -> "Mov_88"
    [] op = 137 -> "Mov_89" [] op = 139 -> "Mov_8B"
    [] op = 141 -> IF inst.asize = 32 THEN "Lea_32" ELSE "Lea_64"
    [] op \in 184 .. 191 -> "Mov_B8" [] op = 199 -> "Mov_C7"
    [] op = 4022 -> "Movzx_0FB6"
    [] OTHER -> "none"
Name ==
  CASE opcode < 128 -> Plain(opcode)
    [] opcode \in {129, 131, 255} -> Groups(opcode)
    [] OTHER -> Upper(opcode)

(* OR, AND, SUB and XOR of AL *)
OpOfAl ==
  CASE opcode = 12 -> "or" [] opcode = 36 -> "and" [] opcode = 44 -> "sub" [] opcode = 52 -> "xor"

Handler == Handlers[Name]
Form == IF Name \in {"AL", "A"} THEN Name ELSE Handler.form
Dst == OperandTypes[Handler.dst][inst.osize]
Src == OperandTypes[Handler.src][inst.osize]

Value(op, a, b) ==
  CASE op \in {"mov", "lea"} -> b
    [] op = "add" -> WrapAdd(WordMod, a, b)
    [] op = "sub" -> (a - b) % WordMod
    [] op \in {"and", "or", "xor"} -> Apply(op, a, b)
    [] op \in {"cmp", "test"} -> a
    [] op = "dec" -> (a - 1) % WordMod
Result(a, b) == Value(Handler.op, a, b)
-----------------------------------------------------------------------------
(* The templates.  op1 is the destination, op2 the source.                 *)

MutMaskedOsize(size) == inst.osize = size
(* osize compared without a mask: 2 in a signed field of two bits is -2    *)
OsizeReads(size) == inst.osize = size /\ ~(size = 64 /\ osize_signed)

OfRegister(r, type) == Cast(registers[r], type)

(***************************************************************************)
(* MOVZX has redef_modrm_rm8 look rm up in tables of eight before it is    *)
(* set: what it finds is overwritten, if it finds anything.                *)
(***************************************************************************)
LookupFails(junk) == Name = "Movzx_0FB6" /\ junk.rm = Wild

(* def_instruction_op2_RM; LEA uses the address itself *)
InstrRM(junk) ==
  LET m == set_modrm_byte
      loc == Location(Src, inst.pos_opcode + 2, WrapAdd(WordMod, registers[Rip], Len(inst.code)), junk)
      Effect(v) == ToRegister(SetReg(m.reg, Dst.bytes, Result(OfRegister(m.reg, Dst), Cast(v, Dst))))
  IN CASE LookupFails(junk) -> Terminate
       [] ~LookupFails(junk) /\ ~m.is_addr -> Effect(OfRegister(m.rm, Src))
       [] ~LookupFails(junk) /\ m.is_addr /\ Handler.op = "lea" ->
            IF loc.kind = "invalid" THEN Skip
            ELSE IF loc.kind = "wild" THEN Terminate ELSE Effect(loc.addr)
       [] OTHER -> OnMemory(loc, Src, Skip, Effect(OperandAt(loc, Src)))

(***************************************************************************)
(* def_instruction_op2_MR: 32 bits are written to a register as 64.  A     *)
(* failed read is an error that Run ignores in the two cases that check    *)
(* for one, and ends the emulator in the others.                           *)
(***************************************************************************)
RegisterBytes == IF inst.osize = 32 THEN 8 ELSE Dst.bytes

RegisterMR(m) ==
  ToRegister(SetReg(m.rm, RegisterBytes, Result(OfRegister(m.rm, Dst), OfRegister(m.reg, Dst))))
MemoryMR(m, loc, missed) ==
  OnMemory(loc, Dst, missed,
           ToOperand(loc.addr, Result(OperandAt(loc, Dst), OfRegister(m.reg, Dst)), Dst.bytes))
BareMR(m) ==
  MemoryMR(m, ModRMLocation(Dst, inst.pos_opcode + 2, 0),
           IF m.disp_size = 0 /\ inst.osize # 64 THEN Skip ELSE Terminate)
SibMR(m, junk) == MemoryMR(m, SibLocation(junk), Terminate)

InstrMR(junk) ==
  LET m == set_modrm_byte IN
  IF ~m.is_addr THEN RegisterMR(m) ELSE IF inst.p_sib THEN SibMR(m, junk) ELSE BareMR(m)

(* def_instruction_op1_M *)
RegisterM(m) == ToRegister(SetReg(m.rm, RegisterBytes, Result(OfRegister(m.rm, Dst), 0)))

MutMissedIsSkipped(loc) ==
  OnMemory(loc, Dst, Skip, ToOperand(loc.addr, Result(OperandAt(loc, Dst), 0), Dst.bytes))
MemoryM(loc) ==
  OnMemory(loc, Dst, Terminate, ToOperand(loc.addr, Result(OperandAt(loc, Dst), 0), Dst.bytes))

BareM == MemoryM(ModRMLocation(Dst, inst.pos_opcode + 2, 0))
SibM(junk) == MemoryM(SibLocation(junk))

InstrM(junk) ==
  LET m == set_modrm_byte IN
  IF ~m.is_addr THEN RegisterM(m) ELSE IF inst.p_sib THEN SibM(junk) ELSE BareM

Start == IF Handler.from = "opcode" THEN inst.pos_opcode ELSE 0
Immediate(pos, junk) == Cast(Cast(Datum(pos, Src.bytes, junk.past), Src), Dst)

(* an SIB byte moves the immediate by one, the displacement that base 101  *)
(* adds does not                                                           *)
ImmediateOffset(m) == Start + 2 + m.disp_size + (IF inst.p_sib THEN 1 ELSE 0)

(* def_instruction_op2_MI: the displacement is read behind the second byte *)
InstrMI(junk) ==
  LET m == set_modrm_byte
      imm == Immediate(ImmediateOffset(m), junk)
      loc == Location(Dst, 2, 0, junk)
      Stored == ToOperand(loc.addr, Result(OperandAt(loc, Dst), imm), Dst.bytes)
  IN IF ~m.is_addr THEN ToRegister(SetReg(m.rm, Dst.bytes, Result(OfRegister(m.rm, Dst), imm)))
     ELSE OnMemory(loc, Dst, Skip, Stored)

(* def_instruction_op2_I *)
InstrI(junk) ==
  ToRegister(SetReg(Rax, Dst.bytes, Result(OfRegister(Rax, Dst), Immediate(Start + 1, junk))))

MutWithoutRexB(junk) ==
  IF OsizeReads(inst.osize)
  THEN ToRegister(SetReg(opcode - 184, Dst.bytes, Datum(inst.pos_opcode + 1, Dst.bytes, junk.past)))
  ELSE Skip

(* Mov_B8_BF *)
InstrOI(junk) ==
  LET r == Extended("B", opcode - 184) IN
  IF OsizeReads(inst.osize)
  THEN ToRegister(SetReg(r, Dst.bytes, Datum(inst.pos_opcode + 1, Dst.bytes, junk.past)))
  ELSE Skip

(***************************************************************************)
(* def_instruction_op2_MR8: a register above 3 is turned into the one four *)
(* below, with its high byte; but the operand's value is of the register   *)
(* before that.  Test_84 has made the same change already, to the value    *)
(* too.  An address is a byte of a register.                               *)
(***************************************************************************)
ByteOperand(r) ==
  IF Name = "Test_84"
  THEN [reg |-> r % 4, high |-> FALSE, value |-> get_byte_register(registers[r % 4], r > 3)]
  ELSE [reg |-> IF r > 3 THEN r - 4 ELSE r, high |-> r > 3, value |-> registers[r]]

InstrMR8(junk) ==
  LET m == set_modrm_byte
      from == ByteOperand(m.reg)
      op2 == get_byte_register(from.value, from.high)
      s == set_sib_byte(junk)
      disp == Displacement(inst.pos_opcode + 2, m.disp_size)
      to == ByteOperand(m.rm)
      At(base) == [kind |-> Reached("memory", inst.pos_opcode + 2, m.disp_size),
                   addr |-> WrapAdd(WordMod, base, disp)]
      ReadAt == CASE inst.p_sib -> SibLocation(junk)
                  [] ~inst.p_sib /\ m.rm = None ->
                       At(WrapAdd(WordMod, registers[Rip], Len(inst.code)))
                  [] OTHER -> At(get_byte_register(to.value, to.high))
      WriteAt == CASE inst.p_sib -> s.calc
                   [] ~inst.p_sib /\ m.rm = None -> ReadAt.addr
                   [] OTHER -> At(get_byte_register(registers[to.reg], to.high)).addr
      Stored == ToMemory(WriteAt, 1, Result(OperandAt(ReadAt, U(1)), op2))
  IN IF ~m.is_addr
     THEN ToRegister(SetRegByte(to.reg, to.high, Result(get_byte_register(to.value, to.high), op2)))
     ELSE OnMemory(ReadAt, U(1), Terminate, Stored)

(* the immediate of both is read at 1, wherever the opcode is *)
InstrAL(junk) ==
  LET al == get_byte_register(registers[Rax], FALSE)
      imm == Datum(1, 1, junk.past)
  IN ToRegister(SetRegByte(Rax, FALSE, Value(OpOfAl, al, imm)))

(* the length asked for is that without the prefix the size comes from *)
InstrA(junk) ==
  LET n == inst.osize \div 8
      imm == Datum(1, IF n = 2 THEN 2 ELSE 4, junk.past)
  IN IF OsizeReads(inst.osize) /\ Len(inst.code) = (IF n = 2 THEN 3 ELSE 5)
     THEN ToRegister(SetReg(Rax, n, Value("sub", OfRegister(Rax, U(n)), imm)))
     ELSE Skip
-----------------------------------------------------------------------------
Effects(form, junk) ==
  CASE form = "RM" -> InstrRM(junk) [] form = "MR" -> InstrMR(junk) [] form = "M" -> InstrM(junk)
    [] form = "MI" -> InstrMI(junk) [] form = "I" -> InstrI(junk) [] form = "OI" -> InstrOI(junk)
    [] form = "MR8" -> InstrMR8(junk) [] form = "AL" -> InstrAL(junk) [] form = "A" -> InstrA(junk)

(* The switch has a case for the opcode; of those behind 0F for B6 only.   *)
(* The decoder finds an SIB byte where ModRM says so.                      *)
Init ==
  /\ registers \in Files /\ memory \in Images /\ inst \in Instructions
  /\ Name \in HandlerNames \cup {"AL", "A"} /\ (inst.opcode_size = 2 <=> Name = "Movzx_0FB6")
  /\ inst.p_sib => MODRM_MOD # 3 /\ MODRM_RM = 4
  /\ Name = "Test_84" => inst.rex \cap {"R", "B"} = {} /\ RmRegister # None   \* tables of eight
  /\ osize_signed \in Builds /\ state = "ready"

Execute(form, o) ==
  /\ state = "ready" /\ Form = form
  /\ registers' = o.registers /\ memory' = o.memory /\ state' = o.state
  /\ UNCHANGED <<inst, osize_signed>>

ExecuteRM == \E junk \in Residues : Execute("RM", InstrRM(junk))
ExecuteMR == \E junk \in Residues : Execute("MR", InstrMR(junk)) \/ Execute("MR8", InstrMR8(junk))
ExecuteM == \E junk \in Residues : Execute("M", InstrM(junk))
ExecuteMI == \E junk \in Residues : Execute("MI", InstrMI(junk))
ExecuteI == \E junk \in Residues : Execute("I", InstrI(junk)) \/ Execute("OI", InstrOI(junk))
ExecuteAccumulator == \E junk \in Residues : Execute("AL", InstrAL(junk)) \/ Execute("A", InstrA(junk))

Next ==
  \/ ExecuteRM \/ ExecuteMR \/ ExecuteM \/ ExecuteMI \/ ExecuteI \/ ExecuteAccumulator

Spec == Init /\ [][Next]_vars
=============================================================================
