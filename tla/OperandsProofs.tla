-------------------------- MODULE OperandsProofs --------------------------
(***************************************************************************)
(* Theorems about instructions with operands: what they may change, what a *)
(* failed read does, and where an uninitialised variable matters.          *)
(***************************************************************************)
EXTENDS OperandRules, WordsProofs, FiniteSetTheorems

-----------------------------------------------------------------------------
(* Handlers *)

Sizes == {16, 32, 64}
Widths == {1, 2, 4, 8}
Types == {U(n) : n \in Widths} \cup {S(n) : n \in Widths}
Typed(h) ==
  /\ h.form \in {"RM", "MR", "M", "MI", "I", "OI", "MR8"}
  /\ h.dst \in DOMAIN OperandTypes /\ h.src \in DOMAIN OperandTypes
  /\ h.form \in {"MR", "M", "OI"} => h.dst = "Unsigned"

LEMMA SizedType ==
  ASSUME NEW a \in Types, NEW b \in Types, NEW c \in Types
  PROVE  /\ Sized(a, b, c) \in [Sizes -> Types]
         /\ Sized(a, b, c)[16] = a /\ Sized(a, b, c)[32] = b /\ Sized(a, b, c)[64] = c
BY DEF Sized, Sizes

LEMMA TypesIn == \A n \in Widths : U(n) \in Types /\ S(n) \in Types
BY DEF Types

LEMMA OperandsTyped ==
  /\ \A n \in DOMAIN OperandTypes : OperandTypes[n] \in [Sizes -> Types]
  /\ \A size \in Sizes : OperandTypes["Unsigned"][size] = U(size \div 8)
<1>1. /\ U(1) \in Types /\ U(2) \in Types /\ U(4) \in Types /\ U(8) \in Types
      /\ S(1) \in Types /\ S(2) \in Types /\ S(4) \in Types /\ S(8) \in Types
  BY TypesIn DEF Widths
<1>2. \A a, b, c \in Types : Sized(a, b, c) \in [Sizes -> Types]
  BY SizedType
<1>3. \A n \in DOMAIN OperandTypes : OperandTypes[n] \in [Sizes -> Types]
  <2> SUFFICES ASSUME NEW n \in DOMAIN OperandTypes PROVE OperandTypes[n] \in [Sizes -> Types]
    OBVIOUS
  <2>1. PICK a, b, c \in {U(1), U(2), U(4), U(8), S(1), S(2), S(4), S(8)} :
          OperandTypes[n] = Sized(a, b, c)
    BY DEF OperandTypes
  <2>2. a \in Types /\ b \in Types /\ c \in Types
    BY <1>1
  <2> QED
    BY <1>2, <2>1, <2>2
<1>4. 16 \div 8 = 2 /\ 32 \div 8 = 4 /\ 64 \div 8 = 8
  BY SMT
<1>5. OperandTypes["Unsigned"] = Sized(U(2), U(4), U(8))
  BY DEF OperandTypes
<1>6. \A size \in Sizes : Sized(U(2), U(4), U(8))[size] = U(size \div 8)
  BY <1>1, <1>4, SizedType DEF Sizes
<1> QED
  BY <1>3, <1>5, <1>6

LEMMA HandlersTyped == \A n \in DOMAIN Handlers : Typed(Handlers[n])
<1> USE DEF Typed, HandlerOf, MR, RM, I, MI, OperandTypes
<1>1. \A n \in DOMAIN AddHandlers : Typed(AddHandlers[n])
  BY DEF AddHandlers
<1>2. \A n \in DOMAIN OrHandlers : Typed(OrHandlers[n])
  BY DEF OrHandlers
<1>3. \A n \in DOMAIN AndHandlers : Typed(AndHandlers[n])
  BY DEF AndHandlers
<1>4. \A n \in DOMAIN SubHandlers : Typed(SubHandlers[n])
  BY DEF SubHandlers
<1>5. \A n \in DOMAIN XorHandlers : Typed(XorHandlers[n])
  BY DEF XorHandlers
<1>6. \A n \in DOMAIN MovHandlers : Typed(MovHandlers[n])
  BY DEF MovHandlers
<1>7. \A n \in DOMAIN LeaHandlers : Typed(LeaHandlers[n])
  BY DEF LeaHandlers
<1>8. \A n \in DOMAIN ExtendHandlers : Typed(ExtendHandlers[n])
  BY DEF ExtendHandlers
<1>9. \A n \in DOMAIN CompareHandlers : Typed(CompareHandlers[n])
  BY DEF CompareHandlers
<1>10. \A n \in DOMAIN Dec_FF : Typed(Dec_FF[n])
  BY DEF Dec_FF
<1> HIDE DEF Typed
<1> QED
  BY <1>1, <1>2, <1>3, <1>4, <1>5, <1>6, <1>7, <1>8, <1>9, <1>10 DEF Handlers, HandlerNames

-----------------------------------------------------------------------------
(* Words *)

LEMMA ProductPositive ==
  ASSUME NEW x \in Nat \ {0}, NEW y \in Nat \ {0}
  PROVE  x * y \in Nat \ {0}
BY SMT

LEMMA BytePositive == ByteMod \in Nat \ {0} /\ WordMod \in Nat \ {0}
<1>1. ByteMod \in Nat \ {0}
  BY FlagsAssumption, ProductPositive
<1>2. WordMod \in Nat /\ 4 * ByteMod <= WordMod
  BY FlagsAssumption
<1> QED
  BY <1>1, <1>2, SMT

LEMMA PowersPositive ==
  /\ Mod(0) = 1 /\ Mod(1) = ByteMod /\ Mod(2) \in Nat \ {0} /\ Mod(3) \in Nat \ {0}
  /\ Mod(4) \in Nat \ {0} /\ Mod(5) \in Nat \ {0} /\ Mod(6) \in Nat \ {0} /\ Mod(7) \in Nat \ {0}
  /\ Mod(8) = WordMod
<1> DEFINE b == ByteMod
           q == b * b * b * b
<1>1. /\ Mod(0) = 1 /\ Mod(1) = b /\ Mod(2) = b * b /\ Mod(3) = b * b * b
      /\ Mod(4) = q /\ Mod(5) = q * b /\ Mod(6) = q * b * b /\ Mod(7) = q * b * b * b
      /\ Mod(8) = q * q
  BY DEF Mod, Powers
<1>2. b \in Nat \ {0}
  BY BytePositive
<1> HIDE DEF b
<1>3. b * b \in Nat \ {0}
  BY <1>2, ProductPositive
<1>4. b * b * b \in Nat \ {0}
  BY <1>2, <1>3, ProductPositive
<1>5. q \in Nat \ {0}
  BY <1>2, <1>4, ProductPositive
<1> HIDE DEF q
<1>6. q * b \in Nat \ {0}
  BY <1>2, <1>5, ProductPositive
<1>7. q * b * b \in Nat \ {0}
  BY <1>2, <1>6, ProductPositive
<1>8. q * b * b * b \in Nat \ {0}
  BY <1>2, <1>7, ProductPositive
<1>9. Mod(8) = WordMod
  BY OperandsAssumption
<1> QED
  BY <1>1, <1>3, <1>4, <1>5, <1>6, <1>7, <1>8, <1>9 DEF b

LEMMA WrapTyped ==
  ASSUME NEW x \in Int, NEW y \in Int
  PROVE  x % WordMod \in Nat /\ WrapAdd(WordMod, x, y) \in Nat
<1>1. \A z \in Int : z % WordMod \in Nat
  BY BytePositive, SMT
<1> QED
  BY <1>1, SMT DEF WrapAdd

LEMMA CastTyped ==
  ASSUME NEW v \in Int, NEW type \in Types
  PROVE  Cast(v, type) \in Nat
<1> DEFINE m == Mod(type.bytes)
           low == v % m
<1>1. m \in Nat \ {0}
  BY PowersPositive, BytePositive DEF Types, U, S, Widths
<1>2. Cast(v, type) = IF type.signed /\ low >= m \div 2 THEN (low - m) % WordMod ELSE low
  BY DEF Cast
<1> HIDE DEF m
<1>3. low \in Nat /\ low - m \in Int
  BY <1>1, SMT
<1>4. (low - m) % WordMod \in Nat
  BY <1>3, WrapTyped
<1> QED
  BY <1>2, <1>3, <1>4

LEMMA LittleEndianTyped ==
  ASSUME NEW d \in [0 .. 7 -> Nat]
  PROVE  LittleEndian(d) \in Nat
<1>1. \A x, y \in Nat : x * y \in Nat
  BY SMT
<1> DEFINE t(k) == d[k] * Mod(k)
<1>2. /\ d[0] \in Nat /\ t(1) \in Nat /\ t(2) \in Nat /\ t(3) \in Nat /\ t(4) \in Nat
      /\ t(5) \in Nat /\ t(6) \in Nat /\ t(7) \in Nat
  BY <1>1, PowersPositive, BytePositive
<1>3. LittleEndian(d) = d[0] + t(1) + t(2) + t(3) + t(4) + t(5) + t(6) + t(7)
  BY DEF LittleEndian
<1> HIDE DEF t
<1> QED
  BY <1>2, <1>3, SMT

-----------------------------------------------------------------------------
(* The invariant: until the instruction is executed, the state is one of   *)
(* those it starts in.                                                     *)

Ready ==
  /\ registers \in [0 .. Rip -> Word(WordMod)] /\ memory \in [0 .. Size - 1 -> Word(ByteMod)]
  /\ inst \in Instructions /\ osize_signed \in BOOLEAN
  /\ Name \in HandlerNames \cup {"AL", "A"} /\ (inst.opcode_size = 2 <=> Name = "Movzx_0FB6")
  /\ inst.p_sib => MODRM_MOD # 3 /\ MODRM_RM = 4
Inv == state = "ready" => Ready

LEMMA InitInv == Init => Inv
BY OperandsAssumption DEF Init, Inv, Ready

LEMMA InstructionTyped ==
  ASSUME Ready
  PROVE  /\ inst.code \in Seq(0 .. 255) /\ inst.pos_opcode \in Nat /\ inst.opcode_size \in {1, 2}
         /\ inst.pos_opcode + inst.opcode_size + (IF inst.p_sib THEN 2 ELSE 1) <= Len(inst.code)
         /\ inst.osize \in {16, 32, 64} /\ inst.asize \in {32, 64} /\ inst.p_sib \in BOOLEAN
BY OperandsAssumption DEF Ready

LEMMA ItemsOf ==
  ASSUME NEW T, NEW s \in Seq(T)
  PROVE  Len(s) \in Nat /\ \A i \in 1 .. Len(s) : s[i] \in T
OBVIOUS

LEMMA DatumTyped ==
  ASSUME Ready, NEW pos \in Nat, NEW n \in Nat, NEW past \in Nat
  PROVE  Datum(pos, n, past) \in Nat
<1> DEFINE byte(k) == IF pos + k < Len(inst.code) THEN inst.code[pos + k + 1] ELSE past
           d == [k \in 0 .. 7 |-> IF k >= n THEN 0 ELSE byte(k) % ByteMod]
<1>1. ASSUME NEW k \in 0 .. 7 PROVE byte(k) \in Nat
  <2>1. CASE pos + k < Len(inst.code)
    <3> DEFINE j == pos + k + 1
    <3>1. Len(inst.code) \in Nat /\ \A i \in 1 .. Len(inst.code) : inst.code[i] \in 0 .. 255
      BY InstructionTyped, ItemsOf
    <3>2. j \in 1 .. Len(inst.code)
      BY <2>1, <3>1, SMT
    <3>3. byte(k) = inst.code[j]
      BY <2>1
    <3> HIDE DEF j
    <3>4. inst.code[j] \in 0 .. 255
      BY <3>1, <3>2
    <3>5. inst.code[j] \in Nat
      BY <3>4
    <3> QED
      BY <3>3, <3>5
  <2> QED
    BY <2>1
<1> HIDE DEF byte
<1>2. \A x \in Nat : x % ByteMod \in Nat
  BY BytePositive, SMT
<1>3. d \in [0 .. 7 -> Nat]
  BY <1>1, <1>2
<1>4. Datum(pos, n, past) = LittleEndian(d)
  BY DEF Datum, byte
<1> QED
  BY <1>3, <1>4, LittleEndianTyped

LEMMA HandlerTyped ==
  ASSUME Ready
  PROVE  /\ Form \in {"RM", "MR", "M", "MI", "I", "OI", "MR8", "AL", "A"}
         /\ Form \notin {"AL", "A"} => /\ Handler.form = Form /\ Dst \in Types /\ Src \in Types
                                       /\ Form \in {"MR", "M", "OI"} => Dst = U(inst.osize \div 8)
<1>1. inst.osize \in Sizes
  BY InstructionTyped DEF Sizes
<1>2. CASE Name \in {"AL", "A"}
  BY <1>2 DEF Form
<1>3. CASE Name \notin {"AL", "A"}
  <2>1. Typed(Handler)
    BY <1>3, HandlersTyped DEF Ready, Handlers, Handler
  <2>2. Form = Handler.form
    BY <1>3 DEF Form
  <2> QED
    BY <1>1, <2>1, <2>2, OperandsTyped DEF Typed, Dst, Src
<1> QED
  BY <1>2, <1>3

LEMMA BytesOfCode ==
  ASSUME Ready
  PROVE  /\ ByteOfCode(1) \in 0 .. 255
         /\ inst.p_sib => ByteOfCode(2) \in 0 .. 255
<1> DEFINE at == inst.pos_opcode + inst.opcode_size
           n == Len(inst.code)
<1>0. /\ inst.code \in Seq(0 .. 255) /\ inst.pos_opcode \in Nat /\ inst.opcode_size \in {1, 2}
      /\ at + (IF inst.p_sib THEN 2 ELSE 1) <= n
  BY InstructionTyped
<1>2. n \in Nat /\ \A j \in 1 .. n : inst.code[j] \in 0 .. 255
  BY <1>0, ItemsOf
<1>1. at \in Nat /\ at + 1 <= n /\ (inst.p_sib => at + 2 <= n)
  BY <1>0, <1>2, SMT
<1>3. ByteOfCode(1) = inst.code[at + 1] /\ ByteOfCode(2) = inst.code[at + 2]
  BY DEF ByteOfCode
<1> HIDE DEF at, n
<1>4. at + 1 \in 1 .. n /\ (inst.p_sib => at + 2 \in 1 .. n)
  BY <1>1, <1>2, SMT
<1> QED
  BY <1>2, <1>3, <1>4

LEMMA FieldsTyped ==
  ASSUME Ready
  PROVE  /\ MODRM_MOD \in 0 .. 3 /\ MODRM_REG \in 0 .. 7 /\ MODRM_RM \in 0 .. 7
         /\ inst.p_sib => SIB_SCALE \in Nat /\ SIB_INDEX \in 0 .. 7 /\ SIB_BASE \in 0 .. 7
         /\ \A bit, r : r \in 0 .. 7 => Extended(bit, r) \in 0 .. 15
<1> DEFINE b == ByteOfCode(1)
           c == ByteOfCode(2)
<1>1. b \in 0 .. 255 /\ (inst.p_sib => c \in 0 .. 255)
  BY BytesOfCode
<1>2. /\ MODRM_MOD = b \div 64 /\ MODRM_REG = (b \div 8) % 8 /\ MODRM_RM = b % 8
      /\ SIB_SCALE = <<1, 2, 4, 8>>[c \div 64 + 1] /\ SIB_INDEX = (c \div 8) % 8 /\ SIB_BASE = c % 8
  BY DEF MODRM_MOD, MODRM_REG, MODRM_RM, SIB_SCALE, SIB_INDEX, SIB_BASE
<1> HIDE DEF b, c
<1>3. MODRM_MOD \in 0 .. 3 /\ MODRM_REG \in 0 .. 7 /\ MODRM_RM \in 0 .. 7
  BY <1>1, <1>2, SMT
<1>4. ASSUME inst.p_sib PROVE SIB_INDEX \in 0 .. 7 /\ SIB_BASE \in 0 .. 7 /\ c \div 64 + 1 \in 1 .. 4
  BY <1>1, <1>2, <1>4, SMT
<1>5. \A k \in 1 .. 4 : <<1, 2, 4, 8>>[k] \in Nat
  BY SMT
<1>6. \A bit, r : r \in 0 .. 7 => Extended(bit, r) \in 0 .. 15
  BY SMT DEF Extended
<1> QED
  BY <1>2, <1>3, <1>4, <1>5, <1>6

-----------------------------------------------------------------------------
(* The SIB byte, and what an uninitialised Sib makes of it                 *)

LEMMA SibWithoutResidue ==
  ASSUME ~(SIB_BASE = 5 /\ SIB_INDEX = 4), NEW r1, NEW r2
  PROVE  set_sib_byte(r1) = set_sib_byte(r2)
<1>1. CASE SIB_INDEX # 4
  BY <1>1 DEF set_sib_byte
<1>2. CASE SIB_INDEX = 4 /\ SIB_BASE # 5
  BY <1>2 DEF set_sib_byte
<1> QED
  BY <1>1, <1>2

LEMMA LocationWithoutResidue ==
  ASSUME inst.p_sib => ~(SIB_BASE = 5 /\ SIB_INDEX = 4), NEW r1, NEW r2
  PROVE  /\ inst.p_sib => set_sib_byte(r1) = set_sib_byte(r2) /\ SibLocation(r1) = SibLocation(r2)
         /\ \A type, pos, origin : Location(type, pos, origin, r1) = Location(type, pos, origin, r2)
<1>1. inst.p_sib => set_sib_byte(r1) = set_sib_byte(r2)
  BY SibWithoutResidue
<1> QED
  BY <1>1 DEF SibLocation, Location

(* Two residues of the stack with the same past, neither of which fails a  *)
(* lookup, lead to the same outcome.                                       *)
LEMMA EffectsWithoutResidue ==
  ASSUME Ready, NEW r1, NEW r2, r1.past = r2.past, ~LookupFails(r1), ~LookupFails(r2),
         inst.p_sib /\ HasModRM => ~(SIB_BASE = 5 /\ SIB_INDEX = 4)
  PROVE  Effects(Form, r1) = Effects(Form, r2)
<1>1. /\ HasModRM /\ inst.p_sib => set_sib_byte(r1) = set_sib_byte(r2) /\ SibLocation(r1) = SibLocation(r2)
      /\ HasModRM => \A type, pos, origin :
                       Location(type, pos, origin, r1) = Location(type, pos, origin, r2)
  BY LocationWithoutResidue
<1>2. Form \in {"RM", "MR", "M", "MI", "I", "OI", "MR8", "AL", "A"}
  BY HandlerTyped
<1>3. CASE Form = "RM"
  <2>1. InstrRM(r1) = InstrRM(r2)
    BY <1>1, <1>3 DEF HasModRM, InstrRM
  <2> QED
    BY <1>3, <2>1 DEF Effects
<1>4. CASE Form = "MR"
  <2>1. InstrMR(r1) = InstrMR(r2)
    BY <1>1, <1>4 DEF HasModRM, InstrMR, SibMR
  <2> QED
    BY <1>4, <2>1 DEF Effects
<1>5. CASE Form = "M"
  <2>1. InstrM(r1) = InstrM(r2)
    BY <1>1, <1>5 DEF HasModRM, InstrM, SibM
  <2> QED
    BY <1>5, <2>1 DEF Effects
<1>6. CASE Form = "MI"
  <2>1. InstrMI(r1) = InstrMI(r2)
    BY <1>1, <1>6 DEF HasModRM, InstrMI, Immediate
  <2> QED
    BY <1>6, <2>1 DEF Effects
<1>7. CASE Form = "I"
  <2>1. InstrI(r1) = InstrI(r2)
    BY DEF InstrI, Immediate
  <2> QED
    BY <1>7, <2>1 DEF Effects
<1>8. CASE Form = "OI"
  <2>1. InstrOI(r1) = InstrOI(r2)
    BY DEF InstrOI
  <2> QED
    BY <1>8, <2>1 DEF Effects
<1>9. CASE Form = "MR8"
  <2>1. InstrMR8(r1) = InstrMR8(r2)
    <3>1. CASE inst.p_sib
      BY <1>1, <1>9, <3>1 DEF HasModRM, InstrMR8
    <3>2. CASE ~inst.p_sib
      BY <3>2 DEF InstrMR8
    <3> QED
      BY <3>1, <3>2
  <2> QED
    BY <1>9, <2>1 DEF Effects
<1>10. CASE Form = "AL"
  <2>1. InstrAL(r1) = InstrAL(r2)
    BY DEF InstrAL
  <2> QED
    BY <1>10, <2>1 DEF Effects
<1>11. CASE Form = "A"
  <2>1. InstrA(r1) = InstrA(r2)
    BY DEF InstrA
  <2> QED
    BY <1>11, <2>1 DEF Effects
<1> QED
  BY <1>2, <1>3, <1>4, <1>5, <1>6, <1>7, <1>8, <1>9, <1>10, <1>11

LEMMA GarbageConfined == Inv => GarbageOnlyWithoutIndexAndBase
<1> SUFFICES ASSUME Ready, ~(InMemory /\ inst.p_sib /\ SIB_BASE = 5 /\ SIB_INDEX = 4)
             PROVE  Cardinality({Effects(Form, r) : r \in {r \in Residues : r.past = 0 /\ ~LookupFails(r)}}) = 1
  BY DEF Inv, GarbageOnlyWithoutIndexAndBase
<1> DEFINE Clean == {r \in Residues : r.past = 0 /\ ~LookupFails(r)}
           Result1(r) == Effects(Form, r)
<1>1. PICK junk : junk \in Clean
  BY OperandsAssumption DEF LookupFails
<1>2. inst.p_sib /\ HasModRM => ~(SIB_BASE = 5 /\ SIB_INDEX = 4)
  BY DEF Ready, InMemory
<1>3. \A r \in Clean : Result1(r) = Result1(junk)
  BY <1>1, <1>2, EffectsWithoutResidue
<1> HIDE DEF Result1, Clean
<1>4. {Result1(r) : r \in Clean} = {Result1(junk)}
  BY <1>1, <1>3
<1>5. Cardinality({Result1(junk)}) = 1
  BY FS_Singleton
<1> QED
  BY <1>4, <1>5 DEF Result1, Clean

-----------------------------------------------------------------------------
(* The shapes of an outcome: nothing but perhaps the end, one register, or *)
(* a run of memory.                                                        *)

Ends ==
  /\ InMemory \/ Name = "Movzx_0FB6"
  /\ Form \in {"RM", "MI"} =>
       DisplacementMissing \/ Name = "Movzx_0FB6" \/ (inst.p_sib /\ SIB_BASE = 5)
Quiet(o) == o = Skip \/ (o = Terminate /\ Ends)
Changes(r) == IF Form = "MR8" THEN r \in {Rm - 4, Rm, Rm % 4} ELSE r = DestinationRegister
InRegister(o) ==
  \E r, v : Changes(r) /\ o = ToRegister([registers EXCEPT ![r] = v])
InMemoryRun(o) ==
  /\ InMemory /\ Stores
  /\ \E addr \in Nat, n \in {1, 8} : \E v : o = ToMemory(addr, n, v)
Shaped(o) == Quiet(o) \/ InRegister(o) \/ InMemoryRun(o)

LEMMA RegisterShape ==
  ASSUME NEW r, Changes(r)
  PROVE  /\ \A n, v : Shaped(ToRegister(SetReg(r, n, v)))
         /\ \A high, v : Shaped(ToRegister(SetRegByte(r, high, v)))
BY DEF Shaped, InRegister, SetReg, SetRegByte

LEMMA ModRMFields ==
  ASSUME Ready
  PROVE  LET m == set_modrm_byte IN
         /\ m.reg = Reg /\ m.reg \in 0 .. 15
         /\ m.rm = RmRegister /\ (RmRegister \in 0 .. 15 \/ RmRegister = None)
         /\ RmRegister = None <=> MODRM_MOD = 0 /\ MODRM_RM = 5
         /\ RmRegister # None => RmRegister = Rm
         /\ m.disp_size = DispSize /\ DispSize \in {0, 1, 4}
         /\ m.is_addr <=> MODRM_MOD # 3
<1>1. MODRM_MOD \in 0 .. 3 /\ MODRM_RM \in 0 .. 7 /\ Reg \in 0 .. 15 /\ Rm \in 0 .. 15
  BY FieldsTyped DEF Reg, Rm
<1>2. /\ RmRegister = IF MODRM_MOD = 0 /\ MODRM_RM = 5 THEN None ELSE Rm
      /\ None \notin 0 .. 15
  BY SMT DEF RmRegister, Rm, None
<1>3. DispSize \in {0, 1, 4}
  BY DEF DispSize
<1> QED
  BY <1>1, <1>2, <1>3 DEF set_modrm_byte, Reg

LEMMA RegistersTyped ==
  ASSUME Ready
  PROVE  /\ \A r \in 0 .. 15 : registers[r] \in Nat
         /\ registers[Rip] \in Nat /\ registers[Rax] \in Nat
<1>1. registers \in [0 .. 16 -> Nat]
  <2>1. \A x \in 0 .. WordMod - 1 : x \in Nat
    OBVIOUS
  <2> QED
    BY <2>1 DEF Ready, Rip, Word
<1> QED
  BY <1>1 DEF Rip, Rax

LEMMA DisplacementTyped ==
  ASSUME Ready, NEW pos \in Nat, NEW n \in Nat
  PROVE  Displacement(pos, n) \in Nat
BY DatumTyped DEF Displacement

LEMMA SibTyped ==
  ASSUME Ready, inst.p_sib, NEW junk \in Residues
  PROVE  LET s == set_sib_byte(junk) IN
         /\ s.kind \in {"memory", "wild", "invalid"} /\ s.calc \in Nat /\ s.disp_size \in {0, 1, 4}
         /\ s.kind = "wild" => SIB_BASE = 5
<1> DEFINE use_indx == SIB_INDEX # 4
           index == IF use_indx THEN Extended("X", SIB_INDEX) ELSE junk.index
           use_base == IF SIB_BASE = 5 THEN junk.use_base ELSE SIB_BASE # 0
           scaled == SIB_SCALE * registers[index]
           base == registers[Extended("B", SIB_BASE)]
           sum == (IF use_indx THEN scaled ELSE 0) + (IF use_base THEN base ELSE 0)
<1>1. SIB_SCALE \in Nat /\ SIB_INDEX \in 0 .. 7 /\ SIB_BASE \in 0 .. 7
  BY FieldsTyped
<1>2. \A r \in 0 .. 15 : registers[r] \in Nat
  BY RegistersTyped
<1>3. index \in 0 .. 15 \cup {Wild}
  BY <1>1, FieldsTyped, OperandsAssumption
<1>4. Extended("X", SIB_INDEX) \in 0 .. 15 /\ Extended("B", SIB_BASE) \in 0 .. 15
  BY <1>1, FieldsTyped
<1>5. base \in Nat
  BY <1>2, <1>4
<1>6. index # Wild => scaled \in Nat
  <2>1. \A x, y \in Nat : x * y \in Nat
    BY SMT
  <2> QED
    BY <1>1, <1>2, <1>3, <2>1
<1>7. use_indx => index # Wild
  BY <1>4 DEF Wild
<1> HIDE DEF index, use_base, scaled, base
<1>8. sum \in Nat
  BY <1>5, <1>6, <1>7
<1>9. /\ index # Wild => scaled % WordMod \in Nat
      /\ sum % WordMod \in Nat
  BY <1>6, <1>8, WrapTyped
<1>10. DispSize \in {0, 1, 4}
  BY DEF DispSize
<1>11. CASE SIB_BASE = 5 /\ DispSize = 0
  BY <1>9, <1>11 DEF set_sib_byte, index, scaled
<1>12. CASE SIB_BASE = 5 /\ DispSize # 0
  BY <1>10, <1>12 DEF set_sib_byte
<1>13. CASE SIB_BASE # 5
  BY <1>9, <1>10, <1>13 DEF set_sib_byte, index, use_base, scaled, base
<1> QED
  BY <1>11, <1>12, <1>13

(* The displacement has the size of the architecture, and its end is in    *)
(* the code unless it is missing.                                          *)
LEMMA BareDisplacement ==
  ASSUME Ready, InMemory, ~inst.p_sib
  PROVE  DispSize = TrueDispSize
<1>1. RmRegister = None <=> MODRM_MOD = 0 /\ MODRM_RM = 5
  BY ModRMFields
<1> QED
  BY <1>1 DEF DispSize, TrueDispSize, Relative

LEMMA SibDisplacement ==
  ASSUME Ready, inst.p_sib, NEW junk
  PROVE  set_sib_byte(junk).disp_size = TrueDispSize
<1>1. RmRegister # None /\ MODRM_MOD \in 0 .. 3 /\ InMemory = (HasModRM /\ MODRM_MOD # 3)
  BY ModRMFields, FieldsTyped DEF Ready, InMemory
<1>2. DispSize = IF MODRM_MOD = 1 THEN 1 ELSE IF MODRM_MOD = 2 THEN 4 ELSE 0
  BY <1>1 DEF DispSize
<1>3. TrueDispSize = IF SIB_BASE = 5 /\ MODRM_MOD = 0 THEN 4 ELSE DispSize
  BY <1>1, <1>2 DEF TrueDispSize, Relative
<1>4. DispSize = 0 <=> MODRM_MOD = 0
  BY <1>1, <1>2 DEF Ready
<1>5. CASE SIB_BASE = 5 /\ DispSize = 0
  BY <1>3, <1>4, <1>5 DEF set_sib_byte
<1>6. CASE SIB_BASE = 5 /\ DispSize # 0
  BY <1>3, <1>4, <1>6 DEF set_sib_byte
<1>7. CASE SIB_BASE # 5
  BY <1>3, <1>7 DEF set_sib_byte
<1> QED
  BY <1>5, <1>6, <1>7

LEMMA ReachedUnlessMissing ==
  ASSUME Ready, InMemory, NEW pos \in Nat, NEW kind,
         pos <= inst.pos_opcode + (IF inst.p_sib THEN 3 ELSE 2)
  PROVE  ~DisplacementMissing => Reached(kind, pos, TrueDispSize) = kind
<1> DEFINE n == TrueDispSize
           at == TrueDispAt
           len == Len(inst.code)
<1>1. n \in Nat /\ len \in Nat
  BY InstructionTyped, ItemsOf DEF TrueDispSize
<1>2. at \in Nat /\ pos <= at
  BY InstructionTyped, SMT DEF TrueDispAt
<1>3. ~DisplacementMissing => ~(at + n > len)
  BY DEF DisplacementMissing
<1>4. Reached(kind, pos, n) = IF kind = "memory" /\ n # 0 /\ pos + n > len THEN "wild" ELSE kind
  BY DEF Reached
<1> HIDE DEF n, at, len
<1>5. pos + n > len => at + n > len
  BY <1>1, <1>2, SMT
<1> QED
  BY <1>3, <1>4, <1>5 DEF n

LEMMA LocationTyped ==
  ASSUME Ready, NEW type \in Types, NEW pos \in Nat, NEW origin \in Nat, NEW junk \in Residues
  PROVE  /\ ModRMLocation(type, pos, origin).addr \in Nat
         /\ InMemory /\ ~inst.p_sib /\ pos <= inst.pos_opcode + 2 /\ ~DisplacementMissing =>
              ModRMLocation(type, pos, origin).kind = "memory"
         /\ inst.p_sib => /\ SibLocation(junk).addr \in Nat
                          /\ InMemory /\ ~DisplacementMissing /\ SibLocation(junk).kind = "wild" =>
                               SIB_BASE = 5
<1> DEFINE m == set_modrm_byte
           start == IF m.rm = None THEN origin ELSE Cast(registers[m.rm], type)
           disp == Displacement(pos, m.disp_size)
<1>1. \A r \in 0 .. 15 : registers[r] \in Int
  BY RegistersTyped
<1>2. /\ m.rm \in 0 .. 15 \/ m.rm = None
      /\ m.disp_size \in Nat
  BY ModRMFields
<1>3. start \in Nat
  BY <1>1, <1>2, CastTyped
<1>4. disp \in Nat
  BY <1>2, DisplacementTyped
<1>5. ModRMLocation(type, pos, origin) =
        [kind |-> Reached("memory", pos, m.disp_size), addr |-> WrapAdd(WordMod, start, disp)]
  BY DEF ModRMLocation
<1>8. ASSUME InMemory, ~inst.p_sib, pos <= inst.pos_opcode + 2, ~DisplacementMissing
      PROVE  Reached("memory", pos, m.disp_size) = "memory"
  <2>1. m.disp_size = TrueDispSize
    BY <1>8, ModRMFields, BareDisplacement
  <2> HIDE DEF m
  <2> QED
    BY <1>8, <2>1, ReachedUnlessMissing
<1> HIDE DEF start, disp, m
<1>6. WrapAdd(WordMod, start, disp) \in Nat
  BY <1>3, <1>4, WrapTyped
<1>7. ASSUME inst.p_sib
      PROVE  /\ SibLocation(junk).addr \in Nat
             /\ InMemory /\ ~DisplacementMissing /\ SibLocation(junk).kind = "wild" => SIB_BASE = 5
  <2> DEFINE s == set_sib_byte(junk)
             d == Displacement(inst.pos_opcode + 3, s.disp_size)
  <2>1. /\ s.kind \in {"memory", "wild", "invalid"} /\ s.calc \in Nat /\ s.disp_size \in Nat
        /\ s.kind = "wild" => SIB_BASE = 5
    BY <1>7, SibTyped
  <2>2. inst.pos_opcode + 3 \in Nat
    BY InstructionTyped
  <2>3. d \in Nat
    BY <2>1, <2>2, DisplacementTyped
  <2>4. SibLocation(junk) = [kind |-> Reached(s.kind, inst.pos_opcode + 3, s.disp_size),
                             addr |-> WrapAdd(WordMod, s.calc, d)]
    BY DEF SibLocation
  <2>7. InMemory /\ ~DisplacementMissing => Reached(s.kind, inst.pos_opcode + 3, s.disp_size) = s.kind
    <3>1. s.disp_size = TrueDispSize
      BY <1>7, SibDisplacement
    <3> HIDE DEF s
    <3> QED
      BY <1>7, <2>2, <3>1, ReachedUnlessMissing, InstructionTyped
  <2> HIDE DEF s, d
  <2>5. \A x, y \in Nat : WrapAdd(WordMod, x, y) \in Nat
    BY WrapTyped
  <2>6. WrapAdd(WordMod, s.calc, d) \in Nat
    BY <2>1, <2>3, <2>5
  <2> QED
    BY <2>1, <2>4, <2>6, <2>7
<1> QED
  BY <1>5, <1>6, <1>7, <1>8

LEMMA OnMemoryShaped ==
  ASSUME NEW loc, NEW type, NEW outcome, Shaped(outcome),
         loc.kind = "wild" => Ends
  PROVE  /\ Shaped(OnMemory(loc, type, Skip, outcome))
         /\ Ends => Shaped(OnMemory(loc, type, Terminate, outcome))
BY DEF OnMemory, Shaped, Quiet

LEMMA StoreShaped ==
  ASSUME InMemory, Stores, NEW addr \in Nat, NEW v
  PROVE  \A n \in {1, 8} : Shaped(ToMemory(addr, n, v))
BY DEF Shaped, InMemoryRun

(* The operands of the templates that write where ModRM says.              *)
LEMMA WideOperands ==
  ASSUME Ready, Form \in {"RM", "MR", "M", "MI"}
  PROVE  /\ Dst \in Types /\ Src \in Types /\ Wide \in {2, 4, 8}
         /\ InMemory <=> MODRM_MOD # 3
         /\ Form = "RM" => Changes(Reg)
         /\ Form # "RM" => Changes(Rm)
<1>1. Dst \in Types /\ Src \in Types
  BY HandlerTyped
<1>2. Wide \in {2, 4, 8}
  <2>1. 16 \div 8 = 2 /\ 32 \div 8 = 4 /\ 64 \div 8 = 8
    BY SMT
  <2> QED
    BY <2>1, InstructionTyped DEF Wide
<1>3. Home(Rm, Wide) = Rm
  BY <1>2, SMT DEF Home, HighByte
<1> QED
  BY <1>1, <1>2, <1>3 DEF InMemory, HasModRM, Changes, DestinationRegister

LEMMA ShapeRM ==
  ASSUME Ready, Form = "RM", NEW junk \in Residues
  PROVE  Shaped(InstrRM(junk))
<1> DEFINE m == set_modrm_byte
           origin == WrapAdd(WordMod, registers[Rip], Len(inst.code))
           loc == Location(Src, inst.pos_opcode + 2, origin, junk)
           Effect(v) == ToRegister(SetReg(m.reg, Dst.bytes, Result(OfRegister(m.reg, Dst), Cast(v, Dst))))
<1>1. \A v : Shaped(Effect(v))
  BY WideOperands, ModRMFields, RegisterShape
<1>2. m.is_addr => InMemory
  BY WideOperands, ModRMFields
<1>3. InMemory /\ loc.kind = "wild" => DisplacementMissing \/ (inst.p_sib /\ SIB_BASE = 5)
  <2>1. inst.pos_opcode + 2 \in Nat /\ Len(inst.code) \in Nat
    BY InstructionTyped
  <2>2. \A x, y \in Nat : WrapAdd(WordMod, x, y) \in Nat
    BY WrapTyped
  <2>3. origin \in Nat
    BY <2>1, <2>2, RegistersTyped
  <2> HIDE DEF origin
  <2>4. ~inst.p_sib => loc = ModRMLocation(Src, inst.pos_opcode + 2, origin)
    BY DEF Location
  <2>5. inst.p_sib => loc = SibLocation(junk)
    BY DEF Location
  <2>6. Src \in Types /\ inst.pos_opcode + 2 <= inst.pos_opcode + 2 /\ inst.p_sib \in BOOLEAN
    BY <2>1, WideOperands, InstructionTyped, SMT
  <2> HIDE DEF loc
  <2>7. /\ InMemory /\ ~inst.p_sib /\ ~DisplacementMissing => loc.kind = "memory"
        /\ inst.p_sib /\ InMemory /\ ~DisplacementMissing /\ loc.kind = "wild" => SIB_BASE = 5
    BY <2>1, <2>3, <2>4, <2>5, <2>6, LocationTyped
  <2> QED
    BY <2>6, <2>7
<1>4. ~LookupFails(junk) => InstrRM(junk) =
        CASE ~m.is_addr -> Effect(OfRegister(m.rm, Src))
          [] m.is_addr /\ Handler.op = "lea" ->
               IF loc.kind = "invalid" THEN Skip
               ELSE IF loc.kind = "wild" THEN Terminate ELSE Effect(loc.addr)
          [] OTHER -> OnMemory(loc, Src, Skip, Effect(OperandAt(loc, Src)))
  BY DEF InstrRM
<1>8. LookupFails(junk) => Shaped(InstrRM(junk))
  BY DEF InstrRM, LookupFails, Ends, Shaped, Quiet
<1>5. Shaped(Skip)
  BY DEF Shaped, Quiet
<1>6. m.is_addr /\ loc.kind = "wild" => Ends /\ Shaped(Terminate)
  BY <1>2, <1>3 DEF Ends, Shaped, Quiet
<1> HIDE DEF m, loc, Effect
<1>7. m.is_addr => Shaped(OnMemory(loc, Src, Skip, Effect(OperandAt(loc, Src))))
  BY <1>1, <1>6, OnMemoryShaped
<1> QED
  BY <1>1, <1>4, <1>5, <1>6, <1>7, <1>8

LEMMA ShapeMR ==
  ASSUME Ready, Form = "MR", NEW junk \in Residues
  PROVE  Shaped(InstrMR(junk))
<1> DEFINE m == set_modrm_byte
           At(loc) == ToOperand(loc.addr, Result(OperandAt(loc, Dst), OfRegister(m.reg, Dst)), Dst.bytes)
           bare == ModRMLocation(Dst, inst.pos_opcode + 2, 0)
           sib == SibLocation(junk)
<1>1. bare.addr \in Nat /\ (inst.p_sib => sib.addr \in Nat)
  <2>1. inst.pos_opcode + 2 \in Nat
    BY InstructionTyped
  <2> QED
    BY <2>1, WideOperands, LocationTyped
<1>2. m.is_addr => InMemory /\ Stores /\ Ends
  BY WideOperands, ModRMFields DEF Stores, Ends
<1>3. ~m.is_addr => m.rm = Rm
  BY ModRMFields
<1>4. ~m.is_addr => Shaped(RegisterMR(m))
  BY <1>3, WideOperands, RegisterShape DEF RegisterMR
<1>5. m.is_addr => Shaped(At(bare)) /\ (inst.p_sib => Shaped(At(sib)))
  BY <1>1, <1>2, StoreShaped DEF ToOperand
<1>6. /\ BareMR(m) = OnMemory(bare, Dst, IF m.disp_size = 0 /\ inst.osize # 64 THEN Skip ELSE Terminate, At(bare))
      /\ SibMR(m, junk) = OnMemory(sib, Dst, Terminate, At(sib))
  BY DEF BareMR, SibMR, MemoryMR
<1>7. InstrMR(junk) = IF ~m.is_addr THEN RegisterMR(m) ELSE IF inst.p_sib THEN SibMR(m, junk) ELSE BareMR(m)
  BY DEF InstrMR
<1> HIDE DEF m, At, bare, sib
<1>8. m.is_addr => Shaped(BareMR(m)) /\ (inst.p_sib => Shaped(SibMR(m, junk)))
  BY <1>2, <1>5, <1>6, OnMemoryShaped
<1> QED
  BY <1>4, <1>7, <1>8

LEMMA ShapeM ==
  ASSUME Ready, Form = "M", NEW junk \in Residues
  PROVE  Shaped(InstrM(junk))
<1> DEFINE m == set_modrm_byte
           At(loc) == ToOperand(loc.addr, Result(OperandAt(loc, Dst), 0), Dst.bytes)
           bare == ModRMLocation(Dst, inst.pos_opcode + 2, 0)
           sib == SibLocation(junk)
<1>1. bare.addr \in Nat /\ (inst.p_sib => sib.addr \in Nat)
  <2>1. inst.pos_opcode + 2 \in Nat
    BY InstructionTyped
  <2> QED
    BY <2>1, WideOperands, LocationTyped
<1>2. m.is_addr => InMemory /\ Stores /\ Ends
  BY WideOperands, ModRMFields DEF Stores, Ends
<1>3. ~m.is_addr => m.rm = Rm
  BY ModRMFields
<1>4. ~m.is_addr => Shaped(RegisterM(m))
  BY <1>3, WideOperands, RegisterShape DEF RegisterM
<1>5. m.is_addr => Shaped(At(bare)) /\ (inst.p_sib => Shaped(At(sib)))
  BY <1>1, <1>2, StoreShaped DEF ToOperand
<1>6. /\ BareM = OnMemory(bare, Dst, Terminate, At(bare))
      /\ SibM(junk) = OnMemory(sib, Dst, Terminate, At(sib))
  BY DEF BareM, SibM, MemoryM
<1>7. InstrM(junk) = IF ~m.is_addr THEN RegisterM(m) ELSE IF inst.p_sib THEN SibM(junk) ELSE BareM
  BY DEF InstrM
<1> HIDE DEF m, At, bare, sib
<1>8. m.is_addr => Shaped(BareM) /\ (inst.p_sib => Shaped(SibM(junk)))
  BY <1>2, <1>5, <1>6, OnMemoryShaped
<1> QED
  BY <1>4, <1>7, <1>8

LEMMA ShapeMI ==
  ASSUME Ready, Form = "MI", NEW junk \in Residues
  PROVE  Shaped(InstrMI(junk))
<1> DEFINE m == set_modrm_byte
           imm == Immediate(ImmediateOffset(m), junk)
           loc == Location(Dst, 2, 0, junk)
           Stored == ToOperand(loc.addr, Result(OperandAt(loc, Dst), imm), Dst.bytes)
<1>1. /\ loc.addr \in Nat
      /\ InMemory /\ loc.kind = "wild" => DisplacementMissing \/ (inst.p_sib /\ SIB_BASE = 5)
  <2>1. 2 \in Nat /\ 0 \in Nat /\ 2 <= inst.pos_opcode + 2
    BY InstructionTyped, SMT
  <2> QED
    BY <2>1, WideOperands, LocationTyped DEF Location
<1>2. m.is_addr => InMemory /\ Stores
  BY WideOperands, ModRMFields DEF Stores
<1>3. ~m.is_addr => m.rm = Rm
  BY ModRMFields
<1>4. ~m.is_addr => Shaped(ToRegister(SetReg(m.rm, Dst.bytes, Result(OfRegister(m.rm, Dst), imm))))
  BY <1>3, WideOperands, RegisterShape
<1>5. m.is_addr => Shaped(Stored)
  BY <1>1, <1>2, StoreShaped DEF ToOperand
<1>6. m.is_addr => (loc.kind = "wild" => Ends)
  BY <1>1, <1>2 DEF Ends
<1>7. InstrMI(junk) =
        IF ~m.is_addr THEN ToRegister(SetReg(m.rm, Dst.bytes, Result(OfRegister(m.rm, Dst), imm)))
        ELSE OnMemory(loc, Dst, Skip, Stored)
  BY DEF InstrMI
<1> HIDE DEF m, loc, imm, Stored
<1>8. m.is_addr => Shaped(OnMemory(loc, Dst, Skip, Stored))
  BY <1>5, <1>6, OnMemoryShaped
<1> QED
  BY <1>4, <1>7, <1>8

LEMMA ShapeI ==
  ASSUME Ready, Form = "I", NEW junk \in Residues
  PROVE  Shaped(InstrI(junk))
<1>1. Changes(Rax)
  BY DEF Changes, DestinationRegister
<1> QED
  BY <1>1, RegisterShape DEF InstrI

LEMMA ShapeOI ==
  ASSUME Ready, Form = "OI", NEW junk \in Residues
  PROVE  Shaped(InstrOI(junk))
<1>1. Changes(Extended("B", opcode - 184))
  BY DEF Changes, DestinationRegister
<1>2. Shaped(Skip)
  BY DEF Shaped, Quiet
<1> QED
  BY <1>1, <1>2, RegisterShape DEF InstrOI

LEMMA ShapeAccumulator ==
  ASSUME Ready, Form \in {"AL", "A"}, NEW junk \in Residues
  PROVE  /\ Form = "AL" => Shaped(InstrAL(junk))
         /\ Form = "A" => Shaped(InstrA(junk))
<1>1. Changes(Rax)
  BY DEF Changes, DestinationRegister
<1>2. Shaped(Skip)
  BY DEF Shaped, Quiet
<1> QED
  BY <1>1, <1>2, RegisterShape DEF InstrAL, InstrA

LEMMA ShapeMR8 ==
  ASSUME Ready, Form = "MR8", NEW junk \in Residues
  PROVE  Shaped(InstrMR8(junk))
<1> DEFINE m == set_modrm_byte
           from == ByteOperand(m.reg)
           op2 == get_byte_register(from.value, from.high)
           s == set_sib_byte(junk)
           disp == Displacement(inst.pos_opcode + 2, m.disp_size)
           to == ByteOperand(m.rm)
           At(base) == [kind |-> Reached("memory", inst.pos_opcode + 2, m.disp_size),
                        addr |-> WrapAdd(WordMod, base, disp)]
           ReadAt == CASE inst.p_sib -> SibLocation(junk)
                       [] ~inst.p_sib /\ m.rm = None ->
                            At(WrapAdd(WordMod, registers[Rip], Len(inst.code)))
                       [] OTHER -> At(get_byte_register(to.value, to.high))
           WriteAt == CASE inst.p_sib -> s.calc
                        [] ~inst.p_sib /\ m.rm = None -> ReadAt.addr
                        [] OTHER -> At(get_byte_register(registers[to.reg], to.high)).addr
           Stored == ToMemory(WriteAt, 1, Result(OperandAt(ReadAt, U(1)), op2))
           Kept == ToRegister(SetRegByte(to.reg, to.high, Result(get_byte_register(to.value, to.high), op2)))
<1>1. InstrMR8(junk) = IF ~m.is_addr THEN Kept ELSE OnMemory(ReadAt, U(1), Terminate, Stored)
  BY DEF InstrMR8
<1>2. /\ m.is_addr <=> InMemory
      /\ InMemory => Stores /\ Ends
      /\ m.disp_size \in Nat /\ m.rm \in 0 .. 15 \cup {None}
  BY ModRMFields DEF InMemory, HasModRM, Stores, Ends
<1>3. m.rm # None => to.reg \in 0 .. 15
  <2>1. \A r \in 0 .. 15 : r % 4 \in 0 .. 15 /\ (r > 3 => r - 4 \in 0 .. 15)
    BY SMT
  <2> QED
    BY <1>2, <2>1 DEF ByteOperand
<1>4. ~m.is_addr => Shaped(Kept)
  <2>1. ~m.is_addr => m.rm = Rm
    BY ModRMFields
  <2>2. m.rm = Rm => to.reg \in {Rm - 4, Rm, Rm % 4}
    BY DEF ByteOperand
  <2>3. to.reg \in {Rm - 4, Rm, Rm % 4} => Changes(to.reg)
    BY DEF Changes
  <2> HIDE DEF m, to, op2
  <2> QED
    BY <2>1, <2>2, <2>3, RegisterShape
<1>5. inst.p_sib => s.calc \in Nat
  BY SibTyped
<1>6. disp \in Nat
  <2>1. inst.pos_opcode + 2 \in Nat
    BY InstructionTyped
  <2> QED
    BY <1>2, <2>1, DisplacementTyped
<1>7. \A x, y \in Nat : WrapAdd(WordMod, x, y) \in Nat
  BY WrapTyped
<1>8. WriteAt \in Nat
  <2>1. \A v \in Nat : \A high : get_byte_register(v, high) \in Nat
    BY BytePositive, SMT DEF get_byte_register
  <2>2. Len(inst.code) \in Nat /\ registers[Rip] \in Nat
    <3>1. inst.code \in Seq(0 .. 255)
      BY InstructionTyped
    <3> QED
      BY <3>1, ItemsOf, RegistersTyped
  <2>3. m.rm # None => registers[to.reg] \in Nat
    BY <1>3, RegistersTyped
  <2> HIDE DEF m, to, s, disp
  <2>4. CASE inst.p_sib
    BY <1>5, <2>4
  <2>5. CASE ~inst.p_sib /\ m.rm = None
    BY <1>6, <1>7, <2>2, <2>5
  <2>6. CASE ~inst.p_sib /\ m.rm # None
    BY <1>6, <1>7, <2>1, <2>3, <2>6
  <2> QED
    BY <2>4, <2>5, <2>6
<1> HIDE DEF WriteAt
<1>9. InMemory => Shaped(Stored)
  BY <1>2, <1>8, StoreShaped
<1> HIDE DEF m, Kept, ReadAt, Stored
<1>10. InMemory => Shaped(OnMemory(ReadAt, U(1), Terminate, Stored))
  BY <1>2, <1>9, OnMemoryShaped
<1> QED
  BY <1>1, <1>2, <1>4, <1>10

LEMMA EffectsShaped ==
  ASSUME Ready, NEW junk \in Residues
  PROVE  Shaped(Effects(Form, junk))
<1>1. Form \in {"RM", "MR", "M", "MI", "I", "OI", "MR8", "AL", "A"}
  BY HandlerTyped
<1>2. CASE Form = "RM"
  BY <1>2, ShapeRM DEF Effects
<1>3. CASE Form = "MR"
  BY <1>3, ShapeMR DEF Effects
<1>4. CASE Form = "M"
  BY <1>4, ShapeM DEF Effects
<1>5. CASE Form = "MI"
  BY <1>5, ShapeMI DEF Effects
<1>6. CASE Form = "I"
  BY <1>6, ShapeI DEF Effects
<1>7. CASE Form = "OI"
  BY <1>7, ShapeOI DEF Effects
<1>8. CASE Form = "MR8"
  BY <1>8, ShapeMR8 DEF Effects
<1>9. CASE Form = "AL"
  BY <1>9, ShapeAccumulator DEF Effects
<1>10. CASE Form = "A"
  BY <1>10, ShapeAccumulator DEF Effects
<1> QED
  BY <1>1, <1>2, <1>3, <1>4, <1>5, <1>6, <1>7, <1>8, <1>9, <1>10

-----------------------------------------------------------------------------
(* The specification *)

LEMMA StepShaped ==
  ASSUME Inv, Next
  PROVE  /\ Ready /\ state = "ready"
         /\ \E junk \in Residues :
              /\ Shaped(Effects(Form, junk))
              /\ registers' = Effects(Form, junk).registers
              /\ memory' = Effects(Form, junk).memory
              /\ state' = Effects(Form, junk).state
<1>1. \E junk \in Residues : Execute(Form, Effects(Form, junk))
  <2> USE DEF Effects
  <2>1. CASE ExecuteRM
    BY <2>1 DEF ExecuteRM, Execute
  <2>2. CASE ExecuteMR
    BY <2>2 DEF ExecuteMR, Execute
  <2>3. CASE ExecuteM
    BY <2>3 DEF ExecuteM, Execute
  <2>4. CASE ExecuteMI
    BY <2>4 DEF ExecuteMI, Execute
  <2>5. CASE ExecuteI
    BY <2>5 DEF ExecuteI, Execute
  <2>6. CASE ExecuteAccumulator
    BY <2>6 DEF ExecuteAccumulator, Execute
  <2> QED
    BY <2>1, <2>2, <2>3, <2>4, <2>5, <2>6 DEF Next
<1>2. Ready
  BY <1>1 DEF Inv, Execute
<1> QED
  BY <1>1, <1>2, EffectsShaped DEF Execute

LEMMA ShapedState ==
  ASSUME NEW o, Shaped(o)
  PROVE  /\ o.state \in {"next", "terminated"}
         /\ o.state = "terminated" => o = Terminate /\ Ends
<1>1. CASE Quiet(o)
  BY <1>1 DEF Quiet, Skip, Terminate, Outcome
<1>2. CASE InRegister(o)
  BY <1>2 DEF InRegister, ToRegister, Outcome
<1>3. CASE InMemoryRun(o)
  BY <1>3 DEF InMemoryRun, ToMemory, Skip, Outcome
<1> QED
  BY <1>1, <1>2, <1>3 DEF Shaped

LEMMA NextInv == Inv /\ [Next]_vars => Inv'
<1> SUFFICES ASSUME Inv, [Next]_vars PROVE Inv'
  OBVIOUS
<1>1. CASE Next
  BY <1>1, StepShaped, ShapedState DEF Inv
<1>2. CASE UNCHANGED vars
  <2>1. /\ registers' = registers /\ memory' = memory /\ inst' = inst
        /\ osize_signed' = osize_signed /\ state' = state
    BY <1>2 DEF vars
  <2>2. MODRM_MOD' = MODRM_MOD /\ MODRM_REG' = MODRM_REG /\ MODRM_RM' = MODRM_RM
    BY <2>1 DEF MODRM_MOD, MODRM_REG, MODRM_RM, ByteOfCode
  <2>3. opcode' = opcode
    BY <2>1 DEF opcode
  <2>4. Name' = Name
    BY <2>1, <2>2, <2>3 DEF Name, Plain, Groups, Upper
  <2> QED
    BY <2>1, <2>2, <2>4 DEF Inv, Ready
<1> QED
  BY <1>1, <1>2

LEMMA InvAlways == Spec => []Inv
BY InitInv, NextInv, PTL DEF Spec

(***************************************************************************)
(* What the stack held in an uninitialised Sib has an influence only if    *)
(* the SIB byte names neither a base nor an index (Sib.cpp:21-45, 69), for *)
(* every set of instructions, registers and memory.                        *)
(***************************************************************************)
THEOREM GarbageConfinedAlways == Spec => []GarbageOnlyWithoutIndexAndBase
BY InvAlways, GarbageConfined, PTL

LEMMA OneRegister ==
  ASSUME NEW o, InRegister(o)
  PROVE  /\ o.memory = memory
         /\ \A r \in DOMAIN registers : o.registers[r] # registers[r] => Changes(r)
BY DEF InRegister, ToRegister, Outcome

LEMMA OneRun ==
  ASSUME Ready, NEW addr \in Nat, NEW n \in {1, 8}, NEW v
  PROVE  LET o == ToMemory(addr, n, v) IN
         /\ o.registers = registers
         /\ \/ o.memory = memory
            \/ /\ addr \in DOMAIN memory
               /\ \A b \in DOMAIN memory : o.memory[b] # memory[b] => b \in addr .. addr + 7
<1>1. CASE ~Mapped(addr, n)
  BY <1>1 DEF ToMemory, Skip, Outcome
<1>2. CASE Mapped(addr, n)
  <2> DEFINE stored == [a \in DOMAIN memory |-> IF a \in addr .. addr + n - 1
                                                THEN (v \div Mod(a - addr)) % ByteMod ELSE memory[a]]
  <2>1. ToMemory(addr, n, v) = Outcome(registers, stored, "next")
    BY <1>2 DEF ToMemory
  <2>2. addr \in 0 .. Size - 1
    BY <1>2, OperandsAssumption, SMT DEF Mapped
  <2>3. addr \in DOMAIN memory
    BY <2>2 DEF Ready
  <2>4. \A b \in DOMAIN memory : stored[b] # memory[b] => b \in addr .. addr + n - 1
    OBVIOUS
  <2>5. \A b : b \in addr .. addr + n - 1 => b \in addr .. addr + 7
    BY SMT
  <2> HIDE DEF stored
  <2> QED
    BY <2>1, <2>3, <2>4, <2>5 DEF Outcome
<1> QED
  BY <1>1, <1>2

(***************************************************************************)
(* An instruction changes its own destination register and no memory, or   *)
(* at most eight bytes of memory in a row and no register.                 *)
(***************************************************************************)
THEOREM DestinationChanges == Spec => OnlyDestinationChanges
<1>1. ASSUME Inv, Next, NEW o, Shaped(o), registers' = o.registers, memory' = o.memory, Ready
      PROVE \/ /\ memory' = memory
               /\ \A r \in DOMAIN registers : registers'[r] # registers[r] => Changes(r)
            \/ /\ registers' = registers /\ InMemory /\ Stores
               /\ \E a \in DOMAIN memory : \A b \in DOMAIN memory :
                    memory'[b] # memory[b] => b \in a .. a + 7
  <2>1. CASE Quiet(o)
    BY <1>1, <2>1 DEF Quiet, Skip, Terminate, Outcome
  <2>2. CASE InRegister(o)
    BY <1>1, <2>2, OneRegister
  <2>3. CASE InMemoryRun(o)
    <3>1. PICK addr \in Nat, n \in {1, 8} : \E v : o = ToMemory(addr, n, v)
      BY <2>3 DEF InMemoryRun
    <3>2. PICK v : o = ToMemory(addr, n, v)
      BY <3>1
    <3>3. InMemory /\ Stores
      BY <2>3 DEF InMemoryRun
    <3>4. registers' = registers
      BY <1>1, <3>1, <3>2, OneRun
    <3>5. CASE o.memory = memory
      BY <1>1, <3>4, <3>5
    <3>6. CASE o.memory # memory
      <4>1. /\ addr \in DOMAIN memory
            /\ \A b \in DOMAIN memory : memory'[b] # memory[b] => b \in addr .. addr + 7
        BY <1>1, <3>1, <3>2, <3>6, OneRun
      <4> QED
        BY <3>3, <3>4, <4>1
    <3> QED
      BY <3>5, <3>6
  <2> QED
    BY <1>1, <2>1, <2>2, <2>3 DEF Shaped
<1>2. ASSUME Inv, Next
      PROVE \/ /\ memory' = memory
               /\ \A r \in DOMAIN registers : registers'[r] # registers[r] => Changes(r)
            \/ /\ registers' = registers /\ InMemory /\ Stores
               /\ \E a \in DOMAIN memory : \A b \in DOMAIN memory :
                    memory'[b] # memory[b] => b \in a .. a + 7
  <2>1. PICK junk \in Residues :
              /\ Shaped(Effects(Form, junk))
              /\ registers' = Effects(Form, junk).registers
              /\ memory' = Effects(Form, junk).memory
    BY <1>2, StepShaped
  <2>2. Ready
    BY <1>2, StepShaped
  <2> QED
    BY <1>1, <1>2, <2>1, <2>2
<1>3. Inv /\ Next =>
       \/ /\ memory' = memory
          /\ \A r \in DOMAIN registers :
               registers'[r] # registers[r] =>
                 \/ Form = "MR8" /\ r \in {Rm - 4, Rm, Rm % 4}
                 \/ Form # "MR8" /\ r = DestinationRegister
       \/ /\ registers' = registers /\ InMemory /\ Stores
          /\ \E a \in DOMAIN memory : \A b \in DOMAIN memory :
               memory'[b] # memory[b] => b \in a .. a + 7
  BY <1>2 DEF Changes
<1> QED
  BY <1>3, InvAlways, PTL DEF Spec, OnlyDestinationChanges, Executes

-----------------------------------------------------------------------------
(* Where an operand of memory is read *)

LEMMA DivMod ==
  ASSUME NEW n \in Int, NEW m \in Nat \ {0}
  PROVE  n \div m \in Int /\ n % m \in 0 .. m - 1 /\ n = m * (n \div m) + (n % m)
BY Z3

LEMMA ModUnique ==
  ASSUME NEW m \in Nat \ {0}, NEW q \in Int, NEW r \in 0 .. m - 1
  PROVE  (m * q + r) % m = r
BY Z3

LEMMA ModSum ==
  ASSUME NEW m \in Nat \ {0}, NEW a \in Int, NEW b \in Int
  PROVE  ((a % m) + b) % m = (a + b) % m
<1> DEFINE q == a \div m
           x == a % m
           p == (x + b) \div m
           r == (x + b) % m
<1>1. q \in Int /\ x \in Int /\ a = m * q + x
  BY DivMod
<1> HIDE DEF q, x
<1>2. x + b \in Int
  BY <1>1, SMT
<1>3. p \in Int /\ r \in 0 .. m - 1 /\ x + b = m * p + r
  BY <1>2, DivMod
<1> HIDE DEF p, r
<1>4. a + b = m * (q + p) + r
  BY <1>1, <1>3, Z3
<1>5. q + p \in Int
  BY <1>1, <1>3, SMT
<1>6. (m * (q + p) + r) % m = r
  BY <1>3, <1>5, ModUnique
<1> QED
  BY <1>4, <1>6 DEF r, x

LEMMA ModShrinks ==
  ASSUME NEW m \in Nat \ {0}, NEW x \in Nat
  PROVE  x % m <= x % (m * m)
<1> DEFINE n == m * m
           q == x \div n
           y == x % n
           p == y \div m
           r == y % m
<1>1. n \in Nat \ {0}
  BY ProductPositive
<1> HIDE DEF n
<1>2. q \in Int /\ y \in 0 .. n - 1 /\ x = n * q + y
  BY <1>1, DivMod
<1> HIDE DEF y, q
<1>3. y \in Nat
  BY <1>1, <1>2, SMT
<1>4. p \in Int /\ r \in 0 .. m - 1 /\ y = m * p + r
  BY <1>3, DivMod
<1>5. p >= 0
  BY <1>3, Z3
<1> HIDE DEF p, r
<1>6. r <= y
  BY <1>4, <1>5, Z3
<1>7. x = m * (m * q + p) + r
  BY <1>2, <1>4, Z3 DEF n
<1>8. m * q + p \in Int
  BY <1>2, <1>4, Z3
<1>9. (m * (m * q + p) + r) % m = r
  BY <1>4, <1>8, ModUnique
<1> QED
  BY <1>6, <1>7, <1>9 DEF y, n

LEMMA MovzxForm == Handlers["Movzx_0FB6"].form = "RM"
<1>1. "Movzx_0FB6" \in DOMAIN ExtendHandlers /\ ExtendHandlers["Movzx_0FB6"].form = "RM"
  BY DEF ExtendHandlers, HandlerOf
<1>2. /\ "Movzx_0FB6" \notin DOMAIN AddHandlers /\ "Movzx_0FB6" \notin DOMAIN OrHandlers
      /\ "Movzx_0FB6" \notin DOMAIN AndHandlers /\ "Movzx_0FB6" \notin DOMAIN SubHandlers
      /\ "Movzx_0FB6" \notin DOMAIN XorHandlers /\ "Movzx_0FB6" \notin DOMAIN MovHandlers
      /\ "Movzx_0FB6" \notin DOMAIN LeaHandlers /\ "Movzx_0FB6" \notin DOMAIN CompareHandlers
      /\ "Movzx_0FB6" \notin DOMAIN Dec_FF
  BY DEF AddHandlers, OrHandlers, AndHandlers, SubHandlers, XorHandlers, MovHandlers, LeaHandlers,
         CompareHandlers, Dec_FF
<1>3. "Movzx_0FB6" \in HandlerNames
  BY <1>1 DEF HandlerNames
<1>4. Handlers["Movzx_0FB6"] = ExtendHandlers["Movzx_0FB6"]
  BY <1>1, <1>2, <1>3 DEF Handlers
<1> QED
  BY <1>1, <1>4

LEMMA OneByteOpcode ==
  ASSUME Ready, Name # "Movzx_0FB6"
  PROVE  /\ inst.opcode_size = 1 /\ inst.pos_opcode \in Nat
         /\ TrueDispAt = inst.pos_opcode + (IF inst.p_sib THEN 3 ELSE 2)
<1>1. inst.opcode_size = 1 /\ inst.pos_opcode \in Nat
  BY InstructionTyped DEF Ready
<1> QED
  BY <1>1, SMT DEF TrueDispAt

LEMMA LoadsAreOneByte ==
  ASSUME Form # "RM"
  PROVE  Name # "Movzx_0FB6"
BY MovzxForm DEF Form, Handler

(* A displacement that is not negative is read as the architecture reads it. *)
LEMMA PlainDisplacement ==
  ASSUME Ready, ~NegativeDisplacement, InMemory, NEW pos \in Nat,
         TrueDispSize # 0 => pos = TrueDispAt
  PROVE  /\ SignExtended(Field(TrueDispAt, TrueDispSize), TrueDispSize) = Displacement(pos, TrueDispSize)
         /\ Displacement(pos, TrueDispSize) \in Nat
<1> DEFINE n == TrueDispSize
           v == Displacement(pos, n)
           m == Mod(n)
<1>1. n \in {0, 1, 4}
  BY DEF TrueDispSize
<1>2. Field(TrueDispAt, n) = v
  BY DEF Field, Displacement
<1>3. v \in Nat
  BY <1>1, DisplacementTyped
<1>4. m \in Nat \ {0}
  BY <1>1, PowersPositive, BytePositive
<1>5. n # 0 => v < m \div 2
  BY <1>2, <1>3, <1>4, SMT DEF NegativeDisplacement, Negative
<1>6. n # 0 => Cast(v, S(n)) = v
  <2> HIDE DEF v, m
  <2>1. v < m \div 2 => v % m = v /\ ~(v >= m \div 2)
    BY <1>3, <1>4, Z3
  <2> QED
    BY <1>5, <2>1 DEF Cast, S, m
<1>7. n = 0 => v = 0
  BY DEF Displacement
<1> QED
  BY <1>2, <1>3, <1>6, <1>7 DEF SignExtended

(* Apart from a carry out of a word, and the cut to 32 bits that the        *)
(* prefix 67 asks for, the operand is read where the architecture has it.   *)
LEMMA SumsOfAddress ==
  \A a, b \in Nat : /\ WrapAdd(WordMod, a, b) = (a + b) % WordMod
                    /\ WrapAdd(WordMod, a % WordMod, b) = (a + b) % WordMod
<1> SUFFICES ASSUME NEW a \in Nat, NEW b \in Nat
             PROVE  /\ WrapAdd(WordMod, a, b) = (a + b) % WordMod
                    /\ WrapAdd(WordMod, a % WordMod, b) = (a + b) % WordMod
  OBVIOUS
<1>1. a \in Int /\ b \in Int
  OBVIOUS
<1>2. ((a % WordMod) + b) % WordMod = (a + b) % WordMod
  BY <1>1, BytePositive, ModSum
<1> QED
  BY <1>2 DEF WrapAdd

LEMMA BareAddress ==
  ASSUME Ready, Based, ~NegativeDisplacement,
         NEW type, Cast(registers[Rm], type) = registers[Rm],
         NEW pos \in Nat, TrueDispSize # 0 => pos = TrueDispAt, NEW origin
  PROVE  /\ ModRMLocation(type, pos, origin).addr = FullAddress % WordMod
         /\ FullAddress \in Nat
<1> DEFINE disp == Displacement(pos, TrueDispSize)
<1>1. ~Relative /\ InMemory /\ ~inst.p_sib
  BY DEF Based
<1>2. SignExtended(Field(TrueDispAt, TrueDispSize), TrueDispSize) = disp /\ disp \in Nat
  BY <1>1, PlainDisplacement
<1>3. set_modrm_byte.rm = Rm /\ Rm # None /\ Rm \in 0 .. 15
  BY <1>1, ModRMFields, FieldsTyped DEF Relative, Rm
<1>4. set_modrm_byte.disp_size = TrueDispSize
  <2>1. set_modrm_byte.disp_size = DispSize /\ RmRegister # None
    BY <1>3, ModRMFields
  <2> QED
    BY <1>1, <2>1 DEF DispSize, TrueDispSize
<1>5. registers[Rm] \in Nat
  BY <1>3, RegistersTyped
<1>6. FullAddress = disp + registers[Rm]
  BY <1>1, <1>2 DEF FullAddress
<1>7. ModRMLocation(type, pos, origin).addr = WrapAdd(WordMod, registers[Rm], disp)
  BY <1>3, <1>4 DEF ModRMLocation
<1> HIDE DEF disp
<1>8. WrapAdd(WordMod, registers[Rm], disp) = (registers[Rm] + disp) % WordMod
  BY <1>2, <1>5, SumsOfAddress
<1>9. registers[Rm] + disp = disp + registers[Rm] /\ disp + registers[Rm] \in Nat
  BY <1>2, <1>5, SMT
<1> QED
  BY <1>6, <1>7, <1>8, <1>9

LEMMA SibAddress ==
  ASSUME Ready, InMemory, inst.p_sib, ~SibSlips, ~NegativeDisplacement, NEW junk \in Residues,
         TrueDispSize # 0 => inst.pos_opcode + 3 = TrueDispAt
  PROVE  LET s == set_sib_byte(junk)
             disp == Displacement(inst.pos_opcode + 3, s.disp_size)
         IN /\ s.kind = "memory"
            /\ WrapAdd(WordMod, s.calc, disp) = FullAddress % WordMod
            /\ FullAddress \in Nat
<1> DEFINE disp == Displacement(inst.pos_opcode + 3, TrueDispSize)
           s == set_sib_byte(junk)
           index == Extended("X", SIB_INDEX)
           scaled == SIB_SCALE * registers[index]
           base == IF SIB_BASE = 5 THEN 0 ELSE registers[Extended("B", SIB_BASE)]
           offset == IF SIB_INDEX = 4 THEN 0 ELSE scaled
<1>1. /\ SIB_BASE # 0 /\ (SIB_BASE = 5 => MODRM_MOD = 0)
      /\ SIB_INDEX = 4 => "X" \notin inst.rex /\ SIB_BASE # 5
  BY DEF SibSlips
<1>2. SignExtended(Field(TrueDispAt, TrueDispSize), TrueDispSize) = disp /\ disp \in Nat
  <2>1. inst.pos_opcode + 3 \in Nat
    BY InstructionTyped
  <2> QED
    BY <2>1, PlainDisplacement
<1>3. /\ SIB_SCALE \in Nat /\ SIB_INDEX \in 0 .. 7 /\ SIB_BASE \in 0 .. 7
      /\ index \in 0 .. 15 /\ Extended("B", SIB_BASE) \in 0 .. 15
  BY FieldsTyped
<1>4. scaled \in Nat /\ base \in Nat /\ offset \in Nat
  <2>1. \A x, y \in Nat : x * y \in Nat
    BY SMT
  <2>2. registers[index] \in Nat /\ registers[Extended("B", SIB_BASE)] \in Nat
    BY <1>3, RegistersTyped
  <2> QED
    BY <1>3, <2>1, <2>2
<1>5. index = 4 <=> SIB_INDEX = 4
  BY <1>1, <1>3, SMT DEF Extended
<1>6. DispSize = IF MODRM_MOD = 1 THEN 1 ELSE IF MODRM_MOD = 2 THEN 4 ELSE 0
  <2>1. RmRegister # None /\ MODRM_MOD \in 0 .. 3
    BY ModRMFields, FieldsTyped DEF Ready
  <2> QED
    BY <2>1 DEF DispSize
<1>7. TrueDispSize = IF SIB_BASE = 5 /\ MODRM_MOD = 0 THEN 4 ELSE DispSize
  BY <1>6 DEF TrueDispSize, Relative
<1>8. DispSize = 0 <=> MODRM_MOD = 0
  BY <1>6, FieldsTyped DEF Ready
<1>9. /\ s.kind = "memory" /\ s.disp_size = TrueDispSize
      /\ s.calc = (offset + base) % WordMod
  <2>1. CASE SIB_BASE = 5
    <3>1. /\ SIB_INDEX # 4 /\ DispSize = 0 /\ TrueDispSize = 4
      BY <1>1, <1>7, <1>8, <2>1
    <3>2. index # Wild
      BY <1>3, SMT DEF Wild
    <3>3. s = [kind |-> "memory", disp_size |-> 4, calc |-> scaled % WordMod]
      BY <2>1, <3>1, <3>2 DEF set_sib_byte
    <3>4. offset + base = scaled
      BY <1>4, <2>1, <3>1
    <3> HIDE DEF s, scaled, offset, base
    <3> QED
      BY <3>1, <3>3, <3>4
  <2>2. CASE SIB_BASE # 5
    <3>1. s = [kind |-> "memory", disp_size |-> DispSize, calc |-> (offset + base) % WordMod]
      BY <1>1, <2>2 DEF set_sib_byte
    <3> HIDE DEF s
    <3> QED
      BY <1>7, <2>2, <3>1
  <2> QED
    BY <2>1, <2>2
<1>10. FullAddress = disp + (base + offset)
  <2>1. (MODRM_MOD = 0 /\ SIB_BASE = 5) <=> SIB_BASE = 5
    BY <1>1
  <2>2. FullAddress =
          SignExtended(Field(TrueDispAt, TrueDispSize), TrueDispSize)
            + ((IF MODRM_MOD = 0 /\ SIB_BASE = 5 THEN 0 ELSE registers[Extended("B", SIB_BASE)])
                 + (IF index = 4 THEN 0 ELSE scaled))
    <3>1. ~Relative
      BY DEF Relative
    <3> QED
      BY <3>1 DEF FullAddress
  <2>3. base = IF MODRM_MOD = 0 /\ SIB_BASE = 5 THEN 0 ELSE registers[Extended("B", SIB_BASE)]
    BY <2>1
  <2>4. offset = IF index = 4 THEN 0 ELSE scaled
    BY <1>5
  <2> HIDE DEF disp, base, offset, scaled, index
  <2> QED
    BY <1>2, <2>2, <2>3, <2>4
<1> HIDE DEF disp, s, scaled, base, offset
<1>11. /\ offset + base \in Nat
       /\ (offset + base) + disp = disp + (base + offset)
       /\ disp + (base + offset) \in Nat
  BY <1>2, <1>4, SMT
<1>12. WrapAdd(WordMod, (offset + base) % WordMod, disp) = ((offset + base) + disp) % WordMod
  BY <1>2, <1>11, SumsOfAddress
<1> QED
  BY <1>9, <1>10, <1>11, <1>12 DEF s, disp

LEMMA RelativeAddress ==
  ASSUME Ready, Relative, ~NegativeDisplacement, NEW pos \in Nat, pos = TrueDispAt
  PROVE  LET disp == Displacement(pos, DispSize)
             next == WrapAdd(WordMod, registers[Rip], Len(inst.code))
         IN /\ RmRegister = None
            /\ WrapAdd(WordMod, next, disp) = FullAddress % WordMod
            /\ FullAddress \in Nat
<1> DEFINE disp == Displacement(pos, DispSize)
           rip == registers[Rip]
           len == Len(inst.code)
<1>1. InMemory /\ ~inst.p_sib
  BY DEF Relative
<1>2. RmRegister = None /\ TrueDispSize = DispSize
  <2>1. RmRegister = None /\ MODRM_MOD = 0
    BY <1>1, ModRMFields DEF Relative
  <2> QED
    BY <1>1, <2>1 DEF TrueDispSize, DispSize
<1>3. SignExtended(Field(TrueDispAt, TrueDispSize), TrueDispSize) = disp /\ disp \in Nat
  BY <1>1, <1>2, PlainDisplacement
<1>4. rip \in Nat /\ len \in Nat
  <2>1. inst.code \in Seq(0 .. 255)
    BY InstructionTyped
  <2> QED
    BY <2>1, ItemsOf, RegistersTyped
<1>5. FullAddress = disp + (rip + len)
  BY <1>1, <1>3 DEF FullAddress
<1> HIDE DEF disp, rip, len
<1>6. rip + len \in Nat /\ (rip + len) + disp = disp + (rip + len) /\ disp + (rip + len) \in Nat
  BY <1>3, <1>4, SMT
<1>7. /\ WrapAdd(WordMod, rip, len) = (rip + len) % WordMod
      /\ WrapAdd(WordMod, (rip + len) % WordMod, disp) = ((rip + len) + disp) % WordMod
  BY <1>3, <1>4, <1>6, SumsOfAddress
<1> QED
  BY <1>2, <1>5, <1>6, <1>7 DEF disp, rip, len

LEMMA AddressIsBelow ==
  ASSUME Ready, FullAddress \in Nat, NEW n \in Nat, ~Mapped(Address, n)
  PROVE  ~Mapped(FullAddress % WordMod, n)
<1> DEFINE x == FullAddress
           a == Mod(4)
<1>1. Address <= x % WordMod /\ Address \in Nat /\ x % WordMod \in Nat
  <2>1. x % WordMod \in Nat
    BY BytePositive, SMT
  <2>2. CASE inst.asize = 64
    <3>1. 64 \div 8 = 8
      BY SMT
    <3> QED
      BY <2>1, <2>2, <3>1, PowersPositive, SMT DEF Address
  <2>3. CASE inst.asize = 32
    <3>1. 32 \div 8 = 4
      BY SMT
    <3>2. a \in Nat \ {0} /\ WordMod = a * a
      BY PowersPositive DEF Mod, Powers
    <3>3. Address = x % a
      BY <2>3, <3>1 DEF Address
    <3> HIDE DEF x, a
    <3>4. x \in Nat
      BY DEF x
    <3>5. x % a <= x % (a * a)
      BY <3>2, <3>4, ModShrinks
    <3>6. x % a \in Nat
      BY <3>2, <3>4, SMT
    <3> QED
      BY <2>1, <3>2, <3>3, <3>5, <3>6
  <2> QED
    BY <2>2, <2>3, InstructionTyped
<1> HIDE DEF x
<1> QED
  BY <1>1, OperandsAssumption, SMT DEF Mapped, x

LEMMA MissedEnds ==
  ASSUME NEW loc, NEW type, NEW outcome,
         loc.kind = "wild" \/ (loc.kind = "memory" /\ ~Mapped(loc.addr, type.bytes))
  PROVE  \A missed : OnMemory(loc, type, missed, outcome) \in {missed, Terminate}
BY DEF OnMemory

Unnoticed == Form = "MR" /\ TrueDispSize = 0 /\ ~inst.p_sib /\ inst.osize # 64

LEMMA FaultEnds ==
  ASSUME Ready, Faults, ~Misread, Form \in {"MR", "M", "MR8"}, NEW junk \in Residues
  PROVE  Effects(Form, junk) = Terminate \/ (Unnoticed /\ Effects(Form, junk) = Skip)
<1> DEFINE m == set_modrm_byte
           bare == ModRMLocation(Dst, inst.pos_opcode + 2, 0)
           sib == SibLocation(junk)
           n == IF Form = "MR8" THEN 1 ELSE Dst.bytes
<1>1. InMemory /\ m.is_addr
  BY ModRMFields DEF Faults, InMemory
<1>2. WideSource = n /\ n \in Nat /\ U(1).bytes = 1
  <2>1. Form # "MR8" => Dst = U(inst.osize \div 8) /\ inst.osize \div 8 \in Nat
    <3>1. 16 \div 8 = 2 /\ 32 \div 8 = 4 /\ 64 \div 8 = 8
      BY SMT
    <3> QED
      BY <3>1, HandlerTyped, InstructionTyped
  <2> QED
    BY <2>1 DEF WideSource, Wide, U
<1>3. FullAddress \in Nat => ~Mapped(FullAddress % WordMod, n)
  BY <1>2, AddressIsBelow DEF Faults
<1>0. /\ inst.pos_opcode + (IF inst.p_sib THEN 3 ELSE 2) = TrueDispAt
      /\ inst.pos_opcode + 2 \in Nat
      /\ ~SibSlips /\ ~NegativeDisplacement
      /\ Form # "MR8" /\ ~inst.p_sib => Based /\ Cast(registers[Rm], Dst) = registers[Rm]
      /\ Form = "MR8" /\ ~inst.p_sib => Relative
  <2>1. Name # "Movzx_0FB6"
    BY LoadsAreOneByte
  <2>2. inst.pos_opcode + 2 \in Nat
    BY InstructionTyped
  <2> QED
    BY <1>1, <2>1, <2>2, OneByteOpcode DEF Misread, NotRelative, BaseIsCast, Based
<1>4. inst.p_sib => sib.kind = "wild" \/ (sib.kind = "memory" /\ ~Mapped(sib.addr, n))
  <2>1. inst.p_sib => /\ sib.kind \in {"memory", "wild"}
                      /\ sib.addr = FullAddress % WordMod /\ FullAddress \in Nat
    BY <1>0, <1>1, SibAddress DEF SibLocation, Reached
  <2> QED
    BY <1>3, <2>1
<1>5. Form # "MR8" /\ ~inst.p_sib =>
        bare.kind = "wild" \/ (bare.kind = "memory" /\ ~Mapped(bare.addr, n))
  <2>1. Form # "MR8" /\ ~inst.p_sib =>
          /\ bare.addr = FullAddress % WordMod /\ FullAddress \in Nat
    BY <1>0, BareAddress
  <2>2. bare.kind \in {"memory", "wild"}
    BY DEF ModRMLocation, Reached
  <2> QED
    BY <1>3, <2>1, <2>2
<1>6. CASE Form = "MR"
  <2> DEFINE missed == IF m.disp_size = 0 /\ inst.osize # 64 THEN Skip ELSE Terminate
  <2>1. inst.p_sib => InstrMR(junk) = Terminate
    BY <1>1, <1>2, <1>4, <1>6, MissedEnds DEF InstrMR, SibMR, MemoryMR
  <2>2. ~inst.p_sib => InstrMR(junk) \in {missed, Terminate}
    BY <1>1, <1>2, <1>5, <1>6, MissedEnds DEF InstrMR, BareMR, MemoryMR
  <2>3. ~inst.p_sib => m.disp_size = TrueDispSize
    <3>1. m.disp_size = DispSize /\ (RmRegister = None <=> MODRM_MOD = 0 /\ MODRM_RM = 5)
      BY ModRMFields
    <3> QED
      BY <1>1, <3>1 DEF DispSize, TrueDispSize, Relative
  <2> QED
    BY <1>6, <2>1, <2>2, <2>3 DEF Effects, Unnoticed
<1>7. CASE Form = "M"
  <2>1. inst.p_sib => InstrM(junk) = Terminate
    BY <1>1, <1>2, <1>4, <1>7, MissedEnds DEF InstrM, SibM, MemoryM
  <2>2. ~inst.p_sib => InstrM(junk) = Terminate
    BY <1>1, <1>2, <1>5, <1>7, MissedEnds DEF InstrM, BareM, MemoryM
  <2> QED
    BY <1>7, <2>1, <2>2 DEF Effects
<1>8. CASE Form = "MR8"
  <2> DEFINE s == set_sib_byte(junk)
             disp == Displacement(inst.pos_opcode + 2, m.disp_size)
             to == ByteOperand(m.rm)
             At(base) == [kind |-> Reached("memory", inst.pos_opcode + 2, m.disp_size),
                          addr |-> WrapAdd(WordMod, base, disp)]
             ReadAt == CASE inst.p_sib -> sib
                         [] ~inst.p_sib /\ m.rm = None ->
                              At(WrapAdd(WordMod, registers[Rip], Len(inst.code)))
                         [] OTHER -> At(get_byte_register(to.value, to.high))
  <2>1. \E stored : InstrMR8(junk) = OnMemory(ReadAt, U(1), Terminate, stored)
    BY <1>1 DEF InstrMR8
  <2>2. CASE inst.p_sib
    <3>2. ReadAt = sib
      BY <2>2
    <3> HIDE DEF ReadAt, sib
    <3>3. ReadAt.kind = "wild" \/ (ReadAt.kind = "memory" /\ ~Mapped(ReadAt.addr, 1))
      BY <1>4, <1>8, <2>2, <3>2
    <3> QED
      BY <1>2, <1>8, <2>1, <3>3, MissedEnds DEF Effects
  <2>3. CASE ~inst.p_sib
    <3>1. /\ m.rm = None /\ m.disp_size = DispSize
      BY <1>0, <1>8, <2>3, RelativeAddress, ModRMFields
    <3>2. /\ WrapAdd(WordMod, WrapAdd(WordMod, registers[Rip], Len(inst.code)), disp) = FullAddress % WordMod
          /\ FullAddress \in Nat
      BY <1>0, <1>8, <2>3, <3>1, RelativeAddress
    <3>3. ReadAt = At(WrapAdd(WordMod, registers[Rip], Len(inst.code)))
      BY <2>3, <3>1
    <3>4. ReadAt.kind \in {"memory", "wild"} /\ ReadAt.addr = FullAddress % WordMod
      BY <3>2, <3>3 DEF Reached
    <3> HIDE DEF ReadAt
    <3>5. ~Mapped(ReadAt.addr, 1)
      BY <1>3, <1>8, <3>2, <3>4
    <3> QED
      BY <1>2, <1>8, <2>1, <3>4, <3>5, MissedEnds DEF Effects
  <2> QED
    BY <2>2, <2>3
<1> QED
  BY <1>6, <1>7, <1>8

(***************************************************************************)
(* A failed read, code that ends before its displacement does and MOVZX's  *)
(* lookup of a register that is not set are all that ends the emulator;    *)
(* they change nothing.  Where the architecture faults the templates that  *)
(* read before they store end, or go on without an effect for 16 and 32    *)
(* bits through a bare register.                                           *)
(***************************************************************************)
THEOREM FailedLoad == Spec => FailedLoadChangesNothing
<1>1. ASSUME Inv, Next
      PROVE /\ state' = "terminated" => registers' = registers /\ memory' = memory /\ Ends
            /\ Faults /\ ~Misread /\ Form \in {"MR", "M", "MR8"} =>
                 \/ state' = "terminated"
                 \/ Unnoticed /\ registers' = registers /\ memory' = memory
  <2>1. PICK junk \in Residues :
              /\ Shaped(Effects(Form, junk))
              /\ registers' = Effects(Form, junk).registers
              /\ memory' = Effects(Form, junk).memory
              /\ state' = Effects(Form, junk).state
    BY <1>1, StepShaped
  <2>2. Ready
    BY <1>1, StepShaped
  <2>3. state' = "terminated" => Effects(Form, junk) = Terminate /\ Ends
    BY <2>1, ShapedState
  <2>4. /\ Terminate.registers = registers /\ Terminate.memory = memory
        /\ Skip.registers = registers /\ Skip.memory = memory /\ Terminate.state = "terminated"
    BY DEF Terminate, Skip, Outcome
  <2>5. Faults /\ ~Misread /\ Form \in {"MR", "M", "MR8"} =>
          Effects(Form, junk) = Terminate \/ (Unnoticed /\ Effects(Form, junk) = Skip)
    BY <2>2, FaultEnds
  <2> QED
    BY <2>1, <2>3, <2>4, <2>5
<1>2. Inv /\ Next =>
       /\ state' = "terminated" =>
            /\ UNCHANGED <<registers, memory>>
            /\ InMemory \/ Name = "Movzx_0FB6"
            /\ Form \in {"RM", "MI"} =>
                 DisplacementMissing \/ Name = "Movzx_0FB6" \/ (inst.p_sib /\ SIB_BASE = 5)
       /\ Faults /\ ~Misread /\ Form \in {"MR", "M", "MR8"} =>
            \/ state' = "terminated"
            \/ /\ Form = "MR" /\ TrueDispSize = 0 /\ ~inst.p_sib /\ inst.osize # 64
               /\ UNCHANGED <<registers, memory>>
  BY <1>1 DEF Ends, Unnoticed
<1> QED
  BY <1>2, InvAlways, PTL DEF Spec, FailedLoadChangesNothing, Executes

-----------------------------------------------------------------------------
(* Bytes of a word *)

LEMMA PowersByByte ==
  /\ \A k \in 0 .. 8 : Mod(k) \in Nat \ {0}
  /\ \A k \in 0 .. 7 : Mod(k + 1) = ByteMod * Mod(k)
  /\ \A n \in Widths : \E q \in Nat \ {0} : WordMod = Mod(n) * q
<1> DEFINE b == ByteMod
           c == b * b
           q == b * b * b * b
<1>1. b \in Nat \ {0}
  BY BytePositive
<1>2. /\ Mod(0) = 1 /\ Mod(1) = b /\ Mod(2) = b * b /\ Mod(3) = b * b * b
      /\ Mod(4) = q /\ Mod(5) = q * b /\ Mod(6) = q * b * b /\ Mod(7) = q * b * b * b
      /\ Mod(8) = q * q
  BY DEF Mod, Powers
<1> HIDE DEF b
<1>3. \A x, y \in Nat \ {0} : x * y \in Nat \ {0} /\ x * y = y * x
  BY SMT
<1>4. \A x, y, z \in Nat \ {0} : (x * y) * z = x * (y * z)
  BY Z3
<1>5. /\ b * b \in Nat \ {0} /\ b * b * b \in Nat \ {0} /\ q \in Nat \ {0}
  BY <1>1, <1>3
<1>6. q * b \in Nat \ {0} /\ q * b * b \in Nat \ {0} /\ q * b * b * b \in Nat \ {0}
  <2> HIDE DEF q
  <2> QED
    BY <1>1, <1>3, <1>5
<1>7. q * q \in Nat \ {0} /\ q * q = q * b * b * b * b
  <2>1. b * b * b * b = b * (b * (b * b))
    BY <1>1, <1>4, <1>5
  <2>2. q * (b * (b * (b * b))) = q * b * b * b * b
    <3> HIDE DEF q
    <3> QED
      BY <1>1, <1>4, <1>5, <1>6
  <2>3. q * q = q * (b * b * b * b)
    OBVIOUS
  <2>4. q * q \in Nat \ {0}
    BY <1>3, <1>5
  <2> HIDE DEF q
  <2> QED
    BY <2>1, <2>2, <2>3, <2>4
<1>8. \A k \in 0 .. 8 : Mod(k) \in Nat \ {0}
  <2>1. \A k \in 0 .. 8 : k \in {0, 1, 2, 3, 4, 5, 6, 7, 8}
    BY SMT
  <2> HIDE DEF q
  <2> QED
    BY <1>1, <1>2, <1>5, <1>6, <1>7, <2>1
<1>9. \A k \in 0 .. 7 : Mod(k + 1) = b * Mod(k)
  <2> SUFFICES ASSUME NEW k \in 0 .. 7 PROVE Mod(k + 1) = b * Mod(k)
    OBVIOUS
  <2>1. b * 1 = b
    BY <1>1, SMT
  <2>2. Mod(k + 1) = Mod(k) * b \/ (k = 0 /\ Mod(k + 1) = b)
    <3>1. k \in {0, 1, 2, 3, 4, 5, 6, 7}
      BY SMT
    <3>2. 0 + 1 = 1 /\ 1 + 1 = 2 /\ 2 + 1 = 3 /\ 3 + 1 = 4 /\ 4 + 1 = 5 /\ 5 + 1 = 6 /\ 6 + 1 = 7 /\ 7 + 1 = 8
      BY SMT
    <3>3. Mod(4) = b * b * b * b /\ Mod(8) = q * b * b * b * b
      BY <1>2, <1>7
    <3> HIDE DEF q
    <3> QED
      BY <1>2, <3>1, <3>2, <3>3
  <2>3. Mod(k) \in Nat \ {0}
    BY <1>8
  <2> QED
    BY <1>1, <1>2, <1>3, <2>1, <2>2, <2>3
<1>10. \A n \in Widths : \E p \in Nat \ {0} : WordMod = Mod(n) * p
  <2>1. WordMod = q * q
    BY <1>2, OperandsAssumption
  <2>2. q * q = b * (q * b * b * b) /\ q * q = (b * b) * (q * b * b)
    <3> HIDE DEF q
    <3>1. q * b * b * b * b = (q * b * b * b) * b
      OBVIOUS
    <3>2. (q * b * b * b) * b = b * (q * b * b * b)
      BY <1>1, <1>3, <1>6
    <3>3. (q * b * b) * (b * b) = q * b * b * b * b
      BY <1>1, <1>4, <1>5, <1>6
    <3>4. (q * b * b) * (b * b) = (b * b) * (q * b * b)
      BY <1>3, <1>5, <1>6
    <3> QED
      BY <1>7, <3>1, <3>2, <3>3, <3>4
  <2>3. q * q = (q * q) * 1
    <3> HIDE DEF q
    <3> QED
      BY <1>5, <1>7, SMT
  <2>4. 1 \in Nat \ {0}
    OBVIOUS
  <2> HIDE DEF q
  <2>5. /\ WordMod = Mod(1) * (q * b * b * b) /\ WordMod = Mod(2) * (q * b * b)
        /\ WordMod = Mod(4) * q /\ WordMod = Mod(8) * 1
    BY <1>2, <2>1, <2>2, <2>3
  <2> QED
    BY <1>5, <1>6, <2>4, <2>5 DEF Widths
<1> QED
  BY <1>8, <1>9, <1>10 DEF b

LEMMA StepOfNumber ==
  ASSUME NEW l \in Nat, NEW M \in Nat \ {0}, NEW B \in Nat \ {0}, NEW d \in 0 .. B - 1, NEW t \in Nat, l < M
  PROVE  /\ l + M * (d + B * t) = (l + d * M) + (B * M) * t
         /\ l + d * M < B * M /\ l + d * M \in Nat
<1>1. M * (d + B * t) = M * d + M * (B * t) /\ M * (B * t) = (B * M) * t /\ M * d = d * M
  BY Z3
<1>2. d * M + M <= B * M
  <2>1. d + 1 <= B
    BY SMT
  <2>2. (d + 1) * M <= B * M
    BY <2>1, Z3
  <2>3. (d + 1) * M = d * M + M
    BY Z3
  <2> QED
    BY <2>2, <2>3
<1>3. d * M \in Nat /\ B * M \in Nat /\ (B * M) * t \in Nat /\ M * d \in Nat
  BY Z3
<1> DEFINE x == d * M
           y == B * M
           z == (B * M) * t
<1> HIDE DEF x, y, z
<1>4. l + M * (d + B * t) = l + (x + z)
  BY <1>1 DEF x, z
<1>5. x + M <= y /\ x \in Nat /\ y \in Nat /\ z \in Nat
  BY <1>2, <1>3 DEF x, y, z
<1>6. l + (x + z) = (l + x) + z /\ l + x < y /\ l + x \in Nat
  BY <1>5, SMT
<1> QED
  BY <1>4, <1>6 DEF x, y, z

LEMMA DigitOfNumber ==
  ASSUME NEW l \in Nat, NEW M \in Nat \ {0}, NEW B \in Nat \ {0}, NEW d \in 0 .. B - 1, NEW t \in Nat, l < M
  PROVE  ((l + M * (d + B * t)) \div M) % B = d
<1> DEFINE u == d + B * t
           v == l + M * u
<1>1. B * t \in Nat
  BY Z3
<1>2. u \in Nat
  BY <1>1, SMT
<1>3. u % B = d
  <2>1. t \in Int /\ d \in Int
    BY SMT
  <2>2. (B * t + d) % B = d
    BY <2>1, ModUnique
  <2>3. B * t + d = d + B * t
    BY <1>1, <2>1, SMT
  <2> QED
    BY <2>2, <2>3
<1> HIDE DEF u
<1>4. v \div M = u
  <2>1. v = u * M + l
    BY <1>2, Z3
  <2> QED
    BY <1>2, <2>1, Z3
<1> QED
  BY <1>3, <1>4 DEF u

(* A number, the part of it below the k-th byte and the rest of its bytes. *)
Split(x, k, low, rest) == low \in Nat /\ rest \in Nat /\ low < Mod(k) /\ x = low + Mod(k) * rest

(* a byte and those above it *)
Above(d, t) == d + ByteMod * t

NextOf(k, next, low, higher, d, rest, t) ==
  next = k + 1 /\ higher = low + d * Mod(k) /\ rest = Above(d, t)

LEMMA NextByte ==
  ASSUME NEW x, NEW k \in 0 .. 7, NEW next, NEW low, NEW higher, NEW d \in Word(ByteMod),
         NEW rest, NEW t \in Nat, NextOf(k, next, low, higher, d, rest, t), Split(x, k, low, rest)
  PROVE  Split(x, next, higher, t) /\ (x \div Mod(k)) % ByteMod = d
<1>1. Mod(k) \in Nat \ {0} /\ ByteMod \in Nat \ {0} /\ Mod(k + 1) = ByteMod * Mod(k)
  BY PowersByByte, BytePositive
<1>2. d \in 0 .. ByteMod - 1
  BY DEF Word
<1>3. low \in Nat /\ low < Mod(k) /\ x = low + Mod(k) * (d + ByteMod * t)
  BY DEF Split, NextOf, Above
<1>4. /\ low + Mod(k) * (d + ByteMod * t) = (low + d * Mod(k)) + (ByteMod * Mod(k)) * t
      /\ low + d * Mod(k) < ByteMod * Mod(k) /\ low + d * Mod(k) \in Nat
  BY <1>1, <1>2, <1>3, StepOfNumber
<1>5. ((low + Mod(k) * (d + ByteMod * t)) \div Mod(k)) % ByteMod = d
  BY <1>1, <1>2, <1>3, DigitOfNumber
<1> QED
  BY <1>1, <1>3, <1>4, <1>5 DEF Split, NextOf

LEMMA BytesOfNumber ==
  ASSUME NEW d \in [0 .. 7 -> Word(ByteMod)]
  PROVE  /\ \A k \in 0 .. 7 : (LittleEndian(d) \div Mod(k)) % ByteMod = d[k]
         /\ LittleEndian(d) \in Nat /\ LittleEndian(d) < WordMod
         /\ \A n \in Widths : (\A k \in n .. 7 : d[k] = 0) => LittleEndian(d) < Mod(n)
<1> DEFINE b == ByteMod
           t8 == 0
           t7 == Above(d[7], t8)
           t6 == Above(d[6], t7)
           t5 == Above(d[5], t6)
           t4 == Above(d[4], t5)
           t3 == Above(d[3], t4)
           t2 == Above(d[2], t3)
           t1 == Above(d[1], t2)
           t0 == Above(d[0], t1)
           l0 == 0
           l1 == l0 + d[0] * Mod(0)
           l2 == l1 + d[1] * Mod(1)
           l3 == l2 + d[2] * Mod(2)
           l4 == l3 + d[3] * Mod(3)
           l5 == l4 + d[4] * Mod(4)
           l6 == l5 + d[5] * Mod(5)
           l7 == l6 + d[6] * Mod(6)
           l8 == l7 + d[7] * Mod(7)
<1>1. \A k \in 0 .. 7 : d[k] \in Word(b) /\ d[k] \in Nat
  BY DEF Word
<1>2. \A x, t \in Nat : Above(x, t) \in Nat
  BY BytePositive, SMT DEF Above
<1>3. LittleEndian(d) = l8
  <2>1. l1 = d[0]
    <3>1. Mod(0) = 1 /\ d[0] \in Nat
      BY <1>1, PowersPositive
    <3> QED
      BY <3>1, SMT
  <2> HIDE DEF l1
  <2> QED
    BY <2>1 DEF LittleEndian
<1>4. 0 + 1 = 1 /\ 1 + 1 = 2 /\ 2 + 1 = 3 /\ 3 + 1 = 4 /\ 4 + 1 = 5 /\ 5 + 1 = 6 /\ 6 + 1 = 7 /\ 7 + 1 = 8
  BY SMT
<1>5. t8 \in Nat
  OBVIOUS
<1>6. t7 \in Nat
  BY <1>1, <1>2, <1>5
<1>7. t6 \in Nat
  BY <1>1, <1>2, <1>6
<1>8. t5 \in Nat
  BY <1>1, <1>2, <1>7
<1>9. t4 \in Nat
  BY <1>1, <1>2, <1>8
<1>10. t3 \in Nat
  BY <1>1, <1>2, <1>9
<1>11. t2 \in Nat
  BY <1>1, <1>2, <1>10
<1>12. t1 \in Nat
  BY <1>1, <1>2, <1>11
<1>13. t0 \in Nat
  BY <1>1, <1>2, <1>12
<1> HIDE DEF t0, t1, t2, t3, t4, t5, t6, t7, t8, b, l0, l1, l2, l3, l4, l5, l6, l7, l8
<1>20. Split(t0, 0, l0, t0)
  <2>1. t0 = 0 + 1 * t0 /\ 0 < 1
    BY <1>13, SMT
  <2> QED
    BY <1>13, <2>1, PowersPositive DEF Split, l0
<1>21. Split(t0, 1, l1, t1) /\ (t0 \div Mod(0)) % b = d[0]
  <2>1. NextOf(0, 1, l0, l1, d[0], t0, t1)
    BY <1>4 DEF NextOf, t0, l1, b
  <2> QED
    BY <1>1, <1>12, <1>20, <2>1, NextByte DEF b
<1>22. Split(t0, 2, l2, t2) /\ (t0 \div Mod(1)) % b = d[1]
  <2>1. NextOf(1, 2, l1, l2, d[1], t1, t2)
    BY <1>4 DEF NextOf, t1, l2, b
  <2> QED
    BY <1>1, <1>11, <1>21, <2>1, NextByte DEF b
<1>23. Split(t0, 3, l3, t3) /\ (t0 \div Mod(2)) % b = d[2]
  <2>1. NextOf(2, 3, l2, l3, d[2], t2, t3)
    BY <1>4 DEF NextOf, t2, l3, b
  <2> QED
    BY <1>1, <1>10, <1>22, <2>1, NextByte DEF b
<1>24. Split(t0, 4, l4, t4) /\ (t0 \div Mod(3)) % b = d[3]
  <2>1. NextOf(3, 4, l3, l4, d[3], t3, t4)
    BY <1>4 DEF NextOf, t3, l4, b
  <2> QED
    BY <1>1, <1>9, <1>23, <2>1, NextByte DEF b
<1>25. Split(t0, 5, l5, t5) /\ (t0 \div Mod(4)) % b = d[4]
  <2>1. NextOf(4, 5, l4, l5, d[4], t4, t5)
    BY <1>4 DEF NextOf, t4, l5, b
  <2> QED
    BY <1>1, <1>8, <1>24, <2>1, NextByte DEF b
<1>26. Split(t0, 6, l6, t6) /\ (t0 \div Mod(5)) % b = d[5]
  <2>1. NextOf(5, 6, l5, l6, d[5], t5, t6)
    BY <1>4 DEF NextOf, t5, l6, b
  <2> QED
    BY <1>1, <1>7, <1>25, <2>1, NextByte DEF b
<1>27. Split(t0, 7, l7, t7) /\ (t0 \div Mod(6)) % b = d[6]
  <2>1. NextOf(6, 7, l6, l7, d[6], t6, t7)
    BY <1>4 DEF NextOf, t6, l7, b
  <2> QED
    BY <1>1, <1>6, <1>26, <2>1, NextByte DEF b
<1>28. Split(t0, 8, l8, t8) /\ (t0 \div Mod(7)) % b = d[7]
  <2>1. NextOf(7, 8, l7, l8, d[7], t7, t8)
    BY <1>4 DEF NextOf, t7, l8, b
  <2> QED
    BY <1>1, <1>5, <1>27, <2>1, NextByte DEF b
<1>29. \A k, low : Split(t0, k, low, t8) /\ k \in 0 .. 8 => t0 = low /\ t0 < Mod(k)
  <2>1. \A x, m \in Nat : x + m * 0 = x
    BY SMT
  <2> QED
    BY <2>1, PowersByByte DEF Split, t8
<1>30. t0 = LittleEndian(d) /\ t0 < WordMod
  BY <1>3, <1>28, <1>29, PowersPositive
<1>31. \A k \in 0 .. 7 : (t0 \div Mod(k)) % b = d[k]
  <2>1. \A k \in 0 .. 7 : k \in {0, 1, 2, 3, 4, 5, 6, 7}
    BY SMT
  <2> QED
    BY <1>21, <1>22, <1>23, <1>24, <1>25, <1>26, <1>27, <1>28, <2>1
<1>32. ASSUME NEW n \in Widths, \A k \in n .. 7 : d[k] = 0 PROVE t0 < Mod(n)
  <2>1. Above(0, 0) = 0
    BY BytePositive, SMT DEF Above
  <2>2. t8 = 0
    BY DEF t8
  <2>3. CASE n = 8
    BY <1>28, <1>29, <2>3
  <2>4. CASE n \in {1, 2, 4}
    <3>1. t7 = 0 /\ t6 = 0 /\ t5 = 0 /\ t4 = 0
      <4>1. d[7] = 0 /\ d[6] = 0 /\ d[5] = 0 /\ d[4] = 0
        BY <1>32, <2>4, SMT
      <4> QED
        BY <2>1, <2>2, <4>1 DEF t7, t6, t5, t4
    <3>2. n \in {1, 2} => t3 = 0 /\ t2 = 0
      <4>1. n \in {1, 2} => d[3] = 0 /\ d[2] = 0
        BY <1>32, <2>4, SMT
      <4> QED
        BY <2>1, <3>1, <4>1 DEF t3, t2
    <3>3. n = 1 => t1 = 0
      <4>1. n = 1 => d[1] = 0
        BY <1>32, <2>4, SMT
      <4> QED
        BY <2>1, <3>2, <4>1 DEF t1
    <3> QED
      BY <1>21, <1>22, <1>24, <1>29, <2>2, <2>4, <3>1, <3>2, <3>3
  <2> QED
    BY <2>3, <2>4 DEF Widths
<1> QED
  BY <1>13, <1>30, <1>31, <1>32 DEF b

LEMMA ModOfProduct ==
  ASSUME NEW m \in Nat \ {0}, NEW k \in Nat \ {0}, NEW x \in Int
  PROVE  (x % (m * k)) % m = x % m
<1> DEFINE n == m * k
           q == x \div n
           r == x % n
           p == r \div m
           s == r % m
<1>1. n \in Nat \ {0}
  BY ProductPositive
<1> HIDE DEF n
<1>2. q \in Int /\ r \in Int /\ x = n * q + r
  BY <1>1, DivMod, SMT
<1> HIDE DEF q, r
<1>3. p \in Int /\ s \in 0 .. m - 1 /\ r = m * p + s
  BY <1>2, DivMod
<1> HIDE DEF p, s
<1>4. x = m * (k * q + p) + s
  BY <1>2, <1>3, Z3 DEF n
<1>5. k * q + p \in Int
  BY <1>2, <1>3, Z3
<1>6. (m * (k * q + p) + s) % m = s
  BY <1>3, <1>5, ModUnique
<1> QED
  BY <1>4, <1>6 DEF s, r, n

LEMMA SmallMod ==
  ASSUME NEW m \in Nat \ {0}, NEW x \in Nat, x < m
  PROVE  x % m = x
BY SMT

-----------------------------------------------------------------------------
(* Casts *)

LEMMA Below ==
  ASSUME NEW n \in Widths
  PROVE  /\ Mod(n) \in Nat \ {0} /\ Mod(n) <= WordMod
         /\ \A x \in Int : x % Mod(n) \in 0 .. Mod(n) - 1 /\ (x % WordMod) % Mod(n) = x % Mod(n)
         /\ \A x \in 0 .. Mod(n) - 1 : x % Mod(n) = x
<1> DEFINE m == Mod(n)
<1>1. PICK q \in Nat \ {0} : WordMod = m * q
  BY PowersByByte
<1>2. m \in Nat \ {0}
  BY PowersByByte DEF Widths
<1> HIDE DEF m
<1>3. m <= WordMod
  BY <1>1, <1>2, Z3
<1>4. \A x \in Int : x % m \in 0 .. m - 1
  BY <1>2, SMT
<1>5. \A x \in Int : (x % WordMod) % m = x % m
  BY <1>1, <1>2, ModOfProduct
<1>6. \A x \in 0 .. m - 1 : x % m = x
  BY <1>2, SMT
<1> QED
  BY <1>2, <1>3, <1>4, <1>5, <1>6 DEF m

LEMMA CastUnsigned ==
  ASSUME NEW v, NEW n
  PROVE  Cast(v, U(n)) = v % Mod(n)
BY DEF Cast, U

LEMMA CastSigned ==
  ASSUME NEW v, NEW n
  PROVE  Cast(v, S(n)) = IF v % Mod(n) >= Mod(n) \div 2 THEN ((v % Mod(n)) - Mod(n)) % WordMod ELSE v % Mod(n)
BY DEF Cast, S

LEMMA ModMinus ==
  ASSUME NEW m \in Nat \ {0}, NEW x \in 0 .. m - 1
  PROVE  (x - m) % m = x
<1>1. (m * (-1) + x) % m = x
  BY ModUnique
<1>2. m * (-1) + x = x - m
  BY SMT
<1> QED
  BY <1>1, <1>2

LEMMA CastModulo ==
  ASSUME NEW v \in Int, NEW n \in Widths
  PROVE  /\ Cast(v, U(n)) % Mod(n) = v % Mod(n) /\ Cast(v, S(n)) % Mod(n) = v % Mod(n)
         /\ Cast(v, U(n)) \in Word(WordMod) /\ Cast(v, S(n)) \in Word(WordMod)
<1> DEFINE m == Mod(n)
           x == v % m
           y == (x - m) % WordMod
<1>1. /\ m \in Nat \ {0} /\ x \in 0 .. m - 1 /\ x % m = x /\ x \in Int /\ m <= WordMod
  BY Below
<1>2. y % m = x /\ y \in Word(WordMod)
  <2>1. x - m \in Int
    BY <1>1
  <2>2. y % m = (x - m) % m
    BY <2>1, Below
  <2>3. (x - m) % m = x
    <3> HIDE DEF x, m
    <3> QED
      BY <1>1, ModMinus
  <2>4. y \in 0 .. WordMod - 1
    <3> HIDE DEF x, m
    <3> QED
      BY <2>1, BytePositive, SMT
  <2> QED
    BY <2>2, <2>3, <2>4 DEF Word
<1>3. x \in Word(WordMod)
  <2> HIDE DEF x, m
  <2> QED
    BY <1>1, BytePositive, SMT DEF Word
<1>4. Cast(v, U(n)) = x /\ Cast(v, S(n)) = IF x >= m \div 2 THEN y ELSE x
  BY CastUnsigned, CastSigned
<1> HIDE DEF x, y, m
<1> QED
  BY <1>1, <1>2, <1>3, <1>4 DEF x, m

LEMMA CastOfWord ==
  ASSUME NEW v \in Word(WordMod)
  PROVE  Cast(v, U(8)) = v /\ Cast(v, S(8)) = v
<1> DEFINE w == WordMod
<1>1. w \in Nat \ {0} /\ Mod(8) = w /\ v \in 0 .. w - 1
  BY BytePositive, PowersPositive DEF Word
<1> HIDE DEF w
<1>2. v % w = v
  BY <1>1, SMT
<1>3. (v - w) % w = v
  BY <1>1, ModMinus
<1> QED
  BY <1>1, <1>2, <1>3, CastUnsigned, CastSigned DEF w

-----------------------------------------------------------------------------
(* Registers *)

LEMMA RegistersAreWords ==
  ASSUME Ready
  PROVE  /\ \A r \in 0 .. 16 : registers[r] \in Word(WordMod) /\ registers[r] \in Int
         /\ DOMAIN registers = 0 .. 16
<1>1. registers \in [0 .. 16 -> Word(WordMod)]
  BY DEF Ready, Rip
<1>2. \A x \in Word(WordMod) : x \in Int
  BY BytePositive DEF Word
<1> QED
  BY <1>1, <1>2

LEMMA SameResult ==
  ASSUME Ready, NEW r \in 0 .. 15, NEW n \in {2, 4, 8}, NEW v \in Int, NEW w \in Int,
         v % Mod(n) = w % Mod(n), n = 4 => registers[r] < Mod(4)
  PROVE  SetReg(r, n, v) = Put(r, n, w)
<1>1. CASE n # 4
  <2>1. Put(r, n, w) = SetReg(r, n, w)
    <3>1. n # 1
      BY SMT
    <3> QED
      BY <1>1, <3>1 DEF Put
  <2>2. SetReg(r, n, v) = SetReg(r, n, w)
    BY DEF SetReg
  <2> QED
    BY <2>1, <2>2
<1>2. CASE n = 4
  <2> DEFINE x == registers[r]
             m == Mod(4)
             y == w % m
  <2>0. registers[r] \in Word(WordMod) /\ registers[r] < Mod(4)
    <3>1. r \in 0 .. 16
      BY SMT
    <3>2. registers[r] \in Word(WordMod)
      BY <3>1, RegistersAreWords
    <3>3. registers[r] < Mod(4)
      BY <1>2
    <3> QED
      BY <3>2, <3>3
  <2>1. x \in Nat /\ x < WordMod /\ x < m
    <3>1. \A z \in Word(WordMod) : z \in Nat /\ z < WordMod
      BY BytePositive, SMT DEF Word
    <3> QED
      BY <2>0, <3>1
  <2>2. m \in Nat \ {0} /\ y \in 0 .. m - 1 /\ m <= WordMod /\ Mod(8) = WordMod
    BY Below, PowersPositive DEF Widths
  <2>3. x % m = x /\ x % WordMod = x
    <3> HIDE DEF x, m, y
    <3> QED
      BY <2>1, <2>2, BytePositive, SmallMod
  <2>4. y % WordMod = y
    <3> HIDE DEF x, m, y
    <3>1. y \in Nat /\ y < WordMod
      BY <2>2, BytePositive, SMT
    <3> QED
      BY <3>1, BytePositive, SmallMod
  <2>5. x - (x % m) + (v % m) = x - (x % Mod(8)) + (y % Mod(8))
    BY <1>2, <2>2, <2>3, <2>4
  <2>6. SetReg(r, 4, v) = [registers EXCEPT ![r] = x - (x % m) + (v % m)]
    BY DEF SetReg
  <2>7. SetReg(r, 8, y) = [registers EXCEPT ![r] = x - (x % Mod(8)) + (y % Mod(8))]
    BY DEF SetReg
  <2>8. Put(r, 4, w) = SetReg(r, 8, y)
    BY DEF Put
  <2> QED
    BY <1>2, <2>5, <2>6, <2>7, <2>8
<1> QED
  BY <1>1, <1>2

LEMMA SameLongResult ==
  ASSUME Ready, NEW r, NEW v \in Nat, v < Mod(4)
  PROVE  SetReg(r, 8, v) = Put(r, 4, v)
<1>1. v % Mod(4) = v
  BY Below, SMT DEF Widths
<1> QED
  BY <1>1 DEF Put

LEMMA Unchanged ==
  ASSUME Ready, NEW r \in 0 .. 15, NEW n \in Widths, NEW v, v % Mod(n) = registers[r] % Mod(n)
  PROVE  SetReg(r, n, v) = registers
<1>1. registers[r] \in Int /\ registers[r] % Mod(n) \in Int /\ DOMAIN registers = 0 .. 16
  BY RegistersAreWords, Below
<1>2. registers[r] - (registers[r] % Mod(n)) + (registers[r] % Mod(n)) = registers[r]
  BY <1>1, SMT
<1>3. [registers EXCEPT ![r] = registers[r]] = registers
  BY DEF Ready
<1> QED
  BY <1>2, <1>3 DEF SetReg

-----------------------------------------------------------------------------
(* Loads, stores and bytes of code *)

LEMMA BytesLoaded ==
  ASSUME Ready, NEW addr \in Nat, NEW n \in Widths, Mapped(addr, n)
  PROVE  LET d == [k \in 0 .. 7 |-> IF k < n THEN memory[addr + k] ELSE 0] IN
         /\ d \in [0 .. 7 -> Word(ByteMod)]
         /\ \A k \in 0 .. n - 1 : addr + k \in DOMAIN memory /\ d[k] = memory[addr + k]
         /\ \A k \in n .. 7 : d[k] = 0
<1>1. memory \in [0 .. Size - 1 -> Word(ByteMod)] /\ Size \in Nat
  BY OperandsAssumption DEF Ready
<1>2. \A k \in 0 .. n - 1 : addr + k \in 0 .. Size - 1
  BY <1>1, SMT DEF Mapped, Widths
<1>3. \A k \in 0 .. 7 : k < n => k \in 0 .. n - 1
  BY SMT DEF Widths
<1>4. 0 \in Word(ByteMod)
  BY BytePositive, SMT DEF Word
<1>5. ASSUME NEW k \in 0 .. 7 PROVE (IF k < n THEN memory[addr + k] ELSE 0) \in Word(ByteMod)
  BY <1>1, <1>2, <1>3, <1>4
<1>6. \A k \in 0 .. n - 1 : k \in 0 .. 7 /\ k < n
  BY SMT DEF Widths
<1>7. \A k \in n .. 7 : k \in 0 .. 7 /\ ~(k < n)
  BY SMT DEF Widths
<1> QED
  BY <1>1, <1>2, <1>5, <1>6, <1>7

LEMMA LoadTyped ==
  ASSUME Ready, NEW addr \in Nat, NEW n \in Widths, Mapped(addr, n)
  PROVE  /\ Load(addr, n) \in 0 .. Mod(n) - 1 /\ Load(addr, n) \in Word(WordMod)
         /\ \A k \in 0 .. n - 1 : (Load(addr, n) \div Mod(k)) % ByteMod = memory[addr + k]
<1> DEFINE d == [k \in 0 .. 7 |-> IF k < n THEN memory[addr + k] ELSE 0]
<1>1. /\ d \in [0 .. 7 -> Word(ByteMod)]
      /\ \A k \in 0 .. n - 1 : d[k] = memory[addr + k]
      /\ \A k \in n .. 7 : d[k] = 0
  BY BytesLoaded
<1>2. Load(addr, n) = LittleEndian(d)
  BY DEF Load
<1> HIDE DEF d
<1>3. /\ \A k \in 0 .. 7 : (LittleEndian(d) \div Mod(k)) % ByteMod = d[k]
      /\ LittleEndian(d) \in Nat /\ LittleEndian(d) < Mod(n) /\ LittleEndian(d) < WordMod
  BY <1>1, BytesOfNumber
<1>4. \A k \in 0 .. n - 1 : k \in 0 .. 7
  BY SMT DEF Widths
<1>5. LittleEndian(d) \in 0 .. Mod(n) - 1 /\ LittleEndian(d) \in Word(WordMod)
  <2>1. \A x, m \in Nat : x < m => x \in 0 .. m - 1
    BY SMT
  <2>2. Mod(n) \in Nat /\ WordMod \in Nat
    BY Below, BytePositive
  <2> QED
    BY <1>3, <2>1, <2>2 DEF Word
<1> QED
  BY <1>1, <1>2, <1>3, <1>4, <1>5

(* A word that is written where it was read changes nothing.               *)
LEMMA StoreBack ==
  ASSUME Ready, NEW addr \in Nat, NEW n \in Widths, Mapped(addr, n)
  PROVE  ToMemory(addr, n, Load(addr, n)) = Skip
<1> DEFINE v == Load(addr, n)
           stored == [a \in DOMAIN memory |-> IF a \in addr .. addr + n - 1
                                              THEN (v \div Mod(a - addr)) % ByteMod ELSE memory[a]]
<1>1. \A k \in 0 .. n - 1 : (v \div Mod(k)) % ByteMod = memory[addr + k]
  BY LoadTyped
<1>2. ToMemory(addr, n, v) = Outcome(registers, stored, "next")
  BY DEF ToMemory
<1> HIDE DEF v
<1>3. ASSUME NEW a \in DOMAIN memory PROVE stored[a] = memory[a]
  <2>1. CASE a \in addr .. addr + n - 1
    <3> DEFINE k == a - addr
    <3>1. k \in 0 .. n - 1 /\ addr + k = a
      BY <2>1, SMT DEF Widths
    <3> HIDE DEF k
    <3>2. (v \div Mod(k)) % ByteMod = memory[a]
      BY <1>1, <3>1
    <3> QED
      BY <2>1, <3>2 DEF k
  <2>2. CASE a \notin addr .. addr + n - 1
    BY <2>2
  <2> QED
    BY <2>1, <2>2
<1>4. stored = memory
  <2>1. memory = [a \in DOMAIN memory |-> memory[a]]
    BY DEF Ready
  <2>2. stored = [a \in DOMAIN memory |-> stored[a]]
    OBVIOUS
  <2> HIDE DEF stored
  <2> QED
    BY <1>3, <2>1, <2>2
<1> QED
  BY <1>2, <1>4 DEF Skip, v

LEMMA DatumBelow ==
  ASSUME Ready, NEW pos \in Nat, NEW n \in Widths, NEW past \in Nat
  PROVE  Datum(pos, n, past) \in 0 .. Mod(n) - 1
<1> DEFINE byte(k) == IF pos + k < Len(inst.code) THEN inst.code[pos + k + 1] ELSE past
           d == [k \in 0 .. 7 |-> IF k >= n THEN 0 ELSE byte(k) % ByteMod]
<1>1. ASSUME NEW k \in 0 .. 7 PROVE byte(k) \in Nat
  <2>1. CASE pos + k < Len(inst.code)
    <3> DEFINE j == pos + k + 1
    <3>1. Len(inst.code) \in Nat /\ \A i \in 1 .. Len(inst.code) : inst.code[i] \in 0 .. 255
      BY InstructionTyped, ItemsOf
    <3>2. j \in 1 .. Len(inst.code)
      BY <2>1, <3>1, SMT
    <3>3. byte(k) = inst.code[j]
      BY <2>1
    <3> HIDE DEF j
    <3>4. inst.code[j] \in 0 .. 255
      BY <3>1, <3>2
    <3>5. inst.code[j] \in Nat
      BY <3>4
    <3> QED
      BY <3>3, <3>5
  <2> QED
    BY <2>1
<1>2. Datum(pos, n, past) = LittleEndian(d)
  BY DEF Datum
<1> HIDE DEF byte
<1>3. \A x \in Nat : x % ByteMod \in Word(ByteMod)
  BY BytePositive, SMT DEF Word
<1>4. 0 \in Word(ByteMod)
  BY BytePositive, SMT DEF Word
<1>5. d \in [0 .. 7 -> Word(ByteMod)]
  BY <1>1, <1>3, <1>4
<1>6. \A k \in n .. 7 : d[k] = 0
  <2>1. \A k \in n .. 7 : k \in 0 .. 7 /\ k >= n
    BY SMT DEF Widths
  <2> QED
    BY <2>1
<1> HIDE DEF d
<1>7. LittleEndian(d) \in Nat /\ LittleEndian(d) < Mod(n)
  BY <1>5, <1>6, BytesOfNumber
<1> QED
  BY <1>2, <1>7, Below, SMT

(* What lies behind the code matters only if the datum reaches that far.   *)
LEMMA DatumWithin ==
  ASSUME Ready, NEW pos \in Nat, NEW n \in Widths, pos + n <= Len(inst.code), NEW past
  PROVE  Datum(pos, n, past) = Field(pos, n)
<1> DEFINE byte(p, k) == IF k >= n THEN 0
                         ELSE (IF pos + k < Len(inst.code) THEN inst.code[pos + k + 1] ELSE p) % ByteMod
<1>1. Len(inst.code) \in Nat
  BY InstructionTyped, ItemsOf
<1>2. \A k \in 0 .. 7 : k >= n \/ pos + k < Len(inst.code)
  BY <1>1, SMT DEF Widths
<1>3. \A k \in 0 .. 7 : byte(past, k) = byte(0, k)
  BY <1>2
<1>4. /\ Datum(pos, n, past) = LittleEndian([k \in 0 .. 7 |-> byte(past, k)])
      /\ Datum(pos, n, 0) = LittleEndian([k \in 0 .. 7 |-> byte(0, k)])
  BY DEF Datum
<1> HIDE DEF byte
<1>5. [k \in 0 .. 7 |-> byte(past, k)] = [k \in 0 .. 7 |-> byte(0, k)]
  BY <1>3
<1>6. n # 0
  BY SMT DEF Widths
<1> QED
  BY <1>4, <1>5, <1>6 DEF Field

-----------------------------------------------------------------------------
(* The handlers by their form *)

Ops == {"add", "sub", "and", "or", "xor", "mov", "lea", "cmp", "test", "dec"}
Special == {"Lea_32", "Lea_64", "Movsxd_63", "Movzx_0FB6"}

FitsRM(n, h) ==
  \/ n \notin Special /\ h.dst = "Unsigned" /\ h.src = "Unsigned" /\ h.op \in {"add", "sub", "xor", "mov", "cmp"}
  \/ n = "Lea_32" /\ h.dst = "Unsigned" /\ h.src = "u32" /\ h.op = "lea"
  \/ n = "Lea_64" /\ h.dst = "Unsigned" /\ h.src = "u64" /\ h.op = "lea"
  \/ n = "Movsxd_63" /\ h.dst = "Signed" /\ h.src = "simm32" /\ h.op = "mov"
  \/ n = "Movzx_0FB6" /\ h.dst = "Unsigned" /\ h.src = "imm8" /\ h.op = "mov"
FitsMI(h) ==
  \/ h.dst = "Unsigned" /\ h.src \in {"imm32", "imm8"} /\ h.op \in {"add", "or", "and", "sub", "xor", "cmp"}
  \/ h.dst = "Signed" /\ h.src = "simm8" /\ h.op = "add"
  \/ h.dst = "Mixed" /\ h.src = "mixed32" /\ h.op = "mov"
Fits(n, h) ==
  /\ h.from \in {"opcode", "start"}
  /\ n \in Special => h.form = "RM"
  /\ h.form = "RM" => FitsRM(n, h)
  /\ h.form = "MR" => h.dst = "Unsigned" /\ h.src = "Unsigned"
                        /\ h.op \in {"add", "and", "sub", "xor", "mov", "test"}
  /\ h.form = "M" => h.dst = "Unsigned" /\ h.src = "Unsigned" /\ h.op = "dec"
  /\ h.form = "MI" => FitsMI(h)
  /\ h.form = "I" => h.dst = "Unsigned" /\ h.src = "imm32" /\ h.op \in {"add", "or", "and", "xor"}
  /\ h.form = "OI" => n = "Mov_B8" /\ h.dst = "Unsigned" /\ h.src = "Unsigned" /\ h.op = "mov"
  /\ h.form = "MR8" => h.dst = "Unsigned" /\ h.src = "Unsigned" /\ h.op \in {"mov", "test"}
                         /\ (n = "Test_84" <=> h.op = "test")
  /\ n = "Or_09" => h.form = "I"

LEMMA HandlersFit == \A n \in DOMAIN Handlers : Fits(n, Handlers[n])
<1> USE DEF Fits, FitsRM, FitsMI, Special, HandlerOf, MR, RM, I, MI
<1>1. \A n \in DOMAIN AddHandlers : Fits(n, AddHandlers[n])
  BY DEF AddHandlers
<1>2. \A n \in DOMAIN OrHandlers : Fits(n, OrHandlers[n])
  BY DEF OrHandlers
<1>3. \A n \in DOMAIN AndHandlers : Fits(n, AndHandlers[n])
  BY DEF AndHandlers
<1>4. \A n \in DOMAIN SubHandlers : Fits(n, SubHandlers[n])
  BY DEF SubHandlers
<1>5. \A n \in DOMAIN XorHandlers : Fits(n, XorHandlers[n])
  BY DEF XorHandlers
<1>6. \A n \in DOMAIN MovHandlers : Fits(n, MovHandlers[n])
  BY DEF MovHandlers
<1>7. \A n \in DOMAIN LeaHandlers : Fits(n, LeaHandlers[n])
  BY DEF LeaHandlers
<1>8. \A n \in DOMAIN ExtendHandlers : Fits(n, ExtendHandlers[n])
  BY DEF ExtendHandlers
<1>9. \A n \in DOMAIN CompareHandlers : Fits(n, CompareHandlers[n])
  BY DEF CompareHandlers
<1>10. \A n \in DOMAIN Dec_FF : Fits(n, Dec_FF[n])
  BY DEF Dec_FF
<1> HIDE DEF Fits
<1> QED
  BY <1>1, <1>2, <1>3, <1>4, <1>5, <1>6, <1>7, <1>8, <1>9, <1>10 DEF Handlers, HandlerNames

LEMMA TypesByName ==
  ASSUME NEW size \in Sizes
  PROVE  LET w == size \div 8 IN
         /\ w \in {2, 4, 8} /\ (w = 2 <=> size = 16) /\ (w = 4 <=> size = 32) /\ (w = 8 <=> size = 64)
         /\ OperandTypes["Unsigned"][size] = U(w)
         /\ OperandTypes["Signed"][size] = S(w)
         /\ OperandTypes["imm8"][size] = U(1) /\ OperandTypes["simm8"][size] = S(1)
         /\ OperandTypes["imm32"][size] = U(IF w = 2 THEN 2 ELSE 4)
         /\ OperandTypes["simm32"][size] = S(IF w = 2 THEN 2 ELSE 4)
         /\ OperandTypes["Mixed"][size] = (IF w = 8 THEN S(8) ELSE U(w))
         /\ OperandTypes["mixed32"][size] = (IF w = 8 THEN S(4) ELSE U(w))
         /\ OperandTypes["u32"][size] = U(4) /\ OperandTypes["u64"][size] = U(8)
<1>1. 16 \div 8 = 2 /\ 32 \div 8 = 4 /\ 64 \div 8 = 8
  BY SMT
<1>2. \A a, b, c \in Types : Sized(a, b, c)[16] = a /\ Sized(a, b, c)[32] = b /\ Sized(a, b, c)[64] = c
  BY SizedType
<1>3. /\ U(1) \in Types /\ U(2) \in Types /\ U(4) \in Types /\ U(8) \in Types
      /\ S(1) \in Types /\ S(2) \in Types /\ S(4) \in Types /\ S(8) \in Types
  BY TypesIn DEF Widths
<1>4. /\ OperandTypes["Unsigned"] = Sized(U(2), U(4), U(8)) /\ OperandTypes["Signed"] = Sized(S(2), S(4), S(8))
      /\ OperandTypes["imm8"] = Sized(U(1), U(1), U(1)) /\ OperandTypes["simm8"] = Sized(S(1), S(1), S(1))
      /\ OperandTypes["imm32"] = Sized(U(2), U(4), U(4)) /\ OperandTypes["simm32"] = Sized(S(2), S(4), S(4))
      /\ OperandTypes["Mixed"] = Sized(U(2), U(4), S(8)) /\ OperandTypes["mixed32"] = Sized(U(2), U(4), S(4))
      /\ OperandTypes["u32"] = Sized(U(4), U(4), U(4)) /\ OperandTypes["u64"] = Sized(U(8), U(8), U(8))
  BY DEF OperandTypes
<1>5. CASE size = 16
  BY <1>1, <1>2, <1>3, <1>4, <1>5
<1>6. CASE size = 32
  BY <1>1, <1>2, <1>3, <1>4, <1>6
<1>7. CASE size = 64
  BY <1>1, <1>2, <1>3, <1>4, <1>7
<1> QED
  BY <1>5, <1>6, <1>7 DEF Sizes

(* What an instruction is, apart from those of the accumulator. *)
LEMMA FormOf ==
  ASSUME Ready, Form \notin {"AL", "A"}
  PROVE  /\ Name \notin {"AL", "A"} /\ Name \in DOMAIN Handlers
         /\ Fits(Name, Handler) /\ Handler.form = Form /\ Op = Handler.op
         /\ Dst = OperandTypes[Handler.dst][inst.osize] /\ Src = OperandTypes[Handler.src][inst.osize]
         /\ Wide = IF Form = "MR8" THEN 1 ELSE inst.osize \div 8
         /\ inst.osize \in Sizes /\ inst.osize \div 8 \in {2, 4, 8}
         /\ inst.osize \div 8 = 2 <=> inst.osize = 16
         /\ inst.osize \div 8 = 4 <=> inst.osize = 32
         /\ inst.osize \div 8 = 8 <=> inst.osize = 64
<1>1. Name \notin {"AL", "A"} /\ Handler.form = Form /\ Op = Handler.op
  BY DEF Form, Op
<1>2. Name \in DOMAIN Handlers /\ Handler = Handlers[Name]
  BY <1>1 DEF Ready, Handlers, Handler
<1>3. Fits(Name, Handler)
  BY <1>2, HandlersFit
<1>4. inst.osize \in Sizes
  BY InstructionTyped DEF Sizes
<1>5. Dst = OperandTypes[Handler.dst][inst.osize] /\ Src = OperandTypes[Handler.src][inst.osize]
  BY DEF Dst, Src
<1>6. 16 \div 8 = 2 /\ 32 \div 8 = 4 /\ 64 \div 8 = 8
  BY SMT
<1> QED
  BY <1>1, <1>2, <1>3, <1>4, <1>5, <1>6 DEF Wide, Sizes

-----------------------------------------------------------------------------
(* Values *)

LEMMA ApplyTyped ==
  ASSUME NEW op \in {"and", "or", "xor"}, NEW a, NEW b
  PROVE  Apply(op, a, b) \in Nat
<1> DEFINE A == Bits(a)
           B == Bits(b)
           set == CASE op = "or" -> A \cup B [] op = "and" -> A \cap B
                    [] op = "xor" -> (A \cup B) \ (A \cap B)
<1>1. A \subseteq 0 .. Width - 1 /\ B \subseteq 0 .. Width - 1
  BY DEF Bits, BitsBelow
<1>2. set \subseteq 0 .. Width - 1
  BY <1>1
<1>3. Apply(op, a, b) = SumsOf(Places2, set)[Width]
  BY DEF Apply, FromBits
<1> HIDE DEF set
<1>4. Tabulates(Places2, set)
  BY <1>2 DEF Tabulates, Places2
<1> QED
  BY <1>3, <1>4, SumsRecursive, FlagsAssumption

LEMMA ValueTyped ==
  ASSUME NEW op \in Ops, NEW a \in Nat, NEW b \in Nat
  PROVE  Value(op, a, b) \in Nat
<1>1. WrapAdd(WordMod, a, b) \in Nat /\ (a - b) % WordMod \in Nat /\ (a - 1) % WordMod \in Nat
  <2>1. a \in Int /\ b \in Int /\ a - b \in Int /\ a - 1 \in Int
    BY SMT
  <2> QED
    BY <2>1, WrapTyped
<1>2. op \in {"and", "or", "xor"} => Apply(op, a, b) \in Nat
  BY ApplyTyped
<1> QED
  BY <1>1, <1>2 DEF Value, Ops

LEMMA SumModulo ==
  ASSUME NEW n \in Widths, NEW a \in Int, NEW b \in Int, NEW c \in Int, NEW d \in Int,
         a % Mod(n) = c % Mod(n), b % Mod(n) = d % Mod(n)
  PROVE  Value("add", a, b) % Mod(n) = Value("add", c, d) % Mod(n)
<1> DEFINE m == Mod(n)
<1>1. m \in Nat \ {0} /\ \A x \in Int : (x % WordMod) % m = x % m
  BY Below
<1>2. Value("add", a, b) = (a + b) % WordMod /\ Value("add", c, d) = (c + d) % WordMod
  BY DEF Value, WrapAdd
<1>3. a + b \in Int /\ c + d \in Int
  BY SMT
<1>4. (a + b) % m = (c + d) % m
  <2>1. (a + b) % m = ((a % m) + b) % m
    BY <1>1, ModSum
  <2>2. (c + b) % m = ((c % m) + b) % m
    BY <1>1, ModSum
  <2>3. (b + c) % m = ((b % m) + c) % m
    BY <1>1, ModSum
  <2>4. (d + c) % m = ((d % m) + c) % m
    BY <1>1, ModSum
  <2>5. b + c = c + b /\ d + c = c + d
    BY SMT
  <2> QED
    BY <2>1, <2>2, <2>3, <2>4, <2>5
<1> QED
  BY <1>1, <1>2, <1>3, <1>4

-----------------------------------------------------------------------------
(* Where the architecture has the operand *)

At(addr) == [kind |-> "memory", addr |-> addr]

LEMMA AddressWithin ==
  ASSUME Ready, InMemory, ~AddressKeepsCarry, FullAddress \in Nat
  PROVE  FullAddress % WordMod = Address /\ Address \in Nat
<1> DEFINE x == FullAddress
<1>1. CASE inst.asize = 64
  <2>1. 64 \div 8 = 8
    BY SMT
  <2>2. Address = x % WordMod
    BY <1>1, <2>1, PowersPositive DEF Address
  <2>3. x % WordMod \in Nat
    BY WrapTyped
  <2> QED
    BY <2>2, <2>3
<1>2. CASE inst.asize = 32
  <2>1. 32 \div 8 = 4
    BY SMT
  <2>2. Address = x % Mod(4)
    BY <1>2, <2>1 DEF Address
  <2>3. Mod(4) \in Nat \ {0} /\ Mod(4) <= WordMod /\ WordMod \in Nat \ {0}
    BY Below, BytePositive DEF Widths
  <2>4. x \in 0 .. Mod(4) - 1
    BY <1>2 DEF AddressKeepsCarry
  <2> HIDE DEF x
  <2>5. x < Mod(4) /\ x < WordMod /\ x \in Nat
    BY <2>3, <2>4, SMT
  <2>6. x % Mod(4) = x /\ x % WordMod = x
    BY <2>3, <2>5, SmallMod
  <2> QED
    BY <2>2, <2>5, <2>6 DEF x
<1> QED
  BY <1>1, <1>2, InstructionTyped

(* No deviation in where the operand in memory is looked for.              *)
Placed ==
  /\ ~SibSlips /\ ~NegativeDisplacement /\ ~NotRelative /\ ~PrefixShifts /\ ~TwoByteShifts
  /\ ~BaseIsCast /\ ~AddressKeepsCarry /\ ~DisplacementMissing

LEMMA PlacedUnlessDeviates == ~Deviates => Placed
BY DEF Deviates, Placed

LEMMA DisplacementsInPlace ==
  ASSUME Ready, InMemory, Placed
  PROVE  /\ TrueDispSize # 0 => inst.pos_opcode + (IF inst.p_sib THEN 3 ELSE 2) = TrueDispAt
         /\ Form = "MI" /\ ~inst.p_sib /\ TrueDispSize # 0 => 2 = TrueDispAt
         /\ inst.pos_opcode + 2 \in Nat /\ inst.pos_opcode + 3 \in Nat /\ 2 <= inst.pos_opcode + 2
<1>1. CASE Name = "Movzx_0FB6"
  <2>1. TrueDispSize = 0
    BY <1>1 DEF Placed, TwoByteShifts
  <2> QED
    BY <2>1, InstructionTyped
<1>2. CASE Name # "Movzx_0FB6"
  <2>1. TrueDispAt = inst.pos_opcode + (IF inst.p_sib THEN 3 ELSE 2)
    BY <1>2, OneByteOpcode
  <2>2. Form = "MI" /\ ~inst.p_sib /\ TrueDispSize # 0 => inst.pos_opcode = 0
    BY DEF Placed, PrefixShifts
  <2>3. 0 + 2 = 2
    OBVIOUS
  <2> QED
    BY <2>1, <2>2, <2>3, InstructionTyped
<1> QED
  BY <1>1, <1>2

LEMMA SibOperand ==
  ASSUME Ready, InMemory, inst.p_sib, Placed, NEW junk \in Residues
  PROVE  /\ SibLocation(junk) = At(Address) /\ Address \in Nat
         /\ set_sib_byte(junk).kind = "memory"
         /\ TrueDispSize = 0 => set_sib_byte(junk).calc = Address /\ set_sib_byte(junk).disp_size = 0
<1> DEFINE s == set_sib_byte(junk)
           disp == Displacement(inst.pos_opcode + 3, s.disp_size)
<1>1. /\ ~SibSlips /\ ~NegativeDisplacement /\ ~AddressKeepsCarry
      /\ TrueDispSize # 0 => inst.pos_opcode + 3 = TrueDispAt
  BY DisplacementsInPlace DEF Placed
<1>2. s.kind = "memory" /\ WrapAdd(WordMod, s.calc, disp) = FullAddress % WordMod /\ FullAddress \in Nat
  BY <1>1, SibAddress
<1>3. WrapAdd(WordMod, s.calc, disp) = Address /\ Address \in Nat
  BY <1>1, <1>2, AddressWithin
<1>4. SibLocation(junk) = At(Address)
  <2>1. SibLocation(junk) = [kind |-> Reached(s.kind, inst.pos_opcode + 3, s.disp_size),
                             addr |-> WrapAdd(WordMod, s.calc, disp)]
    BY DEF SibLocation
  <2>2. Reached(s.kind, inst.pos_opcode + 3, s.disp_size) = s.kind
    <3>1. s.disp_size = TrueDispSize
      BY SibDisplacement
    <3>2. inst.pos_opcode + 3 \in Nat /\ inst.pos_opcode + 3 <= inst.pos_opcode + 3
      BY InstructionTyped, SMT
    <3> HIDE DEF s
    <3> QED
      BY <3>1, <3>2, ReachedUnlessMissing DEF Placed
  <2> HIDE DEF s, disp
  <2> QED
    BY <1>2, <1>3, <2>1, <2>2 DEF At
<1>5. ASSUME TrueDispSize = 0 PROVE s.calc = Address /\ s.disp_size = 0
  <2>1. SIB_BASE # 0 /\ SIB_BASE # 5 /\ MODRM_MOD \notin {1, 2}
    BY <1>1, <1>5 DEF SibSlips, TrueDispSize
  <2>2. DispSize = 0
    <3>1. RmRegister # None
      BY ModRMFields DEF Ready
    <3> QED
      BY <2>1, <3>1 DEF DispSize
  <2>3. \E z \in Int : s = [kind |-> "memory", disp_size |-> 0, calc |-> z % WordMod]
    <3> DEFINE use_indx == SIB_INDEX # 4
               index == IF use_indx THEN Extended("X", SIB_INDEX) ELSE junk.index
               scaled == SIB_SCALE * registers[index]
               base == registers[Extended("B", SIB_BASE)]
               z == (IF use_indx THEN scaled ELSE 0) + base
    <3>1. /\ SIB_SCALE \in Nat /\ SIB_INDEX \in 0 .. 7 /\ SIB_BASE \in 0 .. 7
          /\ Extended("X", SIB_INDEX) \in 0 .. 15 /\ Extended("B", SIB_BASE) \in 0 .. 15
      BY FieldsTyped
    <3>2. base \in Nat /\ (use_indx => registers[index] \in Nat)
      BY <3>1, RegistersTyped
    <3>3. use_indx => scaled \in Nat
      <4>1. \A x, y \in Nat : x * y \in Nat
        BY SMT
      <4> QED
        BY <3>1, <3>2, <4>1
    <3>4. s = [kind |-> "memory", disp_size |-> 0, calc |-> z % WordMod]
      BY <1>2, <2>1, <2>2 DEF set_sib_byte
    <3> HIDE DEF s, scaled, base
    <3>5. z \in Int
      BY <3>2, <3>3
    <3> QED
      BY <3>4, <3>5
  <2>4. s.disp_size = 0 /\ s.calc \in 0 .. WordMod - 1
    <3>1. \A z \in Int : z % WordMod \in 0 .. WordMod - 1
      BY BytePositive, SMT
    <3> HIDE DEF s
    <3> QED
      BY <2>3, <3>1
  <2>5. WrapAdd(WordMod, s.calc, 0) = s.calc
    <3> HIDE DEF s
    <3> QED
      BY <2>4, BytePositive, SMT DEF WrapAdd
  <2>6. disp = 0
    BY <2>4 DEF Displacement
  <2> QED
    BY <1>3, <2>4, <2>5, <2>6
<1> QED
  BY <1>2, <1>3, <1>4, <1>5

LEMMA RelativeOperand ==
  ASSUME Ready, Relative, Placed
  PROVE  LET origin == WrapAdd(WordMod, registers[Rip], Len(inst.code))
             disp == Displacement(inst.pos_opcode + 2, DispSize)
         IN /\ WrapAdd(WordMod, origin, disp) = Address /\ Address \in Nat
            /\ RmRegister = None
            /\ \A type : ModRMLocation(type, inst.pos_opcode + 2, origin) = At(Address)
<1> DEFINE origin == WrapAdd(WordMod, registers[Rip], Len(inst.code))
           disp == Displacement(inst.pos_opcode + 2, DispSize)
<1>1. /\ InMemory /\ ~inst.p_sib /\ ~NegativeDisplacement /\ ~AddressKeepsCarry
      /\ inst.pos_opcode + 2 = TrueDispAt /\ inst.pos_opcode + 2 \in Nat
  <2>1. InMemory /\ ~inst.p_sib /\ TrueDispSize = 4
    <3>1. MODRM_MOD = 0
      BY DEF Relative
    <3> QED
      BY <3>1 DEF Relative, TrueDispSize
  <2> QED
    BY <2>1, DisplacementsInPlace DEF Placed
<1>2. WrapAdd(WordMod, origin, disp) = FullAddress % WordMod /\ FullAddress \in Nat /\ RmRegister = None
  BY <1>1, RelativeAddress
<1>3. WrapAdd(WordMod, origin, disp) = Address /\ Address \in Nat
  BY <1>1, <1>2, AddressWithin
<1>4. set_modrm_byte.rm = None /\ set_modrm_byte.disp_size = DispSize
  BY <1>2, ModRMFields
<1>6. Reached("memory", inst.pos_opcode + 2, DispSize) = "memory"
  <2>1. DispSize = TrueDispSize /\ inst.pos_opcode + 2 <= inst.pos_opcode + 2
    BY <1>1, BareDisplacement, SMT
  <2> QED
    BY <1>1, <2>1, ReachedUnlessMissing DEF Placed
<1>5. \A type : ModRMLocation(type, inst.pos_opcode + 2, origin) = At(WrapAdd(WordMod, origin, disp))
  BY <1>4, <1>6 DEF ModRMLocation, At
<1> QED
  BY <1>2, <1>3, <1>5

LEMMA BareOperand ==
  ASSUME Ready, Based, Placed, NEW pos \in Nat, TrueDispSize # 0 => pos = TrueDispAt,
         pos <= inst.pos_opcode + 2, NEW origin
  PROVE  /\ ModRMLocation(IF Form = "RM" THEN Src ELSE Dst, pos, origin) = At(Address)
         /\ Address \in Nat
<1> DEFINE type == IF Form = "RM" THEN Src ELSE Dst
<1>1. InMemory /\ ~NegativeDisplacement /\ ~AddressKeepsCarry
  BY DEF Based, Placed
<1>2. Cast(registers[Rm], type) = registers[Rm]
  BY DEF Placed, BaseIsCast
<1>3. ModRMLocation(type, pos, origin).addr = FullAddress % WordMod /\ FullAddress \in Nat
  <2> HIDE DEF type
  <2> QED
    BY <1>1, <1>2, BareAddress
<1>4. FullAddress % WordMod = Address /\ Address \in Nat
  BY <1>1, <1>3, AddressWithin
<1>6. Reached("memory", pos, set_modrm_byte.disp_size) = "memory"
  <2>1. ~inst.p_sib /\ set_modrm_byte.disp_size = DispSize /\ DispSize = TrueDispSize
    BY <1>1, ModRMFields, BareDisplacement DEF Based
  <2> QED
    BY <1>1, <2>1, ReachedUnlessMissing DEF Placed
<1>5. ModRMLocation(type, pos, origin) = At(ModRMLocation(type, pos, origin).addr)
  BY <1>6 DEF ModRMLocation, At
<1> QED
  BY <1>3, <1>4, <1>5

LEMMA WhereOperandIs ==
  ASSUME Ready, InMemory, Placed, NEW junk \in Residues
  PROVE  /\ Address \in Nat
         /\ Form = "RM" =>
              Location(Src, inst.pos_opcode + 2, WrapAdd(WordMod, registers[Rip], Len(inst.code)), junk)
                = At(Address)
         /\ Form = "MI" => Location(Dst, 2, 0, junk) = At(Address)
         /\ Form \in {"MR", "M"} /\ ~inst.p_sib => ModRMLocation(Dst, inst.pos_opcode + 2, 0) = At(Address)
         /\ inst.p_sib => SibLocation(junk) = At(Address)
<1>1. /\ inst.pos_opcode + 2 \in Nat
      /\ ~inst.p_sib /\ TrueDispSize # 0 => inst.pos_opcode + 2 = TrueDispAt
      /\ Form = "MI" /\ ~inst.p_sib /\ TrueDispSize # 0 => 2 = TrueDispAt
      /\ 2 <= inst.pos_opcode + 2 /\ inst.pos_opcode + 2 <= inst.pos_opcode + 2
  BY DisplacementsInPlace, SMT
<1>2. CASE inst.p_sib
  BY <1>2, SibOperand, HandlerTyped DEF Location
<1>3. CASE ~inst.p_sib /\ Relative
  <2>1. Form \notin {"MR", "M", "MI"}
    BY <1>3 DEF Placed, NotRelative
  <2> QED
    BY <1>3, <2>1, RelativeOperand DEF Location
<1>4. CASE ~inst.p_sib /\ ~Relative
  <2>1. Based
    BY <1>4 DEF Based
  <2>2. Address \in Nat /\ ModRMLocation(IF Form = "RM" THEN Src ELSE Dst, inst.pos_opcode + 2, 0) = At(Address)
    BY <1>1, <1>4, <2>1, BareOperand
  <2>3. Form = "RM" =>
          ModRMLocation(Src, inst.pos_opcode + 2, WrapAdd(WordMod, registers[Rip], Len(inst.code))) = At(Address)
    BY <1>1, <1>4, <2>1, BareOperand
  <2>4. Form = "MI" => ModRMLocation(Dst, 2, 0) = At(Address)
    BY <1>1, <1>4, <2>1, BareOperand
  <2> QED
    BY <1>4, <2>2, <2>3, <2>4 DEF Location
<1> QED
  BY <1>2, <1>3, <1>4

LEMMA WiderPower ==
  ASSUME NEW n \in Widths, NEW w \in Widths, n <= w
  PROVE  Mod(n) <= Mod(w)
<1>1. ASSUME NEW k \in 0 .. 7 PROVE Mod(k) <= Mod(k + 1)
  <2>1. Mod(k + 1) = ByteMod * Mod(k) /\ Mod(k) \in Nat \ {0} /\ ByteMod \in Nat \ {0}
    BY PowersByByte, BytePositive
  <2>2. \A b, m \in Nat \ {0} : m <= b * m
    BY Z3
  <2> QED
    BY <2>1, <2>2
<1>2. 1 + 1 = 2 /\ 2 + 1 = 3 /\ 3 + 1 = 4 /\ 4 + 1 = 5 /\ 5 + 1 = 6 /\ 6 + 1 = 7 /\ 7 + 1 = 8
  BY SMT
<1>3. /\ Mod(1) <= Mod(2) /\ Mod(2) <= Mod(3) /\ Mod(3) <= Mod(4) /\ Mod(4) <= Mod(5)
      /\ Mod(5) <= Mod(6) /\ Mod(6) <= Mod(7) /\ Mod(7) <= Mod(8)
  BY <1>1, <1>2
<1>4. \A k \in {1, 2, 3, 4, 5, 6, 7, 8} : Mod(k) \in Nat
  BY PowersPositive, BytePositive
<1>5. /\ Mod(1) <= Mod(2) /\ Mod(2) <= Mod(4) /\ Mod(4) <= Mod(8)
      /\ Mod(1) <= Mod(4) /\ Mod(1) <= Mod(8) /\ Mod(2) <= Mod(8)
      /\ Mod(1) <= Mod(1) /\ Mod(2) <= Mod(2) /\ Mod(4) <= Mod(4) /\ Mod(8) <= Mod(8)
  BY <1>3, <1>4, SMT
<1>6. /\ ~(2 <= 1) /\ ~(4 <= 1) /\ ~(8 <= 1) /\ ~(4 <= 2) /\ ~(8 <= 2) /\ ~(8 <= 4)
  BY SMT
<1> QED
  BY <1>5, <1>6 DEF Widths

(* A word below a power of a width is its own cast.                        *)
LEMMA CastKeeps ==
  ASSUME NEW n \in Widths, NEW x \in 0 .. Mod(n) - 1
  PROVE  Cast(x, U(n)) = x
BY CastUnsigned, Below

(* Get without the high bytes *)
LEMMA GetWide ==
  ASSUME NEW r, NEW n, n # 1
  PROVE  Get(r, n) = registers[r] % Mod(n)
BY DEF Get

LEMMA RegisterCast ==
  ASSUME Ready, NEW r \in 0 .. 15, NEW n \in {2, 4, 8}
  PROVE  /\ OfRegister(r, U(n)) = Get(r, n) /\ Get(r, n) \in 0 .. Mod(n) - 1 /\ Get(r, n) \in Nat
         /\ OfRegister(r, U(n)) % Mod(n) = registers[r] % Mod(n)
         /\ OfRegister(r, S(n)) % Mod(n) = registers[r] % Mod(n) /\ OfRegister(r, S(n)) \in Nat
         /\ n = 8 => OfRegister(r, S(n)) = registers[r] /\ Get(r, n) = registers[r]
<1> DEFINE x == registers[r]
<1>1. n \in Widths /\ n # 1
  BY SMT DEF Widths
<1>2. x \in Word(WordMod) /\ x \in Int
  <2>1. r \in 0 .. 16
    BY SMT
  <2> QED
    BY <2>1, RegistersAreWords
<1>3. Get(r, n) = x % Mod(n)
  BY <1>1, GetWide
<1>4. OfRegister(r, U(n)) = Cast(x, U(n)) /\ OfRegister(r, S(n)) = Cast(x, S(n))
  BY DEF OfRegister
<1> HIDE DEF x
<1>5. Cast(x, U(n)) = x % Mod(n) /\ x % Mod(n) \in 0 .. Mod(n) - 1 /\ Mod(n) \in Nat
  BY <1>1, <1>2, CastUnsigned, Below
<1>6. Cast(x, U(n)) % Mod(n) = x % Mod(n) /\ Cast(x, S(n)) % Mod(n) = x % Mod(n) /\ Cast(x, S(n)) \in Word(WordMod)
  BY <1>1, <1>2, CastModulo
<1>7. Cast(x, S(8)) = x /\ Cast(x, U(8)) = x
  BY <1>2, CastOfWord
<1>8. \A y \in Word(WordMod) : y \in Nat
  BY BytePositive, SMT DEF Word
<1>9. \A m \in Nat : \A y \in 0 .. m - 1 : y \in Nat
  BY SMT
<1> QED
  BY <1>3, <1>4, <1>5, <1>6, <1>7, <1>8, <1>9 DEF x

(* What a property requires of the outcome of an instruction.              *)
Correct(o) ==
  IF Faults THEN o.registers = registers /\ o.memory = memory
  ELSE <<o.registers, o.memory>> = Architecture /\ o.state = "next"

LEMMA Outcomes ==
  /\ \A file : /\ ToRegister(file).registers = file /\ ToRegister(file).memory = memory
               /\ ToRegister(file).state = "next"
  /\ Skip.registers = registers /\ Skip.memory = memory /\ Skip.state = "next"
  /\ Terminate.registers = registers /\ Terminate.memory = memory
  /\ \A addr, n, v : /\ ToMemory(addr, n, v).registers = registers
                     /\ ToMemory(addr, n, v).state = "next"
BY DEF ToRegister, Skip, Terminate, ToMemory, Outcome

LEMMA FromMemory ==
  ASSUME NEW addr, NEW type, NEW missed, NEW outcome
  PROVE  OnMemory(At(addr), type, missed, outcome) = IF Mapped(addr, type.bytes) THEN outcome ELSE missed
<1>1. At(addr).kind = "memory" /\ At(addr).addr = addr
  BY DEF At
<1> QED
  BY <1>1 DEF OnMemory
-----------------------------------------------------------------------------
(* The architecture of an instruction by its name *)

LEMMA OpcodeOfName ==
  ASSUME Ready
  PROVE  /\ Name = "Lea_32" => inst.asize = 32
         /\ Name = "Lea_64" => inst.asize = 64
         /\ Name = "Mov_B8" => opcode \in 184 .. 191
         /\ Name = "A" => opcode = 45
         /\ Name = "AL" => opcode \in {12, 36, 44, 52}
<1> DEFINE Odd == {"Lea_32", "Lea_64", "Mov_B8", "A", "AL"}
<1>1. CASE opcode < 128
  <2>1. Name = Plain(opcode)
    BY <1>1 DEF Name
  <2>2. /\ Plain(opcode) \notin {"Lea_32", "Lea_64", "Mov_B8"}
        /\ Plain(opcode) = "A" => opcode = 45
        /\ Plain(opcode) = "AL" => opcode \in {12, 36, 44, 52}
    BY DEF Plain
  <2> QED
    BY <2>1, <2>2
<1>2. CASE ~(opcode < 128) /\ opcode \in {129, 131, 255}
  <2>1. Name = Groups(opcode)
    BY <1>2 DEF Name
  <2>2. MODRM_REG + 1 \in 1 .. 8
    BY FieldsTyped, SMT
  <2> DEFINE i == MODRM_REG + 1
  <2> HIDE DEF i
  <2>3. i \in {1, 2, 3, 4, 5, 6, 7, 8}
    BY <2>2, SMT DEF i
  <2>4. /\ <<"Add_81", "Or_81", "none", "none", "And_81", "Sub_81", "Xor_81", "none">>[i] \notin Odd
        /\ <<"Add_83", "Or_83", "none", "none", "And_83", "Sub_83", "Xor_83", "Cmp_83">>[i] \notin Odd
    BY <2>3
  <2>5. Groups(opcode) \notin Odd
    BY <1>2, <2>4 DEF Groups, i
  <2> QED
    BY <2>1, <2>5
<1>3. CASE ~(opcode < 128) /\ opcode \notin {129, 131, 255}
  <2>1. Name = Upper(opcode)
    BY <1>3 DEF Name
  <2>2. /\ Upper(opcode) = "Lea_32" => inst.asize = 32
        /\ Upper(opcode) = "Lea_64" => inst.asize # 32
        /\ Upper(opcode) = "Mov_B8" => opcode \in 184 .. 191
        /\ Upper(opcode) \notin {"A", "AL"}
    BY DEF Upper
  <2> QED
    BY <2>1, <2>2, InstructionTyped
<1> QED
  BY <1>1, <1>2, <1>3

-----------------------------------------------------------------------------
(* The types of a load to a register *)
LEMMA TypesRM ==
  ASSUME Ready, Form = "RM"
  PROVE  /\ Wide \in {2, 4, 8} /\ (Wide = 4 <=> inst.osize = 32) /\ HasModRM /\ Op \in Ops
         /\ Dst.bytes = Wide /\ Dst \in {U(Wide), S(Wide)}
         /\ Op \notin {"mov", "lea"} => Dst = U(Wide)
         /\ Src.bytes \in Widths
         /\ \/ Name \notin Special /\ Src = U(Wide) /\ Op # "lea"
            \/ Name = "Lea_32" /\ Src = U(4) /\ Op = "lea"
            \/ Name = "Lea_64" /\ Src = U(8) /\ Op = "lea"
            \/ Name = "Movsxd_63" /\ Src \in {S(2), S(4)} /\ Op = "mov"
            \/ Name = "Movzx_0FB6" /\ Src = U(1) /\ Op = "mov"
<1> DEFINE h == Handler
           w == inst.osize \div 8
<1>1. /\ Fits(Name, h) /\ h.form = "RM" /\ Op = h.op /\ Wide = w /\ inst.osize \in Sizes
      /\ Dst = OperandTypes[h.dst][inst.osize] /\ Src = OperandTypes[h.src][inst.osize]
      /\ w \in {2, 4, 8} /\ (w = 4 <=> inst.osize = 32)
  BY FormOf
<1>2. /\ OperandTypes["Unsigned"][inst.osize] = U(w) /\ OperandTypes["Signed"][inst.osize] = S(w)
      /\ OperandTypes["imm8"][inst.osize] = U(1)
      /\ OperandTypes["simm32"][inst.osize] = S(IF w = 2 THEN 2 ELSE 4)
      /\ OperandTypes["u32"][inst.osize] = U(4) /\ OperandTypes["u64"][inst.osize] = U(8)
  BY <1>1, TypesByName
<1>3. FitsRM(Name, h)
  BY <1>1 DEF Fits
<1> HIDE DEF h, w
<1>4. \A n : U(n).bytes = n /\ S(n).bytes = n
  BY DEF U, S
<1>5. /\ Op \in Ops /\ (Dst = U(w) \/ (Dst = S(w) /\ Op = "mov"))
      /\ \/ Name \notin Special /\ Src = U(w) /\ Op # "lea"
         \/ Name = "Lea_32" /\ Src = U(4) /\ Op = "lea"
         \/ Name = "Lea_64" /\ Src = U(8) /\ Op = "lea"
         \/ Name = "Movsxd_63" /\ Src \in {S(2), S(4)} /\ Op = "mov"
         \/ Name = "Movzx_0FB6" /\ Src = U(1) /\ Op = "mov"
  BY <1>1, <1>2, <1>3 DEF FitsRM, Ops
<1>6. Dst.bytes = w
  BY <1>4, <1>5
<1>7. Src.bytes \in {w, 1, 2, 4, 8}
  BY <1>4, <1>5
<1>8. Src.bytes \in Widths
  BY <1>1, <1>7 DEF Widths
<1> QED
  BY <1>1, <1>5, <1>6, <1>8 DEF HasModRM

LEMMA SourceRM ==
  ASSUME Ready, Form = "RM", ~Deviates
  PROVE  /\ ~InMemory => OfRegister(Rm, Src) = Source
         /\ InMemory /\ Op = "lea" => Source = Address
         /\ InMemory /\ Op # "lea" /\ Address \in Nat /\ Mapped(Address, Src.bytes) =>
              OperandAt(At(Address), Src) = Source /\ Source \in Nat
         /\ ~InMemory => Source \in Nat
<1> DEFINE raw == IF InMemory THEN Load(Address, WideSource) ELSE Get(Rm, WideSource)
           n == Src.bytes
<1>1. /\ n \in Widths
      /\ \/ Name \notin Special /\ Src = U(Wide) /\ Op # "lea" /\ Wide \in {2, 4, 8}
         \/ Name = "Lea_32" /\ Src = U(4) /\ Op = "lea"
         \/ Name = "Lea_64" /\ Src = U(8) /\ Op = "lea"
         \/ Name = "Movsxd_63" /\ Src \in {S(2), S(4)} /\ Op = "mov"
         \/ Name = "Movzx_0FB6" /\ Src = U(1) /\ Op = "mov"
  BY TypesRM
<1>2. \A k : U(k).bytes = k /\ S(k).bytes = k
  BY DEF U, S
<1>3. Rm \in 0 .. 15
  BY FieldsTyped DEF Rm
<1>4. registers[Rm] \in Int /\ registers[Rm] \in Word(WordMod) /\ registers[Rm] \in Nat
  <2>1. Rm \in 0 .. 16
    BY <1>3, SMT
  <2> QED
    BY <1>3, <2>1, RegistersAreWords, RegistersTyped
<1>5. CASE Op = "lea"
  <2>1. Name \in {"Lea_32", "Lea_64"} /\ Source = Address
    BY <1>1, <1>5 DEF Source
  <2>2. ASSUME ~InMemory PROVE OfRegister(Rm, Src) = Address /\ Address \in Nat
    <3>1. MODRM_MOD = 3
      BY <2>2, TypesRM DEF InMemory
    <3>2. ~inst.p_sib /\ ~Relative /\ TrueDispSize = 0
      BY <2>2, <3>1 DEF Ready, Relative, TrueDispSize
    <3>3. FullAddress = 0 + registers[Rm]
      BY <3>2 DEF FullAddress, SignExtended
    <3>4. 0 + registers[Rm] = registers[Rm]
      BY <1>4
    <3>5. 64 \div 8 = 8 /\ 32 \div 8 = 4
      BY SMT
    <3>6. (Name = "Lea_32" => inst.asize = 32 /\ Src = U(4)) /\ (Name = "Lea_64" => inst.asize = 64 /\ Src = U(8))
      BY <1>1, <2>1, OpcodeOfName DEF Special
    <3>7. Address = registers[Rm] % Mod(n)
      BY <1>2, <2>1, <3>3, <3>4, <3>5, <3>6 DEF Address
    <3>8. OfRegister(Rm, Src) = registers[Rm] % Mod(n)
      BY <1>2, <2>1, <3>6, CastUnsigned DEF OfRegister
    <3>9. registers[Rm] % Mod(n) \in Nat
      BY <1>1, <1>4, Below, SMT
    <3> QED
      BY <3>7, <3>8, <3>9
  <2> QED
    BY <1>5, <2>1, <2>2
<1>6. CASE Op # "lea"
  <2>1. Name \notin {"Lea_32", "Lea_64"} /\ WideSource = n
    BY <1>1, <1>6 DEF WideSource, Special
  <2>2. Source = IF Name = "Movsxd_63" THEN SignExtended(raw, n) ELSE raw
    BY <2>1 DEF Source
  <2>3. Name # "Movsxd_63" => Src = U(n) /\ Source = raw
    BY <1>1, <1>2, <1>6, <2>2
  <2>4. Name = "Movsxd_63" => Src = S(n) /\ Source = Cast(raw, Src) /\ n \in {2, 4}
    <3>1. Name = "Movsxd_63" => Src \in {S(2), S(4)}
      BY <1>1 DEF Special
    <3>2. Name = "Movsxd_63" => n \in {2, 4} /\ Src = S(n)
      BY <1>2, <3>1
    <3> QED
      BY <2>2, <3>2 DEF SignExtended
  <2>5. Mod(n) \in Nat
    BY <1>1, Below
  <2>6. ASSUME ~InMemory PROVE raw = registers[Rm] % Mod(n)
    <3>1. raw = Get(Rm, n)
      BY <2>1, <2>6
    <3>2. CASE n # 1
      BY <3>1, <3>2, GetWide
    <3>3. CASE n = 1
      <4>1. Name = "Movzx_0FB6"
        <5>1. Src # U(2) /\ Src # U(4) /\ Src # U(8) /\ Src # S(2) /\ Src # S(4)
          BY <1>2, <3>3, SMT
        <5> QED
          BY <1>1, <1>6, <5>1
      <4>2. ~HighByte(Rm, 1)
        BY <2>6, <4>1 DEF Deviates, ByteRegisters, HighByte
      <4>3. raw = registers[Rm] % ByteMod
        BY <3>1, <3>3, <4>2 DEF Get, Home, get_byte_register
      <4> QED
        BY <3>3, <4>3, PowersPositive
    <3> QED
      BY <3>2, <3>3
  <2>7. ASSUME InMemory, Address \in Nat, Mapped(Address, n) PROVE raw \in 0 .. Mod(n) - 1 /\ raw \in Int
    <3>1. raw = Load(Address, n)
      BY <2>1, <2>7
    <3>2. Load(Address, n) \in 0 .. Mod(n) - 1
      BY <1>1, <2>7, LoadTyped
    <3> QED
      BY <2>5, <3>1, <3>2
  <2>8. ASSUME ~InMemory PROVE OfRegister(Rm, Src) = Source /\ Source \in Nat
    <3>1. OfRegister(Rm, Src) = Cast(registers[Rm], Src)
      BY DEF OfRegister
    <3>2. raw \in 0 .. Mod(n) - 1 /\ raw % Mod(n) = raw /\ raw \in Nat
      <4>1. raw \in 0 .. Mod(n) - 1
        BY <1>1, <1>4, <2>6, <2>8, Below
      <4>2. raw \in Nat
        BY <2>5, <4>1, SMT
      <4> QED
        BY <1>1, <4>1, <4>2, Below
    <3>3. Name # "Movsxd_63" => Cast(registers[Rm], Src) = raw
      BY <2>3, <2>6, <2>8, CastUnsigned
    <3>4. Name = "Movsxd_63" => Cast(registers[Rm], Src) = Cast(raw, Src) /\ Cast(raw, Src) \in Nat
      <4>1. Cast(registers[Rm], S(n)) = Cast(raw, S(n))
        BY <2>6, <2>8, <3>2, CastSigned
      <4>2. Cast(raw, S(n)) \in Nat
        <5>1. raw \in Int
          BY <3>2
        <5> QED
          BY <1>1, <5>1, CastTyped, TypesIn
      <4> QED
        BY <2>4, <4>1, <4>2
    <3> QED
      BY <2>3, <2>4, <3>1, <3>2, <3>3, <3>4
  <2>9. ASSUME InMemory, Address \in Nat, Mapped(Address, n)
        PROVE OperandAt(At(Address), Src) = Source /\ Source \in Nat
    <3>1. OperandAt(At(Address), Src) = Cast(raw, Src)
      BY <2>1, <2>9 DEF OperandAt, At
    <3>2. Name # "Movsxd_63" => Cast(raw, Src) = raw /\ raw \in Nat
      BY <1>1, <2>3, <2>5, <2>7, <2>9, CastKeeps
    <3>3. Name = "Movsxd_63" => Cast(raw, Src) \in Nat
      BY <1>1, <2>4, <2>7, <2>9, CastTyped, TypesIn
    <3> QED
      BY <2>3, <2>4, <3>1, <3>2, <3>3
  <2> QED
    BY <1>6, <2>8, <2>9
<1> QED
  BY <1>5, <1>6

(* The architecture, case by case.                                         *)
LEMMA ArchitectureOf ==
  ASSUME Ready
  PROVE
  LET put(r, b) == <<Put(r, Wide, Value(Op, Get(r, Wide), b)), memory>> IN
  /\ Op \in {"cmp", "test"} => Architecture = <<registers, memory>>
  /\ Op \notin {"cmp", "test"} /\ Form = "RM" => Architecture = put(Reg, Source)
  /\ Op \notin {"cmp", "test"} /\ Form # "RM" /\ Stores /\ InMemory =>
       Architecture = <<registers, ToMemory(Address, Wide, Value(Op, Load(Address, Wide), OtherOperand)).memory>>
  /\ Op \notin {"cmp", "test"} /\ Form # "RM" /\ Stores /\ HasModRM /\ ~InMemory =>
       Architecture = put(Rm, OtherOperand)
  /\ Op \notin {"cmp", "test"} /\ Form # "RM" /\ ~Stores => Architecture = put(DestinationRegister, OtherOperand)
<1> DEFINE put(r, b) == <<Put(r, Wide, Value(Op, Get(r, Wide), b)), memory>>
           store == ToMemory(Address, Wide, Value(Op, Load(Address, Wide), OtherOperand)).memory
<1>1. Op \in {"cmp", "test"} => Architecture = <<registers, memory>>
  BY DEF Architecture
<1>2. ASSUME Op \notin {"cmp", "test"}
      PROVE  Architecture = CASE Form = "RM" -> put(Reg, Source)
                              [] Stores /\ InMemory /\ Form # "RM" -> <<registers, store>>
                              [] Stores /\ HasModRM /\ ~InMemory /\ Form # "RM" -> put(Rm, OtherOperand)
                              [] OTHER -> put(DestinationRegister, OtherOperand)
  <2>1. CASE Form = "RM"
    <3>1. Name # "Or_09"
      BY <2>1, FormOf DEF Fits
    <3> QED
      BY <1>2, <2>1, <3>1 DEF Architecture, Stores
  <2>2. CASE Form # "RM" /\ Stores /\ InMemory
    BY <1>2, <2>2 DEF Architecture
  <2>3. CASE Form # "RM" /\ Stores /\ ~InMemory
    BY <1>2, <2>3 DEF Architecture
  <2>4. CASE Form # "RM" /\ ~Stores
    BY <1>2, <2>4 DEF Architecture
  <2> QED
    BY <2>1, <2>2, <2>3, <2>4
<1> HIDE DEF put, store
<1> QED
  BY <1>1, <1>2 DEF put, store

LEMMA ResultRM ==
  ASSUME Ready, Form = "RM", ~Deviates, ~Faults, NEW v, v = Source, Source \in Nat
  PROVE  Correct(ToRegister(SetReg(Reg, Dst.bytes, Result(OfRegister(Reg, Dst), Cast(v, Dst)))))
<1> DEFINE a == OfRegister(Reg, Dst)
           b == Cast(Source, Dst)
           g == Get(Reg, Wide)
           file == SetReg(Reg, Wide, Value(Op, a, b))
<1>1. /\ Wide \in {2, 4, 8} /\ (Wide = 4 <=> inst.osize = 32) /\ Op \in Ops /\ Dst.bytes = Wide
      /\ Dst \in {U(Wide), S(Wide)} /\ (Op \notin {"mov", "lea"} => Dst = U(Wide))
  BY TypesRM
<1>2. Reg \in 0 .. 15
  BY ModRMFields
<1>3. Wide \in Widths /\ Source \in Int
  BY <1>1, SMT DEF Widths
<1>4. Handler.op = Op
  <2>1. Form \notin {"AL", "A"}
    OBVIOUS
  <2> QED
    BY <2>1, FormOf
<1>5. /\ a \in Nat /\ g \in Nat /\ (Dst = U(Wide) => a = g) /\ a % Mod(Wide) = registers[Reg] % Mod(Wide)
  BY <1>1, <1>2, RegisterCast
<1>6. b \in Nat /\ b % Mod(Wide) = Source % Mod(Wide)
  <2>1. U(Wide) \in Types /\ S(Wide) \in Types
    BY <1>3, TypesIn
  <2>2. b \in Nat
    BY <1>1, <1>3, <2>1, CastTyped
  <2>3. b % Mod(Wide) = Source % Mod(Wide)
    BY <1>1, <1>3, CastModulo
  <2> QED
    BY <2>2, <2>3
<1>7. Op \notin {"mov", "lea"} => b = Source
  <2>1. CASE Name \in Special
    BY <2>1, TypesRM
  <2>2. CASE Name \notin Special
    <3>1. Src = U(Wide)
      BY <2>2, TypesRM DEF Special
    <3>2. Source \in 0 .. Mod(Wide) - 1
      <4>1. Src.bytes = Wide
        BY <3>1 DEF U
      <4>2. Name \notin {"Lea_32", "Lea_64", "Movsxd_63"} /\ Op # "lea"
        BY <2>2, TypesRM DEF Special
      <4>3. WideSource = Wide
        BY <4>1, <4>2 DEF WideSource
      <4>4. CASE ~InMemory
        <5>1. Source = Get(Rm, Wide)
          BY <4>2, <4>3, <4>4 DEF Source
        <5>2. Rm \in 0 .. 15
          BY FieldsTyped DEF Rm
        <5> QED
          BY <1>1, <5>1, <5>2, RegisterCast
      <4>5. CASE InMemory
        <5>1. Source = Load(Address, Wide)
          BY <4>2, <4>3, <4>5 DEF Source
        <5>2. Mapped(Address, Wide)
          BY <4>2, <4>3, <4>5 DEF Faults
        <5>3. Address \in Nat
          <6>1. Residues # {}
            BY OperandsAssumption
          <6>2. PICK junk \in Residues : TRUE
            BY <6>1
          <6> QED
            BY <4>5, WhereOperandIs, PlacedUnlessDeviates
        <5> QED
          BY <1>3, <5>1, <5>2, <5>3, LoadTyped
      <4> QED
        BY <4>4, <4>5
    <3>3. ASSUME Op \notin {"mov", "lea"} PROVE b = Source
      <4>1. Dst = U(Wide)
        BY <1>1, <3>3
      <4> QED
        BY <1>3, <3>2, <4>1, CastKeeps
    <3> QED
      BY <3>3
  <2> QED
    BY <2>1, <2>2
<1>8. SetReg(Reg, Dst.bytes, Result(OfRegister(Reg, Dst), Cast(v, Dst))) = file
  BY <1>1, <1>4 DEF Result
<1> HIDE DEF a, b, g
<1>9. CASE Op = "cmp"
  <2>1. Value(Op, a, b) = a
    BY <1>9 DEF Value
  <2>2. file = registers
    BY <1>2, <1>3, <1>5, <2>1, Unchanged
  <2> HIDE DEF file
  <2> QED
    BY <1>8, <1>9, <2>2, ArchitectureOf, Outcomes DEF Correct
<1>10. CASE Op # "cmp"
  <2>1. Op # "test"
    <3>1. Name \in Special => Op \in {"mov", "lea"}
      BY TypesRM
    <3>2. Form \notin {"AL", "A"}
      OBVIOUS
    <3>3. FitsRM(Name, Handler) /\ Op = Handler.op
      BY <3>2, FormOf DEF Fits
    <3> QED
      BY <3>3 DEF FitsRM
  <2>2. Architecture = <<Put(Reg, Wide, Value(Op, g, Source)), memory>>
    BY <1>10, <2>1, ArchitectureOf DEF g
  <2>3. Value(Op, a, b) \in Int /\ Value(Op, g, Source) \in Int
    BY <1>1, <1>5, <1>6, ValueTyped
  <2>4. Value(Op, a, b) % Mod(Wide) = Value(Op, g, Source) % Mod(Wide)
    <3>1. CASE Op \in {"mov", "lea"}
      <4>1. Value(Op, a, b) = b /\ Value(Op, g, Source) = Source
        BY <3>1 DEF Value
      <4> QED
        BY <1>6, <4>1
    <3>2. CASE Op \notin {"mov", "lea"}
      BY <1>1, <1>5, <1>7, <3>2
    <3> QED
      BY <3>1, <3>2
  <2>5. Wide = 4 => registers[Reg] < Mod(4)
    <3>1. registers[Reg] \in Nat /\ Mod(4) \in Nat
      BY <1>2, RegistersTyped, PowersPositive
    <3>2. Wide = 4 => ~(registers[Reg] >= Mod(4))
      BY <1>1, <1>10 DEF Deviates, UpperHalfKept, DestinationRegister
    <3> QED
      BY <3>1, <3>2, SMT
  <2>6. file = Put(Reg, Wide, Value(Op, g, Source))
    BY <1>1, <1>2, <2>3, <2>4, <2>5, SameResult
  <2> HIDE DEF file
  <2> QED
    BY <1>8, <2>2, <2>6, Outcomes DEF Correct
<1> QED
  BY <1>9, <1>10

LEMMA CorrectRM ==
  ASSUME Ready, Form = "RM", ~Deviates, NEW junk \in Residues, ~LookupFails(junk)
  PROVE  Correct(InstrRM(junk))
<1> DEFINE m == set_modrm_byte
           loc == Location(Src, inst.pos_opcode + 2, WrapAdd(WordMod, registers[Rip], Len(inst.code)), junk)
           Effect(v) == ToRegister(SetReg(m.reg, Dst.bytes, Result(OfRegister(m.reg, Dst), Cast(v, Dst))))
<1>1. /\ m.reg = Reg /\ (m.is_addr <=> InMemory)
      /\ ~InMemory => m.rm = Rm
  <2>1. HasModRM /\ (~InMemory => MODRM_MOD = 3)
    BY TypesRM DEF InMemory
  <2>2. m.reg = Reg /\ m.rm = RmRegister /\ (m.is_addr <=> MODRM_MOD # 3)
        /\ (RmRegister # None => RmRegister = Rm) /\ (RmRegister = None => MODRM_MOD = 0)
    BY ModRMFields
  <2> HIDE DEF m
  <2> QED
    BY <2>1, <2>2 DEF InMemory
<1>2. InstrRM(junk) = IF ~m.is_addr THEN Effect(OfRegister(m.rm, Src))
                      ELSE IF Handler.op = "lea"
                      THEN (IF loc.kind = "invalid" THEN Skip
                            ELSE IF loc.kind = "wild" THEN Terminate ELSE Effect(loc.addr))
                      ELSE OnMemory(loc, Src, Skip, Effect(OperandAt(loc, Src)))
  BY DEF InstrRM
<1>3. Handler.op = Op
  <2>1. Form \notin {"AL", "A"}
    OBVIOUS
  <2> QED
    BY <2>1, FormOf
<1>4. ASSUME ~Faults, NEW v, v = Source, Source \in Nat PROVE Correct(Effect(v))
  BY <1>1, <1>4, ResultRM
<1>5. CASE ~InMemory
  <2>1. ~Faults
    BY <1>5 DEF Faults
  <2>2. OfRegister(m.rm, Src) = Source /\ Source \in Nat
    BY <1>1, <1>5, SourceRM
  <2>3. InstrRM(junk) = Effect(OfRegister(m.rm, Src))
    BY <1>1, <1>2, <1>5
  <2> HIDE DEF Effect, m, loc
  <2> QED
    BY <1>4, <2>1, <2>2, <2>3
<1>6. CASE InMemory
  <2>1. loc = At(Address) /\ Address \in Nat
    BY <1>6, WhereOperandIs, PlacedUnlessDeviates
  <2>2. loc.kind = "memory" /\ loc.addr = Address
    BY <2>1 DEF At
  <2>3. CASE Op = "lea"
    <3>1. ~Faults /\ Source = Address
      BY <1>6, <2>3, SourceRM DEF Faults
    <3>2. InstrRM(junk) = Effect(loc.addr)
      BY <1>1, <1>2, <1>3, <1>6, <2>2, <2>3
    <3> HIDE DEF Effect, m, loc
    <3> QED
      BY <1>4, <2>1, <2>2, <3>1, <3>2
  <2>4. CASE Op # "lea"
    <3>1. Faults <=> ~Mapped(Address, Src.bytes)
      BY <1>6, <2>4 DEF Faults, WideSource
    <3>2. InstrRM(junk) = OnMemory(loc, Src, Skip, Effect(OperandAt(loc, Src)))
      BY <1>1, <1>2, <1>3, <1>6, <2>4
    <3> HIDE DEF Effect, m, loc
    <3>3. InstrRM(junk) = IF Mapped(Address, Src.bytes) THEN Effect(OperandAt(loc, Src)) ELSE Skip
      BY <2>1, <3>2, FromMemory
    <3>4. CASE Faults
      BY <3>1, <3>3, <3>4, Outcomes DEF Correct
    <3>5. CASE ~Faults
      <4>1. OperandAt(loc, Src) = Source /\ Source \in Nat
        BY <1>6, <2>1, <2>4, <3>1, <3>5, SourceRM
      <4> QED
        BY <1>4, <3>1, <3>3, <3>5, <4>1
    <3> QED
      BY <3>4, <3>5
  <2> QED
    BY <2>3, <2>4
<1> QED
  BY <1>5, <1>6

-----------------------------------------------------------------------------
(* Instructions that write where ModRM says, with a whole register         *)
LEMMA TypesMR ==
  ASSUME Ready, Form \in {"MR", "M"}
  PROVE  /\ Wide \in {2, 4, 8} /\ HasModRM /\ Stores /\ Op \in Ops /\ Handler.op = Op
         /\ Wide = 4 <=> inst.osize = 32
         /\ Wide = 8 <=> inst.osize = 64
         /\ Dst = U(Wide) /\ Dst.bytes = Wide /\ WideSource = Wide
         /\ Op # "cmp" /\ (Form = "M" => Op = "dec")
<1> DEFINE w == inst.osize \div 8
<1>1. Form \notin {"AL", "A"}
  OBVIOUS
<1>2. /\ Fits(Name, Handler) /\ Handler.form = Form /\ Op = Handler.op /\ inst.osize \in Sizes
      /\ Dst = OperandTypes[Handler.dst][inst.osize]
      /\ Wide = IF Form = "MR8" THEN 1 ELSE w
      /\ w \in {2, 4, 8}
      /\ w = 4 <=> inst.osize = 32
      /\ w = 8 <=> inst.osize = 64
  BY <1>1, FormOf
<1>3. OperandTypes["Unsigned"][inst.osize] = U(w)
  BY <1>2, TypesByName
<1> HIDE DEF w
<1>4. Wide = w
  BY <1>2
<1>5. /\ Handler.dst = "Unsigned" /\ Handler.op \in {"add", "and", "sub", "xor", "mov", "test", "dec"}
      /\ Form = "M" => Handler.op = "dec"
  BY <1>2 DEF Fits
<1>6. Dst = U(Wide)
  BY <1>2, <1>3, <1>4, <1>5
<1>7. Dst.bytes = Wide
  BY <1>6 DEF U
<1>8. Op \in Ops /\ Op # "cmp" /\ (Form = "M" => Op = "dec")
  BY <1>2, <1>5 DEF Ops
<1>9. HasModRM /\ Stores /\ WideSource = Wide
  BY DEF HasModRM, Stores, WideSource
<1> QED
  BY <1>2, <1>4, <1>6, <1>7, <1>8, <1>9

(* A store of all eight bytes, and a comparison that stores what it read   *)
LEMMA StoreCorrect ==
  ASSUME Ready, Form \in {"MR", "M", "MI"}, InMemory, Stores, ~Faults, Wide = 8, WideSource = 8,
         Address \in Nat, Op \in Ops \ {"lea"}, NEW b, b = OtherOperand
  PROVE  Correct(ToMemory(Address, 8, Value(Op, Load(Address, 8), b)))
<1> DEFINE v == Load(Address, 8)
           o == ToMemory(Address, 8, Value(Op, v, b))
<1>1. Mapped(Address, 8)
  BY DEF Faults, Ops
<1>2. o.registers = registers /\ o.state = "next"
  BY Outcomes
<1>3. CASE Op \in {"cmp", "test"}
  <2>1. Value(Op, v, b) = v
    BY <1>3 DEF Value
  <2>2. 8 \in Widths
    BY DEF Widths
  <2>3. o = Skip
    BY <1>1, <2>1, <2>2, StoreBack
  <2> HIDE DEF o, v
  <2> QED
    BY <1>3, <2>3, ArchitectureOf, Outcomes DEF Correct, o, v
<1>4. CASE Op \notin {"cmp", "test"}
  <2>1. Architecture = <<registers, o.memory>>
    BY <1>4, ArchitectureOf
  <2> HIDE DEF o, v
  <2> QED
    BY <1>2, <2>1 DEF Correct, o, v
<1> QED
  BY <1>3, <1>4

LEMMA LoadOfEight ==
  ASSUME Ready, Address \in Nat, Mapped(Address, 8), NEW type \in {U(8), S(8)}
  PROVE  OperandAt(At(Address), type) = Load(Address, 8)
<1>1. type.bytes = 8
  BY DEF U, S
<1>2. 8 \in Widths
  BY DEF Widths
<1>3. Load(Address, 8) \in Word(WordMod)
  BY <1>2, LoadTyped
<1>4. Cast(Load(Address, 8), type) = Load(Address, 8)
  BY <1>3, CastOfWord
<1> QED
  BY <1>1, <1>4 DEF OperandAt, At

LEMMA RegisterOfMR ==
  ASSUME Ready, Form \in {"MR", "M"}, ~Deviates, ~InMemory
  PROVE  Correct(ToRegister(SetReg(Rm, RegisterBytes, Value(Op, Get(Rm, Wide), OtherOperand))))
<1> DEFINE a == Get(Rm, Wide)
           v == Value(Op, a, OtherOperand)
           file == SetReg(Rm, RegisterBytes, v)
<1>1. /\ Wide \in {2, 4, 8} /\ HasModRM /\ Stores /\ Op \in Ops /\ Op # "cmp" /\ (Wide = 4 <=> inst.osize = 32)
      /\ Dst.bytes = Wide /\ (Form = "M" => Op = "dec")
  BY TypesMR
<1>2. Rm \in 0 .. 15 /\ Reg \in 0 .. 15 /\ ~Faults
  BY FieldsTyped, ModRMFields DEF Rm, Faults
<1>3. a \in Nat /\ OtherOperand \in Nat
  <2>1. OtherOperand = IF Form = "MR" THEN Get(Reg, Wide) ELSE 0
    BY DEF OtherOperand
  <2> QED
    BY <1>1, <1>2, <2>1, RegisterCast
<1>4. v \in Nat
  BY <1>1, <1>3, ValueTyped
<1>5. RegisterBytes = IF Wide = 4 THEN 8 ELSE Wide
  BY <1>1 DEF RegisterBytes
<1> HIDE DEF a
<1>6. CASE Op = "test"
  <2>1. v = a
    BY <1>6 DEF Value
  <2>2. CASE Wide = 4
    <3>1. registers[Rm] < Mod(4) /\ registers[Rm] \in Nat /\ Mod(4) \in Nat \ {0}
      <4>1. registers[Rm] \in Nat /\ Mod(4) \in Nat \ {0}
        BY <1>2, RegistersTyped, PowersPositive
      <4>2. Form = "MR" /\ DestinationRegister = Rm
        <5>1. Form = "MR"
          BY <1>1, <1>6
        <5>2. Home(Rm, Wide) = Rm
          BY <2>2 DEF Home, HighByte
        <5> QED
          BY <5>1, <5>2 DEF DestinationRegister
      <4>3. ~(registers[Rm] >= Mod(4))
        BY <1>1, <1>6, <2>2, <4>2 DEF Deviates, UpperHalfKept
      <4> QED
        BY <4>1, <4>3, SMT
    <3>2. registers[Rm] % Mod(4) = registers[Rm]
      BY <3>1, SmallMod
    <3>3. a = registers[Rm]
      BY <2>2, <3>2, GetWide DEF a
    <3>4. file = registers
      BY <1>2, <1>5, <2>1, <2>2, <3>3, Unchanged DEF Widths
    <3> HIDE DEF file, v
    <3> QED
      BY <1>2, <1>6, <3>4, ArchitectureOf, Outcomes DEF Correct, file, v, a
  <2>3. CASE Wide # 4
    <3>1. Wide \in Widths /\ Wide # 1
      BY <1>1, SMT DEF Widths
    <3>2. a = registers[Rm] % Mod(Wide)
      BY <3>1, GetWide DEF a
    <3>3. v % Mod(Wide) = registers[Rm] % Mod(Wide)
      <4>1. registers[Rm] \in Int
        BY <1>2, RegistersTyped
      <4>2. registers[Rm] % Mod(Wide) \in 0 .. Mod(Wide) - 1
        BY <3>1, <4>1, Below
      <4> QED
        BY <2>1, <3>1, <3>2, <4>2, Below
    <3>4. file = registers
      BY <1>2, <1>5, <2>3, <3>1, <3>3, Unchanged
    <3> HIDE DEF file, v
    <3> QED
      BY <1>2, <1>6, <3>4, ArchitectureOf, Outcomes DEF Correct, file, v, a
  <2> QED
    BY <2>2, <2>3
<1>7. CASE Op # "test"
  <2>1. Architecture = <<Put(Rm, Wide, v), memory>>
    <3>1. Op \notin {"cmp", "test"} /\ Form # "RM"
      BY <1>1, <1>7
    <3> QED
      BY <1>1, <3>1, ArchitectureOf DEF a
  <2>2. file = Put(Rm, Wide, v)
    <3>1. CASE Wide = 4
      <4>1. ~(v >= Mod(4))
        BY <1>1, <3>1 DEF Deviates, CarryIsKept, a
      <4>2. v < Mod(4)
        BY <1>4, <4>1, PowersPositive, SMT
      <4> HIDE DEF v
      <4> QED
        BY <1>4, <1>5, <3>1, <4>2, SameLongResult
    <3>2. CASE Wide # 4
      <4>1. Wide # 1
        BY <1>1, SMT
      <4> HIDE DEF v
      <4> QED
        BY <1>5, <3>2, <4>1 DEF Put
    <3> QED
      BY <3>1, <3>2
  <2> HIDE DEF file, v
  <2> QED
    BY <1>2, <2>1, <2>2, Outcomes DEF Correct, file, v, a
<1> QED
  BY <1>6, <1>7

LEMMA MemoryOfMR ==
  ASSUME Ready, Form \in {"MR", "M"}, ~Deviates, InMemory, NEW missed \in {Skip, Terminate},
         NEW b, b = OtherOperand
  PROVE  Correct(OnMemory(At(Address), Dst, missed,
                          ToOperand(Address, Result(OperandAt(At(Address), Dst), b), Dst.bytes)))
<1> DEFINE o == ToOperand(Address, Result(OperandAt(At(Address), Dst), b), Dst.bytes)
<1>1. /\ Wide \in {2, 4, 8} /\ Stores /\ Op \in Ops /\ Handler.op = Op /\ (Wide = 8 <=> inst.osize = 64)
      /\ Dst = U(Wide) /\ Dst.bytes = Wide /\ WideSource = Wide
  BY TypesMR
<1>2. Wide = 8
  BY <1>1 DEF Deviates, EightBytesStored
<1>3. Address \in Nat
  <2>1. PICK junk \in Residues : TRUE
    BY OperandsAssumption
  <2> QED
    BY WhereOperandIs, PlacedUnlessDeviates
<1>4. Op # "lea"
  <2>1. Form \notin {"AL", "A"}
    OBVIOUS
  <2> QED
    BY <2>1, FormOf DEF Fits
<1>5. Faults <=> ~Mapped(Address, 8)
  BY <1>1, <1>2, <1>4 DEF Faults
<1>6. CASE Faults
  <2>1. OnMemory(At(Address), Dst, missed, o) = missed
    BY <1>1, <1>2, <1>5, <1>6, FromMemory
  <2> HIDE DEF o
  <2> QED
    BY <1>6, <2>1, Outcomes DEF Correct, o
<1>7. CASE ~Faults
  <2>1. OnMemory(At(Address), Dst, missed, o) = o
    BY <1>1, <1>2, <1>5, <1>7, FromMemory
  <2>2. OperandAt(At(Address), Dst) = Load(Address, 8)
    BY <1>1, <1>2, <1>3, <1>5, <1>7, LoadOfEight
  <2>3. o = ToMemory(Address, 8, Value(Op, Load(Address, 8), b))
    BY <1>1, <2>2 DEF ToOperand, Result
  <2> HIDE DEF o
  <2>4. Correct(o)
    BY <1>1, <1>2, <1>3, <1>4, <1>7, <2>3, StoreCorrect
  <2> QED
    BY <2>1, <2>4 DEF o
<1> QED
  BY <1>6, <1>7

LEMMA CorrectMR ==
  ASSUME Ready, Form \in {"MR", "M"}, ~Deviates, NEW junk \in Residues
  PROVE  /\ Form = "MR" => Correct(InstrMR(junk))
         /\ Form = "M" => Correct(InstrM(junk))
<1> DEFINE m == set_modrm_byte
           other == IF Form = "MR" THEN OfRegister(m.reg, Dst) ELSE 0
<1>1. /\ Wide \in {2, 4, 8} /\ HasModRM /\ Dst = U(Wide) /\ Handler.op = Op
  BY TypesMR
<1>2. /\ m.reg = Reg /\ Reg \in 0 .. 15 /\ Rm \in 0 .. 15
      /\ (m.is_addr <=> InMemory)
      /\ ~InMemory => m.rm = Rm
  <2>1. ~InMemory => MODRM_MOD = 3
    BY <1>1 DEF InMemory
  <2>2. m.reg = Reg /\ m.rm = RmRegister /\ (m.is_addr <=> MODRM_MOD # 3) /\ Reg \in 0 .. 15
        /\ (RmRegister # None => RmRegister = Rm) /\ (RmRegister = None => MODRM_MOD = 0)
    BY ModRMFields
  <2>3. Rm \in 0 .. 15
    BY FieldsTyped DEF Rm
  <2> HIDE DEF m
  <2> QED
    BY <1>1, <2>1, <2>2, <2>3 DEF InMemory
<1>3. other = OtherOperand
  <2>1. OtherOperand = IF Form = "MR" THEN Get(Reg, Wide) ELSE 0
    BY DEF OtherOperand
  <2>2. OfRegister(Reg, Dst) = Get(Reg, Wide)
    BY <1>1, <1>2, RegisterCast
  <2> HIDE DEF m
  <2> QED
    BY <1>2, <2>1, <2>2
<1>4. CASE ~InMemory
  <2>1. OfRegister(Rm, Dst) = Get(Rm, Wide)
    BY <1>1, <1>2, RegisterCast
  <2>2. Form = "MR" => InstrMR(junk) = ToRegister(SetReg(m.rm, RegisterBytes, Result(OfRegister(m.rm, Dst), OfRegister(m.reg, Dst))))
    BY <1>2, <1>4 DEF InstrMR, RegisterMR
  <2>3. Form = "M" => InstrM(junk) = ToRegister(SetReg(m.rm, RegisterBytes, Result(OfRegister(m.rm, Dst), 0)))
    BY <1>2, <1>4 DEF InstrM, RegisterM
  <2> HIDE DEF m
  <2>4. (IF Form = "MR" THEN InstrMR(junk) ELSE InstrM(junk))
          = ToRegister(SetReg(Rm, RegisterBytes, Value(Op, Get(Rm, Wide), OtherOperand)))
    BY <1>1, <1>2, <1>3, <1>4, <2>1, <2>2, <2>3 DEF Result
  <2> QED
    BY <1>4, <2>4, RegisterOfMR
<1>5. CASE InMemory
  <2> DEFINE bare == ModRMLocation(Dst, inst.pos_opcode + 2, 0)
             At1(loc, missed) == OnMemory(loc, Dst, missed,
                                   ToOperand(loc.addr, Result(OperandAt(loc, Dst), other), Dst.bytes))
  <2>1. /\ ~inst.p_sib => bare = At(Address)
        /\ inst.p_sib => SibLocation(junk) = At(Address)
    BY <1>5, WhereOperandIs, PlacedUnlessDeviates
  <2>2. At(Address).addr = Address
    BY DEF At
  <2>3. \A missed \in {Skip, Terminate} : Correct(At1(At(Address), missed))
    BY <1>3, <1>5, <2>2, MemoryOfMR
  <2>4. \E missed \in {Skip, Terminate} :
          /\ Form = "MR" => InstrMR(junk) = At1(IF inst.p_sib THEN SibLocation(junk) ELSE bare, missed)
          /\ Form = "M" => InstrM(junk) = At1(IF inst.p_sib THEN SibLocation(junk) ELSE bare, missed)
    <3>1. CASE Form = "MR"
      BY <1>2, <1>5, <3>1 DEF InstrMR, SibMR, BareMR, MemoryMR
    <3>2. CASE Form = "M"
      BY <1>2, <1>5, <3>2 DEF InstrM, SibM, BareM, MemoryM
    <3> QED
      BY <3>1, <3>2
  <2> HIDE DEF At1, bare
  <2> QED
    BY <2>1, <2>3, <2>4
<1> QED
  BY <1>4, <1>5

-----------------------------------------------------------------------------
(* Immediates *)

LEMMA EncodedDatum ==
  ASSUME Ready, ~OtherLength, Name # "Or_09", ~HasModRM \/ Form = "MI", NEW n \in Widths, n = ImmediateBytes,
         NEW pos \in Nat, pos = ImmediateAt, NEW past
  PROVE  Datum(pos, n, past) = Encoded /\ Encoded \in 0 .. Mod(n) - 1 /\ Encoded \in Nat
<1>1. TrueLength = ImmediateAt + ImmediateBytes
  BY DEF TrueLength
<1>2. Len(inst.code) = pos + n
  BY <1>1 DEF OtherLength
<1>3. pos + n <= Len(inst.code)
  BY <1>2, SMT DEF Widths
<1>4. Datum(pos, n, past) = Field(pos, n) /\ Datum(pos, n, 0) = Field(pos, n)
  BY <1>3, DatumWithin
<1>5. Field(pos, n) = Encoded
  BY DEF Encoded
<1>6. Datum(pos, n, 0) \in 0 .. Mod(n) - 1
  BY DatumBelow
<1>7. Mod(n) \in Nat
  BY Below
<1>8. \A m \in Nat : \A x \in 0 .. m - 1 : x \in Nat
  BY SMT
<1> QED
  BY <1>4, <1>5, <1>6, <1>7, <1>8

(* A shorter immediate that is not negative is its own extension.          *)
LEMMA NotExtended ==
  ASSUME NEW n \in Widths, NEW x \in 0 .. Mod(n) - 1, ~Negative(x, n)
  PROVE  SignExtended(x, n) = x
<1>1. n # 0
  BY SMT DEF Widths
<1>2. ~(x >= Mod(n) \div 2)
  BY <1>1 DEF Negative
<1>3. x % Mod(n) = x
  BY Below
<1> QED
  BY <1>1, <1>2, <1>3, CastSigned DEF SignExtended

LEMMA TypesMI ==
  ASSUME Ready, Form \in {"MI", "I"}, ~Or09
  PROVE  /\ Wide \in {2, 4, 8} /\ Op \in Ops \ {"lea"} /\ Handler.op = Op /\ Name \notin {"Or_09", "Movzx_0FB6"}
         /\ Wide = 4 <=> inst.osize = 32
         /\ Wide = 8 <=> inst.osize = 64
         /\ Dst \in {U(Wide), S(Wide)} /\ Dst.bytes = Wide /\ WideSource = Wide
         /\ ImmediateBytes = Src.bytes /\ Src.bytes \in Widths /\ Src.bytes <= Wide
         /\ \/ Dst = U(Wide) /\ Src = U(Src.bytes)
            \/ Dst = S(Wide) /\ Src = S(1) /\ Op = "add" /\ Src.bytes = 1
            \/ Wide = 8 /\ Dst = S(8) /\ Src = S(4) /\ Op = "mov" /\ Src.bytes = 4
         /\ Handler.from \in {"opcode", "start"}
         /\ Form = "MI" <=> HasModRM
         /\ Form = "MI" <=> Stores
         /\ Form = "I" => Op \notin {"cmp", "test"} /\ Dst = U(Wide)
<1> DEFINE w == inst.osize \div 8
           h == Handler
<1>1. Form \notin {"AL", "A"}
  OBVIOUS
<1>2. /\ Fits(Name, h) /\ h.form = Form /\ Op = h.op /\ inst.osize \in Sizes
      /\ Dst = OperandTypes[h.dst][inst.osize] /\ Src = OperandTypes[h.src][inst.osize]
      /\ Wide = IF Form = "MR8" THEN 1 ELSE w
      /\ w \in {2, 4, 8}
      /\ w = 4 <=> inst.osize = 32
      /\ w = 8 <=> inst.osize = 64
  BY <1>1, FormOf
<1>3. /\ OperandTypes["Unsigned"][inst.osize] = U(w) /\ OperandTypes["Signed"][inst.osize] = S(w)
      /\ OperandTypes["imm8"][inst.osize] = U(1) /\ OperandTypes["simm8"][inst.osize] = S(1)
      /\ OperandTypes["imm32"][inst.osize] = U(IF w = 2 THEN 2 ELSE 4)
      /\ OperandTypes["Mixed"][inst.osize] = (IF w = 8 THEN S(8) ELSE U(w))
      /\ OperandTypes["mixed32"][inst.osize] = (IF w = 8 THEN S(4) ELSE U(w))
  BY <1>2, TypesByName
<1>4. /\ h.from \in {"opcode", "start"}
      /\ Form = "MI" => FitsMI(h)
      /\ Form = "I" => h.dst = "Unsigned" /\ h.src = "imm32" /\ h.op \in {"add", "or", "and", "xor"}
      /\ Name \notin Special /\ Name # "Or_09"
  <2>1. Name # "Or_09"
    BY DEF Or09
  <2>2. Name \notin Special
    BY <1>2 DEF Fits
  <2> QED
    BY <1>2, <2>1, <2>2 DEF Fits
<1> HIDE DEF w, h
<1>6. Wide = w
  BY <1>2
<1>7. \A n : U(n).bytes = n /\ S(n).bytes = n
  BY DEF U, S
<1>8. 1 \in Widths /\ 2 \in Widths /\ 4 \in Widths /\ 8 \in Widths /\ 1 <= 2 /\ 1 <= 4 /\ 1 <= 8 /\ 2 <= 2 /\ 4 <= 4 /\ 4 <= 8
  BY SMT DEF Widths
<1>9. /\ Op \in Ops \ {"lea"}
      /\ Form = "I" => Op \notin {"cmp", "test"} /\ Dst = U(w)
      /\ \/ Dst = U(w) /\ Src = U(1)
         \/ Dst = U(w) /\ Src = U(2) /\ w = 2
         \/ Dst = U(w) /\ Src = U(4) /\ w \in {4, 8}
         \/ Dst = S(w) /\ Src = S(1) /\ Op = "add"
         \/ w = 8 /\ Dst = S(8) /\ Src = S(4) /\ Op = "mov"
  <2>1. CASE Form = "I"
    <3>1. Src = U(IF w = 2 THEN 2 ELSE 4) /\ Dst = U(w)
      BY <1>2, <1>3, <1>4, <2>1
    <3> QED
      BY <1>2, <1>4, <2>1, <3>1 DEF Ops
  <2>2. CASE Form = "MI"
    <3>1. CASE h.dst = "Unsigned" /\ h.src \in {"imm32", "imm8"} /\ h.op \in {"add", "or", "and", "sub", "xor", "cmp"}
      <4>1. Dst = U(w) /\ (Src = U(1) \/ Src = U(IF w = 2 THEN 2 ELSE 4))
        BY <1>2, <1>3, <3>1
      <4> QED
        BY <1>2, <2>2, <3>1, <4>1 DEF Ops
    <3>2. CASE h.dst = "Signed" /\ h.src = "simm8" /\ h.op = "add"
      <4>1. Dst = S(w) /\ Src = S(1)
        BY <1>2, <1>3, <3>2
      <4> QED
        BY <1>2, <2>2, <3>2, <4>1 DEF Ops
    <3>3. CASE h.dst = "Mixed" /\ h.src = "mixed32" /\ h.op = "mov"
      <4>1. Dst = (IF w = 8 THEN S(8) ELSE U(w)) /\ Src = (IF w = 8 THEN S(4) ELSE U(w))
        BY <1>2, <1>3, <3>3
      <4> QED
        BY <1>2, <2>2, <3>3, <4>1 DEF Ops
    <3> QED
      BY <1>4, <2>2, <3>1, <3>2, <3>3 DEF FitsMI
  <2> QED
    BY <2>1, <2>2
<1>10. /\ Dst \in {U(w), S(w)} /\ Dst.bytes = w
       /\ Src.bytes \in Widths /\ Src.bytes <= w
       /\ \/ Dst = U(w) /\ Src = U(Src.bytes)
          \/ Dst = S(w) /\ Src = S(1) /\ Op = "add" /\ Src.bytes = 1
          \/ w = 8 /\ Dst = S(8) /\ Src = S(4) /\ Op = "mov" /\ Src.bytes = 4
  <2>1. CASE Dst = U(w) /\ Src = U(1)
    BY <1>2, <1>7, <1>8, <2>1
  <2>2. CASE Dst = U(w) /\ Src = U(2) /\ w = 2
    BY <1>7, <1>8, <2>2
  <2>3. CASE Dst = U(w) /\ Src = U(4) /\ w \in {4, 8}
    BY <1>7, <1>8, <2>3
  <2>4. CASE Dst = S(w) /\ Src = S(1) /\ Op = "add"
    BY <1>2, <1>7, <1>8, <2>4
  <2>5. CASE w = 8 /\ Dst = S(8) /\ Src = S(4) /\ Op = "mov"
    BY <1>7, <1>8, <2>5
  <2> QED
    BY <1>9, <2>1, <2>2, <2>3, <2>4, <2>5
<1>11. ImmediateBytes = Src.bytes
  BY DEF ImmediateBytes
<1>12. /\ Form = "MI" <=> HasModRM
       /\ Form = "MI" <=> Stores
       /\ WideSource = Wide
  BY <1>4 DEF HasModRM, Stores, WideSource
<1>13. Handler.op = Op /\ Handler.from \in {"opcode", "start"}
  BY <1>2, <1>4 DEF h
<1> QED
  BY <1>2, <1>4, <1>6, <1>9, <1>10, <1>11, <1>12, <1>13 DEF Special

(* The immediate has the value of the architecture, or for ADD 83 the same *)
(* low bytes.                                                              *)
LEMMA ImmediateValue ==
  ASSUME Ready, Form \in {"MI", "I"}, ~Deviates, NEW pos \in Nat, pos = ImmediateAt, NEW junk \in Residues
  PROVE  /\ Immediate(pos, junk) \in Nat /\ OtherOperand \in Nat
         /\ Immediate(pos, junk) % Mod(Wide) = OtherOperand % Mod(Wide)
         /\ Dst = U(Wide) \/ Wide = 8 => Immediate(pos, junk) = OtherOperand
<1> DEFINE n == Src.bytes
           imm == Immediate(pos, junk)
           x == Encoded
<1>1. /\ Wide \in {2, 4, 8} /\ Dst \in {U(Wide), S(Wide)}
      /\ ImmediateBytes = n /\ n \in Widths /\ n <= Wide
      /\ \/ Dst = U(Wide) /\ Src = U(n)
         \/ Dst = S(Wide) /\ Src = S(1) /\ n = 1
         \/ Wide = 8 /\ Dst = S(8) /\ Src = S(4) /\ n = 4
      /\ Name # "Or_09" /\ (Form = "MI" <=> HasModRM)
  <2>1. ~Or09
    BY DEF Deviates
  <2> QED
    BY <2>1, TypesMI
<1>2. Datum(pos, n, junk.past) = x /\ x \in 0 .. Mod(n) - 1 /\ x \in Nat
  <2>1. ~OtherLength /\ (~HasModRM \/ Form = "MI")
    BY <1>1 DEF Deviates
  <2> QED
    BY <1>1, <2>1, EncodedDatum
<1>3. imm = Cast(Cast(x, Src), Dst)
  BY <1>2 DEF Immediate
<1>4. OtherOperand = IF n = Wide THEN x ELSE SignExtended(x, n)
  <2>1. OtherOperand = IF ImmediateBytes = Wide THEN Encoded ELSE SignExtended(Encoded, ImmediateBytes)
    BY DEF OtherOperand
  <2> QED
    BY <1>1, <2>1
<1>5. ASSUME Dst = U(Wide), Src = U(n) PROVE imm = x /\ OtherOperand = x
  <2>1. Cast(x, U(n)) = x
    BY <1>1, <1>2, CastKeeps
  <2>2. Wide \in Widths
    BY <1>1 DEF Widths
  <2>3. x \in 0 .. Mod(Wide) - 1
    <3>1. Mod(n) <= Mod(Wide) /\ Mod(n) \in Nat /\ Mod(Wide) \in Nat
      BY <1>1, <2>2, WiderPower, Below
    <3> QED
      BY <1>2, <3>1, SMT
  <2>4. Cast(x, U(Wide)) = x
    BY <2>2, <2>3, CastKeeps
  <2>5. n # Wide => ~Negative(x, n)
    <3>1. ~Src.signed
      BY <1>5 DEF U
    <3>2. n # Wide => n < Wide
      BY <1>1, SMT DEF Widths
    <3> QED
      BY <1>1, <3>1, <3>2 DEF Deviates, ImmediateUnsigned
  <2>6. n # Wide => SignExtended(x, n) = x
    BY <1>1, <1>2, <2>5, NotExtended
  <2> QED
    BY <1>3, <1>4, <1>5, <2>1, <2>4, <2>6
<1>6. ASSUME n \in {1, 4}, n # Wide, Src = S(n), Dst = S(Wide)
      PROVE  /\ imm \in Nat /\ OtherOperand \in Nat /\ imm % Mod(Wide) = OtherOperand % Mod(Wide)
             /\ Wide = 8 => imm = OtherOperand
  <2> DEFINE y == Cast(x, S(n))
  <2>1. OtherOperand = y /\ imm = Cast(y, S(Wide))
    BY <1>3, <1>4, <1>6, SMT DEF SignExtended
  <2>2. y \in Word(WordMod) /\ y \in Nat
    <3>1. x \in Int
      BY <1>2
    <3> QED
      BY <1>1, <3>1, CastModulo, CastTyped, TypesIn
  <2>3. Wide \in Widths
    BY <1>1 DEF Widths
  <2> HIDE DEF y
  <2>4. Cast(y, S(Wide)) % Mod(Wide) = y % Mod(Wide) /\ Cast(y, S(Wide)) \in Nat
    <3>1. y \in Int
      BY <2>2
    <3> QED
      BY <2>3, <3>1, CastModulo, CastTyped, TypesIn
  <2>5. Wide = 8 => Cast(y, S(Wide)) = y
    BY <2>2, CastOfWord
  <2> QED
    BY <2>1, <2>2, <2>4, <2>5
<1>7. CASE Dst = U(Wide) /\ Src = U(n)
  BY <1>2, <1>5, <1>7
<1>8. CASE ~(Dst = U(Wide) /\ Src = U(n))
  <2>1. n \in {1, 4} /\ Src = S(n) /\ Dst = S(Wide) /\ (n = 1 \/ Wide = 8)
    BY <1>1, <1>8
  <2>2. n # Wide
    BY <1>1, <2>1, SMT
  <2>3. Dst # U(Wide)
    BY <2>1 DEF U, S
  <2> QED
    BY <1>6, <2>1, <2>2, <2>3
<1> QED
  BY <1>7, <1>8

LEMMA ImmediatePlace ==
  ASSUME Ready, Form \in {"MI", "I"}, ~Deviates
  PROVE  /\ Form = "MI" => ImmediateOffset(set_modrm_byte) = ImmediateAt
         /\ Form = "I" => Start + 1 = ImmediateAt
         /\ ImmediateAt \in Nat
<1>1. Name # "Movzx_0FB6" /\ Handler.from \in {"opcode", "start"} /\ (Form = "MI" <=> HasModRM)
  <2>1. ~Or09
    BY DEF Deviates
  <2> QED
    BY <2>1, TypesMI
<1>2. /\ inst.opcode_size = 1 /\ inst.pos_opcode \in Nat
      /\ TrueDispAt = inst.pos_opcode + (IF inst.p_sib THEN 3 ELSE 2)
  BY <1>1, OneByteOpcode
<1>3. Start = inst.pos_opcode
  <2>1. Handler.from = "start" => inst.pos_opcode = 0
    BY DEF Deviates, PrefixShifts
  <2> QED
    BY <1>1, <2>1 DEF Start
<1>4. CASE Form = "MI"
  <2>1. set_modrm_byte.disp_size = DispSize /\ DispSize \in {0, 1, 4}
    BY ModRMFields
  <2>2. TrueDispSize = DispSize
    <3>1. RmRegister = None <=> MODRM_MOD = 0 /\ MODRM_RM = 5
      BY ModRMFields
    <3>2. inst.p_sib => MODRM_RM # 5 /\ ~(MODRM_MOD = 0 /\ SIB_BASE = 5)
      BY <1>4 DEF Ready, Deviates, ImmediateMisplaced
    <3>3. Relative <=> ~inst.p_sib /\ MODRM_MOD = 0 /\ MODRM_RM = 5
      BY <1>1, <1>4 DEF Relative, InMemory
    <3> QED
      BY <3>1, <3>2, <3>3 DEF TrueDispSize, DispSize
  <2>3. ImmediateOffset(set_modrm_byte) = inst.pos_opcode + 2 + DispSize + (IF inst.p_sib THEN 1 ELSE 0)
    BY <1>3, <2>1 DEF ImmediateOffset
  <2>4. ImmediateAt = inst.pos_opcode + (IF inst.p_sib THEN 3 ELSE 2) + DispSize
    BY <1>1, <1>2, <1>4, <2>2 DEF ImmediateAt
  <2>5. DispSize \in Nat
    BY <2>1
  <2> QED
    BY <1>2, <1>4, <2>3, <2>4, <2>5, SMT
<1>5. CASE Form = "I"
  <2>1. ImmediateAt = inst.pos_opcode + 1
    BY <1>1, <1>2, <1>5 DEF ImmediateAt
  <2> QED
    BY <1>2, <1>3, <1>5, <2>1, SMT
<1> QED
  BY <1>4, <1>5

(* The result of an operation with an immediate, in a register             *)
LEMMA ImmediateToRegister ==
  ASSUME Ready, Form \in {"MI", "I"}, ~Deviates, ~InMemory, NEW r \in 0 .. 15,
         Form = "MI" => r = Rm, Form = "I" => r = Rax,
         NEW pos \in Nat, pos = ImmediateAt, NEW junk \in Residues
  PROVE  Correct(ToRegister(SetReg(r, Dst.bytes, Result(OfRegister(r, Dst), Immediate(pos, junk)))))
<1> DEFINE a == OfRegister(r, Dst)
           b == Immediate(pos, junk)
           g == Get(r, Wide)
           c == OtherOperand
           file == SetReg(r, Wide, Value(Op, a, b))
<1>1. /\ Wide \in {2, 4, 8} /\ (Wide = 4 <=> inst.osize = 32) /\ Op \in Ops /\ Op # "lea" /\ Handler.op = Op
      /\ Dst.bytes = Wide
      /\ Dst = U(Wide) \/ (Dst = S(Wide) /\ (Op = "add" \/ (Op = "mov" /\ Wide = 8)))
      /\ Form = "MI" <=> HasModRM
      /\ Form = "MI" <=> Stores
      /\ Form = "I" => Op \notin {"cmp", "test"}
  <2>1. ~Or09
    BY DEF Deviates
  <2> QED
    BY <2>1, TypesMI
<1>2. Wide \in Widths /\ ~Faults
  BY <1>1, SMT DEF Widths, Faults
<1>3. /\ a \in Nat /\ g \in Nat /\ a % Mod(Wide) = registers[r] % Mod(Wide) /\ g = registers[r] % Mod(Wide)
      /\ Dst = U(Wide) => a = g
  <2>1. Dst = U(Wide) \/ Dst = S(Wide)
    BY <1>1
  <2>2. a \in Nat /\ a % Mod(Wide) = registers[r] % Mod(Wide)
    BY <1>1, <2>1, RegisterCast
  <2>3. g \in Nat /\ (Dst = U(Wide) => a = g)
    BY <1>1, RegisterCast
  <2>4. g = registers[r] % Mod(Wide)
    <3>1. Wide # 1
      BY <1>1, SMT
    <3> QED
      BY <3>1, GetWide
  <2> QED
    BY <2>2, <2>3, <2>4
<1>4. /\ b \in Nat /\ c \in Nat /\ b % Mod(Wide) = c % Mod(Wide)
      /\ Dst = U(Wide) \/ Wide = 8 => b = c
  BY ImmediateValue
<1>5. SetReg(r, Dst.bytes, Result(OfRegister(r, Dst), Immediate(pos, junk))) = file
  BY <1>1 DEF Result
<1> HIDE DEF a, b, g, c
<1>6. CASE Op \in {"cmp", "test"}
  <2>1. Value(Op, a, b) = a
    BY <1>6 DEF Value
  <2>2. file = registers
    BY <1>2, <1>3, <2>1, Unchanged
  <2> HIDE DEF file
  <2> QED
    BY <1>2, <1>5, <1>6, <2>2, ArchitectureOf, Outcomes DEF Correct
<1>7. CASE Op \notin {"cmp", "test"}
  <2>1. Architecture = <<Put(r, Wide, Value(Op, g, c)), memory>>
    <3>1. CASE Form = "MI"
      <4>1. r = Rm /\ Stores /\ HasModRM /\ Form # "RM"
        BY <1>1, <3>1
      <4> QED
        BY <1>7, <4>1, ArchitectureOf DEF g, c
    <3>2. CASE Form = "I"
      <4>1. r = DestinationRegister /\ ~Stores /\ Form # "RM"
        BY <1>1, <3>2 DEF DestinationRegister
      <4> QED
        BY <1>7, <4>1, ArchitectureOf DEF g, c
    <3> QED
      BY <3>1, <3>2
  <2>2. Value(Op, a, b) \in Int /\ Value(Op, g, c) \in Int
    BY <1>1, <1>3, <1>4, ValueTyped
  <2>3. Value(Op, a, b) % Mod(Wide) = Value(Op, g, c) % Mod(Wide)
    <3>1. CASE Dst = U(Wide)
      BY <1>3, <1>4, <3>1
    <3>2. CASE Op = "add"
      <4>1. g % Mod(Wide) = a % Mod(Wide)
        <5>1. registers[r] \in Int
          BY RegistersTyped
        <5>2. g \in 0 .. Mod(Wide) - 1
          BY <1>2, <1>3, <5>1, Below
        <5> QED
          BY <1>2, <1>3, <5>2, Below
      <4>2. a \in Int /\ b \in Int /\ g \in Int /\ c \in Int
        BY <1>3, <1>4
      <4>3. Value("add", a, b) % Mod(Wide) = Value("add", g, c) % Mod(Wide)
        BY <1>2, <1>4, <4>1, <4>2, SumModulo
      <4> QED
        BY <3>2, <4>3
    <3>3. CASE Op = "mov"
      <4>1. Value(Op, a, b) = b /\ Value(Op, g, c) = c
        BY <3>3 DEF Value
      <4> QED
        BY <1>4, <4>1
    <3> QED
      BY <1>1, <3>1, <3>2, <3>3
  <2>4. Wide = 4 => registers[r] < Mod(4)
    <3>1. registers[r] \in Nat /\ Mod(4) \in Nat
      BY RegistersTyped, PowersPositive
    <3>2. Wide = 4 => r = DestinationRegister
      <4>1. Wide = 4 => Home(Rm, Wide) = Rm
        BY DEF Home, HighByte
      <4> QED
        BY <4>1 DEF DestinationRegister
    <3>3. Wide = 4 => ~(registers[r] >= Mod(4))
      BY <1>1, <1>7, <3>2 DEF Deviates, UpperHalfKept
    <3> QED
      BY <3>1, <3>3, SMT
  <2>5. file = Put(r, Wide, Value(Op, g, c))
    BY <1>1, <2>2, <2>3, <2>4, SameResult
  <2> HIDE DEF file
  <2> QED
    BY <1>2, <1>5, <2>1, <2>5, Outcomes DEF Correct
<1> QED
  BY <1>6, <1>7

LEMMA CorrectI ==
  ASSUME Ready, Form = "I", ~Deviates, NEW junk \in Residues
  PROVE  Correct(InstrI(junk))
<1>1. ~InMemory
  BY DEF InMemory, HasModRM
<1>2. Start + 1 = ImmediateAt /\ ImmediateAt \in Nat
  BY ImmediatePlace
<1>3. Rax \in 0 .. 15
  BY SMT DEF Rax
<1>4. Correct(ToRegister(SetReg(Rax, Dst.bytes, Result(OfRegister(Rax, Dst), Immediate(ImmediateAt, junk)))))
  BY <1>1, <1>2, <1>3, ImmediateToRegister
<1> QED
  BY <1>2, <1>4 DEF InstrI

LEMMA CorrectMI ==
  ASSUME Ready, Form = "MI", ~Deviates, NEW junk \in Residues
  PROVE  Correct(InstrMI(junk))
<1> DEFINE m == set_modrm_byte
           imm == Immediate(ImmediateOffset(m), junk)
           loc == Location(Dst, 2, 0, junk)
           Stored == ToOperand(loc.addr, Result(OperandAt(loc, Dst), imm), Dst.bytes)
<1>1. /\ Op \in Ops \ {"lea"} /\ Handler.op = Op /\ (Wide = 8 <=> inst.osize = 64) /\ WideSource = Wide
      /\ Dst \in {U(Wide), S(Wide)} /\ Dst.bytes = Wide /\ HasModRM /\ Stores
  <2>1. ~Or09
    BY DEF Deviates
  <2> QED
    BY <2>1, TypesMI
<1>2. ImmediateOffset(m) = ImmediateAt /\ ImmediateAt \in Nat
  BY ImmediatePlace
<1>3. InstrMI(junk) = IF ~m.is_addr THEN ToRegister(SetReg(m.rm, Dst.bytes, Result(OfRegister(m.rm, Dst), imm)))
                      ELSE OnMemory(loc, Dst, Skip, Stored)
  BY DEF InstrMI
<1>4. /\ Rm \in 0 .. 15
      /\ m.is_addr <=> InMemory
      /\ ~InMemory => m.rm = Rm
  <2>1. ~InMemory => MODRM_MOD = 3
    BY <1>1 DEF InMemory
  <2>2. m.rm = RmRegister /\ (m.is_addr <=> MODRM_MOD # 3)
        /\ (RmRegister # None => RmRegister = Rm) /\ (RmRegister = None => MODRM_MOD = 0)
    BY ModRMFields
  <2>3. Rm \in 0 .. 15
    BY FieldsTyped DEF Rm
  <2> HIDE DEF m
  <2> QED
    BY <1>1, <2>1, <2>2, <2>3 DEF InMemory
<1>5. CASE ~InMemory
  <2>1. Correct(ToRegister(SetReg(Rm, Dst.bytes, Result(OfRegister(Rm, Dst), Immediate(ImmediateAt, junk)))))
    BY <1>2, <1>4, <1>5, ImmediateToRegister
  <2>2. InstrMI(junk) = ToRegister(SetReg(Rm, Dst.bytes, Result(OfRegister(Rm, Dst), Immediate(ImmediateAt, junk))))
    <3> HIDE DEF m, loc, Stored
    <3> QED
      BY <1>2, <1>3, <1>4, <1>5
  <2> QED
    BY <2>1, <2>2
<1>6. CASE InMemory
  <2>1. loc = At(Address) /\ Address \in Nat
    BY <1>6, WhereOperandIs, PlacedUnlessDeviates
  <2>2. loc.addr = Address
    BY <2>1 DEF At
  <2>3. Wide = 8
    BY <1>1, <1>6 DEF Deviates, EightBytesStored
  <2>4. imm = OtherOperand
    BY <1>2, <2>3, ImmediateValue
  <2>5. Faults <=> ~Mapped(Address, 8)
    BY <1>1, <1>6, <2>3 DEF Faults
  <2>6. InstrMI(junk) = IF Mapped(Address, 8) THEN Stored ELSE Skip
    <3>1. InstrMI(junk) = OnMemory(loc, Dst, Skip, Stored)
      BY <1>3, <1>4, <1>6
    <3> HIDE DEF Stored, loc, m
    <3> QED
      BY <1>1, <2>1, <2>3, <3>1, FromMemory
  <2>7. CASE Faults
    <3> HIDE DEF Stored
    <3> QED
      BY <2>5, <2>6, <2>7, Outcomes DEF Correct
  <2>8. CASE ~Faults
    <3>1. OperandAt(At(Address), Dst) = Load(Address, 8)
      BY <1>1, <2>1, <2>3, <2>5, <2>8, LoadOfEight
    <3>2. Stored = ToMemory(Address, 8, Value(Op, Load(Address, 8), OtherOperand))
      <4> HIDE DEF loc, imm
      <4> QED
        BY <1>1, <2>1, <2>2, <2>4, <3>1 DEF ToOperand, Result
    <3>3. Correct(ToMemory(Address, 8, Value(Op, Load(Address, 8), OtherOperand)))
      BY <1>1, <1>6, <2>1, <2>3, <2>8, StoreCorrect
    <3> HIDE DEF Stored
    <3> QED
      BY <2>5, <2>6, <2>8, <3>2, <3>3
  <2> QED
    BY <2>7, <2>8
<1> QED
  BY <1>5, <1>6

(* A register that receives exactly the architecture's result              *)
LEMMA RegisterCorrect ==
  ASSUME Ready, Op \notin {"cmp", "test"}, Form \notin {"RM", "MR", "MR8", "M", "MI"}, Name # "Or_09",
         NEW file, file = Put(DestinationRegister, Wide,
                              Value(Op, Get(DestinationRegister, Wide), OtherOperand))
  PROVE  Correct(ToRegister(file))
<1>1. ~Stores /\ ~Faults /\ Form # "RM"
  BY DEF Stores, Faults, InMemory, HasModRM
<1>2. Architecture = <<file, memory>>
  BY <1>1, ArchitectureOf
<1> QED
  BY <1>1, <1>2, Outcomes DEF Correct

-----------------------------------------------------------------------------
(* Instructions with an immediate and the registers they name *)

LEMMA MoveOfImmediate ==
  ASSUME Ready, Form = "OI", ~OtherLength, NEW past
  PROVE  /\ Wide \in {2, 4, 8} /\ Wide \in Widths /\ (Wide = 4 <=> inst.osize = 32)
         /\ Op = "mov" /\ Name = "Mov_B8" /\ Dst.bytes = Wide
         /\ DestinationRegister = Extended("B", opcode - 184) /\ DestinationRegister \in 0 .. 15
         /\ Datum(inst.pos_opcode + 1, Dst.bytes, past) = Encoded
         /\ Encoded \in 0 .. Mod(Wide) - 1 /\ Encoded \in Nat /\ OtherOperand = Encoded
<1> DEFINE w == inst.osize \div 8
           pos == inst.pos_opcode + 1
<1>1. Form \notin {"AL", "A"}
  OBVIOUS
<1>2. /\ Fits(Name, Handler) /\ Handler.form = Form /\ Op = Handler.op /\ inst.osize \in Sizes
      /\ Dst = OperandTypes[Handler.dst][inst.osize]
      /\ Wide = IF Form = "MR8" THEN 1 ELSE w
      /\ w \in {2, 4, 8}
      /\ w = 4 <=> inst.osize = 32
  BY <1>1, FormOf
<1>3. Name = "Mov_B8" /\ Op = "mov" /\ Handler.dst = "Unsigned"
  BY <1>2 DEF Fits
<1>4. OperandTypes["Unsigned"][inst.osize] = U(w)
  BY <1>2, TypesByName
<1> HIDE DEF w
<1>5. Wide = w /\ Dst.bytes = Wide
  BY <1>2, <1>3, <1>4 DEF U
<1>6. Wide \in Widths
  BY <1>2, <1>5 DEF Widths
<1>7. opcode \in 184 .. 191
  BY <1>3, OpcodeOfName
<1>8. DestinationRegister = Extended("B", opcode - 184) /\ opcode - 184 \in 0 .. 7
  BY <1>7, SMT DEF DestinationRegister
<1>9. DestinationRegister \in 0 .. 15
  BY <1>8, FieldsTyped
<1>10. ~HasModRM /\ ImmediateBytes = Wide
  BY DEF HasModRM, ImmediateBytes
<1>11. inst.opcode_size = 1 /\ pos \in Nat
  BY <1>3, OneByteOpcode
<1>12. ImmediateAt = pos
  BY <1>10, <1>11 DEF ImmediateAt
<1>13. Datum(pos, Wide, past) = Encoded /\ Encoded \in 0 .. Mod(Wide) - 1 /\ Encoded \in Nat
  <2> HIDE DEF pos
  <2>1. Name # "Or_09"
    BY <1>3
  <2> QED
    BY <1>6, <1>10, <1>11, <1>12, <2>1, EncodedDatum
<1>14. OtherOperand = Encoded
  BY <1>10 DEF OtherOperand
<1> QED
  BY <1>2, <1>3, <1>5, <1>6, <1>8, <1>9, <1>13, <1>14

LEMMA CorrectOI ==
  ASSUME Ready, Form = "OI", ~Deviates, NEW junk \in Residues
  PROVE  Correct(InstrOI(junk))
<1> DEFINE r == DestinationRegister
           n == Wide
           g == Get(r, n)
           x == Encoded
<1>1. ~OtherLength /\ ~OsizeSigned
  BY DEF Deviates
<1>2. /\ n \in {2, 4, 8} /\ n \in Widths /\ (n = 4 <=> inst.osize = 32) /\ Op = "mov" /\ Name = "Mov_B8"
      /\ Dst.bytes = n /\ r = Extended("B", opcode - 184) /\ r \in 0 .. 15
      /\ Datum(inst.pos_opcode + 1, Dst.bytes, junk.past) = x
      /\ x \in Nat /\ OtherOperand = x
  BY <1>1, MoveOfImmediate
<1>3. OsizeReads(inst.osize)
  BY <1>1 DEF OsizeReads, OsizeSigned
<1>4. InstrOI(junk) = ToRegister(SetReg(r, n, x))
  BY <1>2, <1>3 DEF InstrOI
<1>5. n = 4 => registers[r] < Mod(4)
  <2>1. registers[r] \in Nat /\ Mod(4) \in Nat
    BY <1>2, RegistersTyped, PowersPositive
  <2>2. n = 4 => ~(registers[r] >= Mod(4))
    BY <1>2 DEF Deviates, UpperHalfKept
  <2> QED
    BY <2>1, <2>2, SMT
<1>6. SetReg(r, n, x) = Put(r, n, Value(Op, g, OtherOperand))
  <2>1. Value(Op, g, OtherOperand) = x
    BY <1>2 DEF Value
  <2>2. x \in Int
    BY <1>2
  <2> HIDE DEF r, n, g, x
  <2>3. SetReg(r, n, x) = Put(r, n, x)
    BY <1>2, <1>5, <2>2, SameResult
  <2> QED
    BY <2>1, <2>3
<1> HIDE DEF x
<1> QED
  BY <1>2, <1>4, <1>6, RegisterCorrect

LEMMA AccumulatorName ==
  ASSUME Ready, Form \in {"AL", "A"}
  PROVE  Name = Form
<1>1. ASSUME Name \notin {"AL", "A"} PROVE FALSE
  <2>1. Typed(Handler)
    BY <1>1, HandlersTyped DEF Ready, Handlers, Handler
  <2> QED
    BY <1>1, <2>1 DEF Typed, Form
<1> QED
  BY <1>1 DEF Form

LEMMA CorrectA ==
  ASSUME Ready, Form = "A", ~Deviates, NEW junk \in Residues
  PROVE  Correct(InstrA(junk))
<1> DEFINE n == inst.osize \div 8
           k == IF n = 2 THEN 2 ELSE 4
           g == Get(Rax, n)
           x == Encoded
<1>1. Name = "A" /\ Op = "sub" /\ ~HasModRM /\ Wide = n
  <2>1. Name = "A"
    BY AccumulatorName
  <2> QED
    BY <2>1 DEF Op, HasModRM, Wide
<1>2. n \in {2, 4, 8} /\ (n = 4 <=> inst.osize = 32)
  <2>1. 16 \div 8 = 2 /\ 32 \div 8 = 4 /\ 64 \div 8 = 8
    BY SMT
  <2> QED
    BY <2>1, InstructionTyped
<1>3. ImmediateBytes = k
  BY <1>1 DEF ImmediateBytes
<1>4. inst.opcode_size = 1 /\ inst.pos_opcode = 0 /\ ImmediateAt = 1
  <2>1. inst.pos_opcode = 0
    BY DEF Deviates, PrefixShifts
  <2>2. inst.opcode_size = 1
    BY <1>1, OneByteOpcode
  <2> QED
    BY <1>1, <2>1, <2>2 DEF ImmediateAt
<1>5. ~OtherLength /\ ~OsizeSigned /\ Name # "Or_09"
  BY <1>1 DEF Deviates
<1>6. k \in Widths /\ k \in {2, 4}
  BY SMT DEF Widths
<1>7. Datum(1, k, junk.past) = x /\ x \in 0 .. Mod(k) - 1 /\ x \in Nat
  <2>1. 1 \in Nat
    OBVIOUS
  <2> HIDE DEF k, x, n
  <2> QED
    BY <1>1, <1>3, <1>4, <1>5, <1>6, <2>1, EncodedDatum DEF x
<1>8. Len(inst.code) = (IF n = 2 THEN 3 ELSE 5)
  <2>1. TrueLength = ImmediateAt + ImmediateBytes
    BY <1>1 DEF TrueLength
  <2>2. Len(inst.code) = 1 + k
    BY <1>1, <1>3, <1>4, <2>1 DEF OtherLength, Deviates
  <2> QED
    BY <2>2, SMT
<1>9. OsizeReads(inst.osize)
  BY <1>5 DEF OsizeReads, OsizeSigned
<1>10. OtherOperand = x
  <2>1. OtherOperand = IF k = n THEN x ELSE SignExtended(x, k)
    BY <1>1, <1>3 DEF OtherOperand
  <2>2. k # n => k < n
    BY <1>2, SMT
  <2>3. k # n => ~Negative(x, k)
    BY <1>1, <1>3, <2>2 DEF Deviates, ImmediateUnsigned
  <2>4. k # n => SignExtended(x, k) = x
    <3> HIDE DEF k, x
    <3> QED
      BY <1>6, <1>7, <2>3, NotExtended
  <2> QED
    BY <2>1, <2>4
<1>11. OfRegister(Rax, U(n)) = g /\ g \in Nat
  <2>1. Rax \in 0 .. 15
    BY SMT DEF Rax
  <2> HIDE DEF n
  <2> QED
    BY <1>2, <2>1, RegisterCast
<1>12. InstrA(junk) = ToRegister(SetReg(Rax, n, Value("sub", g, x)))
  <2> HIDE DEF g, x
  <2> QED
    BY <1>7, <1>8, <1>9, <1>11 DEF InstrA
<1>13. n = 4 => registers[Rax] < Mod(4)
  <2>1. registers[Rax] \in Nat /\ Mod(4) \in Nat
    BY RegistersTyped, PowersPositive
  <2>2. n = 4 => ~(registers[Rax] >= Mod(4))
    BY <1>1, <1>2 DEF Deviates, UpperHalfKept, DestinationRegister
  <2> QED
    BY <2>1, <2>2, SMT
<1>14. SetReg(Rax, n, Value("sub", g, x)) = Put(Rax, n, Value(Op, g, OtherOperand))
  <2>1. Value("sub", g, x) \in Int
    <3> HIDE DEF g, x
    <3> QED
      BY <1>7, <1>11, ValueTyped DEF Ops
  <2>2. Rax \in 0 .. 15
    BY SMT DEF Rax
  <2> HIDE DEF g, x, n
  <2>3. SetReg(Rax, n, Value("sub", g, x)) = Put(Rax, n, Value("sub", g, x))
    BY <1>2, <1>13, <2>1, <2>2, SameResult
  <2> QED
    BY <1>1, <1>10, <2>3
<1>15. DestinationRegister = Rax
  BY DEF DestinationRegister
<1> HIDE DEF x
<1> QED
  BY <1>1, <1>5, <1>12, <1>14, <1>15, RegisterCorrect

LEMMA CorrectAL ==
  ASSUME Ready, Form = "AL", ~Deviates, NEW junk \in Residues
  PROVE  Correct(InstrAL(junk))
<1> DEFINE x == Encoded
           g == get_byte_register(registers[Rax], FALSE)
<1>1. Name = "AL" /\ Op = OpOfAl /\ ~HasModRM /\ Wide = 1
  <2>1. Name = "AL"
    BY AccumulatorName
  <2> QED
    BY <2>1 DEF Op, HasModRM, Wide
<1>2. Op \in {"or", "and", "sub", "xor"}
  BY <1>1, OpcodeOfName DEF OpOfAl
<1>3. ImmediateBytes = 1
  BY DEF ImmediateBytes
<1>4. ImmediateAt = 1
  <2>1. inst.pos_opcode = 0
    BY DEF Deviates, PrefixShifts
  <2>2. inst.opcode_size = 1
    BY <1>1, OneByteOpcode
  <2> QED
    BY <1>1, <2>1, <2>2 DEF ImmediateAt
<1>5. ~OtherLength /\ Name # "Or_09"
  BY <1>1 DEF Deviates
<1>6. Datum(1, 1, junk.past) = x
  <2>1. 1 \in Nat /\ 1 \in Widths
    BY DEF Widths
  <2> QED
    BY <1>1, <1>3, <1>4, <1>5, <2>1, EncodedDatum
<1>7. OtherOperand = x /\ DestinationRegister = Rax
  BY <1>1, <1>3 DEF OtherOperand, DestinationRegister
<1>8. HighByte(Rax, 1) = FALSE /\ Home(Rax, 1) = Rax
  BY SMT DEF HighByte, Home, Rax
<1>9. Get(Rax, 1) = g
  BY <1>8 DEF Get
<1>10. \A v : Put(Rax, 1, v) = SetRegByte(Rax, FALSE, v)
  <2> SUFFICES ASSUME NEW v PROVE Put(Rax, 1, v) = SetRegByte(Rax, FALSE, v)
    OBVIOUS
  <2>1. Put(Rax, 1, v) = SetRegByte(Home(Rax, 1), HighByte(Rax, 1), v)
    BY DEF Put
  <2> QED
    BY <1>8, <2>1
<1>11. InstrAL(junk) = ToRegister(SetRegByte(Rax, FALSE, Value(Op, g, x)))
  <2> HIDE DEF g, x
  <2> QED
    BY <1>1, <1>6 DEF InstrAL, g
<1> HIDE DEF x, g
<1> QED
  BY <1>1, <1>2, <1>5, <1>7, <1>9, <1>10, <1>11, RegisterCorrect

-----------------------------------------------------------------------------
(* Byte operands *)

LEMMA TypesMR8 ==
  ASSUME Ready, Form = "MR8"
  PROVE  /\ Op \in {"mov", "test"} /\ Handler.op = Op /\ Wide = 1 /\ WideSource = 1 /\ HasModRM /\ Stores
         /\ Name = "Test_84" <=> Op = "test"
<1>1. Form \notin {"AL", "A"}
  OBVIOUS
<1>2. Fits(Name, Handler) /\ Handler.form = Form /\ Op = Handler.op
  BY <1>1, FormOf
<1>3. Op \in {"mov", "test"} /\ (Name = "Test_84" <=> Op = "test")
  BY <1>2 DEF Fits
<1>4. Wide = 1 /\ WideSource = 1 /\ HasModRM /\ Stores
  BY DEF Wide, WideSource, HasModRM, Stores
<1> QED
  BY <1>2, <1>3, <1>4

(* The registers 0 to 3 are those whose low byte is meant in either form.  *)
LEMMA LowByte ==
  ASSUME Ready, Form = "MR8", NEW r \in 0 .. 3
  PROVE  LET b == ByteOperand(r) IN
         /\ b.reg = r /\ b.high = FALSE
         /\ get_byte_register(b.value, b.high) = registers[r] % ByteMod
         /\ Get(r, 1) = registers[r] % ByteMod
         /\ \A v : Put(r, 1, v) = SetRegByte(r, FALSE, v)
<1> DEFINE x == registers[r]
           y == x % ByteMod
<1>1. (r > 3) = FALSE /\ r % 4 = r /\ r \in 0 .. 15
  BY SMT
<1>2. ByteMod \in Nat \ {0} /\ x \in Nat
  BY <1>1, BytePositive, RegistersTyped
<1>3. y % ByteMod = y
  <2> HIDE DEF x
  <2> QED
    BY <1>2, SMT
<1>4. \A v : get_byte_register(v, FALSE) = v % ByteMod
  BY DEF get_byte_register
<1>5. HighByte(r, 1) = FALSE /\ Home(r, 1) = r
  BY SMT DEF HighByte, Home
<1>6. Get(r, 1) = y
  <2>1. Get(r, 1) = get_byte_register(registers[Home(r, 1)], HighByte(r, 1))
    BY DEF Get
  <2> QED
    BY <1>4, <1>5, <2>1
<1>7. ASSUME NEW v PROVE Put(r, 1, v) = SetRegByte(r, FALSE, v)
  <2>1. Put(r, 1, v) = SetRegByte(Home(r, 1), HighByte(r, 1), v)
    BY DEF Put
  <2> QED
    BY <1>5, <2>1
<1>8. CASE Name = "Test_84"
  <2> DEFINE b == ByteOperand(r)
  <2>1. b = [reg |-> r % 4, high |-> FALSE, value |-> get_byte_register(registers[r % 4], r > 3)]
    BY <1>8 DEF ByteOperand
  <2> HIDE DEF b
  <2>2. b.reg = r % 4 /\ b.high = FALSE /\ b.value = get_byte_register(registers[r % 4], r > 3)
    BY <2>1
  <2>3. b.reg = r /\ b.value = get_byte_register(registers[r], FALSE)
    BY <1>1, <2>2
  <2>4. b.value = y
    BY <1>4, <2>3
  <2> HIDE DEF y, x
  <2> QED
    BY <1>3, <1>4, <1>6, <1>7, <2>2, <2>3, <2>4 DEF y, x, b
<1>9. CASE Name # "Test_84"
  <2> DEFINE b == ByteOperand(r)
  <2>1. b = [reg |-> IF r > 3 THEN r - 4 ELSE r, high |-> r > 3, value |-> registers[r]]
    BY <1>9 DEF ByteOperand
  <2> HIDE DEF b
  <2>2. b.reg = (IF r > 3 THEN r - 4 ELSE r) /\ b.high = (r > 3) /\ b.value = registers[r]
    BY <2>1
  <2>3. b.reg = r /\ b.high = FALSE /\ b.value = registers[r]
    BY <1>1, <2>2
  <2> QED
    BY <1>4, <1>6, <1>7, <2>3 DEF b
<1> QED
  BY <1>8, <1>9

(* A write of the byte that is there changes nothing.                      *)
LEMMA ByteUnchanged ==
  ASSUME Ready, NEW r \in 0 .. 15
  PROVE  SetRegByte(r, FALSE, registers[r] % ByteMod) = registers
<1> DEFINE x == registers[r]
           B == ByteMod
<1>1. x \in Nat /\ B \in Nat \ {0}
  BY RegistersTyped, BytePositive
<1>2. SetRegByte(r, FALSE, x % B) = [registers EXCEPT ![r] = x + (((x % B) % B) - ((x \div 1) % B)) * 1]
  BY DEF SetRegByte
<1>3. x + (((x % B) % B) - ((x \div 1) % B)) * 1 = x
  <2> HIDE DEF x, B
  <2>1. (x % B) % B = x % B /\ x \div 1 = x /\ x % B \in Nat
    BY <1>1, SMT
  <2> DEFINE y == x % B
  <2>2. x + (((x % B) % B) - ((x \div 1) % B)) * 1 = x + (y - y) * 1
    BY <2>1
  <2> HIDE DEF y
  <2>3. x + (y - y) * 1 = x
    BY <1>1, <2>1, SMT DEF y
  <2> QED
    BY <2>2, <2>3
<1>4. [registers EXCEPT ![r] = registers[r]] = registers
  BY DEF Ready
<1> QED
  BY <1>2, <1>3, <1>4

LEMMA ByteToRegister ==
  ASSUME Ready, Form = "MR8", ~Deviates, ~InMemory, NEW op2, op2 = Get(Reg, 1)
  PROVE  LET to == ByteOperand(Rm) IN
         Correct(ToRegister(SetRegByte(to.reg, to.high, Result(get_byte_register(to.value, to.high), op2))))
<1> DEFINE to == ByteOperand(Rm)
           old == get_byte_register(to.value, to.high)
           file == SetRegByte(to.reg, to.high, Result(old, op2))
<1>1. /\ Op \in {"mov", "test"} /\ Handler.op = Op /\ Wide = 1 /\ HasModRM /\ Stores
      /\ Name = "Test_84" <=> Op = "test"
  BY TypesMR8
<1>2. Rm \in 0 .. 15 /\ ~Faults
  BY FieldsTyped DEF Rm, Faults
<1>3. Rm \in 0 .. 3 \/ (Rm \in 4 .. 7 /\ NoRex /\ Op = "mov")
  <2>1. Rm > 3 => NoRex /\ Op # "test"
    BY DEF Deviates, ByteRegisters
  <2>2. NoRex => Rm = MODRM_RM /\ MODRM_RM \in 0 .. 7
    BY FieldsTyped DEF NoRex, Rm, Extended
  <2>3. Rm \in 0 .. 3 \/ Rm > 3
    BY <1>2, SMT
  <2>4. Rm > 3 /\ Rm \in 0 .. 7 => Rm \in 4 .. 7
    BY SMT
  <2> QED
    BY <1>1, <2>1, <2>2, <2>3, <2>4
<1>4. CASE Op = "test"
  <2>1. Rm \in 0 .. 3
    BY <1>3, <1>4
  <2>2. to.reg = Rm /\ to.high = FALSE /\ old = registers[Rm] % ByteMod
    BY <2>1, LowByte
  <2>3. Result(old, op2) = old
    BY <1>1, <1>4 DEF Result, Value
  <2> HIDE DEF to, old
  <2>4. file = registers
    BY <1>2, <2>2, <2>3, ByteUnchanged
  <2> HIDE DEF file
  <2>5. Correct(ToRegister(file))
    BY <1>2, <1>4, <2>4, ArchitectureOf, Outcomes DEF Correct
  <2> QED
    BY <2>5 DEF file, to, old
<1>5. CASE Op = "mov"
  <2>1. Architecture = <<Put(Rm, 1, op2), memory>>
    <3>1. Op \notin {"cmp", "test"} /\ Form # "RM"
      BY <1>5
    <3>2. Architecture = <<Put(Rm, Wide, Value(Op, Get(Rm, Wide), OtherOperand)), memory>>
      BY <1>1, <3>1, ArchitectureOf
    <3>3. OtherOperand = op2
      BY <1>1 DEF OtherOperand
    <3>4. Value(Op, Get(Rm, Wide), OtherOperand) = op2
      BY <1>5, <3>3 DEF Value
    <3> QED
      BY <1>1, <3>2, <3>4
  <2>2. Result(old, op2) = op2
    BY <1>1, <1>5 DEF Result, Value
  <2>3. Put(Rm, 1, op2) = SetRegByte(to.reg, to.high, op2)
    <3>1. CASE Rm \in 0 .. 3
      <4>1. /\ to.reg = Rm /\ to.high = FALSE
            /\ \A v : Put(Rm, 1, v) = SetRegByte(Rm, FALSE, v)
        BY <3>1, LowByte
      <4> HIDE DEF to
      <4> QED
        BY <4>1
    <3>2. CASE Rm \in 4 .. 7 /\ NoRex
      <4>1. HighByte(Rm, 1) = TRUE /\ Home(Rm, 1) = Rm - 4 /\ (Rm > 3) = TRUE
        BY <3>2, SMT DEF HighByte, Home
      <4>2. to = [reg |-> IF Rm > 3 THEN Rm - 4 ELSE Rm, high |-> Rm > 3, value |-> registers[Rm]]
        BY <1>1, <1>5 DEF ByteOperand
      <4>3. to.reg = Rm - 4 /\ to.high = TRUE
        <5> HIDE DEF to
        <5> QED
          BY <4>1, <4>2
      <4>4. Put(Rm, 1, op2) = SetRegByte(Home(Rm, 1), HighByte(Rm, 1), op2)
        BY DEF Put
      <4> HIDE DEF to
      <4> QED
        BY <4>1, <4>3, <4>4
    <3> QED
      BY <1>3, <3>1, <3>2
  <2> HIDE DEF to, old
  <2>4. file = Put(Rm, 1, op2)
    BY <2>2, <2>3
  <2> HIDE DEF file
  <2>5. Correct(ToRegister(file))
    BY <1>2, <2>1, <2>4, Outcomes DEF Correct
  <2> QED
    BY <2>5 DEF file, to, old
<1> QED
  BY <1>1, <1>4, <1>5

LEMMA ByteToMemory ==
  ASSUME Ready, Form = "MR8", InMemory, Address \in Nat, NEW op2, op2 = Get(Reg, 1)
  PROVE  Correct(OnMemory(At(Address), U(1), Terminate,
                          ToMemory(Address, 1, Result(OperandAt(At(Address), U(1)), op2))))
<1> DEFINE v == Load(Address, 1)
           o == ToMemory(Address, 1, Result(OperandAt(At(Address), U(1)), op2))
<1>1. Op \in {"mov", "test"} /\ Handler.op = Op /\ Wide = 1 /\ WideSource = 1 /\ Stores
  BY TypesMR8
<1>2. U(1).bytes = 1 /\ 1 \in Widths
  BY DEF U, Widths
<1>3. Faults <=> ~Mapped(Address, 1)
  BY <1>1 DEF Faults
<1>4. OnMemory(At(Address), U(1), Terminate, o) = IF Mapped(Address, 1) THEN o ELSE Terminate
  BY <1>2, FromMemory
<1>5. CASE Faults
  <2> HIDE DEF o
  <2> QED
    BY <1>3, <1>4, <1>5, Outcomes DEF Correct, o
<1>6. CASE ~Faults
  <2>1. OperandAt(At(Address), U(1)) = v
    <3>1. v \in 0 .. Mod(1) - 1
      BY <1>2, <1>3, <1>6, LoadTyped
    <3>2. Cast(v, U(1)) = v
      BY <1>2, <3>1, CastKeeps
    <3> QED
      BY <1>2, <3>2 DEF OperandAt, At
  <2>2. o.registers = registers /\ o.state = "next"
    BY Outcomes
  <2>3. o = ToMemory(Address, 1, Value(Op, v, op2))
    BY <1>1, <2>1 DEF Result
  <2>4. CASE Op = "test"
    <3>1. Value(Op, v, op2) = v
      BY <2>4 DEF Value
    <3>2. o = Skip
      <4> HIDE DEF o
      <4> QED
        BY <1>2, <1>3, <1>6, <2>3, <3>1, StoreBack
    <3> HIDE DEF o
    <3> QED
      BY <1>3, <1>4, <1>6, <2>4, <3>2, ArchitectureOf, Outcomes DEF Correct, o
  <2>5. CASE Op = "mov"
    <3>1. OtherOperand = op2
      BY <1>1 DEF OtherOperand
    <3>2. Op \notin {"cmp", "test"} /\ Form # "RM"
      BY <2>5
    <3>3. Architecture = <<registers, ToMemory(Address, 1, Value(Op, v, op2)).memory>>
      BY <1>1, <3>1, <3>2, ArchitectureOf
    <3> HIDE DEF o, v
    <3> QED
      BY <1>3, <1>4, <1>6, <2>2, <2>3, <3>3 DEF Correct, o, v
  <2> QED
    BY <1>1, <2>4, <2>5
<1> QED
  BY <1>5, <1>6

LEMMA CorrectMR8 ==
  ASSUME Ready, Form = "MR8", ~Deviates, NEW junk \in Residues
  PROVE  Correct(InstrMR8(junk))
<1> DEFINE m == set_modrm_byte
           from == ByteOperand(m.reg)
           op2 == get_byte_register(from.value, from.high)
           s == set_sib_byte(junk)
           disp == Displacement(inst.pos_opcode + 2, m.disp_size)
           to == ByteOperand(m.rm)
           Here(base) == [kind |-> Reached("memory", inst.pos_opcode + 2, m.disp_size),
                          addr |-> WrapAdd(WordMod, base, disp)]
           next == WrapAdd(WordMod, registers[Rip], Len(inst.code))
           ReadAt == CASE inst.p_sib -> SibLocation(junk)
                       [] ~inst.p_sib /\ m.rm = None -> Here(next)
                       [] OTHER -> Here(get_byte_register(to.value, to.high))
           WriteAt == CASE inst.p_sib -> s.calc
                        [] ~inst.p_sib /\ m.rm = None -> ReadAt.addr
                        [] OTHER -> Here(get_byte_register(registers[to.reg], to.high)).addr
           Stored == ToMemory(WriteAt, 1, Result(OperandAt(ReadAt, U(1)), op2))
<1>1. InstrMR8(junk) =
        IF ~m.is_addr
        THEN ToRegister(SetRegByte(to.reg, to.high, Result(get_byte_register(to.value, to.high), op2)))
        ELSE OnMemory(ReadAt, U(1), Terminate, Stored)
  BY DEF InstrMR8
<1>2. /\ m.reg = Reg /\ Reg \in 0 .. 3 /\ m.disp_size = DispSize
      /\ m.is_addr <=> InMemory
      /\ ~InMemory => m.rm = Rm
      /\ m.rm = RmRegister
  <2>1. HasModRM /\ (~InMemory => MODRM_MOD = 3)
    BY TypesMR8 DEF InMemory
  <2>2. m.reg = Reg /\ m.rm = RmRegister /\ (m.is_addr <=> MODRM_MOD # 3) /\ Reg \in 0 .. 15
        /\ (RmRegister # None => RmRegister = Rm) /\ (RmRegister = None => MODRM_MOD = 0)
        /\ m.disp_size = DispSize
    BY ModRMFields
  <2>3. ~(Reg > 3)
    BY DEF Deviates, ByteRegisters
  <2>4. Reg \in 0 .. 3
    BY <2>2, <2>3, SMT
  <2> HIDE DEF m
  <2> QED
    BY <2>1, <2>2, <2>4 DEF InMemory
<1>3. op2 = Get(Reg, 1)
  <2>1. get_byte_register(ByteOperand(Reg).value, ByteOperand(Reg).high) = Get(Reg, 1)
    BY <1>2, LowByte
  <2> HIDE DEF m
  <2> QED
    BY <1>2, <2>1
<1>4. CASE ~InMemory
  <2> HIDE DEF op2
  <2>1. Correct(ToRegister(SetRegByte(ByteOperand(Rm).reg, ByteOperand(Rm).high,
                  Result(get_byte_register(ByteOperand(Rm).value, ByteOperand(Rm).high), op2))))
    BY <1>3, <1>4, ByteToRegister
  <2> HIDE DEF m, ReadAt, Stored
  <2> QED
    BY <1>1, <1>2, <1>4, <2>1
<1>5. CASE InMemory
  <2>1. Address \in Nat
    BY <1>5, WhereOperandIs, PlacedUnlessDeviates
  <2>2. inst.p_sib \/ Relative
    BY <1>5 DEF Deviates, ByteRegisters, Based
  <2>3. ReadAt = At(Address) /\ WriteAt = Address
    <3>1. CASE inst.p_sib
      <4>1. TrueDispSize = 0
        BY <1>5, <3>1 DEF Deviates, ByteRegisters, Relative
      <4>2. /\ SibLocation(junk) = At(Address) /\ s.kind = "memory"
            /\ s.calc = Address /\ s.disp_size = 0
        BY <1>5, <3>1, <4>1, SibOperand, PlacedUnlessDeviates
      <4> HIDE DEF s, disp, m, to
      <4>5. ReadAt = SibLocation(junk) /\ WriteAt = s.calc
        BY <3>1
      <4> QED
        BY <4>2, <4>5
    <3>2. CASE ~inst.p_sib
      <4>1. Relative
        BY <2>2, <3>2
      <4>2. /\ WrapAdd(WordMod, next, Displacement(inst.pos_opcode + 2, DispSize)) = Address
            /\ RmRegister = None
        BY <4>1, RelativeOperand, PlacedUnlessDeviates
      <4>3. disp = Displacement(inst.pos_opcode + 2, DispSize) /\ m.rm = None
        <5> HIDE DEF m, s
        <5> QED
          BY <1>2, <3>2, <4>2
      <4>6. Reached("memory", inst.pos_opcode + 2, m.disp_size) = "memory"
        <5>1. m.disp_size = TrueDispSize
          BY <1>2, <1>5, <3>2, BareDisplacement
        <5>2. inst.pos_opcode + 2 \in Nat /\ inst.pos_opcode + 2 <= inst.pos_opcode + 2
          BY InstructionTyped, SMT
        <5> HIDE DEF m
        <5> QED
          BY <1>5, <3>2, <5>1, <5>2, ReachedUnlessMissing, PlacedUnlessDeviates DEF Placed
      <4>7. Here(next) = At(WrapAdd(WordMod, next, disp))
        BY <4>6 DEF At
      <4> HIDE DEF s, disp, m, to, next, Here
      <4>4. ReadAt = At(WrapAdd(WordMod, next, disp)) /\ WriteAt = ReadAt.addr
        BY <3>2, <4>3, <4>7
      <4>5. ReadAt = At(Address)
        BY <4>2, <4>3, <4>4
      <4> HIDE DEF ReadAt, WriteAt
      <4> QED
        BY <4>4, <4>5 DEF At
    <3> QED
      BY <3>1, <3>2
  <2> HIDE DEF op2, m, s, disp, to, ReadAt, WriteAt
  <2>4. Correct(OnMemory(At(Address), U(1), Terminate,
                         ToMemory(Address, 1, Result(OperandAt(At(Address), U(1)), op2))))
    BY <1>3, <1>5, <2>1, ByteToMemory
  <2> QED
    BY <1>1, <1>2, <1>5, <2>3, <2>4
<1> QED
  BY <1>4, <1>5

-----------------------------------------------------------------------------
(* Every form *)

LEMMA EffectCorrect ==
  ASSUME Ready, ~Deviates, NEW junk \in Residues, ~LookupFails(junk)
  PROVE  Correct(Effects(Form, junk))
<1>1. Form \in {"RM", "MR", "M", "MI", "I", "OI", "MR8", "AL", "A"}
  BY HandlerTyped
<1>2. CASE Form = "RM"
  BY <1>2, CorrectRM DEF Effects
<1>3. CASE Form = "MR"
  BY <1>3, CorrectMR DEF Effects
<1>4. CASE Form = "M"
  BY <1>4, CorrectMR DEF Effects
<1>5. CASE Form = "MI"
  BY <1>5, CorrectMI DEF Effects
<1>6. CASE Form = "I"
  BY <1>6, CorrectI DEF Effects
<1>7. CASE Form = "OI"
  BY <1>7, CorrectOI DEF Effects
<1>8. CASE Form = "MR8"
  BY <1>8, CorrectMR8 DEF Effects
<1>9. CASE Form = "AL"
  BY <1>9, CorrectAL DEF Effects
<1>10. CASE Form = "A"
  BY <1>10, CorrectA DEF Effects
<1> QED
  BY <1>1, <1>2, <1>3, <1>4, <1>5, <1>6, <1>7, <1>8, <1>9, <1>10

(***************************************************************************)
(* Apart from the named deviations an instruction has the effect of the    *)
(* architecture on registers and memory: for every size of a byte, every   *)
(* memory, all contents of the registers, and every instruction that the   *)
(* switch has a case for; of MOVZX unless its lookup fails.                *)
(***************************************************************************)
THEOREM Agrees == Spec => AgreesWithArchitecture
<1>1. ASSUME Inv, Next, ~Deviates, ~LookupFaults
      PROVE  IF Faults THEN registers' = registers /\ memory' = memory
             ELSE <<registers', memory'>> = Architecture /\ state' = "next"
  <2>1. PICK junk \in Residues :
              /\ registers' = Effects(Form, junk).registers
              /\ memory' = Effects(Form, junk).memory
              /\ state' = Effects(Form, junk).state
    BY <1>1, StepShaped
  <2>2. Ready
    BY <1>1, StepShaped
  <2>4. ~LookupFails(junk)
    <3> SUFFICES ASSUME LookupFails(junk) PROVE FALSE
      OBVIOUS
    <3>1. Name = "Movzx_0FB6" /\ Form = "RM"
      BY MovzxForm DEF LookupFails, Form, Handler
    <3>2. Effects(Form, junk) = Terminate
      BY <3>1 DEF Effects, InstrRM
    <3> QED
      BY <1>1, <2>1, <3>1, <3>2 DEF LookupFaults, Terminate, Outcome
  <2>3. Correct(Effects(Form, junk))
    BY <1>1, <2>2, <2>4, EffectCorrect
  <2> QED
    BY <2>1, <2>3 DEF Correct
<1>2. Inv /\ [Next]_vars =>
        [Executes /\ ~Deviates /\ ~LookupFaults =>
           IF Faults THEN UNCHANGED <<registers, memory>>
           ELSE <<registers', memory'>> = Architecture /\ state' = "next"]_vars
  <2> SUFFICES ASSUME Inv, Next, Executes, ~Deviates, ~LookupFaults
               PROVE  IF Faults THEN UNCHANGED <<registers, memory>>
                      ELSE <<registers', memory'>> = Architecture /\ state' = "next"
    OBVIOUS
  <2> QED
    BY <1>1
<1> QED
  BY <1>2, InvAlways, PTL DEF Spec, AgreesWithArchitecture

LEMMA RegisterOf ==
  ASSUME Ready, NEW r \in 0 .. 15, NEW n \in Widths, NEW x \in 0 .. Mod(n) - 1
  PROVE  SetReg(r, n, x)[r] % Mod(n) = x
<1> DEFINE y == registers[r]
           m == Mod(n)
           q == y \div m
           rest == y % m
<1>1. y \in Int /\ m \in Nat \ {0} /\ x % m = x /\ r \in DOMAIN registers
  BY RegistersAreWords, Below, SMT
<1>2. SetReg(r, n, x)[r] = y - rest + (x % m)
  BY <1>1 DEF SetReg
<1> HIDE DEF y, m
<1>3. q \in Int /\ rest \in Int /\ y = m * q + rest
  BY <1>1, DivMod
<1> HIDE DEF q, rest
<1>4. y - rest + (x % m) = m * q + x
  BY <1>1, <1>3, Z3
<1>5. (m * q + x) % m = x
  BY <1>1, <1>3, ModUnique DEF m
<1> QED
  BY <1>2, <1>4, <1>5 DEF m

(***************************************************************************)
(* MOV of an immediate fills its register with it, of any size, unless the *)
(* field osize has a sign: then the 64-bit form does nothing (DecodeCon-   *)
(* text.hpp:14, InstructionHandler.cpp:225-235).                           *)
(***************************************************************************)
THEOREM SignedOsize == Spec => SignedOsizeSkipsMov
<1>1. ASSUME Inv, Next, Form = "OI", ~OtherLength
      PROVE  IF osize_signed /\ inst.osize = 64 THEN registers' = registers /\ memory' = memory
             ELSE registers'[DestinationRegister] % Mod(Wide) = Encoded
  <2>1. PICK junk \in Residues :
              /\ registers' = Effects(Form, junk).registers
              /\ memory' = Effects(Form, junk).memory
    BY <1>1, StepShaped
  <2>2. Ready
    BY <1>1, StepShaped
  <2>3. Effects(Form, junk) = InstrOI(junk)
    BY <1>1 DEF Effects
  <2>4. CASE osize_signed /\ inst.osize = 64
    BY <2>1, <2>3, <2>4, Outcomes DEF InstrOI, OsizeReads
  <2>5. CASE ~(osize_signed /\ inst.osize = 64)
    <3> DEFINE r == DestinationRegister
    <3>1. /\ Wide \in Widths /\ Dst.bytes = Wide /\ r = Extended("B", opcode - 184) /\ r \in 0 .. 15
          /\ Datum(inst.pos_opcode + 1, Dst.bytes, junk.past) = Encoded
          /\ Encoded \in 0 .. Mod(Wide) - 1
      BY <1>1, <2>2, MoveOfImmediate
    <3>2. InstrOI(junk) = ToRegister(SetReg(r, Wide, Encoded))
      BY <2>5, <3>1 DEF InstrOI, OsizeReads
    <3>3. SetReg(r, Wide, Encoded)[r] % Mod(Wide) = Encoded
      BY <2>2, <3>1, RegisterOf
    <3> QED
      BY <2>1, <2>3, <2>5, <3>2, <3>3, Outcomes
  <2> QED
    BY <2>4, <2>5
<1>2. Inv /\ [Next]_vars =>
        [Executes /\ Form = "OI" /\ ~OtherLength =>
           IF osize_signed /\ inst.osize = 64 THEN UNCHANGED <<registers, memory>>
           ELSE registers'[DestinationRegister] % Mod(Wide) = Encoded]_vars
  <2> SUFFICES ASSUME Inv, Next, Executes, Form = "OI", ~OtherLength
               PROVE  IF osize_signed /\ inst.osize = 64 THEN UNCHANGED <<registers, memory>>
                      ELSE registers'[DestinationRegister] % Mod(Wide) = Encoded
    OBVIOUS
  <2> QED
    BY <1>1
<1> QED
  BY <1>2, InvAlways, PTL DEF Spec, SignedOsizeSkipsMov

-----------------------------------------------------------------------------
(* What a store of eight bytes leaves behind a narrower operand.           *)

(* A product that is a power of two has powers of two for factors.         *)
LEMMA OddProduct ==
  ASSUME NEW x \in Nat, NEW y \in Nat, x % 2 = 1, y % 2 = 1
  PROVE  (x * y) % 2 = 1
<1> DEFINE p == x \div 2
           q == y \div 2
<1>1. p \in Nat /\ q \in Nat /\ x = 2 * p + 1 /\ y = 2 * q + 1
  BY SMT
<1> HIDE DEF p, q
<1>2. PICK c \in Nat : c = p * y
  <2>1. p * y \in Nat
    BY <1>1, SMT
  <2> QED
    BY <2>1
<1>3. x * y = 2 * c + y
  <2>1. x * y = (2 * p + 1) * y
    BY <1>1
  <2>2. (2 * p + 1) * y = 2 * (p * y) + y
    BY <1>1, SMT
  <2> QED
    BY <1>2, <2>1, <2>2
<1>4. x * y = 2 * (c + q) + 1
  BY <1>1, <1>2, <1>3, SMT
<1>5. \A k \in Nat : (2 * k + 1) % 2 = 1
  BY SMT
<1>6. c + q \in Nat
  BY <1>1, <1>2, SMT
<1> QED
  BY <1>4, <1>5, <1>6

LEMMA FactorsOfPower ==
  \A n \in Nat : \A x, y \in Nat : x * y = Power[n] => \E i \in 0 .. n : x = Power[i]
<1> DEFINE Factor(n, x) == \E i \in 0 .. n : x = Power[i]
           Short == {n \in Nat : \A x, y \in Nat : x * y = Power[n] => Factor(n, x)}
<1>1. 0 \in Short
  <2> SUFFICES ASSUME NEW x \in Nat, NEW y \in Nat, x * y = Power[0] PROVE Factor(0, x)
    OBVIOUS
  <2>1. Power[0] = 1 /\ 0 \in 0 .. 0
    BY PowerRecursive, SMT
  <2>2. x * y = 1 => x = 1
    BY SMT
  <2> QED
    BY <2>1, <2>2
<1>2. ASSUME NEW n \in Short PROVE n + 1 \in Short
  <2>1. n \in Nat /\ n + 1 \in Nat /\ \A u, v \in Nat : u * v = Power[n] => Factor(n, u)
    BY SMT
  <2>2. Power[n] \in Nat \ {0} /\ Power[n + 1] = 2 * Power[n]
    BY <2>1, PowerRecursive
  <2> SUFFICES ASSUME NEW x \in Nat, NEW y \in Nat, x * y = Power[n + 1] PROVE Factor(n + 1, x)
    BY <2>1
  <2>3. \A u \in Nat : u % 2 \in {0, 1} /\ (u % 2 = 0 => u \div 2 \in Nat /\ u = 2 * (u \div 2))
    BY SMT
  <2>4. CASE x % 2 = 0
    <3>1. PICK u \in Nat : x = 2 * u
      BY <2>3, <2>4
    <3>2. 2 * (u * y) = 2 * Power[n]
      <4>1. (2 * u) * y = 2 * (u * y)
        BY <3>1, SMT
      <4> QED
        BY <2>2, <3>1, <4>1
    <3>3. u * y = Power[n]
      <4>1. u * y \in Nat
        BY <3>1, SMT
      <4>2. \A a, b \in Nat : 2 * a = 2 * b => a = b
        BY SMT
      <4> QED
        BY <2>2, <3>2, <4>1, <4>2
    <3>4. PICK i \in 0 .. n : u = Power[i]
      BY <2>1, <3>1, <3>3
    <3>5. i \in Nat /\ i + 1 \in 0 .. n + 1
      BY <2>1, <3>4, SMT
    <3>6. x = Power[i + 1]
      BY <3>1, <3>4, <3>5, PowerRecursive
    <3> QED
      BY <3>5, <3>6
  <2>5. CASE x % 2 = 1
    <3>1. y % 2 = 0
      <4>1. SUFFICES ASSUME y % 2 = 1 PROVE FALSE
        BY <2>3
      <4>2. (x * y) % 2 = 1
        BY <2>5, <4>1, OddProduct
      <4>3. \A p \in Nat : (2 * p) % 2 = 0
        BY SMT
      <4> QED
        BY <2>2, <4>2, <4>3
    <3>2. PICK v \in Nat : y = 2 * v
      BY <2>3, <3>1
    <3>3. 2 * (x * v) = 2 * Power[n]
      <4>1. x * (2 * v) = 2 * (x * v)
        BY <3>2, SMT
      <4> QED
        BY <2>2, <3>2, <4>1
    <3>4. x * v = Power[n]
      <4>1. x * v \in Nat
        BY <3>2, SMT
      <4>2. \A a, b \in Nat : 2 * a = 2 * b => a = b
        BY SMT
      <4> QED
        BY <2>2, <3>3, <4>1, <4>2
    <3>5. PICK i \in 0 .. n : x = Power[i]
      BY <2>1, <3>2, <3>4
    <3>6. i \in 0 .. n + 1
      BY <2>1, <3>5, SMT
    <3> QED
      BY <3>5, <3>6
  <2> QED
    BY <2>3, <2>4, <2>5
<1> HIDE DEF Short
<1>3. Short \subseteq Nat
  BY DEF Short
<1>4. \A n \in Nat : n \in Short
  BY <1>1, <1>2, <1>3, Induction
<1> QED
  BY <1>4 DEF Short

LEMMA WidthIsPower ==
  ASSUME NEW w \in {2, 4}
  PROVE  /\ \E i \in 1 .. Width : Mod(w) = Power[i]
         /\ ByteMod >= 2 /\ \E h \in Nat : Mod(w) = 2 * h
<1>1. Mod(w) \in Nat \ {0} /\ w \in Widths
  BY Below DEF Widths
<1>2. PICK q \in Nat \ {0} : WordMod = Mod(w) * q
  BY <1>1, PowersByByte
<1>3. Width \in Nat /\ WordMod = Power[Width]
  BY FlagsAssumption
<1>4. PICK i \in 0 .. Width : Mod(w) = Power[i]
  <2>1. Mod(w) * q = Power[Width]
    BY <1>2, <1>3
  <2> QED
    BY <1>1, <1>2, <1>3, <2>1, FactorsOfPower
<1>5. ByteMod >= 2 /\ ByteMod \in Nat
  <2>1. \A x \in Nat \ {0, 1} : x * x >= 2 /\ x * x \in Nat
    BY SMT
  <2> QED
    BY <2>1, FlagsAssumption
<1>6. Mod(w) >= 2
  <2>1. Mod(1) = ByteMod /\ 1 \in Widths /\ 1 <= w
    BY PowersPositive, SMT DEF Widths
  <2>2. Mod(1) <= Mod(w)
    BY <1>1, <2>1, WiderPower
  <2> QED
    BY <1>1, <1>5, <2>1, <2>2, SMT
<1>7. i \in 1 .. Width
  <2>1. i # 0
    BY <1>4, <1>6, PowerRecursive, SMT
  <2> QED
    BY <1>3, <1>4, <2>1, SMT
<1>8. \E h \in Nat : Mod(w) = 2 * h
  <2>1. i - 1 \in Nat /\ (i - 1) + 1 = i
    BY <1>3, <1>7, SMT
  <2>2. Power[i - 1] \in Nat /\ Power[(i - 1) + 1] = 2 * Power[i - 1]
    BY <2>1, PowerRecursive
  <2>3. Mod(w) = 2 * Power[i - 1]
    BY <1>4, <2>1, <2>2
  <2> QED
    BY <2>2, <2>3
<1>9. \E k \in 1 .. Width : Mod(w) = Power[k]
  BY <1>4, <1>7, Zenon
<1> QED
  BY <1>5, <1>8, <1>9

(* A bitwise operation does not reach beyond its operands.                 *)
LEMMA ApplyBelow ==
  ASSUME NEW i \in 0 .. Width, NEW op \in {"and", "or", "xor"},
         NEW a \in 0 .. Power[i] - 1, NEW b \in 0 .. Power[i] - 1
  PROVE  Apply(op, a, b) \in 0 .. Power[i] - 1
<1> DEFINE A == Bits(a)
           B == Bits(b)
           set == CASE op = "or" -> A \cup B [] op = "and" -> A \cap B
                    [] op = "xor" -> (A \cup B) \ (A \cap B)
<1>1. i \in Nat /\ Width \in Nat /\ i <= Width
  BY FlagsAssumption, SMT
<1>2. ASSUME NEW x \in 0 .. Power[i] - 1 PROVE Bits(x) \subseteq 0 .. i - 1
  <2> SUFFICES ASSUME NEW k \in 0 .. Width - 1, (x \div Power[k]) % 2 = 1, ~(k < i) PROVE FALSE
    BY <1>1, SMT DEF Bits, BitsBelow, Places2
  <2>1. k \in Nat /\ (i = k \/ i < k)
    BY <1>1, SMT
  <2>2. Power[i] \in Nat \ {0} /\ Power[k] \in Nat \ {0}
    BY <1>1, <2>1, PowerRecursive
  <2>3. Power[i] <= Power[k]
    <3>1. CASE i < k
      <4>1. PICK c \in Nat : Power[k] = Power[i] * (2 * c)
        BY <1>1, <2>1, <3>1, PowerDivides
      <4>2. \A p, d \in Nat : p * (2 * d) = 0 \/ p <= p * (2 * d)
        BY SMT
      <4> QED
        BY <2>2, <4>1, <4>2
    <3>2. CASE i = k
      BY <2>2, <3>2, SMT
    <3> QED
      BY <2>1, <3>1, <3>2
  <2>4. x \div Power[k] = 0
    <3>1. x \in 0 .. Power[k] - 1 /\ x \in Nat
      BY <2>2, <2>3, SMT
    <3>2. \A m \in Nat \ {0} : \A y \in 0 .. m - 1 : y \div m = 0
      BY SMT
    <3> QED
      BY <2>2, <3>1, <3>2
  <2> QED
    BY <2>4, SMT
<1>3. set \subseteq 0 .. i - 1
  <2>1. A \subseteq 0 .. i - 1 /\ B \subseteq 0 .. i - 1
    BY <1>2
  <2> QED
    BY <2>1
<1>4. Apply(op, a, b) = SumsOf(Places2, set)[Width]
  BY DEF Apply, FromBits
<1> HIDE DEF set
<1>5. Tabulates(Places2, set)
  BY <1>1, <1>3, SMT DEF Tabulates, Places2
<1>6. SumsOf(Places2, set)[Width] = SumsOf(Places2, set)[i]
  BY <1>1, <1>3, <1>5, SumOfLowBits
<1>7. SumsOf(Places2, set)[i] \in 0 .. Power[i] - 1
  BY <1>1, <1>5, SumBelowPower
<1> QED
  BY <1>4, <1>6, <1>7

Digit(v, k) == (v \div Mod(k)) % ByteMod

LEMMA PowersRise == \A j, k \in 0 .. 8 : j <= k => Mod(j) <= Mod(k)
<1>1. \A k \in 0 .. 8 : Mod(k) \in Nat \ {0}
  BY PowersByByte
<1>2. ASSUME NEW k \in 0 .. 7 PROVE Mod(k) <= Mod(k + 1)
  <2>1. k \in 0 .. 8 /\ k + 1 \in 0 .. 8
    BY SMT
  <2>2. Mod(k + 1) = ByteMod * Mod(k)
    BY PowersByByte
  <2>3. \A x, y \in Nat \ {0} : y <= x * y
    BY SMT
  <2> QED
    BY <1>1, <2>1, <2>2, <2>3, BytePositive
<1>3. /\ Mod(0) <= Mod(1) /\ Mod(1) <= Mod(2) /\ Mod(2) <= Mod(3) /\ Mod(3) <= Mod(4)
      /\ Mod(4) <= Mod(5) /\ Mod(5) <= Mod(6) /\ Mod(6) <= Mod(7) /\ Mod(7) <= Mod(8)
  <2>1. /\ 0 + 1 = 1 /\ 1 + 1 = 2 /\ 2 + 1 = 3 /\ 3 + 1 = 4
        /\ 4 + 1 = 5 /\ 5 + 1 = 6 /\ 6 + 1 = 7 /\ 7 + 1 = 8
    BY SMT
  <2>2. /\ 0 \in 0 .. 7 /\ 1 \in 0 .. 7 /\ 2 \in 0 .. 7 /\ 3 \in 0 .. 7
        /\ 4 \in 0 .. 7 /\ 5 \in 0 .. 7 /\ 6 \in 0 .. 7 /\ 7 \in 0 .. 7
    BY SMT
  <2>3. Mod(0) <= Mod(1) /\ Mod(1) <= Mod(2) /\ Mod(2) <= Mod(3) /\ Mod(3) <= Mod(4)
    BY <1>2, <2>1, <2>2
  <2>4. Mod(4) <= Mod(5) /\ Mod(5) <= Mod(6) /\ Mod(6) <= Mod(7) /\ Mod(7) <= Mod(8)
    BY <1>2, <2>1, <2>2
  <2> QED
    BY <2>3, <2>4
<1>4. /\ Mod(0) \in Nat /\ Mod(1) \in Nat /\ Mod(2) \in Nat /\ Mod(3) \in Nat /\ Mod(4) \in Nat
      /\ Mod(5) \in Nat /\ Mod(6) \in Nat /\ Mod(7) \in Nat /\ Mod(8) \in Nat
  BY <1>1, SMT
<1> DEFINE m0 == Mod(0)  m1 == Mod(1)  m2 == Mod(2)  m3 == Mod(3)  m4 == Mod(4)
           m5 == Mod(5)  m6 == Mod(6)  m7 == Mod(7)  m8 == Mod(8)
<1> SUFFICES ASSUME NEW j \in 0 .. 8, NEW k \in 0 .. 8, j <= k PROVE Mod(j) <= Mod(k)
  OBVIOUS
<1>5. \A x, y, z \in Nat : x <= y /\ y <= z => x <= z
  BY SMT
<1>6. /\ j = 0 \/ j = 1 \/ j = 2 \/ j = 3 \/ j = 4 \/ j = 5 \/ j = 6 \/ j = 7 \/ j = 8
      /\ k = 0 \/ k = 1 \/ k = 2 \/ k = 3 \/ k = 4 \/ k = 5 \/ k = 6 \/ k = 7 \/ k = 8
  BY SMT
<1>7. /\ m0 <= m1 /\ m1 <= m2 /\ m2 <= m3 /\ m3 <= m4 /\ m4 <= m5 /\ m5 <= m6 /\ m6 <= m7 /\ m7 <= m8
      /\ m0 \in Nat /\ m1 \in Nat /\ m2 \in Nat /\ m3 \in Nat /\ m4 \in Nat
      /\ m5 \in Nat /\ m6 \in Nat /\ m7 \in Nat /\ m8 \in Nat
  BY <1>3, <1>4
<1> DEFINE table(i) == CASE i = 0 -> m0 [] i = 1 -> m1 [] i = 2 -> m2 [] i = 3 -> m3 [] i = 4 -> m4
                         [] i = 5 -> m5 [] i = 6 -> m6 [] i = 7 -> m7 [] OTHER -> m8
<1>9. Mod(j) = table(j) /\ Mod(k) = table(k)
  BY <1>6
<1> HIDE DEF m0, m1, m2, m3, m4, m5, m6, m7, m8
<1>10. table(j) <= table(k)
  BY <1>7, SMT
<1> QED
  BY <1>9, <1>10

LEMMA WordIsMultiple == \A k \in 0 .. 8 : \E q \in Nat \ {0} : WordMod = Mod(k) * q
<1> DEFINE Divides(k) == \E q \in Nat \ {0} : WordMod = Mod(k) * q
<1>1. Divides(8)
  <2>1. WordMod = Mod(8) * 1
    BY PowersPositive, BytePositive, SMT
  <2> QED
    BY <2>1
<1>2. ASSUME NEW k \in 0 .. 7, NEW n, n = k + 1, Divides(n) PROVE Divides(k)
  <2>1. PICK q \in Nat \ {0} : WordMod = Mod(k + 1) * q
    BY <1>2
  <2>2. Mod(k + 1) = ByteMod * Mod(k) /\ Mod(k) \in Nat \ {0} /\ ByteMod \in Nat \ {0}
    <3>1. k \in 0 .. 8
      BY SMT
    <3> QED
      BY <3>1, PowersByByte, BytePositive
  <2>3. \A b, m, c \in Nat \ {0} : (b * m) * c = m * (b * c)
    BY SMT
  <2>4. ByteMod * q \in Nat \ {0}
    BY <2>2, ProductPositive
  <2>5. WordMod = Mod(k) * (ByteMod * q)
    BY <2>1, <2>2, <2>3
  <2> QED
    BY <2>4, <2>5
<1> HIDE DEF Divides
<1>3. /\ 0 + 1 = 1 /\ 1 + 1 = 2 /\ 2 + 1 = 3 /\ 3 + 1 = 4 /\ 4 + 1 = 5 /\ 5 + 1 = 6 /\ 6 + 1 = 7 /\ 7 + 1 = 8
      /\ \A k \in {0, 1, 2, 3, 4, 5, 6, 7} : k \in 0 .. 7
  BY SMT
<1>4. /\ Divides(7) /\ Divides(6) /\ Divides(5) /\ Divides(4)
      /\ Divides(3) /\ Divides(2) /\ Divides(1) /\ Divides(0)
  <2>1. Divides(7)
    BY <1>1, <1>2, <1>3
  <2>2. Divides(6)
    BY <1>2, <1>3, <2>1
  <2>3. Divides(5)
    BY <1>2, <1>3, <2>2
  <2>4. Divides(4)
    BY <1>2, <1>3, <2>3
  <2>5. Divides(3)
    BY <1>2, <1>3, <2>4
  <2>6. Divides(2)
    BY <1>2, <1>3, <2>5
  <2>7. Divides(1)
    BY <1>2, <1>3, <2>6
  <2>8. Divides(0)
    BY <1>2, <1>3, <2>7
  <2> QED
    BY <2>1, <2>2, <2>3, <2>4, <2>5, <2>6, <2>7, <2>8
<1>5. \A k \in 0 .. 8 : k = 0 \/ k = 1 \/ k = 2 \/ k = 3 \/ k = 4 \/ k = 5 \/ k = 6 \/ k = 7 \/ k = 8
  BY SMT
<1>6. \A k \in 0 .. 8 : Divides(k)
  BY <1>1, <1>4, <1>5
<1> QED
  BY <1>6 DEF Divides

(* The bytes behind a value that fits, one that carries, and one that is   *)
(* below zero.                                                             *)
LEMMA DigitsOfFitting ==
  ASSUME NEW w \in {2, 4}, NEW v \in 0 .. Mod(w) - 1
  PROVE  \A k \in w .. 7 : Digit(v, k) = 0
<1> SUFFICES ASSUME NEW k \in w .. 7 PROVE Digit(v, k) = 0
  OBVIOUS
<1>1. w \in 0 .. 8 /\ k \in 0 .. 8 /\ w <= k
  BY SMT
<1>2. Mod(w) <= Mod(k) /\ Mod(w) \in Nat /\ Mod(k) \in Nat \ {0}
  BY <1>1, PowersRise, PowersByByte
<1>3. v \div Mod(k) = 0
  <2>1. v \in 0 .. Mod(k) - 1
    BY <1>2, SMT
  <2>2. \A m \in Nat \ {0} : \A y \in 0 .. m - 1 : y \div m = 0
    BY SMT
  <2> QED
    BY <1>2, <2>1, <2>2
<1>4. 0 % ByteMod = 0
  BY BytePositive, SMT
<1> QED
  BY <1>3, <1>4 DEF Digit

LEMMA DigitsOfCarry ==
  ASSUME NEW w \in {2, 4}, NEW r \in 0 .. Mod(w) - 1, NEW v, v = Mod(w) + r
  PROVE  Digit(v, w) = 1 /\ \A k \in w + 1 .. 7 : Digit(v, k) = 0
<1>1. w \in 0 .. 8 /\ w + 1 \in 0 .. 8 /\ w \in 0 .. 7
  BY SMT
<1>2. /\ Mod(w) \in Nat \ {0} /\ Mod(w + 1) = ByteMod * Mod(w) /\ ByteMod >= 2
      /\ ByteMod \in Nat \ {0}
  BY <1>1, PowersByByte, WidthIsPower, BytePositive
<1>3. v \div Mod(w) = 1
  <2>1. Mod(w) * 1 + r = v /\ 1 \in Int
    BY <1>2, SMT
  <2>2. (Mod(w) * 1 + r) \div Mod(w) = 1
    BY <1>2, <2>1, QuotientUnique
  <2> QED
    BY <2>1, <2>2
<1>4. 1 % ByteMod = 1
  BY <1>2, SMT
<1>5. ASSUME NEW k \in w + 1 .. 7 PROVE Digit(v, k) = 0
  <2>1. k \in 0 .. 8 /\ w + 1 <= k
    BY SMT
  <2>2. Mod(w + 1) <= Mod(k) /\ Mod(k) \in Nat \ {0}
    BY <1>1, <2>1, PowersRise, PowersByByte
  <2>3. 2 * Mod(w) <= ByteMod * Mod(w)
    <3>1. \A b, m \in Nat : b >= 2 => 2 * m <= b * m
      BY SMT
    <3> QED
      BY <1>2, <3>1
  <2>4. v \in 0 .. Mod(k) - 1
    <3> DEFINE p == ByteMod * Mod(w)
    <3>1. p = Mod(w + 1) /\ 2 * Mod(w) <= p
      BY <1>2, <2>3
    <3>2. p \in Nat
      BY <1>2, ProductPositive
    <3> HIDE DEF p
    <3> QED
      BY <1>2, <2>2, <3>1, <3>2, SMT
  <2>5. \A m \in Nat \ {0} : \A y \in 0 .. m - 1 : y \div m = 0
    BY SMT
  <2>6. v \div Mod(k) = 0 /\ 0 % ByteMod = 0
    BY <1>2, <2>2, <2>4, <2>5, SMT
  <2> QED
    BY <2>6 DEF Digit
<1> QED
  BY <1>3, <1>4, <1>5 DEF Digit

LEMMA DigitsOfBorrow ==
  ASSUME NEW w \in {2, 4}, NEW d \in 1 .. Mod(w), NEW v, v = WordMod - d
  PROVE  \A k \in w .. 7 : Digit(v, k) = ByteMod - 1
<1> SUFFICES ASSUME NEW k \in w .. 7 PROVE Digit(v, k) = ByteMod - 1
  OBVIOUS
<1>1. w \in 0 .. 8 /\ k \in 0 .. 8 /\ w <= k /\ k \in 0 .. 7 /\ k + 1 \in 0 .. 8
  BY SMT
<1>2. /\ Mod(w) <= Mod(k) /\ Mod(w) \in Nat /\ Mod(k) \in Nat \ {0} /\ ByteMod \in Nat \ {0}
      /\ Mod(k + 1) = ByteMod * Mod(k)
  BY <1>1, PowersRise, PowersByByte, BytePositive
<1>3. PICK q \in Nat \ {0} : WordMod = Mod(k + 1) * q
  BY <1>1, WordIsMultiple
<1> DEFINE m == Mod(k)
           top == ByteMod * q
<1>4. top \in Nat \ {0} /\ WordMod = m * top
  <2>1. \A b, x, c \in Nat \ {0} : (b * x) * c = x * (b * c)
    BY SMT
  <2> QED
    BY <1>2, <1>3, <2>1, ProductPositive
<1>5. m \in Nat \ {0} /\ d \in 1 .. m
  BY <1>2, SMT
<1>6. v = m * (top - 1) + (m - d)
  <2> HIDE DEF m, top
  <2>1. m * (top - 1) = m * top - m
    BY <1>4, <1>5, SMT
  <2>2. PICK p \in Nat : p = m * top
    <3>1. m * top \in Nat
      BY <1>4, <1>5, ProductPositive
    <3> QED
      BY <3>1
  <2>3. m * (top - 1) = p - m /\ v = p - d
    BY <1>4, <2>1, <2>2
  <2>4. p - d = (p - m) + (m - d)
    BY <1>5, <2>2, SMT
  <2> QED
    BY <2>3, <2>4
<1>7. v \div m = top - 1
  <2> HIDE DEF m, top
  <2>1. top - 1 \in Int /\ m - d \in 0 .. m - 1
    BY <1>4, <1>5, SMT
  <2> QED
    BY <1>5, <1>6, <2>1, QuotientUnique
<1>8. (top - 1) % ByteMod = ByteMod - 1
  <2>1. q - 1 \in Int /\ ByteMod - 1 \in 0 .. ByteMod - 1 /\ ByteMod \in Nat \ {0}
    BY <1>2, SMT
  <2>2. ByteMod * (q - 1) + (ByteMod - 1) = top - 1
    <3>1. ByteMod * (q - 1) = ByteMod * q - ByteMod
      BY <1>2, SMT
    <3>2. top \in Int /\ ByteMod \in Int
      BY <1>2, <1>4
    <3>3. ByteMod * (q - 1) = top - ByteMod
      BY <3>1
    <3> HIDE DEF top
    <3>4. (top - ByteMod) + (ByteMod - 1) = top - 1
      BY <3>2, SMT
    <3> QED
      BY <3>3, <3>4
  <2> HIDE DEF top
  <2>3. (ByteMod * (q - 1) + (ByteMod - 1)) % ByteMod = ByteMod - 1
    BY <2>1, ModUnique
  <2> QED
    BY <2>2, <2>3
<1> QED
  BY <1>7, <1>8 DEF Digit

Fitting(v, w) == v \in 0 .. Mod(w) - 1
Carrying(v, w) == \E r \in 0 .. Mod(w) - 1 : v = Mod(w) + r
Borrowing(v, w) == \E d \in 1 .. Mod(w) : v = WordMod - d

LEMMA BelowZero ==
  ASSUME NEW d \in 1 .. WordMod
  PROVE  (0 - d) % WordMod = WordMod - d
<1>1. WordMod * (0 - 1) + (WordMod - d) = 0 - d /\ WordMod - d \in 0 .. WordMod - 1 /\ 0 - 1 \in Int
  BY BytePositive, SMT
<1>2. (WordMod * (0 - 1) + (WordMod - d)) % WordMod = WordMod - d
  BY <1>1, BytePositive, ModUnique
<1> QED
  BY <1>1, <1>2

LEMMA UnsignedValue ==
  ASSUME NEW w \in {2, 4}, NEW op \in Ops \ {"lea"}, NEW a, NEW b, Fitting(a, w), Fitting(b, w)
  PROVE  /\ \/ Fitting(Value(op, a, b), w)
            \/ op = "add" /\ Carrying(Value(op, a, b), w)
            \/ Borrowing(Value(op, a, b), w)
         /\ op \in {"cmp", "test", "and", "or", "xor"} => Fitting(Value(op, a, b), w)
         /\ op \in {"cmp", "test"} => Value(op, a, b) = a
<1> DEFINE m == Mod(w)
<1>1. m \in Nat \ {0} /\ 2 * m <= WordMod /\ m <= WordMod /\ WordMod \in Nat \ {0}
  <2>1. w \in 0 .. 7 /\ w \in 0 .. 8 /\ w + 1 \in 0 .. 8 /\ 8 \in 0 .. 8 /\ w + 1 <= 8
    BY SMT
  <2>2. Mod(w + 1) = ByteMod * m /\ m \in Nat \ {0} /\ ByteMod >= 2 /\ ByteMod \in Nat /\ Mod(8) = WordMod
    BY <2>1, PowersByByte, WidthIsPower, BytePositive, PowersPositive
  <2>3. Mod(w + 1) <= WordMod
    BY <2>1, <2>2, PowersRise
  <2>4. 2 * m <= Mod(w + 1) /\ Mod(w + 1) \in Nat
    <3>1. \A x, y \in Nat : x >= 2 => 2 * y <= x * y /\ x * y \in Nat
      BY SMT
    <3> QED
      BY <2>2, <3>1
  <2> HIDE DEF m
  <2> QED
    BY <2>2, <2>3, <2>4, BytePositive, SMT
<1>2. a \in 0 .. m - 1 /\ b \in 0 .. m - 1
  BY DEF Fitting
<1>3. CASE op \in {"mov", "cmp", "test"}
  BY <1>3 DEF Value
<1>4. CASE op \in {"and", "or", "xor"}
  <2>1. PICK i \in 1 .. Width : m = Power[i]
    BY WidthIsPower
  <2>2. i \in 0 .. Width
    BY FlagsAssumption, SMT
  <2>3. Apply(op, a, b) \in 0 .. Power[i] - 1
    BY <1>2, <1>4, <2>1, <2>2, ApplyBelow
  <2>4. Value(op, a, b) = Apply(op, a, b)
    BY <1>4 DEF Value
  <2> QED
    BY <1>4, <2>1, <2>3, <2>4 DEF Fitting
<1>5. CASE op = "add"
  <2>1. Value(op, a, b) = (a + b) % WordMod
    BY <1>5 DEF Value, WrapAdd
  <2> HIDE DEF m
  <2>2. a + b \in Nat /\ a + b < WordMod
    BY <1>1, <1>2, SMT
  <2>3. (a + b) % WordMod = a + b
    BY <1>1, <2>2, SmallMod
  <2>4. CASE a + b < m
    <3>1. a + b \in 0 .. m - 1
      BY <1>1, <1>2, <2>4, SMT
    <3> QED
      BY <1>5, <2>1, <2>3, <3>1 DEF Fitting, m
  <2>5. CASE a + b >= m
    <3> DEFINE r == (a + b) - m
    <3>1. r \in 0 .. m - 1 /\ a + b = m + r
      BY <1>1, <1>2, <2>5, SMT
    <3> HIDE DEF r
    <3> QED
      BY <1>5, <2>1, <2>3, <3>1 DEF Carrying, m
  <2> QED
    BY <1>1, <1>2, <2>2, <2>4, <2>5, SMT
<1>6. CASE op \in {"sub", "dec"}
  <2> DEFINE c == IF op = "sub" THEN b ELSE 1
  <2>1. Value(op, a, b) = (a - c) % WordMod
    BY <1>6 DEF Value
  <2> HIDE DEF m
  <2>2. c \in 0 .. m
    BY <1>1, <1>2, SMT
  <2> HIDE DEF c
  <2>3. CASE a >= c
    <3>1. a - c \in 0 .. m - 1 /\ a - c \in Nat /\ a - c < WordMod
      BY <1>1, <1>2, <2>2, <2>3, SMT
    <3>2. (a - c) % WordMod = a - c
      BY <1>1, <3>1, SmallMod
    <3> QED
      BY <1>6, <2>1, <3>1, <3>2 DEF Fitting, m
  <2>4. CASE a < c
    <3> DEFINE d == c - a
    <3>1. d \in 1 .. m /\ d \in 1 .. WordMod /\ a - c = 0 - d
      BY <1>1, <1>2, <2>2, <2>4, SMT
    <3> HIDE DEF d
    <3>2. Value(op, a, b) = WordMod - d
      BY <2>1, <3>1, BelowZero
    <3> QED
      BY <1>6, <3>1, <3>2 DEF Borrowing, m
  <2> QED
    BY <1>1, <1>2, <2>2, <2>3, <2>4, SMT
<1> QED
  BY <1>3, <1>4, <1>5, <1>6 DEF Ops

LEMMA SignedNumber ==
  ASSUME NEW w \in {2, 4}, NEW h \in Nat, Mod(w) = 2 * h, NEW x \in Nat
  PROVE  \E s \in (0 - h) .. h - 1 : Cast(x, S(w)) = s % WordMod
<1> DEFINE m == Mod(w)
           low == x % m
<1>1. m \in Nat \ {0} /\ m <= WordMod /\ low \in 0 .. m - 1 /\ WordMod \in Nat \ {0}
  <2>1. w \in Widths /\ x \in Int
    BY SMT DEF Widths
  <2> QED
    BY <2>1, Below, BytePositive
<1>2. Cast(x, S(w)) = IF low >= m \div 2 THEN (low - m) % WordMod ELSE low
  BY CastSigned
<1>3. m = 2 * h
  OBVIOUS
<1> HIDE DEF m, low
<1>4. m \div 2 = h
  BY <1>3, SMT
<1>5. CASE low >= h
  <2> DEFINE s == low - m
  <2>1. s \in (0 - h) .. h - 1
    BY <1>1, <1>3, <1>5, SMT
  <2> QED
    BY <1>2, <1>4, <1>5, <2>1
<1>6. CASE low < h
  <2>1. low \in (0 - h) .. h - 1 /\ ~(low >= h) /\ low \in Nat /\ low < WordMod
    BY <1>1, <1>3, <1>6, SMT
  <2>2. low % WordMod = low
    BY <1>1, <2>1, SmallMod
  <2> QED
    BY <1>2, <1>4, <2>1, <2>2
<1> QED
  BY <1>1, <1>5, <1>6, SMT

LEMMA SignedSum ==
  ASSUME NEW w \in {2, 4}, NEW x \in Nat, NEW y \in Nat
  PROVE  LET v == Value("add", Cast(x, S(w)), Cast(y, S(w))) IN Fitting(v, w) \/ Borrowing(v, w)
<1> DEFINE m == Mod(w)
           v == Value("add", Cast(x, S(w)), Cast(y, S(w)))
<1>1. m \in Nat \ {0} /\ m <= WordMod /\ WordMod \in Nat \ {0}
  <2>1. w \in Widths
    BY SMT DEF Widths
  <2> QED
    BY <2>1, Below, BytePositive
<1>2. PICK h \in Nat : m = 2 * h
  BY WidthIsPower
<1>3. PICK s \in (0 - h) .. h - 1 : Cast(x, S(w)) = s % WordMod
  BY <1>2, SignedNumber
<1>4. PICK t \in (0 - h) .. h - 1 : Cast(y, S(w)) = t % WordMod
  BY <1>2, SignedNumber
<1>5. s \in Int /\ t \in Int /\ s + t \in Int /\ s + t >= 0 - m /\ s + t < m
  <2> HIDE DEF m
  <2> QED
    BY <1>2, SMT
<1>6. v = (s + t) % WordMod
  <2>1. v = ((s % WordMod) + (t % WordMod)) % WordMod
    BY <1>3, <1>4 DEF Value, WrapAdd
  <2>2. s % WordMod \in Int /\ t % WordMod \in Int
    <3>1. \A z \in Int : z % WordMod \in Int
      BY BytePositive, SMT
    <3> QED
      BY <1>5, <3>1
  <2>3. ((s % WordMod) + (t % WordMod)) % WordMod = (s + (t % WordMod)) % WordMod
    BY <1>1, <1>5, <2>2, ModSum
  <2>4. ((t % WordMod) + s) % WordMod = (t + s) % WordMod
    BY <1>1, <1>5, ModSum
  <2>5. (t % WordMod) + s = s + (t % WordMod) /\ t + s = s + t
    BY <1>5, <2>2, SMT
  <2> QED
    BY <2>1, <2>3, <2>4, <2>5
<1> HIDE DEF v
<1>7. CASE s + t >= 0
  <2> HIDE DEF m
  <2>1. s + t \in Nat /\ s + t < WordMod /\ s + t \in 0 .. m - 1
    BY <1>1, <1>5, <1>7, SMT
  <2>2. v = s + t
    BY <1>1, <1>6, <2>1, SmallMod
  <2> QED
    BY <2>1, <2>2 DEF Fitting, m, v
<1>8. CASE s + t < 0
  <2> HIDE DEF m
  <2> DEFINE d == 0 - (s + t)
  <2>1. d \in 1 .. m /\ d \in 1 .. WordMod /\ s + t = 0 - d
    BY <1>1, <1>5, <1>8, SMT
  <2> HIDE DEF d
  <2>2. v = WordMod - d
    BY <1>6, <2>1, BelowZero
  <2> QED
    BY <2>1, <2>2 DEF Borrowing, m, v
<1> QED
  BY <1>5, <1>7, <1>8, SMT DEF v

(* What a store of eight bytes to a narrower operand stores.               *)
Spilling(v) ==
  /\ Fitting(v, Wide) \/ (Op = "add" /\ Carrying(v, Wide)) \/ Borrowing(v, Wide)
  /\ Op \in {"cmp", "test", "and", "or", "xor"} /\ ~Dst.signed => Fitting(v, Wide)
  /\ Op \in {"cmp", "test"} => v = Load(Address, Wide)

LEMMA NarrowLoad ==
  ASSUME Ready, NEW w \in {2, 4}, NEW addr \in Nat, Mapped(addr, 8)
  PROVE  /\ Mapped(addr, w) /\ Load(addr, w) \in 0 .. Mod(w) - 1 /\ Load(addr, w) \in Nat
         /\ \A k \in 0 .. w - 1 : Digit(Load(addr, w), k) = memory[addr + k]
         /\ OperandAt(At(addr), U(w)) = Load(addr, w)
         /\ OperandAt(At(addr), S(w)) = Cast(Load(addr, w), S(w))
<1>1. w \in Widths /\ Mapped(addr, w)
  <2>1. Size \in Nat
    BY OperandsAssumption
  <2> QED
    BY <2>1, SMT DEF Mapped, Widths
<1>2. /\ Load(addr, w) \in 0 .. Mod(w) - 1
      /\ \A k \in 0 .. w - 1 : (Load(addr, w) \div Mod(k)) % ByteMod = memory[addr + k]
  BY <1>1, LoadTyped
<1>3. Load(addr, w) \in Nat
  BY <1>1, <1>2, Below, SMT
<1>4. Cast(Load(addr, w), U(w)) = Load(addr, w)
  BY <1>1, <1>2, CastKeeps
<1>5. U(w).bytes = w /\ S(w).bytes = w
  BY DEF U, S
<1> QED
  BY <1>1, <1>2, <1>3, <1>4, <1>5 DEF OperandAt, At, Digit

LEMMA FittingCast ==
  ASSUME NEW w \in {2, 4}, NEW x \in Int
  PROVE  Fitting(Cast(x, U(w)), w)
<1>1. w \in Widths
  BY DEF Widths
<1> QED
  BY <1>1, Below, CastUnsigned DEF Fitting

LEMMA UnsignedSpill ==
  ASSUME Ready, Wide \in {2, 4}, Dst = U(Wide), Op \in Ops \ {"lea"}, Handler.op = Op,
         Address \in Nat, Mapped(Address, 8), NEW b, Fitting(b, Wide)
  PROVE  Spilling(Result(OperandAt(At(Address), Dst), b))
<1> DEFINE a == Load(Address, Wide)
<1>1. OperandAt(At(Address), Dst) = a /\ a \in 0 .. Mod(Wide) - 1
  BY NarrowLoad
<1>2. Fitting(a, Wide)
  BY <1>1 DEF Fitting
<1>3. Result(OperandAt(At(Address), Dst), b) = Value(Op, a, b)
  BY <1>1 DEF Result
<1> HIDE DEF a
<1>4. /\ \/ Fitting(Value(Op, a, b), Wide)
         \/ Op = "add" /\ Carrying(Value(Op, a, b), Wide)
         \/ Borrowing(Value(Op, a, b), Wide)
      /\ Op \in {"cmp", "test", "and", "or", "xor"} => Fitting(Value(Op, a, b), Wide)
      /\ Op \in {"cmp", "test"} => Value(Op, a, b) = a
  BY <1>2, UnsignedValue
<1> QED
  BY <1>3, <1>4 DEF Spilling, a

LEMMA SpillMR ==
  ASSUME Ready, Form \in {"MR", "M"}, EightBytesStored, Placed, Mapped(Address, 8), NEW junk \in Residues
  PROVE  \E v : Spilling(v) /\ Effects(Form, junk) = ToMemory(Address, 8, v)
<1> DEFINE m == set_modrm_byte
           stored(b) == ToOperand(Address, Result(OperandAt(At(Address), Dst), b), Dst.bytes)
<1>1. /\ Wide \in {2, 4} /\ Op \in Ops \ {"lea"} /\ Handler.op = Op /\ Dst = U(Wide) /\ Dst.bytes = Wide
      /\ InMemory
  <2>1. Op # "lea"
    <3>1. Form \notin {"AL", "A"}
      OBVIOUS
    <3> QED
      BY <3>1, FormOf DEF Fits
  <2> QED
    BY <2>1, TypesMR DEF EightBytesStored
<1>2. /\ Address \in Nat
      /\ ~inst.p_sib => ModRMLocation(Dst, inst.pos_opcode + 2, 0) = At(Address)
      /\ inst.p_sib => SibLocation(junk) = At(Address)
  BY <1>1, WhereOperandIs
<1>3. Mapped(Address, Dst.bytes)
  BY <1>1, <1>2, NarrowLoad
<1>4. m.is_addr /\ m.reg \in 0 .. 15
  BY <1>1, ModRMFields DEF InMemory
<1>5. \A missed, b : OnMemory(At(Address), Dst, missed, stored(b)) = stored(b)
  BY <1>3, FromMemory
<1>6. \A b : At(Address).addr = Address
  BY DEF At
<1>7. CASE Form = "MR"
  <2> DEFINE b == OfRegister(m.reg, Dst)
  <2>1. Effects(Form, junk) = stored(b)
    <3>1. Effects(Form, junk) = InstrMR(junk)
      BY <1>7 DEF Effects
    <3>2. \A missed : MemoryMR(m, At(Address), missed) = stored(b)
      BY <1>5, <1>6 DEF MemoryMR
    <3>3. InstrMR(junk) = IF inst.p_sib THEN SibMR(m, junk) ELSE BareMR(m)
      BY <1>4 DEF InstrMR
    <3> HIDE DEF m
    <3> QED
      BY <1>2, <3>1, <3>2, <3>3 DEF SibMR, BareMR
  <2>2. Fitting(b, Wide)
    <3>1. registers[m.reg] \in Int
      <4> HIDE DEF m
      <4>1. \A r \in 0 .. 15 : registers[r] \in Int
        BY RegistersTyped, SMT
      <4> QED
        BY <1>4, <4>1
    <3> QED
      BY <1>1, <3>1, FittingCast DEF OfRegister
  <2> HIDE DEF b, m
  <2>3. Spilling(Result(OperandAt(At(Address), Dst), b))
    BY <1>1, <1>2, <2>2, UnsignedSpill
  <2> QED
    BY <2>1, <2>3 DEF ToOperand
<1>8. CASE Form = "M"
  <2>1. Effects(Form, junk) = stored(0)
    <3>1. Effects(Form, junk) = InstrM(junk)
      BY <1>8 DEF Effects
    <3>2. MemoryM(At(Address)) = stored(0)
      BY <1>5, <1>6 DEF MemoryM
    <3>3. InstrM(junk) = IF inst.p_sib THEN SibM(junk) ELSE BareM
      BY <1>4 DEF InstrM
    <3> QED
      BY <1>2, <1>8, <3>1, <3>2, <3>3 DEF SibM, BareM
  <2>2. Fitting(0, Wide)
    <3>1. Wide \in Widths
      BY <1>1 DEF Widths
    <3> QED
      BY <3>1, Below, SMT DEF Fitting
  <2>3. Spilling(Result(OperandAt(At(Address), Dst), 0))
    BY <1>1, <1>2, <2>2, UnsignedSpill
  <2> QED
    BY <2>1, <2>3 DEF ToOperand
<1> QED
  BY <1>7, <1>8

LEMMA SpillMI ==
  ASSUME Ready, Form = "MI", EightBytesStored, Placed, Mapped(Address, 8), NEW junk \in Residues
  PROVE  \E v : Spilling(v) /\ Effects(Form, junk) = ToMemory(Address, 8, v)
<1> DEFINE m == set_modrm_byte
           imm == Immediate(ImmediateOffset(m), junk)
           loc == Location(Dst, 2, 0, junk)
           v == Result(OperandAt(At(Address), Dst), imm)
<1>1. /\ Wide \in {2, 4} /\ Op \in Ops \ {"lea"} /\ Handler.op = Op /\ Dst.bytes = Wide
      /\ Dst = U(Wide) \/ (Dst = S(Wide) /\ Op = "add")
      /\ Src \in Types /\ Src.bytes \in Widths /\ InMemory
  <2>1. ~Or09
    <3>1. Form \notin {"AL", "A"}
      OBVIOUS
    <3> QED
      BY <3>1, FormOf DEF Fits, Or09
  <2>2. /\ Wide \in {2, 4, 8} /\ Op \in Ops \ {"lea"} /\ Handler.op = Op /\ (Wide = 8 <=> inst.osize = 64)
        /\ Dst.bytes = Wide /\ Src.bytes \in Widths
        /\ Dst = U(Wide) \/ (Dst = S(Wide) /\ Op = "add") \/ Wide = 8
    BY <2>1, TypesMI
  <2> QED
    BY <2>2, HandlerTyped DEF EightBytesStored
<1>2. Address \in Nat /\ loc = At(Address) /\ loc.addr = Address
  <2>1. Address \in Nat /\ loc = At(Address)
    BY <1>1, WhereOperandIs
  <2> QED
    BY <2>1 DEF At
<1>3. Mapped(Address, Dst.bytes)
  BY <1>1, <1>2, NarrowLoad
<1>4. Effects(Form, junk) = ToMemory(Address, 8, v)
  <2>1. Effects(Form, junk) = InstrMI(junk)
    BY DEF Effects
  <2>2. m.is_addr
    BY <1>1, ModRMFields DEF InMemory
  <2>3. InstrMI(junk) = OnMemory(loc, Dst, Skip, ToOperand(loc.addr, Result(OperandAt(loc, Dst), imm), Dst.bytes))
    BY <2>2 DEF InstrMI
  <2> HIDE DEF imm, loc, m
  <2>4. InstrMI(junk) = ToOperand(Address, v, Dst.bytes)
    BY <1>2, <1>3, <2>3, FromMemory
  <2> QED
    BY <2>1, <2>4 DEF ToOperand
<1>5. PICK x \in Nat : imm = Cast(x, Dst)
  <2> DEFINE pos == ImmediateOffset(m)
             d == Datum(pos, Src.bytes, junk.past)
  <2>1. pos \in Nat
    <3>1. m.disp_size \in Nat /\ inst.pos_opcode \in Nat
      BY ModRMFields, InstructionTyped, SMT
    <3> HIDE DEF m
    <3>2. Start \in Nat
      BY <3>1 DEF Start
    <3> QED
      BY <3>1, <3>2, SMT DEF ImmediateOffset
  <2> HIDE DEF m
  <2>2. d \in Nat
    <3>1. junk.past \in Nat /\ Src.bytes \in Nat
      BY <1>1, OperandsAssumption, SMT DEF Widths
    <3> HIDE DEF pos
    <3> QED
      BY <2>1, <3>1, DatumTyped
  <2>3. imm = Cast(Cast(d, Src), Dst)
    BY DEF Immediate
  <2> HIDE DEF d
  <2>4. Cast(d, Src) \in Nat
    <3>1. d \in Int
      BY <2>2
    <3> QED
      BY <1>1, <3>1, CastTyped
  <2> QED
    BY <2>3, <2>4
<1> HIDE DEF imm
<1>6. CASE Dst = U(Wide)
  <2>1. x \in Int
    OBVIOUS
  <2>2. Fitting(imm, Wide)
    BY <1>1, <1>5, <1>6, <2>1, FittingCast
  <2>3. Spilling(v)
    BY <1>1, <1>2, <1>6, <2>2, UnsignedSpill
  <2> QED
    BY <1>4, <2>3
<1>7. CASE Dst = S(Wide) /\ Op = "add"
  <2>1. OperandAt(At(Address), Dst) = Cast(Load(Address, Wide), S(Wide)) /\ Load(Address, Wide) \in Nat
    BY <1>1, <1>2, <1>7, NarrowLoad
  <2>2. v = Value("add", Cast(Load(Address, Wide), S(Wide)), Cast(x, S(Wide)))
    BY <1>1, <1>5, <1>7, <2>1 DEF Result
  <2> HIDE DEF v
  <2>3. Fitting(v, Wide) \/ Borrowing(v, Wide)
    BY <1>1, <2>1, <2>2, SignedSum
  <2>4. Spilling(v)
    BY <1>7, <2>3 DEF Spilling
  <2> QED
    BY <1>4, <2>4
<1> QED
  BY <1>1, <1>6, <1>7

LEMMA BytesStored ==
  ASSUME Ready, NEW addr \in Nat, Mapped(addr, 8), NEW v, NEW mem, mem = ToMemory(addr, 8, v).memory
  PROVE  \A k \in 0 .. 7 : mem[addr + k] = Digit(v, k)
<1> SUFFICES ASSUME NEW k \in 0 .. 7 PROVE mem[addr + k] = Digit(v, k)
  OBVIOUS
<1>1. addr + k \in DOMAIN memory /\ addr + k \in addr .. addr + 8 - 1 /\ (addr + k) - addr = k
  <2>1. DOMAIN memory = 0 .. Size - 1 /\ Size \in Nat
    BY OperandsAssumption DEF Ready
  <2> QED
    BY <2>1, SMT DEF Mapped
<1>2. mem = [a \in DOMAIN memory |-> IF a \in addr .. addr + 8 - 1
                                     THEN (v \div Mod(a - addr)) % ByteMod ELSE memory[a]]
  BY DEF ToMemory, Outcome
<1> DEFINE a == addr + k
<1>3. mem[a] = (v \div Mod(a - addr)) % ByteMod
  <2> HIDE DEF a
  <2>1. a \in DOMAIN memory /\ a \in addr .. addr + 8 - 1
    BY <1>1 DEF a
  <2> QED
    BY <1>2, <2>1
<1> QED
  BY <1>1, <1>3 DEF Digit

(* The bytes behind the operand, of a value that was stored.               *)
LEMMA BytesBehind ==
  ASSUME Wide \in {2, 4}, Address \in Nat, NEW v, Spilling(v),
         NEW mem, \A k \in 0 .. 7 : mem[Address + k] = Digit(v, k)
  PROVE  LET behind == {k \in Wide .. 7 : mem[Address + k] # 0}
             all(c) == \A k \in Wide .. 7 : mem[Address + k] = c
         IN /\ Op \in {"cmp", "test", "and", "or", "xor"} /\ ~Dst.signed => behind = {}
            /\ \/ behind = {} \/ all(ByteMod - 1)
               \/ behind = {Wide} /\ mem[Address + Wide] = 1 /\ Op = "add"
<1> DEFINE behind == {k \in Wide .. 7 : mem[Address + k] # 0}
           all(c) == \A k \in Wide .. 7 : mem[Address + k] = c
<1>1. \A k \in Wide .. 7 : k \in 0 .. 7
  BY SMT
<1>2. \A k \in Wide .. 7 : mem[Address + k] = Digit(v, k)
  BY <1>1
<1>3. Fitting(v, Wide) => behind = {}
  BY <1>2, DigitsOfFitting DEF Fitting
<1>4. Borrowing(v, Wide) => all(ByteMod - 1)
  BY <1>2, DigitsOfBorrow DEF Borrowing
<1>5. ASSUME Carrying(v, Wide) PROVE behind = {Wide} /\ mem[Address + Wide] = 1
  <2>1. Digit(v, Wide) = 1 /\ \A k \in Wide + 1 .. 7 : Digit(v, k) = 0
    BY <1>5, DigitsOfCarry DEF Carrying
  <2>2. Wide \in Wide .. 7 /\ \A k \in Wide .. 7 : k = Wide \/ k \in Wide + 1 .. 7
    BY SMT
  <2> QED
    BY <1>2, <2>1, <2>2
<1> QED
  BY <1>3, <1>4, <1>5 DEF Spilling

(***************************************************************************)
(* What a store of two or four bytes leaves in the bytes behind it, and    *)
(* that a comparison keeps the operand itself (OperandEncoding.hpp:314,    *)
(* 1052), for every operand, immediate and memory.                         *)
(***************************************************************************)
THEOREM StoresSpill == Spec => NarrowStoreSpills
<1> DEFINE hypothesis ==
             /\ EightBytesStored /\ ~SibSlips /\ ~NegativeDisplacement /\ ~NotRelative
             /\ ~PrefixShifts /\ ~BaseIsCast /\ ~AddressKeepsCarry /\ ~DisplacementMissing
             /\ Mapped(Address, 8)
           behind == {k \in Wide .. 7 : memory'[Address + k] # 0}
           all(v) == \A k \in Wide .. 7 : memory'[Address + k] = v
           spills == /\ Op \in {"cmp", "test", "and", "or", "xor"} /\ ~Dst.signed => behind = {}
                     /\ \/ behind = {} \/ all(ByteMod - 1)
                        \/ behind = {Wide} /\ memory'[Address + Wide] = 1 /\ Op = "add"
                     /\ Op \in {"cmp", "test"} =>
                          \A k \in 0 .. Wide - 1 : memory'[Address + k] = memory[Address + k]
<1>1. ASSUME Inv, Next, hypothesis PROVE spills
  <2>1. PICK junk \in Residues : memory' = Effects(Form, junk).memory
    BY <1>1, StepShaped
  <2>2. Ready
    BY <1>1, StepShaped
  <2>3. Form \in {"MR", "M", "MI"} /\ InMemory /\ inst.osize # 64
    BY <1>1 DEF EightBytesStored
  <2>4. Placed
    <3>1. ~TwoByteShifts
      BY <2>3, LoadsAreOneByte DEF TwoByteShifts
    <3> QED
      BY <1>1, <3>1 DEF Placed
  <2>5. PICK v : Spilling(v) /\ Effects(Form, junk) = ToMemory(Address, 8, v)
    BY <1>1, <2>2, <2>3, <2>4, SpillMR, SpillMI
  <2>6. Address \in Nat
    BY <2>2, <2>3, <2>4, WhereOperandIs
  <2>7. Wide \in {2, 4}
    <3>1. inst.osize \in {16, 32}
      BY <2>2, <2>3, InstructionTyped
    <3>2. 16 \div 8 = 2 /\ 32 \div 8 = 4
      BY SMT
    <3> QED
      BY <2>3, <3>1, <3>2 DEF Wide
  <2>8. \A k \in 0 .. 7 : memory'[Address + k] = Digit(v, k)
    BY <1>1, <2>1, <2>2, <2>5, <2>6, BytesStored
  <2>9. ASSUME Op \in {"cmp", "test"}, NEW k \in 0 .. Wide - 1
        PROVE  memory'[Address + k] = memory[Address + k]
    <3>1. k \in 0 .. 7 /\ v = Load(Address, Wide)
      BY <2>5, <2>7, <2>9, SMT DEF Spilling
    <3>2. Digit(Load(Address, Wide), k) = memory[Address + k]
      BY <1>1, <2>2, <2>6, <2>7, <2>9, NarrowLoad
    <3> QED
      BY <2>8, <3>1, <3>2
  <2>10. /\ Op \in {"cmp", "test", "and", "or", "xor"} /\ ~Dst.signed => behind = {}
         /\ \/ behind = {} \/ all(ByteMod - 1)
            \/ behind = {Wide} /\ memory'[Address + Wide] = 1 /\ Op = "add"
    <3> DEFINE mem == memory'
    <3>1. \A k \in 0 .. 7 : mem[Address + k] = Digit(v, k)
      BY <2>8
    <3>2. LET hit == {k \in Wide .. 7 : mem[Address + k] # 0}
              every(c) == \A k \in Wide .. 7 : mem[Address + k] = c
          IN /\ Op \in {"cmp", "test", "and", "or", "xor"} /\ ~Dst.signed => hit = {}
             /\ \/ hit = {} \/ every(ByteMod - 1)
                \/ hit = {Wide} /\ mem[Address + Wide] = 1 /\ Op = "add"
      <4> HIDE DEF mem
      <4> QED
        BY <2>5, <2>6, <2>7, <3>1, BytesBehind
    <3> QED
      BY <3>2
  <2> QED
    BY <2>9, <2>10
<1>2. Inv /\ [Next]_vars => [Executes /\ hypothesis => spills]_vars
  <2> HIDE DEF hypothesis, spills
  <2> QED
    BY <1>1
<1> QED
  BY <1>2, InvAlways, PTL DEF Spec, NarrowStoreSpills
=============================================================================
