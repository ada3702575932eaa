------------------------------ MODULE Decoder ------------------------------
(***************************************************************************)
(* Ldasm::DecodeInstructionLength (emulation/x86/Decoder.cpp) in the only  *)
(* mode it is called in, 64-bit mode: one action for every turn of the     *)
(* prefix loop and for every function behind it.                           *)
(*                                                                         *)
(* The decoder's context outlives the call, and DecodeClear does not clear *)
(* all of it; the first context is a local of Run without an initialiser.  *)
(* A behaviour decodes one instruction from any context in Contexts.  An   *)
(* input is the bytes at the instruction pointer; what follows it in       *)
(* memory is taken to be zeros.                                            *)
(***************************************************************************)
EXTENDS OpcodeTable, FiniteSets

CONSTANTS
  MaxInst,    \* max_inst_length, 15
  PosMod,     \* positions are fields of four bits, 16
  Inputs,     \* sequences of bytes
  Contexts    \* contexts left behind by earlier calls

(* one-bit fields that are set, by name *)
Present == {"rex", "seg", "osize", "asize", "lock", "rep", "repne",
            "vex2b", "vex3b", "xop", "modrm", "sib"}
Context ==
  [pos : Nat, osize : {16, 32, 64}, asize : {32, 64}, modrm : 0 .. 255, sib : 0 .. 255,
   rex : 0 .. 255, last : 0 .. 255, mandatory : {0, 102, 242, 243},
   payload : (0 .. 255) \X (0 .. 255),
   pos_modrm : 0 .. PosMod - 1, pos_sib : 0 .. PosMod - 1, pos_rex : 0 .. PosMod - 1,
   pos_opcode : 0 .. PosMod - 1, pos_disp : 0 .. PosMod - 1, disp_size : {0, 1, 4},
   present : SUBSET Present, opcode_size : 1 .. 3, table : {-1} \cup {256 * k : k \in 0 .. 6}]

ASSUME ContextAssumption == Contexts \subseteq Context
ASSUME InputsAssumption == Inputs \subseteq Seq(0 .. 255)
ASSUME LimitAssumption == PosMod \in Nat /\ PosMod > 3 /\ MaxInst \in 0 .. PosMod

VARIABLES
  ip,       \* the input
  at,       \* the function to run next, "done" or "rejected"
  i,        \* the loop's index, then the opcode's position
  ctx,      \* x86_dctx
  follow,   \* the flags of DecodeInstruction: what follows the opcode
  len       \* what DecodeInstructionLength returned, 0 before

vars == <<ip, at, i, ctx, follow, len>>

Byte(k) == IF k < Len(ip) THEN ip[k + 1] ELSE 0
Bits(b, low, count) == (b \div 2 ^ low) % 2 ^ count
IsRex(b) == (b \div 16) % 16 = 4
W == 3

PREFIX_OSIZE == 102
PREFIX_ASIZE == 103
PREFIX_LOCK == 240
PREFIX_REPNE == 242
PREFIX_REP == 243
IgnoredSegments == {46, 62, 38, 54}   \* CS, DS, ES, SS
Segments == {100, 101}                \* FS, GS
OtherPrefixes == {PREFIX_OSIZE, PREFIX_ASIZE, PREFIX_LOCK, PREFIX_REPNE, PREFIX_REP}
Prefix(b) == IsRex(b) \/ b \in IgnoredSegments \cup Segments \cup OtherPrefixes

MutClearKeepsModRM(c) ==
  [c EXCEPT !.pos = 0, !.pos_modrm = 0, !.pos_sib = 0, !.pos_rex = 0, !.pos_opcode = 0,
            !.pos_disp = 0, !.rex = 0, !.last = 0, !.mandatory = 0,
            !.present = @ \cap {"modrm"}, !.opcode_size = 1, !.table = -1, !.disp_size = 0]

(* osize, asize, modrm, sib and the payload of VEX and XOP stay *)
DecodeClear(c) ==
  [c EXCEPT !.pos = 0, !.pos_modrm = 0, !.pos_sib = 0, !.pos_rex = 0, !.pos_opcode = 0,
            !.pos_disp = 0, !.rex = 0, !.last = 0, !.mandatory = 0,
            !.present = {}, !.opcode_size = 1, !.table = -1, !.disp_size = 0]

Init ==
  /\ ip \in Inputs /\ ctx \in {DecodeClear(c) : c \in Contexts}
  /\ at = "prefixes" /\ i = 0 /\ follow = {} /\ len = 0
-----------------------------------------------------------------------------
(* DecodePrefix: the loop                                                  *)

AtPrefix(bytes) == at = "prefixes" /\ i < MaxInst /\ Byte(i) \in bytes
NextByte(c) == ctx' = c /\ i' = i + 1 /\ UNCHANGED <<ip, at, follow, len>>
Seen(c, name) == [c EXCEPT !.present = @ \cup {name}]
Noted(c) == [c EXCEPT !.last = Byte(i)]

RexPrefix ==
  /\ AtPrefix({b \in 0 .. 255 : IsRex(b)})
  /\ NextByte([Seen(Noted(ctx), "rex") EXCEPT !.rex = Byte(i), !.pos_rex = i])

(* REP and REPNE take precedence as the mandatory prefix *)
OsizePrefix ==
  /\ AtPrefix({PREFIX_OSIZE})
  /\ NextByte([Seen(Noted(ctx), "osize") EXCEPT
                 !.mandatory = IF @ \in {PREFIX_REP, PREFIX_REPNE} THEN @ ELSE PREFIX_OSIZE])

(* ignored in long mode, and not noted as the last prefix either *)
IgnoreSegment == NextByte(ctx)
SegmentPrefix ==
  \/ AtPrefix(IgnoredSegments) /\ IgnoreSegment
  \/ AtPrefix(Segments) /\ NextByte(Seen(Noted(ctx), "seg"))

AsizeOrLockPrefix ==
  \/ AtPrefix({PREFIX_ASIZE}) /\ NextByte(Seen(Noted(ctx), "asize"))
  \/ AtPrefix({PREFIX_LOCK}) /\ NextByte(Seen(Noted(ctx), "lock"))

RepPrefix ==
  /\ AtPrefix({PREFIX_REP, PREFIX_REPNE})
  /\ NextByte([Seen(Noted(ctx), IF Byte(i) = PREFIX_REP THEN "rep" ELSE "repne")
                 EXCEPT !.mandatory = Byte(i)])

(* -1, which DecodeInstructionLength returns as a u8 *)
Reject(c) ==
  /\ at' = "rejected" /\ len' = 255 /\ ctx' = c
  /\ UNCHANGED <<ip, i, follow>>

TooLong == at = "prefixes" /\ i = MaxInst /\ Reject(ctx)

MutKeepRex(c) == c

(* a REX prefix counts only if it is the last prefix noted *)
DropRex(c) ==
  IF IsRex(c.last) THEN c
  ELSE [c EXCEPT !.rex = 0, !.pos_rex = 0, !.present = @ \ {"rex"}]

EndOfPrefixes ==
  /\ at = "prefixes" /\ i < MaxInst /\ ~Prefix(Byte(i))
  /\ ctx' = DropRex(ctx)
  /\ at' = "escape"
  /\ UNCHANGED <<ip, i, follow, len>>
-----------------------------------------------------------------------------
(* DecodePrefix: VEX, EVEX and XOP, the escape bytes of the opcode maps    *)

VEX_3B == 196
VEX_2B == 197
EVEX == 98
XOP == 143
ESCAPE == 15
Mmmmm(b) == Bits(b, 0, 5)
pp == <<0, PREFIX_OSIZE, PREFIX_REP, PREFIX_REPNE>>
XopValid == Mmmmm(Byte(i + 1)) \in 8 .. 10

(* the opcode lies n bytes further on, in one of the maps *)
OpcodeAt(n, c, map, mandatory) ==
  /\ ctx' = [c EXCEPT !.pos = i + n, !.pos_opcode = (i + n) % PosMod,
                      !.table = map, !.mandatory = mandatory]
  /\ i' = i + n
  /\ at' = "sizes"
  /\ UNCHANGED <<ip, follow, len>>

(* any of these prefixes before VEX or XOP, or no room for the rest: #UD *)
Undefined(size) ==
  \/ i > MaxInst - size
  \/ ctx.present \cap {"osize", "rex", "lock", "rep", "repne"} # {}

Escape(b) == at = "escape" /\ Byte(i) = b
WithPayload(name) == [Seen(ctx, name) EXCEPT !.payload = <<Byte(i + 1), Byte(i + 2)>>]

Vex3 ==
  /\ Escape(VEX_3B)
  /\ LET map == Mmmmm(Byte(i + 1)) IN
     \/ Undefined(5) /\ Reject(ctx)
     \/ ~Undefined(5) /\ map \notin 1 .. 3 /\ Reject(WithPayload("vex3b"))
     \/ ~Undefined(5) /\ map \in 1 .. 3
          /\ OpcodeAt(3, WithPayload("vex3b"), 256 * map, pp[Bits(Byte(i + 2), 0, 2) + 1])

Vex2 ==
  /\ Escape(VEX_2B)
  /\ \/ Undefined(4) /\ Reject(ctx)
     \/ ~Undefined(4)
          /\ OpcodeAt(2, [Seen(ctx, "vex2b") EXCEPT !.payload[1] = Byte(i + 1)], MAP_0F,
                      pp[Bits(Byte(i + 1), 0, 2) + 1])

Evex == Escape(EVEX) /\ Reject(ctx)

Xop ==
  /\ Escape(XOP) /\ XopValid
  /\ LET compressed == Bits(Byte(i + 2), 0, 2) # 0 IN
     \/ Undefined(5) /\ Reject(ctx)
     \/ ~Undefined(5) /\ compressed /\ Reject(WithPayload("xop"))
     \/ ~Undefined(5) /\ ~compressed
          /\ OpcodeAt(3, WithPayload("xop"), 256 * (Mmmmm(Byte(i + 1)) - 4), 0)

TwoOrThreeByte ==
  /\ Escape(ESCAPE)
  /\ \/ Byte(i + 1) = 56 /\ OpcodeAt(2, ctx, MAP_0F38, ctx.mandatory)
     \/ Byte(i + 1) = 58 /\ OpcodeAt(2, ctx, MAP_0F3A, ctx.mandatory)
     \/ Byte(i + 1) \notin {56, 58} /\ OpcodeAt(1, ctx, MAP_0F, ctx.mandatory)

OneByte ==
  /\ at = "escape"
  /\ Byte(i) \notin {VEX_3B, VEX_2B, EVEX, ESCAPE} /\ (Byte(i) = XOP => ~XopValid)
  /\ OpcodeAt(0, ctx, ONEBYTE, 0)
-----------------------------------------------------------------------------
WideRequested(c) ==
  \/ Bits(c.rex, W, 1) = 1
  \/ c.present \cap {"vex3b", "xop"} # {} /\ Bits(c.payload[2], 7, 1) = 1

MutOsizeIgnoresRex(c, flag) == IF "osize" \in c.present THEN 16 ELSE 32

(* flag is x86_Flag_F64, x86_Flag_D64 or none *)
GetOsize(c, flag) ==
  IF flag = "F64" \/ WideRequested(c) THEN 64
  ELSE IF "osize" \in c.present THEN 16
  ELSE IF flag = "D64" THEN 64 ELSE 32

GetAsize(c) == IF "asize" \in c.present THEN 32 ELSE 64

Sizes ==
  /\ at = "sizes"
  /\ ctx' = [ctx EXCEPT !.asize = GetAsize(ctx), !.osize = GetOsize(ctx, "none")]
  /\ at' = "opcode"
  /\ UNCHANGED <<ip, i, follow, len>>

(* the byte is fetched once *)
GetModRM(c) ==
  IF "modrm" \in c.present THEN c
  ELSE [Seen(c, "modrm") EXCEPT !.pos_modrm = c.pos % PosMod, !.modrm = Byte(c.pos), !.pos = @ + 1]
GetSib(c) ==
  IF "sib" \in c.present THEN c
  ELSE [Seen(c, "sib") EXCEPT !.pos_sib = c.pos % PosMod, !.sib = Byte(c.pos), !.pos = @ + 1]

Rm(b) == Bits(b, 0, 3)
RegField(b) == Bits(b, 3, 3)
Mod(b) == Bits(b, 6, 2)

To(c, flags) ==
  /\ ctx' = c /\ follow' = flags
  /\ at' = "modrm"
  /\ UNCHANGED <<ip, i, len>>

Opcode == Byte(ctx.pos)
Fetched == [ctx EXCEPT !.pos = @ + 1]
AtOpcode(map) == at = "opcode" /\ ctx.table = map

(* TEST has an immediate, the other operations of F6 and F7 have none *)
FlagsOfUnary(opcode, reg) ==
  IF reg \in {0, 1} THEN {"modrm", IF opcode = 246 THEN "B" ELSE "Z"}
  ELSE TableFlags(ONEBYTE, opcode)

(* the special cases of the one-byte map *)
OneByteOpcode ==
  /\ AtOpcode(ONEBYTE)
  /\ CASE Opcode \in {232, 233} -> To([Fetched EXCEPT !.osize = GetOsize(ctx, "F64")], {"Z"})
       [] Opcode \in 184 .. 191 -> To(Fetched, {"V"})
       [] Opcode \in 160 .. 163 -> To(Fetched, {"O"})
       [] Opcode \in {194, 202} -> To(Fetched, {"W"})
       [] Opcode = 200 -> To(Fetched, {"W", "B"})
       [] Opcode = 104 -> To([Fetched EXCEPT !.osize = GetOsize(ctx, "D64")], {"Z"})
       [] Opcode \in {234, 154} -> To(Fetched, {"AP"})
       [] Opcode \in {246, 247} ->
            LET c == GetModRM(Fetched) IN To(c, FlagsOfUnary(Opcode, RegField(c.modrm)))
       [] OTHER -> To(Fetched, TableFlags(ONEBYTE, Opcode))

MutCopyLastByte(c, size, back) == c
MutCopyForward(c, size, back) == [c EXCEPT !.opcode_size = size]

(* the opcode with its escape bytes, as Run copies it *)
Opcode0F(c, size, back) ==
  [c EXCEPT !.opcode_size = size, !.pos_opcode = (@ - back) % PosMod]

TwoByteOpcode ==
  /\ AtOpcode(MAP_0F)
  /\ CASE Opcode \in 128 .. 143 ->
            To([Opcode0F(Fetched, 2, 1) EXCEPT !.osize = GetOsize(ctx, "F64")], {"Z"})
       [] Opcode = 120 ->
            To(Opcode0F(Fetched, 3, 3),
               IF ctx.mandatory \in {PREFIX_REPNE, PREFIX_OSIZE} THEN {"modrm", "W"}
               ELSE TableFlags(MAP_0F, Opcode))
       [] OTHER -> To(Opcode0F(Fetched, 2, 1), TableFlags(MAP_0F, Opcode))

XopOpcode ==
  /\ AtOpcode(XOP_0A)
  /\ To(Opcode0F(Fetched, 3, 2),
        IF Opcode \in {16, 18} THEN {"modrm", "D"} ELSE TableFlags(XOP_0A, Opcode))

OtherOpcode ==
  /\ \E map \in {MAP_0F38, MAP_0F3A, XOP_08, XOP_09} : AtOpcode(map)
  /\ To(Fetched, TableFlags(ctx.table, Opcode))
-----------------------------------------------------------------------------
(* base 101, with or without REX.B, VEX.B or XOP.B *)
DecodeSib(c, dispSize) ==
  IF Bits(c.sib, 0, 3) # 5 THEN dispSize ELSE IF Mod(c.modrm) = 1 THEN 1 ELSE 4

DispSize(c) ==
  LET mod == Mod(c.modrm)
      plain == CASE mod = 1 -> 1 [] mod = 2 -> 4
                 [] OTHER -> IF Rm(c.modrm) = 5 THEN 4 ELSE 0
  IN  IF "sib" \in c.present THEN DecodeSib(c, plain) ELSE plain

Displaced(c, size) ==
  IF size = 0 THEN c
  ELSE [c EXCEPT !.pos_disp = c.pos % PosMod, !.disp_size = size, !.pos = @ + size]

DecodeModRM(c) ==
  IF Mod(c.modrm) = 3 THEN c
  ELSE LET s == IF Rm(c.modrm) = 4 THEN GetSib(c) ELSE c IN Displaced(s, DispSize(s))

FlagModRM ==
  /\ at = "modrm"
  /\ ctx' = IF "modrm" \in follow THEN DecodeModRM(GetModRM(ctx)) ELSE ctx
  /\ at' = "immediate"
  /\ UNCHANGED <<ip, i, follow, len>>

Wide(size) == IF size = 16 THEN 2 ELSE IF size = 32 THEN 4 ELSE 8
BytesOfFlag(flag) ==
  CASE flag = "Z" -> IF ctx.osize = 16 THEN 2 ELSE 4
    [] flag = "B" -> 1
    [] flag = "W" -> 2
    [] flag = "D" -> 4
    [] flag = "O" -> Wide(ctx.asize)
    [] flag = "V" -> Wide(ctx.osize)
    [] flag = "AP" -> Wide(ctx.osize) + 2

ImmediateBytes ==
  LET bytes(flag) == IF flag \in follow THEN BytesOfFlag(flag) ELSE 0
  IN  bytes("Z") + bytes("B") + bytes("W") + bytes("D") + bytes("O") + bytes("V") + bytes("AP")

FlagImmediate ==
  /\ at = "immediate"
  /\ ctx' = [ctx EXCEPT !.pos = @ + ImmediateBytes]
  /\ len' = ctx.pos + ImmediateBytes
  /\ at' = "done"
  /\ UNCHANGED <<ip, i, follow>>

DecodePrefix ==
  \/ RexPrefix \/ OsizePrefix \/ SegmentPrefix \/ AsizeOrLockPrefix \/ RepPrefix
  \/ TooLong \/ EndOfPrefixes
  \/ Vex3 \/ Vex2 \/ Evex \/ Xop \/ TwoOrThreeByte \/ OneByte
DecodeInstruction ==
  OneByteOpcode \/ TwoByteOpcode \/ XopOpcode \/ OtherOpcode \/ FlagModRM \/ FlagImmediate

Next == DecodePrefix \/ Sizes \/ DecodeInstruction

Spec == Init /\ [][Next]_vars
-----------------------------------------------------------------------------
(* What Run takes from a decoded instruction: the opcode it switches on,   *)
(* most significant byte first, and the cases of its switch.               *)

Switch ==
  LET from == ctx.pos_opcode IN
  CASE ctx.opcode_size = 1 -> Byte(from)
    [] ctx.opcode_size = 2 -> 256 * Byte(from) + Byte(from + 1)
    [] OTHER -> 65536 * Byte(from) + 256 * Byte(from + 1) + Byte(from + 2)

SYSCALL_0F05 == 3845
MOVZX_0FB6 == 4022
ModRMCases ==
  {1, 3, 9, 33, 41, 43, 49, 51, 59, 99, 129, 131, 132, 133, 136, 137, 139, 199, 255, MOVZX_0FB6}
Cases ==
  ModRMCases \cup {5, 12, 13, 36, 37, 44, 45, 52, 53, 116, 117, 124, 126, 144, 168, 169, 195,
                   232, 233, 235, SYSCALL_0F05} \cup 80 .. 95 \cup 184 .. 191

(* maps whose escape bytes Run never sees *)
HiddenMaps == {MAP_0F38, MAP_0F3A, XOP_08, XOP_09}

(* its last byte stands where the escape byte of map 0F is copied from *)
VexPayloadIs0 ==
  ctx.table = MAP_0F /\ ctx.present \cap {"vex2b", "vex3b"} # {} /\ Byte(i - 1) = 0
-----------------------------------------------------------------------------
(* The architecture, for the one-byte map: the length of an instruction    *)
(* from its bytes alone, with n prefixes.                                  *)

ArchModRM ==
  {b \in 0 .. 63 : b % 8 < 4} \cup {99, 105, 107} \cup 128 .. 143 \cup {192, 193}
    \cup 196 .. 199 \cup 208 .. 211 \cup 216 .. 223 \cup {246, 247, 254, 255}
ArchByte ==
  {b \in 0 .. 63 : b % 8 = 4} \cup 112 .. 127 \cup {106, 107, 128, 130, 131, 168}
    \cup 176 .. 183 \cup {192, 193, 198, 205, 212, 213, 235} \cup 224 .. 231
ArchWordOrDword == {b \in 0 .. 63 : b % 8 = 5} \cup {104, 105, 129, 169, 199}

(* What the compressed table says of the one-byte map, where its flags are *)
(* not replaced, and of MOVZX.  The formula has no variable: it is the     *)
(* computation of Unpacked, which is evaluated before every run.           *)
ASSUME TableAssumption ==
  /\ \A op \in 0 .. 255 \ {EVEX} : "modrm" \in TableFlags(ONEBYTE, op) <=> op \in ArchModRM
  /\ \A op \in 0 .. 255 \ {200} : "B" \in TableFlags(ONEBYTE, op) <=> op \in ArchByte
  /\ \A op \in 0 .. 255 \ {232, 233} : "Z" \in TableFlags(ONEBYTE, op) <=> op \in ArchWordOrDword
  /\ "modrm" \in TableFlags(MAP_0F, MOVZX_0FB6 % 256)

ArchAddress(m, sib) ==
  CASE Mod(m) = 3 -> 1
    [] Mod(m) = 1 -> IF Rm(m) = 4 THEN 3 ELSE 2
    [] Mod(m) = 2 -> IF Rm(m) = 4 THEN 6 ELSE 5
    [] OTHER -> IF Rm(m) = 5 THEN 5
                ELSE IF Rm(m) # 4 THEN 1 ELSE IF Bits(sib, 0, 3) = 5 THEN 6 ELSE 2

ArchImmediate(op, reg, wide, osize, asize) ==
  LET z == IF osize /\ ~wide THEN 2 ELSE 4 IN
  CASE op \in ArchByte \/ (op = 246 /\ reg < 2) -> 1
    [] op \in ArchWordOrDword \/ (op = 247 /\ reg < 2) -> z
    [] op \in {232, 233} -> 4
    [] op \in 184 .. 191 -> IF wide THEN 8 ELSE z
    [] op \in 160 .. 163 -> IF asize THEN 4 ELSE 8
    [] op \in {194, 202} -> 2
    [] op = 200 -> 3
    [] OTHER -> 0

ArchLength(n) ==
  LET has(b) == \E k \in 0 .. n - 1 : Byte(k) = b
      wide == n > 0 /\ IsRex(Byte(n - 1)) /\ Bits(Byte(n - 1), W, 1) = 1
  IN  n + 1 + (IF Byte(n) \in ArchModRM THEN ArchAddress(Byte(n + 1), Byte(n + 2)) ELSE 0)
        + ArchImmediate(Byte(n), RegField(Byte(n + 1)), wide, has(PREFIX_OSIZE), has(PREFIX_ASIZE))

(* the REX prefix at k has only ignored segment overrides behind it *)
RexBeforeSegments(k, n) == IsRex(Byte(k)) /\ \A j \in k + 1 .. n - 1 : Byte(j) \in IgnoredSegments
-----------------------------------------------------------------------------
(* Once the prefixes are read, a REX prefix right before the opcode is in  *)
(* force, at its own position and with its own bits.  No other one is, but *)
(* for the departure that RexImmediatelyPrecedes shows: one with nothing   *)
(* but ignored segment overrides behind it (Decoder.cpp:218-337).          *)
RexInForce ==
  at = "escape" =>
    /\ i > 0 /\ IsRex(Byte(i - 1)) => "rex" \in ctx.present /\ ctx.pos_rex = i - 1
    /\ "rex" \in ctx.present =>
         /\ ctx.rex = Byte(ctx.pos_rex)
         /\ ctx.pos_rex \in 0 .. i - 1 /\ RexBeforeSegments(ctx.pos_rex, i)

(* "The REX prefix byte must immediately precede the opcode byte or the    *)
(* escape opcode byte", and "other placements are ignored"                 *)
(* (Decoder.cpp:322-327).                                                  *)
RexImmediatelyPrecedes ==
  at = "escape" => ("rex" \in ctx.present <=> i > 0 /\ IsRex(Byte(i - 1)))

(* The length of every instruction of the one-byte map is that of the      *)
(* architecture, whatever instruction was decoded before; except where a   *)
(* segment override separates the opcode from a REX prefix that should     *)
(* then be ignored (Decoder.cpp:31-210, 554-705).                          *)
LengthExact ==
  at = "done" /\ ctx.table = ONEBYTE /\ Byte(i) \notin {154, 234}
    /\ ~(\E k \in 0 .. i - 2 : RexBeforeSegments(k, i))
    => len = ArchLength(i)

(* Positions have four bits.  In an instruction of at most 15 bytes they   *)
(* point to the ModRM byte, the SIB byte and the displacement that belong  *)
(* to this instruction (Decoder.cpp:10-29, 205-206).                       *)
PositionsExact ==
  at = "done" /\ len < PosMod =>
    /\ "modrm" \in ctx.present => ctx.pos_modrm = i + 1 /\ ctx.modrm = Byte(i + 1)
    /\ "sib" \in ctx.present => ctx.pos_sib = i + 2 /\ ctx.sib = Byte(i + 2)
    /\ ctx.disp_size > 0 => ctx.pos_disp = i + 2 + (IF "sib" \in ctx.present THEN 1 ELSE 0)

(* Run copies the opcode from inside the instruction, up to its last byte; *)
(* except 0F 78, whose position goes two bytes too far back and, with      *)
(* fewer than two prefixes, wraps to 14 or 15 (Decoder.cpp:666-678,        *)
(* 692-695).                                                               *)
OpcodeInside ==
  at = "done" =>
    IF ctx.table = MAP_0F /\ Byte(i) = 120
    THEN i < 3 => ctx.pos_opcode >= PosMod - 2
    ELSE /\ ctx.pos_opcode + ctx.opcode_size <= len
         /\ len < PosMod => ctx.pos_opcode + ctx.opcode_size = i + 1

(* What Run executes is what was decoded: a case of its switch is reached  *)
(* by the opcode of that case in its own map; or by an AVX instruction     *)
(* whose last VEX byte reads 0F, or 0, when the opcode is taken for one of *)
(* the one-byte map; or so by an opcode of a map whose escape bytes Run    *)
(* never sees (Decoder.cpp:477-489, 660-703, Emulator.cpp:120-127).        *)
DispatchSound ==
  at = "done" /\ len < PosMod /\ ~(ctx.table = MAP_0F /\ Byte(i) = 120) /\ Switch \in Cases =>
    \/ ctx.table = ONEBYTE /\ Switch = Byte(i)
    \/ ctx.table = MAP_0F /\ Switch = 256 * ESCAPE + Byte(i) /\ Byte(i - 1) = ESCAPE
    \/ VexPayloadIs0 /\ Switch = Byte(i)
    \/ ctx.table \in HiddenMaps /\ Switch = Byte(i)

(* A handler that reads the ModRM byte of the context finds that of its    *)
(* own instruction; only an opcode whose escape bytes Run never sees, or   *)
(* sees as 0, can bring it there without one, and with that of an earlier  *)
(* instruction                                                             *)
(* (Decoder.cpp:721-725, ModRM.cpp:61-63, Emulator.cpp:368-414).           *)
HandlerHasModRM ==
  at = "done" /\ len < PosMod /\ Switch \in ModRMCases /\ "modrm" \notin ctx.present =>
    \/ ctx.table \in HiddenMaps \/ VexPayloadIs0
    \/ ctx.table = MAP_0F /\ Byte(i) = 120
=============================================================================
