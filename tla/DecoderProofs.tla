--------------------------- MODULE DecoderProofs ---------------------------
(* Which REX prefix is in force, the types of the context, and where the   *)
(* parts of an instruction and its opcode are: for every input and every   *)
(* context left by an earlier decode.                                      *)
EXTENDS Decoder, SequenceTheorems, TLAPS

LEMMA OtherBytesAreNotRex ==
  \A b \in {0} \cup IgnoredSegments \cup Segments \cup OtherPrefixes : ~IsRex(b)
BY SMT DEF IsRex, IgnoredSegments, Segments, OtherPrefixes, PREFIX_OSIZE, PREFIX_ASIZE,
           PREFIX_LOCK, PREFIX_REPNE, PREFIX_REP

LEMMA NotedBytesAreNotIgnored ==
  ASSUME NEW b, IsRex(b) \/ b \in Segments \cup OtherPrefixes
  PROVE  b \notin IgnoredSegments
<1>1. CASE IsRex(b)
  BY <1>1, OtherBytesAreNotRex
<1>2. CASE b \in Segments \cup OtherPrefixes
  BY <1>2, SMT DEF IgnoredSegments, Segments, OtherPrefixes, PREFIX_OSIZE, PREFIX_ASIZE,
                   PREFIX_LOCK, PREFIX_REPNE, PREFIX_REP
<1> QED
  BY <1>1, <1>2
-----------------------------------------------------------------------------
(* The inductive invariant: while the prefixes are read, the last one noted *)
(* is a REX prefix exactly when one stands before ignored segments only,   *)
(* and then it is the one the context has.                                 *)

Fields == {"rex", "last", "pos_rex", "present", "mandatory"} \subseteq DOMAIN ctx

InForce(n) == \E k \in 0 .. n - 1 : RexBeforeSegments(k, n)

RexKept ==
  IsRex(ctx.last) =>
    /\ "rex" \in ctx.present
    /\ ctx.pos_rex \in 0 .. i - 1
    /\ RexBeforeSegments(ctx.pos_rex, i)
    /\ ctx.rex = Byte(ctx.pos_rex)

PrefixInv ==
  at = "prefixes" => Fields /\ i \in Nat /\ (IsRex(ctx.last) <=> InForce(i)) /\ RexKept

(* Once they are read, a REX prefix is in force exactly when only ignored  *)
(* segment overrides stand between it and the opcode.                      *)
RexExactly ==
  at = "escape" =>
    /\ i \in Nat
    /\ "rex" \in ctx.present <=> \E k \in 0 .. i - 1 : RexBeforeSegments(k, i)
    /\ "rex" \in ctx.present =>
         /\ ctx.pos_rex \in 0 .. i - 1 /\ RexBeforeSegments(ctx.pos_rex, i)
         /\ ctx.rex = Byte(ctx.pos_rex)

Inv == PrefixInv /\ RexExactly

LEMMA InitInv == Init => Inv
<1> SUFFICES ASSUME Init PROVE Inv
  OBVIOUS
<1>2. PICK c \in Contexts : ctx = DecodeClear(c)
  BY DEF Init
<1>3. {"rex", "last", "pos_rex", "present", "mandatory"} \subseteq DOMAIN c
  BY ContextAssumption DEF Context
<1>4. Fields /\ ctx.last = 0
  BY <1>2, <1>3 DEF DecodeClear, Fields
<1>5. ~IsRex(ctx.last)
  BY <1>4, OtherBytesAreNotRex
<1>6. ~InForce(0)
  BY SMT DEF InForce
<1> QED
  BY <1>4, <1>5, <1>6 DEF Init, Inv, PrefixInv, RexKept, RexExactly
-----------------------------------------------------------------------------
(* One turn of the loop *)

(* A REX prefix that is noted is the one in force. *)
LEMMA RexComesIntoForce ==
  ASSUME NEW n \in Nat, IsRex(Byte(n))
  PROVE  RexBeforeSegments(n, n + 1) /\ InForce(n + 1)
BY SMT DEF RexBeforeSegments, InForce

(* Any other prefix that is noted ends what was in force. *)
LEMMA NotedPrefixEndsRex ==
  ASSUME NEW n \in Nat, Byte(n) \in Segments \cup OtherPrefixes
  PROVE  ~InForce(n + 1)
<1>1. Byte(n) \notin IgnoredSegments /\ ~IsRex(Byte(n))
  BY NotedBytesAreNotIgnored, OtherBytesAreNotRex
<1> SUFFICES ASSUME NEW k \in 0 .. n, RexBeforeSegments(k, n + 1) PROVE FALSE
  BY SMT DEF InForce
<1>2. CASE k = n
  BY <1>1, <1>2 DEF RexBeforeSegments
<1>3. CASE k # n
  BY <1>1, <1>3, SMT DEF RexBeforeSegments
<1> QED
  BY <1>2, <1>3

(* An ignored segment override changes nothing. *)
LEMMA IgnoredSegmentKeepsRex ==
  ASSUME NEW n \in Nat, Byte(n) \in IgnoredSegments
  PROVE  /\ \A k \in 0 .. n - 1 : RexBeforeSegments(k, n + 1) <=> RexBeforeSegments(k, n)
         /\ InForce(n + 1) <=> InForce(n)
<1>1. \A k \in 0 .. n - 1 : RexBeforeSegments(k, n + 1) <=> RexBeforeSegments(k, n)
  BY SMT DEF RexBeforeSegments
<1>2. ~RexBeforeSegments(n, n + 1)
  BY OtherBytesAreNotRex DEF RexBeforeSegments
<1>3. 0 .. (n + 1) - 1 = (0 .. n - 1) \cup {n}
  BY SMT
<1> QED
  BY <1>1, <1>2, <1>3 DEF InForce

(* What every turn of the loop has in common *)
LEMMA NotedPrefix ==
  ASSUME Inv, at = "prefixes", Byte(i) \in Segments \cup OtherPrefixes,
         NextByte(ctx'), DOMAIN ctx' = DOMAIN ctx, "last" \in DOMAIN ctx => ctx'.last = Byte(i)
  PROVE  Inv'
<1>1. i \in Nat /\ Fields
  BY DEF Inv, PrefixInv
<1>2. i' = i + 1 /\ at' = "prefixes" /\ ip' = ip
  BY DEF NextByte
<1>3. ~IsRex(Byte(i)) /\ ~InForce(i + 1)
  BY <1>1, OtherBytesAreNotRex, NotedPrefixEndsRex
<1>4. Fields' /\ ~IsRex(ctx'.last)
  BY <1>1, <1>3 DEF Fields
<1> QED
  BY <1>1, <1>2, <1>3, <1>4 DEF Inv, PrefixInv, RexKept, RexExactly, InForce, RexBeforeSegments, Byte

LEMMA NextInv == Inv /\ [Next]_vars => Inv'
<1> SUFFICES ASSUME Inv, [Next]_vars PROVE Inv'
  OBVIOUS
<1>1. CASE RexPrefix
  <2>1. /\ at = "prefixes" /\ at' = "prefixes" /\ IsRex(Byte(i)) /\ i' = i + 1 /\ ip' = ip
        /\ ctx' = [Seen(Noted(ctx), "rex") EXCEPT !.rex = Byte(i), !.pos_rex = i]
    BY <1>1 DEF RexPrefix, AtPrefix, NextByte
  <2>2. i \in Nat /\ Fields
    BY <2>1 DEF Inv, PrefixInv
  <2>3. /\ Fields' /\ ctx'.last = Byte(i) /\ ctx'.rex = Byte(i) /\ ctx'.pos_rex = i
        /\ "rex" \in ctx'.present
    BY <2>1, <2>2 DEF Fields, Seen, Noted
  <2>4. RexBeforeSegments(i, i + 1) /\ InForce(i + 1)
    BY <2>1, <2>2, RexComesIntoForce
  <2>5. i \in 0 .. (i + 1) - 1
    BY <2>2, SMT
  <2> QED
    BY <2>1, <2>2, <2>3, <2>4, <2>5
       DEF Inv, PrefixInv, RexKept, RexExactly, InForce, RexBeforeSegments, Byte
<1>2. CASE OsizePrefix
  <2>1. /\ at = "prefixes" /\ Byte(i) \in OtherPrefixes /\ NextByte(ctx')
        /\ ctx' = [Seen(Noted(ctx), "osize") EXCEPT
                     !.mandatory = IF @ \in {PREFIX_REP, PREFIX_REPNE} THEN @ ELSE PREFIX_OSIZE]
    BY <1>2 DEF OsizePrefix, AtPrefix, NextByte, OtherPrefixes
  <2>2. DOMAIN ctx' = DOMAIN ctx /\ ("last" \in DOMAIN ctx => ctx'.last = Byte(i))
    BY <2>1 DEF Seen, Noted
  <2> QED
    BY <2>1, <2>2, NotedPrefix
<1>3. CASE SegmentPrefix
  <2>1. CASE AtPrefix(IgnoredSegments) /\ IgnoreSegment
    <3>1. /\ at = "prefixes" /\ at' = "prefixes" /\ Byte(i) \in IgnoredSegments
          /\ i' = i + 1 /\ ip' = ip /\ ctx' = ctx
      BY <2>1 DEF AtPrefix, IgnoreSegment, NextByte
    <3>2. i \in Nat /\ Fields /\ (IsRex(ctx.last) <=> InForce(i)) /\ RexKept
      BY <3>1 DEF Inv, PrefixInv
    <3>3. /\ \A k \in 0 .. i - 1 : RexBeforeSegments(k, i + 1) <=> RexBeforeSegments(k, i)
          /\ InForce(i + 1) <=> InForce(i)
      BY <3>1, <3>2, IgnoredSegmentKeepsRex
    <3>4. \A k \in 0 .. i - 1 : k \in 0 .. (i + 1) - 1
      BY <3>2, SMT
    <3> QED
      BY <3>1, <3>2, <3>3, <3>4
         DEF Inv, PrefixInv, RexKept, RexExactly, InForce, RexBeforeSegments, Byte, Fields
  <2>2. CASE AtPrefix(Segments) /\ NextByte(Seen(Noted(ctx), "seg"))
    <3>1. /\ at = "prefixes" /\ Byte(i) \in Segments /\ NextByte(ctx')
          /\ ctx' = Seen(Noted(ctx), "seg")
      BY <2>2 DEF AtPrefix, NextByte
    <3>2. DOMAIN ctx' = DOMAIN ctx /\ ("last" \in DOMAIN ctx => ctx'.last = Byte(i))
      BY <3>1 DEF Seen, Noted
    <3> QED
      BY <3>1, <3>2, NotedPrefix
  <2> QED
    BY <1>3, <2>1, <2>2 DEF SegmentPrefix
<1>4. CASE AsizeOrLockPrefix
  <2>1. /\ at = "prefixes" /\ Byte(i) \in OtherPrefixes /\ NextByte(ctx')
        /\ ctx' = Seen(Noted(ctx), "asize") \/ ctx' = Seen(Noted(ctx), "lock")
    BY <1>4 DEF AsizeOrLockPrefix, AtPrefix, NextByte, OtherPrefixes
  <2>2. DOMAIN ctx' = DOMAIN ctx /\ ("last" \in DOMAIN ctx => ctx'.last = Byte(i))
    BY <2>1 DEF Seen, Noted
  <2> QED
    BY <2>1, <2>2, NotedPrefix
<1>5. CASE RepPrefix
  <2>1. /\ at = "prefixes" /\ Byte(i) \in OtherPrefixes /\ NextByte(ctx')
        /\ ctx' = [Seen(Noted(ctx), IF Byte(i) = PREFIX_REP THEN "rep" ELSE "repne")
                     EXCEPT !.mandatory = Byte(i)]
    BY <1>5 DEF RepPrefix, AtPrefix, NextByte, OtherPrefixes
  <2>2. DOMAIN ctx' = DOMAIN ctx /\ ("last" \in DOMAIN ctx => ctx'.last = Byte(i))
    BY <2>1 DEF Seen, Noted
  <2> QED
    BY <2>1, <2>2, NotedPrefix
<1>6. CASE EndOfPrefixes
  <2>1. /\ at = "prefixes" /\ at' = "escape" /\ ctx' = DropRex(ctx) /\ i' = i /\ ip' = ip
    BY <1>6 DEF EndOfPrefixes
  <2>2. i \in Nat /\ Fields /\ (IsRex(ctx.last) <=> InForce(i)) /\ RexKept
    BY <2>1 DEF Inv, PrefixInv
  <2>3. CASE IsRex(ctx.last)
    BY <2>1, <2>2, <2>3
       DEF Inv, PrefixInv, RexKept, RexExactly, InForce, RexBeforeSegments, Byte, DropRex
  <2>4. CASE ~IsRex(ctx.last)
    <3>1. "rex" \notin ctx'.present
      BY <2>1, <2>2, <2>4 DEF DropRex, Fields
    <3> QED
      BY <2>1, <2>2, <2>4, <3>1 DEF Inv, PrefixInv, RexExactly, InForce, RexBeforeSegments, Byte
  <2> QED
    BY <2>3, <2>4
<1>7. CASE TooLong \/ Vex3 \/ Vex2 \/ Evex \/ Xop \/ TwoOrThreeByte \/ OneByte
  <2>1. at' \in {"rejected", "sizes"}
    BY <1>7 DEF TooLong, Vex3, Vex2, Evex, Xop, TwoOrThreeByte, OneByte, Reject, OpcodeAt
  <2> QED
    BY <2>1 DEF Inv, PrefixInv, RexExactly
<1>8. CASE Sizes \/ DecodeInstruction
  <2>1. at' \notin {"prefixes", "escape"}
    BY <1>8 DEF Sizes, DecodeInstruction, OneByteOpcode, TwoByteOpcode, XopOpcode, OtherOpcode,
                FlagModRM, FlagImmediate, Opcode0F, AtOpcode, To, Reject
  <2> QED
    BY <2>1 DEF Inv, PrefixInv, RexExactly
<1>9. CASE UNCHANGED vars
  BY <1>9 DEF vars, Inv, PrefixInv, RexExactly, RexKept, InForce, RexBeforeSegments, Byte, Fields
<1> QED
  BY <1>1, <1>2, <1>3, <1>4, <1>5, <1>6, <1>7, <1>8, <1>9 DEF Next, DecodePrefix

(* For every input, limit and context left by an earlier decode, a REX     *)
(* prefix right before the opcode is in force, and no other is but one     *)
(* that only ignored segment overrides follow (Decoder.cpp:218-337).       *)
THEOREM RexSound == Spec => []RexInForce
<1>1. Inv => RexInForce
  <2> SUFFICES ASSUME RexExactly, at = "escape" PROVE RexInForce
    BY DEF Inv, RexInForce
  <2>1. /\ "rex" \in ctx.present <=> \E k \in 0 .. i - 1 : RexBeforeSegments(k, i)
        /\ "rex" \in ctx.present =>
             /\ ctx.pos_rex \in 0 .. i - 1 /\ RexBeforeSegments(ctx.pos_rex, i)
             /\ ctx.rex = Byte(ctx.pos_rex)
    BY DEF RexExactly
  <2>2. ASSUME i > 0, IsRex(Byte(i - 1))
        PROVE  "rex" \in ctx.present /\ ctx.pos_rex = i - 1
    <3>1. i \in Nat
      BY DEF RexExactly
    <3>2. i - 1 \in 0 .. i - 1 /\ RexBeforeSegments(i - 1, i)
      BY <2>2, <3>1, SMT DEF RexBeforeSegments
    <3>3. "rex" \in ctx.present
      BY <2>1, <3>2
    <3>4. Byte(i - 1) \notin IgnoredSegments
      BY <2>2, OtherBytesAreNotRex
    <3> QED
      BY <2>1, <3>1, <3>3, <3>4, SMT DEF RexBeforeSegments
  <2> QED
    BY <2>1, <2>2 DEF RexInForce
<1> QED
  BY InitInv, NextInv, <1>1, PTL DEF Spec
-----------------------------------------------------------------------------
(* Arithmetic of four-bit positions and of the bit fields of a byte *)

LEMMA ModBelow ==
  ASSUME NEW a \in 0 .. PosMod - 1
  PROVE  a % PosMod = a
BY LimitAssumption, SMT

LEMMA ModOfNegative ==
  ASSUME NEW a \in 1 - PosMod .. -1
  PROVE  a % PosMod = a + PosMod
BY LimitAssumption, SMT

LEMMA ModOfNatural ==
  ASSUME NEW a \in Nat
  PROVE  a % PosMod \in 0 .. PosMod - 1 /\ a % PosMod <= a
BY LimitAssumption, SMT

LEMMA ByteType ==
  ASSUME ip \in Seq(0 .. 255), NEW k \in Nat
  PROVE  Byte(k) \in 0 .. 255
<1>1. Len(ip) \in Nat
  BY LenProperties
<1>2. CASE k < Len(ip)
  <2>1. k + 1 \in 1 .. Len(ip)
    BY <1>1, <1>2, SMT
  <2> QED
    BY <2>1, <1>2, ElementOfSeq DEF Byte
<1> QED
  BY <1>2, SMT DEF Byte

LEMMA BitFields ==
  ASSUME NEW b \in 0 .. 255
  PROVE  Mmmmm(b) \in 0 .. 31 /\ Mmmmm(b) <= b /\ Bits(b, 0, 2) \in 0 .. 3
BY SMT DEF Mmmmm, Bits

(* What the table says, whatever it unpacks to *)
LEMMA TableFlagsType ==
  ASSUME NEW map, NEW opcode
  PROVE  TableFlags(map, opcode) \subseteq {"modrm", "Z", "B"}
BY Zenon DEF TableFlags, FlagNames
-----------------------------------------------------------------------------
(* Type correctness.  A context stays one when a field is given a value of *)
(* its type; the functions of the decoder give several, one at a time.     *)

Stages == {"prefixes", "escape", "sizes", "opcode", "modrm", "immediate", "done", "rejected"}
Flags == {"modrm", "Z", "B", "W", "D", "O", "V", "AP"}

TypeOK ==
  /\ ip \in Seq(0 .. 255) /\ i \in Nat /\ at \in Stages
  /\ ctx \in Context /\ follow \subseteq Flags /\ len \in Nat

Position == 0 .. PosMod - 1
MandatoryPrefixes == {0, PREFIX_OSIZE, PREFIX_REP, PREFIX_REPNE}
Maps == {256 * k : k \in 0 .. 6}

LEMMA FieldTypes ==
  ASSUME NEW c \in Context
  PROVE  /\ c.pos \in Nat /\ c.mandatory \in MandatoryPrefixes /\ c.present \in SUBSET Present
         /\ c.modrm \in 0 .. 255 /\ c.sib \in 0 .. 255 /\ c.payload \in (0 .. 255) \X (0 .. 255)
         /\ c.pos_opcode \in Position /\ c.disp_size \in {0, 1, 4} /\ c.opcode_size \in 1 .. 3
BY SMT DEF Context, MandatoryPrefixes, PREFIX_OSIZE, PREFIX_REP, PREFIX_REPNE, Position

LEMMA PosTyped ==
  ASSUME NEW c \in Context, NEW x \in Nat
  PROVE  [c EXCEPT !.pos = x] \in Context
BY SMT DEF Context

LEMMA OsizeTyped ==
  ASSUME NEW c \in Context, NEW x \in {16, 32, 64}
  PROVE  [c EXCEPT !.osize = x] \in Context
BY SMT DEF Context

LEMMA AsizeTyped ==
  ASSUME NEW c \in Context, NEW x \in {32, 64}
  PROVE  [c EXCEPT !.asize = x] \in Context
BY SMT DEF Context

LEMMA MandatoryTyped ==
  ASSUME NEW c \in Context, NEW x \in MandatoryPrefixes
  PROVE  [c EXCEPT !.mandatory = x] \in Context
BY SMT DEF Context, MandatoryPrefixes, PREFIX_OSIZE, PREFIX_REP, PREFIX_REPNE

LEMMA DispSizeTyped ==
  ASSUME NEW c \in Context, NEW x \in {0, 1, 4}
  PROVE  [c EXCEPT !.disp_size = x] \in Context
BY SMT DEF Context

LEMMA OpcodeSizeTyped ==
  ASSUME NEW c \in Context, NEW x \in 1 .. 3
  PROVE  [c EXCEPT !.opcode_size = x] \in Context
BY SMT DEF Context

LEMMA TableTyped ==
  ASSUME NEW c \in Context, NEW x \in {-1} \cup Maps
  PROVE  [c EXCEPT !.table = x] \in Context
BY SMT DEF Context, Maps

LEMMA PositionsTyped ==
  ASSUME NEW c \in Context, NEW x \in Position
  PROVE  /\ [c EXCEPT !.pos_modrm = x] \in Context
         /\ [c EXCEPT !.pos_sib = x] \in Context
         /\ [c EXCEPT !.pos_rex = x] \in Context
         /\ [c EXCEPT !.pos_opcode = x] \in Context
         /\ [c EXCEPT !.pos_disp = x] \in Context
<1>1. [c EXCEPT !.pos_modrm = x] \in Context
  BY SMT DEF Context, Position
<1>2. [c EXCEPT !.pos_sib = x] \in Context
  BY SMT DEF Context, Position
<1>3. [c EXCEPT !.pos_rex = x] \in Context
  BY SMT DEF Context, Position
<1>4. [c EXCEPT !.pos_opcode = x] \in Context
  BY SMT DEF Context, Position
<1>5. [c EXCEPT !.pos_disp = x] \in Context
  BY SMT DEF Context, Position
<1> QED
  BY <1>1, <1>2, <1>3, <1>4, <1>5

LEMMA BytesTyped ==
  ASSUME NEW c \in Context, NEW x \in 0 .. 255
  PROVE  /\ [c EXCEPT !.modrm = x] \in Context
         /\ [c EXCEPT !.sib = x] \in Context
         /\ [c EXCEPT !.rex = x] \in Context
         /\ [c EXCEPT !.last = x] \in Context
         /\ \A y \in 0 .. 255 : [c EXCEPT !.payload = <<x, y>>] \in Context
         /\ [c EXCEPT !.payload[1] = x] \in Context
<1>1. [c EXCEPT !.modrm = x] \in Context
  BY SMT DEF Context
<1>2. [c EXCEPT !.sib = x] \in Context
  BY SMT DEF Context
<1>3. [c EXCEPT !.rex = x] \in Context
  BY SMT DEF Context
<1>4. [c EXCEPT !.last = x] \in Context
  BY SMT DEF Context
<1>5. \A y \in (0 .. 255) \X (0 .. 255) : [c EXCEPT !.payload = y] \in Context
  BY SMT DEF Context
<1>6. c.payload \in (0 .. 255) \X (0 .. 255)
  BY FieldTypes
<1>7. [c.payload EXCEPT ![1] = x] \in (0 .. 255) \X (0 .. 255)
  BY <1>6
<1>8. [c EXCEPT !.payload[1] = x] = [c EXCEPT !.payload = [c.payload EXCEPT ![1] = x]]
  OBVIOUS
<1>9. [c EXCEPT !.payload[1] = x] \in Context
  BY <1>5, <1>7, <1>8
<1>10. \A y \in 0 .. 255 : [c EXCEPT !.payload = <<x, y>>] \in Context
  BY <1>5
<1> QED
  BY <1>1, <1>2, <1>3, <1>4, <1>9, <1>10

LEMMA PresentTyped ==
  ASSUME NEW c \in Context, NEW names \in SUBSET Present
  PROVE  [c EXCEPT !.present = names] \in Context
BY SMT DEF Context

LEMMA ClearTyped ==
  ASSUME NEW c \in Context
  PROVE  DecodeClear(c) \in Context
<1> DEFINE c1 == [c EXCEPT !.pos = 0]
           c2 == [c1 EXCEPT !.pos_modrm = 0]
           c3 == [c2 EXCEPT !.pos_sib = 0]
           c4 == [c3 EXCEPT !.pos_rex = 0]
           c5 == [c4 EXCEPT !.pos_opcode = 0]
           c6 == [c5 EXCEPT !.pos_disp = 0]
           c7 == [c6 EXCEPT !.rex = 0]
           c8 == [c7 EXCEPT !.last = 0]
           c9 == [c8 EXCEPT !.mandatory = 0]
           c10 == [c9 EXCEPT !.present = {}]
           c11 == [c10 EXCEPT !.opcode_size = 1]
           c12 == [c11 EXCEPT !.table = -1]
           c13 == [c12 EXCEPT !.disp_size = 0]
<1>1. DecodeClear(c) = c13
  BY DEF DecodeClear
<1>2. 0 \in Position /\ 0 \in Nat /\ 0 \in 0 .. 255 /\ 1 \in 1 .. 3
  BY LimitAssumption, SMT DEF Position
<1> HIDE DEF c1, c2, c3, c4, c5, c6, c7, c8, c9, c10, c11, c12, c13
<1>3. c1 \in Context
  BY <1>2, PosTyped DEF c1
<1>4. c2 \in Context /\ c3 \in Context
  BY <1>2, <1>3, PositionsTyped DEF c2, c3
<1>5. c4 \in Context /\ c5 \in Context /\ c6 \in Context
  BY <1>2, <1>4, PositionsTyped DEF c4, c5, c6
<1>6. c7 \in Context /\ c8 \in Context
  BY <1>2, <1>5, BytesTyped DEF c7, c8
<1>7. c9 \in Context
  BY <1>6, MandatoryTyped DEF c9, MandatoryPrefixes
<1>8. c10 \in Context
  BY <1>7, PresentTyped DEF c10
<1>9. c11 \in Context
  BY <1>2, <1>8, OpcodeSizeTyped DEF c11
<1>10. c12 \in Context
  BY <1>9, TableTyped DEF c12
<1>11. c13 \in Context
  BY <1>10, DispSizeTyped DEF c13
<1> QED
  BY <1>1, <1>11

LEMMA SeenTyped ==
  ASSUME NEW c \in Context, NEW name \in Present
  PROVE  Seen(c, name) \in Context
<1>1. c.present \cup {name} \in SUBSET Present
  BY FieldTypes
<1>2. Seen(c, name) = [c EXCEPT !.present = c.present \cup {name}]
  BY DEF Seen
<1> QED
  BY <1>1, <1>2, PresentTyped

LEMMA NotedTyped ==
  ASSUME NEW c \in Context, Byte(i) \in 0 .. 255
  PROVE  Noted(c) \in Context
BY BytesTyped DEF Noted

LEMMA DropRexTyped ==
  ASSUME NEW c \in Context
  PROVE  DropRex(c) \in Context
<1> DEFINE c1 == [c EXCEPT !.rex = 0]
           c2 == [c1 EXCEPT !.pos_rex = 0]
           c3 == [c2 EXCEPT !.present = c.present \ {"rex"}]
<1>1. DropRex(c) = c \/ DropRex(c) = c3
  BY SMT DEF DropRex
<1>2. 0 \in Position /\ 0 \in 0 .. 255
  BY LimitAssumption, SMT DEF Position
<1>3. c.present \ {"rex"} \in SUBSET Present
  BY FieldTypes
<1> HIDE DEF c1, c2, c3
<1>4. c1 \in Context
  BY <1>2, BytesTyped DEF c1
<1>5. c2 \in Context
  BY <1>2, <1>4, PositionsTyped DEF c2
<1>6. c3 \in Context
  BY <1>3, <1>5, PresentTyped DEF c3
<1> QED
  BY <1>1, <1>6

LEMMA OpcodeAtContext ==
  ASSUME NEW c \in Context, NEW p \in Nat, NEW map \in Maps,
         NEW mandatory \in MandatoryPrefixes
  PROVE  [c EXCEPT !.pos = p, !.pos_opcode = p % PosMod, !.table = map,
                   !.mandatory = mandatory] \in Context
<1> DEFINE c1 == [c EXCEPT !.pos = p]
           c2 == [c1 EXCEPT !.pos_opcode = p % PosMod]
           c3 == [c2 EXCEPT !.table = map]
           c4 == [c3 EXCEPT !.mandatory = mandatory]
<1>1. [c EXCEPT !.pos = p, !.pos_opcode = p % PosMod, !.table = map,
                !.mandatory = mandatory] = c4
  OBVIOUS
<1>2. p % PosMod \in Position
  BY ModOfNatural DEF Position
<1> HIDE DEF c1, c2, c3, c4
<1>3. c1 \in Context
  BY PosTyped DEF c1
<1>4. c2 \in Context
  BY <1>2, <1>3, PositionsTyped DEF c2
<1>5. c3 \in Context
  BY <1>4, TableTyped DEF c3
<1>6. c4 \in Context
  BY <1>5, MandatoryTyped DEF c4
<1> QED
  BY <1>1, <1>6

LEMMA OpcodeAtTyped ==
  ASSUME TypeOK, NEW n \in Nat, NEW c \in Context, NEW map \in Maps,
         NEW mandatory \in MandatoryPrefixes, OpcodeAt(n, c, map, mandatory)
  PROVE  TypeOK'
<1>1. i + n \in Nat
  BY SMT DEF TypeOK
<1>2. ctx' \in Context
  BY <1>1, OpcodeAtContext DEF OpcodeAt
<1> QED
  BY <1>1, <1>2 DEF TypeOK, OpcodeAt, Stages

LEMMA GetOsizeType ==
  ASSUME NEW c, NEW flag
  PROVE  GetOsize(c, flag) \in {16, 32, 64} /\ GetAsize(c) \in {32, 64}
BY DEF GetOsize, GetAsize

LEMMA GetModRMTyped ==
  ASSUME TypeOK, NEW c \in Context
  PROVE  GetModRM(c) \in Context
<1> DEFINE c1 == Seen(c, "modrm")
           c2 == [c1 EXCEPT !.pos_modrm = c.pos % PosMod]
           c3 == [c2 EXCEPT !.modrm = Byte(c.pos)]
           c4 == [c3 EXCEPT !.pos = @ + 1]
<1>1. GetModRM(c) = c \/ GetModRM(c) = c4
  BY DEF GetModRM
<1>2. c1 \in Context
  <2>1. "modrm" \in Present
    BY DEF Present
  <2> QED
    BY <2>1, SeenTyped
<1>3. c.pos \in Nat
  BY FieldTypes
<1>4. c.pos % PosMod \in Position /\ Byte(c.pos) \in 0 .. 255
  BY <1>3, ModOfNatural, ByteType DEF Position, TypeOK
<1> HIDE DEF c1, c2, c3, c4
<1>5. c2 \in Context
  BY <1>2, <1>4, PositionsTyped DEF c2
<1>6. c3 \in Context
  BY <1>4, <1>5, BytesTyped DEF c3
<1>7. c3.pos + 1 \in Nat
  BY <1>6, FieldTypes
<1>8. c4 \in Context
  BY <1>6, <1>7, PosTyped DEF c4
<1> QED
  BY <1>1, <1>8

LEMMA GetSibTyped ==
  ASSUME TypeOK, NEW c \in Context
  PROVE  GetSib(c) \in Context
<1> DEFINE c1 == Seen(c, "sib")
           c2 == [c1 EXCEPT !.pos_sib = c.pos % PosMod]
           c3 == [c2 EXCEPT !.sib = Byte(c.pos)]
           c4 == [c3 EXCEPT !.pos = @ + 1]
<1>1. GetSib(c) = c \/ GetSib(c) = c4
  BY DEF GetSib
<1>2. c1 \in Context
  <2>1. "sib" \in Present
    BY DEF Present
  <2> QED
    BY <2>1, SeenTyped
<1>3. c.pos \in Nat
  BY FieldTypes
<1>4. c.pos % PosMod \in Position /\ Byte(c.pos) \in 0 .. 255
  BY <1>3, ModOfNatural, ByteType DEF Position, TypeOK
<1> HIDE DEF c1, c2, c3, c4
<1>5. c2 \in Context
  BY <1>2, <1>4, PositionsTyped DEF c2
<1>6. c3 \in Context
  BY <1>4, <1>5, BytesTyped DEF c3
<1>7. c3.pos + 1 \in Nat
  BY <1>6, FieldTypes
<1>8. c4 \in Context
  BY <1>6, <1>7, PosTyped DEF c4
<1> QED
  BY <1>1, <1>8

LEMMA Opcode0FTyped ==
  ASSUME NEW c \in Context, NEW size \in 1 .. 3, NEW back \in 0 .. 3
  PROVE  Opcode0F(c, size, back) \in Context
<1> DEFINE c1 == [c EXCEPT !.opcode_size = size]
           c2 == [c1 EXCEPT !.pos_opcode = (@ - back) % PosMod]
<1>1. Opcode0F(c, size, back) = c2
  BY DEF Opcode0F
<1> HIDE DEF c1, c2
<1>2. c1 \in Context
  BY OpcodeSizeTyped DEF c1
<1>3. (c1.pos_opcode - back) % PosMod \in Position
  <2>1. c1.pos_opcode \in Position
    BY <1>2, FieldTypes
  <2> QED
    BY <2>1, LimitAssumption, SMT DEF Position
<1>4. c2 \in Context
  BY <1>2, <1>3, PositionsTyped DEF c2
<1> QED
  BY <1>1, <1>4

LEMMA DisplacedTyped ==
  ASSUME NEW c \in Context, NEW size \in {0, 1, 4}
  PROVE  Displaced(c, size) \in Context
<1> DEFINE c1 == [c EXCEPT !.pos_disp = c.pos % PosMod]
           c2 == [c1 EXCEPT !.disp_size = size]
           c3 == [c2 EXCEPT !.pos = @ + size]
<1>1. Displaced(c, size) = c \/ Displaced(c, size) = c3
  BY DEF Displaced
<1>2. c.pos % PosMod \in Position
  BY FieldTypes, ModOfNatural DEF Position
<1> HIDE DEF c1, c2, c3
<1>3. c1 \in Context
  BY <1>2, PositionsTyped DEF c1
<1>4. c2 \in Context
  BY <1>3, DispSizeTyped DEF c2
<1>5. c2.pos + size \in Nat
  <2>1. c2.pos \in Nat
    BY <1>4, FieldTypes
  <2> QED
    BY <2>1, SMT
<1>6. c3 \in Context
  BY <1>4, <1>5, PosTyped DEF c3
<1> QED
  BY <1>1, <1>6

LEMMA DispSizeType ==
  ASSUME NEW c
  PROVE  DispSize(c) \in {0, 1, 4}
BY SMT DEF DispSize, DecodeSib

LEMMA DecodeModRMTyped ==
  ASSUME TypeOK, NEW c \in Context
  PROVE  DecodeModRM(c) \in Context
<1> DEFINE s == IF Rm(c.modrm) = 4 THEN GetSib(c) ELSE c
<1>1. DecodeModRM(c) = c \/ DecodeModRM(c) = Displaced(s, DispSize(s))
  BY DEF DecodeModRM
<1>2. s \in Context
  BY GetSibTyped
<1> HIDE DEF s
<1>3. DispSize(s) \in {0, 1, 4}
  BY DispSizeType
<1> QED
  BY <1>1, <1>2, <1>3, DisplacedTyped

LEMMA NextByteTyped ==
  ASSUME TypeOK, NEW c \in Context, NextByte(c)
  PROVE  TypeOK'
BY SMT DEF TypeOK, NextByte

LEMMA RejectTyped ==
  ASSUME TypeOK, NEW c \in Context, Reject(c)
  PROVE  TypeOK'
BY SMT DEF TypeOK, Reject, Stages

LEMMA ToTyped ==
  ASSUME TypeOK, NEW c \in Context, NEW flags \in SUBSET Flags, To(c, flags)
  PROVE  TypeOK'
BY SMT DEF TypeOK, To, Stages

LEMMA WithPayloadTyped ==
  ASSUME TypeOK, NEW name \in Present
  PROVE  WithPayload(name) \in Context
<1>1. Byte(i + 1) \in 0 .. 255 /\ Byte(i + 2) \in 0 .. 255
  <2>1. i + 1 \in Nat /\ i + 2 \in Nat
    BY SMT DEF TypeOK
  <2> QED
    BY <2>1, ByteType DEF TypeOK
<1>2. Seen(ctx, name) \in Context
  BY SeenTyped DEF TypeOK
<1> QED
  BY <1>1, <1>2, BytesTyped DEF WithPayload

LEMMA CompressedPrefix ==
  ASSUME NEW b \in 0 .. 255
  PROVE  pp[Bits(b, 0, 2) + 1] \in MandatoryPrefixes
<1>1. Bits(b, 0, 2) \in 0 .. 3
  BY BitFields
<1> QED
  BY <1>1, SMT DEF pp, MandatoryPrefixes

LEMMA MapNumbers ==
  /\ \A k \in 0 .. 6 : 256 * k \in Maps
  /\ ONEBYTE \in Maps /\ MAP_0F \in Maps /\ MAP_0F38 \in Maps /\ MAP_0F3A \in Maps
  /\ \A k \in 1 .. 3 : 256 * k \in {MAP_0F, MAP_0F38, MAP_0F3A} /\ (256 * k = MAP_0F <=> k = 1)
  /\ \A k \in 8 .. 10 : 256 * (k - 4) \in {XOP_08, XOP_09, XOP_0A} /\ 256 * (k - 4) \in Maps
<1>1. \A k \in 0 .. 6 : 256 * k \in Maps
  BY DEF Maps
<1>2. ONEBYTE = 256 * 0 /\ MAP_0F = 256 * 1 /\ MAP_0F38 = 256 * 2 /\ MAP_0F3A = 256 * 3
  BY SMT DEF ONEBYTE, MAP_0F, MAP_0F38, MAP_0F3A
<1>3. \A k \in 1 .. 3 : 256 * k \in {MAP_0F, MAP_0F38, MAP_0F3A} /\ (256 * k = MAP_0F <=> k = 1)
  BY SMT DEF MAP_0F, MAP_0F38, MAP_0F3A
<1>4. \A k \in 8 .. 10 : 256 * (k - 4) \in {XOP_08, XOP_09, XOP_0A} /\ k - 4 \in 0 .. 6
  BY SMT DEF XOP_08, XOP_09, XOP_0A
<1>5. 0 \in 0 .. 6 /\ 1 \in 0 .. 6 /\ 2 \in 0 .. 6 /\ 3 \in 0 .. 6
  BY SMT
<1> QED
  BY <1>1, <1>2, <1>3, <1>4, <1>5

LEMMA InitTyped == Init => TypeOK
<1> SUFFICES ASSUME Init PROVE TypeOK
  OBVIOUS
<1>1. PICK c \in Contexts : ctx = DecodeClear(c)
  BY DEF Init
<1>2. ctx \in Context
  BY <1>1, ContextAssumption, ClearTyped
<1> QED
  BY <1>2, InputsAssumption, SMT DEF Init, TypeOK, Stages

LEMMA PrefixTyped ==
  ASSUME TypeOK,
         RexPrefix \/ OsizePrefix \/ SegmentPrefix \/ AsizeOrLockPrefix \/ RepPrefix
  PROVE  TypeOK'
<1> USE DEF TypeOK
<1>1. Byte(i) \in 0 .. 255
  BY ByteType
<1>2. {"rex", "seg", "osize", "asize", "lock", "rep", "repne"} \subseteq Present
  BY DEF Present
<1>3. Noted(ctx) \in Context
  BY <1>1, NotedTyped
<1>4. \A name \in Present : Seen(Noted(ctx), name) \in Context
  BY <1>3, SeenTyped
<1>5. CASE RexPrefix
  <2> DEFINE c == Seen(Noted(ctx), "rex")
             d == [c EXCEPT !.rex = Byte(i)]
  <2>1. NextByte([d EXCEPT !.pos_rex = i])
    BY <1>5 DEF RexPrefix
  <2>2. c \in Context
    BY <1>2, <1>4
  <2>3. i \in Position
    BY <1>5, LimitAssumption, SMT DEF RexPrefix, AtPrefix, Position
  <2> HIDE DEF c
  <2>4. d \in Context
    BY <1>1, <2>2, BytesTyped
  <2> HIDE DEF d
  <2>5. [d EXCEPT !.pos_rex = i] \in Context
    BY <2>3, <2>4, PositionsTyped
  <2> QED
    BY <2>1, <2>5, NextByteTyped
<1>6. CASE OsizePrefix
  <2> DEFINE c == Seen(Noted(ctx), "osize")
             m == IF c.mandatory \in {PREFIX_REP, PREFIX_REPNE} THEN c.mandatory ELSE PREFIX_OSIZE
  <2>1. NextByte([c EXCEPT !.mandatory = m])
    BY <1>6 DEF OsizePrefix
  <2>2. c \in Context
    BY <1>2, <1>4
  <2>3. m \in MandatoryPrefixes
    BY DEF MandatoryPrefixes
  <2> HIDE DEF c, m
  <2>4. [c EXCEPT !.mandatory = m] \in Context
    BY <2>2, <2>3, MandatoryTyped
  <2> QED
    BY <2>1, <2>4, NextByteTyped
<1>7. CASE SegmentPrefix
  BY <1>2, <1>4, <1>7, NextByteTyped DEF SegmentPrefix, IgnoreSegment
<1>8. CASE AsizeOrLockPrefix
  BY <1>2, <1>4, <1>8, NextByteTyped DEF AsizeOrLockPrefix
<1>9. CASE RepPrefix
  <2> DEFINE c == Seen(Noted(ctx), IF Byte(i) = PREFIX_REP THEN "rep" ELSE "repne")
  <2>1. NextByte([c EXCEPT !.mandatory = Byte(i)])
    BY <1>9 DEF RepPrefix
  <2>2. c \in Context
    BY <1>2, <1>4
  <2>3. Byte(i) \in MandatoryPrefixes
    BY <1>9 DEF RepPrefix, AtPrefix, MandatoryPrefixes
  <2> HIDE DEF c
  <2>4. [c EXCEPT !.mandatory = Byte(i)] \in Context
    BY <2>2, <2>3, MandatoryTyped
  <2> QED
    BY <2>1, <2>4, NextByteTyped
<1> QED
  BY <1>5, <1>6, <1>7, <1>8, <1>9

LEMMA EscapeTyped ==
  ASSUME TypeOK, EndOfPrefixes \/ TooLong \/ Vex3 \/ Vex2 \/ Evex \/ Xop \/ TwoOrThreeByte \/ OneByte
  PROVE  TypeOK'
<1>1. ctx \in Context /\ i + 1 \in Nat /\ i + 2 \in Nat
  BY SMT DEF TypeOK
<1>2. Byte(i + 1) \in 0 .. 255 /\ Byte(i + 2) \in 0 .. 255
  BY <1>1, ByteType DEF TypeOK
<1>3. CASE EndOfPrefixes
  BY <1>1, <1>3, DropRexTyped, SMT DEF EndOfPrefixes, TypeOK, Stages
<1>4. CASE TooLong \/ Evex
  BY <1>1, <1>4, RejectTyped DEF TooLong, Evex
<1>5. CASE Vex3
  <2>1. WithPayload("vex3b") \in Context
    BY WithPayloadTyped DEF Present
  <2>2. pp[Bits(Byte(i + 2), 0, 2) + 1] \in MandatoryPrefixes
    BY <1>2, CompressedPrefix
  <2>3. Mmmmm(Byte(i + 1)) \in 1 .. 3 => 256 * Mmmmm(Byte(i + 1)) \in Maps
    <3>1. \A k \in 1 .. 3 : k \in 0 .. 6
      BY SMT
    <3> QED
      BY <3>1, MapNumbers
  <2> QED
    BY <1>1, <1>5, <2>1, <2>2, <2>3, RejectTyped, OpcodeAtTyped DEF Vex3
<1>6. CASE Vex2
  <2> DEFINE c == Seen(ctx, "vex2b")
  <2>1. c \in Context
    BY <1>1, SeenTyped DEF Present
  <2>2. [c EXCEPT !.payload[1] = Byte(i + 1)] \in Context
    BY <1>2, <2>1, BytesTyped
  <2>3. pp[Bits(Byte(i + 1), 0, 2) + 1] \in MandatoryPrefixes
    BY <1>2, CompressedPrefix
  <2> QED
    BY <1>1, <1>6, <2>2, <2>3, MapNumbers, RejectTyped, OpcodeAtTyped DEF Vex2
<1>7. CASE Xop
  <2>1. WithPayload("xop") \in Context
    BY WithPayloadTyped DEF Present
  <2>2. 256 * (Mmmmm(Byte(i + 1)) - 4) \in Maps
    BY <1>7, MapNumbers DEF Xop, XopValid
  <2>3. 0 \in MandatoryPrefixes
    BY DEF MandatoryPrefixes
  <2> QED
    BY <1>1, <1>7, <2>1, <2>2, <2>3, RejectTyped, OpcodeAtTyped DEF Xop
<1>8. CASE TwoOrThreeByte
  <2>1. ctx.mandatory \in MandatoryPrefixes
    BY <1>1, FieldTypes
  <2> QED
    BY <1>1, <1>8, <2>1, MapNumbers, OpcodeAtTyped DEF TwoOrThreeByte
<1>9. CASE OneByte
  <2>1. 0 \in MandatoryPrefixes
    BY DEF MandatoryPrefixes
  <2> QED
    BY <1>1, <1>9, <2>1, MapNumbers, OpcodeAtTyped DEF OneByte
<1> QED
  BY <1>3, <1>4, <1>5, <1>6, <1>7, <1>8, <1>9

LEMMA FetchedTyped ==
  ASSUME TypeOK
  PROVE  /\ Fetched \in Context
         /\ \A size \in 1 .. 3, back \in 0 .. 3 : Opcode0F(Fetched, size, back) \in Context
<1>1. ctx \in Context
  BY DEF TypeOK
<1>2. ctx.pos + 1 \in Nat
  BY <1>1, FieldTypes
<1>3. Fetched \in Context
  BY <1>1, <1>2, PosTyped DEF Fetched
<1> QED
  BY <1>3, Opcode0FTyped

LEMMA OpcodeTyped ==
  ASSUME TypeOK, OneByteOpcode \/ TwoByteOpcode \/ XopOpcode \/ OtherOpcode
  PROVE  TypeOK'
<1>1. Fetched \in Context
  BY FetchedTyped
<1>2. \A size \in 1 .. 3, back \in 0 .. 3 : Opcode0F(Fetched, size, back) \in Context
  BY FetchedTyped
<1>3. \A map, opcode : TableFlags(map, opcode) \in SUBSET Flags
  <2> SUFFICES ASSUME NEW map, NEW opcode PROVE TableFlags(map, opcode) \subseteq Flags
    OBVIOUS
  <2>1. {"modrm", "Z", "B"} \subseteq Flags
    BY DEF Flags
  <2> QED
    BY <2>1, TableFlagsType
<1>4. \A f \in Flags : {f} \in SUBSET Flags
  OBVIOUS
<1>5. /\ {"modrm", "W"} \in SUBSET Flags /\ {"modrm", "D"} \in SUBSET Flags
      /\ {"W", "B"} \in SUBSET Flags /\ {"modrm", "B"} \in SUBSET Flags
      /\ {"modrm", "Z"} \in SUBSET Flags /\ {"Z"} \in SUBSET Flags /\ {"V"} \in SUBSET Flags
      /\ {"O"} \in SUBSET Flags /\ {"W"} \in SUBSET Flags /\ {"AP"} \in SUBSET Flags
  BY DEF Flags
<1>6. CASE OneByteOpcode
  <2>1. \A flag : [Fetched EXCEPT !.osize = GetOsize(ctx, flag)] \in Context
    BY <1>1, GetOsizeType, OsizeTyped
  <2>2. \A flag : To([Fetched EXCEPT !.osize = GetOsize(ctx, flag)], {"Z"}) => TypeOK'
    BY <2>1, <1>5, ToTyped
  <2>3. \A flags \in SUBSET Flags : To(Fetched, flags) => TypeOK'
    BY <1>1, ToTyped
  <2>4. To(GetModRM(Fetched), FlagsOfUnary(Opcode, RegField(GetModRM(Fetched).modrm))) => TypeOK'
    <3>1. GetModRM(Fetched) \in Context
      BY <1>1, GetModRMTyped
    <3>2. \A opcode, reg : FlagsOfUnary(opcode, reg) \in SUBSET Flags
      BY <1>3, <1>5 DEF FlagsOfUnary
    <3> QED
      BY <3>1, <3>2, ToTyped
  <2>5. \/ \E flag : To([Fetched EXCEPT !.osize = GetOsize(ctx, flag)], {"Z"})
        \/ \E flags \in SUBSET Flags : To(Fetched, flags)
        \/ To(GetModRM(Fetched), FlagsOfUnary(Opcode, RegField(GetModRM(Fetched).modrm)))
    <3> HIDE DEF To, Fetched, GetModRM, FlagsOfUnary, GetOsize
    <3> QED
      BY <1>3, <1>5, <1>6, SMT DEF OneByteOpcode
  <2> QED
    BY <2>2, <2>3, <2>4, <2>5
<1>7. CASE TwoByteOpcode
  <2> DEFINE c == Opcode0F(Fetched, 2, 1)
             d == Opcode0F(Fetched, 3, 3)
  <2>1. c \in Context /\ d \in Context
    BY <1>2, SMT
  <2> HIDE DEF c, d
  <2>2. [c EXCEPT !.osize = GetOsize(ctx, "F64")] \in Context
    BY <2>1, GetOsizeType, OsizeTyped
  <2>3. \E e \in Context, flags \in SUBSET Flags : To(e, flags)
    <3>1. \/ To([c EXCEPT !.osize = GetOsize(ctx, "F64")], {"Z"})
          \/ \E flags \in SUBSET Flags : To(d, flags)
          \/ To(c, TableFlags(MAP_0F, Opcode))
      BY <1>3, <1>5, <1>7, SMT DEF TwoByteOpcode, c, d
    <3> QED
      BY <3>1, <1>3, <1>5, <2>1, <2>2
  <2> QED
    BY <2>3, ToTyped
<1>8. CASE XopOpcode
  <2>1. Opcode0F(Fetched, 3, 2) \in Context
    BY <1>2, SMT
  <2>2. \E flags \in SUBSET Flags : To(Opcode0F(Fetched, 3, 2), flags)
    BY <1>3, <1>5, <1>8 DEF XopOpcode
  <2> QED
    BY <2>1, <2>2, ToTyped
<1>9. CASE OtherOpcode
  BY <1>1, <1>3, <1>9, ToTyped DEF OtherOpcode
<1> QED
  BY <1>6, <1>7, <1>8, <1>9

LEMMA ImmediateType == ImmediateBytes \in Nat
<1>1. \A flag \in Flags \ {"modrm"} : BytesOfFlag(flag) \in Nat
  BY SMT DEF BytesOfFlag, Wide, Flags
<1> DEFINE bytes(flag) == IF flag \in follow THEN BytesOfFlag(flag) ELSE 0
<1>2. \A flag \in Flags \ {"modrm"} : bytes(flag) \in Nat
  BY <1>1
<1>3. ImmediateBytes = bytes("Z") + bytes("B") + bytes("W") + bytes("D") + bytes("O") + bytes("V")
                         + bytes("AP")
  BY DEF ImmediateBytes
<1>4. /\ bytes("Z") \in Nat /\ bytes("B") \in Nat /\ bytes("W") \in Nat /\ bytes("D") \in Nat
      /\ bytes("O") \in Nat /\ bytes("V") \in Nat /\ bytes("AP") \in Nat
  BY <1>2 DEF Flags
<1> HIDE DEF bytes
<1> QED
  BY <1>3, <1>4, SMT

LEMMA AddressTyped ==
  ASSUME TypeOK, Sizes \/ FlagModRM \/ FlagImmediate
  PROVE  TypeOK'
<1>1. ctx \in Context
  BY DEF TypeOK
<1>2. CASE Sizes
  <2> DEFINE c == [ctx EXCEPT !.asize = GetAsize(ctx)]
  <2>1. c \in Context
    BY <1>1, GetOsizeType, AsizeTyped
  <2>2. ctx' = [c EXCEPT !.osize = GetOsize(ctx, "none")]
    BY <1>2 DEF Sizes
  <2> HIDE DEF c
  <2>3. GetOsize(ctx, "none") \in {16, 32, 64}
    BY GetOsizeType
  <2>4. ctx' \in Context
    BY <2>1, <2>2, <2>3, OsizeTyped
  <2> QED
    BY <1>2, <2>4 DEF Sizes, TypeOK, Stages
<1>3. CASE FlagModRM
  <2>1. GetModRM(ctx) \in Context
    BY <1>1, GetModRMTyped
  <2>2. DecodeModRM(GetModRM(ctx)) \in Context
    BY <2>1, DecodeModRMTyped
  <2> QED
    BY <1>1, <1>3, <2>2 DEF FlagModRM, TypeOK, Stages
<1>4. CASE FlagImmediate
  <2>1. ctx.pos + ImmediateBytes \in Nat
    <3>1. ctx.pos \in Nat /\ ImmediateBytes \in Nat
      BY <1>1, FieldTypes, ImmediateType
    <3> QED
      BY <3>1, SMT
  <2>2. ctx' \in Context /\ len' \in Nat
    BY <1>1, <1>4, <2>1, PosTyped DEF FlagImmediate
  <2> QED
    BY <1>4, <2>2 DEF FlagImmediate, TypeOK, Stages
<1> QED
  BY <1>2, <1>3, <1>4

LEMMA NextTyped == TypeOK /\ [Next]_vars => TypeOK'
<1> SUFFICES ASSUME TypeOK, [Next]_vars PROVE TypeOK'
  OBVIOUS
<1>1. CASE UNCHANGED vars
  BY <1>1 DEF vars, TypeOK
<1> QED
  BY <1>1, PrefixTyped, EscapeTyped, OpcodeTyped, AddressTyped
     DEF Next, DecodePrefix, DecodeInstruction

(* The decoder's context keeps its fields and their types, positions of    *)
(* four bits included, for every input and every context it starts from    *)
(* (Decoder.cpp, DecodeContext.hpp:5-61).                                  *)
THEOREM TypeCorrect == Spec => []TypeOK
BY InitTyped, NextTyped, PTL DEF Spec
-----------------------------------------------------------------------------
(* Where the parts of an instruction are.  The invariant says, for every   *)
(* function the decoder can be in, how far it has read and what the        *)
(* positions it has noted stand for; nothing is said modulo PosMod that    *)
(* could be said without, for an instruction may be too long for them.     *)

Has(name, c) == IF name \in c.present THEN 1 ELSE 0
End(c) == i + 1 + Has("modrm", c) + Has("sib", c) + c.disp_size

NoAddress(c) == "sib" \notin c.present /\ c.disp_size = 0
NothingBehind(c) == "modrm" \notin c.present /\ NoAddress(c) /\ c.opcode_size = 1
OpcodeFound(c) == NothingBehind(c) /\ c.pos = i /\ c.pos_opcode = i % PosMod

(* the bytes before the opcode are those that select its map *)
AllMaps == {ONEBYTE, MAP_0F, XOP_0A} \cup HiddenMaps
MapOfEscape(c) ==
  /\ c.table \in AllMaps
  /\ c.table = MAP_0F =>
       i >= 1 /\ (Byte(i - 1) = ESCAPE \/ c.present \cap {"vex2b", "vex3b"} # {})
  /\ c.table = XOP_0A => i >= 3 /\ Mmmmm(Byte(i - 2)) \in 8 .. 10

Copied(c, size, back) ==
  c.opcode_size = size /\ c.pos_opcode = ((i % PosMod) - back) % PosMod
OpcodeCopied(c) ==
  IF c.table = MAP_0F THEN IF Byte(i) = 120 THEN Copied(c, 3, 3) ELSE Copied(c, 2, 1)
  ELSE IF c.table = XOP_0A THEN Copied(c, 3, 2)
  ELSE c.opcode_size = 1 /\ c.pos_opcode = i % PosMod

PartsFound(c) ==
  /\ "modrm" \in c.present => c.pos_modrm = (i + 1) % PosMod /\ c.modrm = Byte(i + 1)
  /\ "sib" \in c.present =>
       "modrm" \in c.present /\ c.pos_sib = (i + 2) % PosMod /\ c.sib = Byte(i + 2)
  /\ c.disp_size > 0 =>
       "modrm" \in c.present /\ c.pos_disp = (i + 2 + Has("sib", c)) % PosMod

Read(c) == MapOfEscape(c) /\ OpcodeCopied(c) /\ PartsFound(c)

PositionInv ==
  /\ at \in {"prefixes", "escape"} => NothingBehind(ctx)
  /\ at \in {"sizes", "opcode"} => OpcodeFound(ctx) /\ MapOfEscape(ctx)
  /\ at \in {"modrm", "immediate"} => Read(ctx) /\ ctx.pos = End(ctx)
  /\ at = "modrm" => NoAddress(ctx)
  /\ at = "done" => Read(ctx) /\ len >= End(ctx)

LEMMA InitPositions == Init => PositionInv
<1> SUFFICES ASSUME Init PROVE PositionInv
  OBVIOUS
<1>1. PICK c \in Contexts : ctx = DecodeClear(c)
  BY DEF Init
<1>2. c \in Context
  BY ContextAssumption
<1>3. NothingBehind(ctx)
  BY <1>1, <1>2, SMT DEF DecodeClear, Context, NothingBehind, NoAddress
<1> QED
  BY <1>3, SMT DEF Init, PositionInv

LEMMA PrefixPositions ==
  ASSUME TypeOK, PositionInv,
         \/ RexPrefix \/ OsizePrefix \/ SegmentPrefix \/ AsizeOrLockPrefix \/ RepPrefix
         \/ TooLong \/ EndOfPrefixes
  PROVE  PositionInv'
<1>1. ctx \in Context
  BY DEF TypeOK
<1>2. CASE TooLong
  BY <1>2, SMT DEF TooLong, Reject, PositionInv
<1>3. at = "prefixes" /\ NothingBehind(ctx)
  BY DEF RexPrefix, OsizePrefix, SegmentPrefix, AsizeOrLockPrefix, RepPrefix, TooLong,
         EndOfPrefixes, AtPrefix, PositionInv
<1>4. \A name \in {"rex", "seg", "osize", "asize", "lock", "rep", "repne"} :
         NothingBehind(Seen(Noted(ctx), name))
  BY <1>1, <1>3, SMT DEF Seen, Noted, Context, NothingBehind, NoAddress
<1>6. \A c \in Context :
         /\ \A b, p : NothingBehind(c) => NothingBehind([c EXCEPT !.rex = b, !.pos_rex = p])
         /\ \A m : NothingBehind(c) => NothingBehind([c EXCEPT !.mandatory = m])
         /\ NothingBehind(c) => NothingBehind(DropRex(c))
  BY SMT DEF Context, DropRex, NothingBehind, NoAddress
<1>7. ASSUME NEW c, NothingBehind(c), NextByte(c) PROVE PositionInv'
  BY <1>3, <1>7, SMT DEF NextByte, PositionInv, NothingBehind, NoAddress
<1>8. Noted(ctx) \in Context /\ {"rex", "seg", "osize", "asize", "lock", "rep", "repne"} \subseteq Present
  <2>1. Byte(i) \in 0 .. 255
    BY ByteType DEF TypeOK
  <2> QED
    BY <1>1, <2>1, NotedTyped DEF Present
<1>9. \A name \in {"rex", "seg", "osize", "asize", "lock", "rep", "repne"} :
         Seen(Noted(ctx), name) \in Context
  BY <1>8, SeenTyped
<1>10. CASE RexPrefix
  BY <1>4, <1>6, <1>7, <1>9, <1>10 DEF RexPrefix
<1>11. CASE OsizePrefix
  BY <1>4, <1>6, <1>7, <1>9, <1>11 DEF OsizePrefix
<1>12. CASE SegmentPrefix
  BY <1>3, <1>4, <1>7, <1>12 DEF SegmentPrefix, IgnoreSegment
<1>13. CASE AsizeOrLockPrefix
  BY <1>4, <1>7, <1>13 DEF AsizeOrLockPrefix
<1>14. CASE RepPrefix
  BY <1>4, <1>6, <1>7, <1>9, <1>14 DEF RepPrefix
<1>15. CASE EndOfPrefixes
  BY <1>1, <1>3, <1>6, <1>15, SMT DEF EndOfPrefixes, PositionInv, NothingBehind, NoAddress
<1> QED
  BY <1>2, <1>10, <1>11, <1>12, <1>13, <1>14, <1>15

(* The opcode is found where the escape bytes and the payload end *)
LEMMA FoundAt ==
  ASSUME TypeOK, NEW n \in Nat, NEW c \in Context, NEW map, NEW mandatory,
         NothingBehind(c), OpcodeAt(n, c, map, mandatory)
  PROVE  /\ OpcodeFound(ctx)' /\ at' = "sizes" /\ i' = i + n
         /\ ctx'.table = map /\ ctx'.present = c.present /\ ip' = ip
BY SMT DEF OpcodeAt, OpcodeFound, NothingBehind, NoAddress, Context

LEMMA EscapePositions ==
  ASSUME TypeOK, PositionInv, Vex3 \/ Vex2 \/ Evex \/ Xop \/ TwoOrThreeByte \/ OneByte
  PROVE  PositionInv'
<1>1. ctx \in Context /\ i \in Nat
  BY DEF TypeOK
<1>2. NothingBehind(ctx)
  BY DEF PositionInv, Vex3, Vex2, Evex, Xop, TwoOrThreeByte, OneByte, Escape
<1>3. ASSUME NEW c, Reject(c) PROVE PositionInv'
  BY <1>3, SMT DEF Reject, PositionInv
<1>4. ASSUME OpcodeFound(ctx)', MapOfEscape(ctx)', at' = "sizes" PROVE PositionInv'
  BY <1>4, SMT DEF PositionInv
<1>5. \A name \in {"vex2b", "vex3b", "xop"} :
         /\ Seen(ctx, name) \in Context /\ WithPayload(name) \in Context
         /\ NothingBehind(WithPayload(name)) /\ name \in WithPayload(name).present
  <2> SUFFICES ASSUME NEW name \in {"vex2b", "vex3b", "xop"}
               PROVE  /\ Seen(ctx, name) \in Context /\ WithPayload(name) \in Context
                      /\ NothingBehind(WithPayload(name)) /\ name \in WithPayload(name).present
    OBVIOUS
  <2>1. name \in Present
    BY DEF Present
  <2>2. Seen(ctx, name) \in Context /\ WithPayload(name) \in Context
    BY <1>1, <2>1, SeenTyped, WithPayloadTyped
  <2>3. NothingBehind(WithPayload(name)) /\ name \in WithPayload(name).present
    BY <1>1, <1>2, SMT DEF WithPayload, Seen, NothingBehind, NoAddress, Context
  <2> QED
    BY <2>2, <2>3
<1>6. CASE Vex3
  <2> DEFINE c == WithPayload("vex3b")
  <2>1. CASE \E d : Reject(d)
    BY <1>3, <2>1
  <2>2. CASE ~\E d : Reject(d)
    <3>1. PICK mandatory : /\ Mmmmm(Byte(i + 1)) \in 1 .. 3
                           /\ OpcodeAt(3, c, 256 * Mmmmm(Byte(i + 1)), mandatory)
      BY <1>6, <2>2 DEF Vex3
    <3>2. c \in Context /\ NothingBehind(c) /\ "vex3b" \in c.present
      BY <1>5
    <3> HIDE DEF c
    <3>3. /\ OpcodeFound(ctx)' /\ at' = "sizes" /\ i' = i + 3 /\ "vex3b" \in ctx'.present
          /\ ctx'.table = 256 * Mmmmm(Byte(i + 1))
      BY <3>1, <3>2, FoundAt
    <3>4. 256 * Mmmmm(Byte(i + 1)) \in {MAP_0F, MAP_0F38, MAP_0F3A}
      BY <3>1, MapNumbers
    <3>5. MapOfEscape(ctx)'
      BY <1>1, <3>3, <3>4, SMT DEF MapOfEscape, AllMaps, HiddenMaps, XOP_0A, MAP_0F, MAP_0F38, MAP_0F3A
    <3> QED
      BY <1>4, <3>3, <3>5
  <2> QED
    BY <2>1, <2>2
<1>7. CASE Vex2
  <2> DEFINE c == [Seen(ctx, "vex2b") EXCEPT !.payload[1] = Byte(i + 1)]
  <2>1. CASE \E d : Reject(d)
    BY <1>3, <2>1
  <2>2. CASE ~\E d : Reject(d)
    <3>1. PICK mandatory : OpcodeAt(2, c, MAP_0F, mandatory)
      BY <1>7, <2>2 DEF Vex2
    <3>2. c \in Context
      <4>1. i + 1 \in Nat
        BY <1>1, SMT
      <4>2. Byte(i + 1) \in 0 .. 255
        BY <4>1, ByteType DEF TypeOK
      <4> QED
        BY <1>5, <4>2, BytesTyped
    <3>3. NothingBehind(c) /\ "vex2b" \in c.present
      BY <1>1, <1>2, SMT DEF Seen, NothingBehind, NoAddress, Context
    <3> HIDE DEF c
    <3>4. /\ OpcodeFound(ctx)' /\ at' = "sizes" /\ i' = i + 2 /\ "vex2b" \in ctx'.present
          /\ ctx'.table = MAP_0F
      BY <3>1, <3>2, <3>3, FoundAt
    <3>5. MapOfEscape(ctx)'
      BY <1>1, <3>4, SMT DEF MapOfEscape, AllMaps, XOP_0A, MAP_0F
    <3> QED
      BY <1>4, <3>4, <3>5
  <2> QED
    BY <2>1, <2>2
<1>8. CASE Evex
  BY <1>3, <1>8 DEF Evex
<1>9. CASE Xop
  <2> DEFINE c == WithPayload("xop")
             map == Mmmmm(Byte(i + 1))
  <2>1. CASE \E d : Reject(d)
    BY <1>3, <2>1
  <2>2. CASE ~\E d : Reject(d)
    <3>1. map \in 8 .. 10 /\ OpcodeAt(3, c, 256 * (map - 4), 0)
      BY <1>9, <2>2 DEF Xop, XopValid
    <3>2. c \in Context /\ NothingBehind(c)
      BY <1>5
    <3> HIDE DEF c
    <3>3. /\ OpcodeFound(ctx)' /\ at' = "sizes" /\ i' = i + 3 /\ ip' = ip
          /\ ctx'.table = 256 * (map - 4)
      BY <3>1, <3>2, FoundAt
    <3>4. 256 * (map - 4) \in {XOP_08, XOP_09, XOP_0A}
      BY <3>1, MapNumbers
    <3>5. Mmmmm(Byte(i - 2)') = map
      <4>1. i' - 2 = i + 1
        BY <1>1, <3>3, SMT
      <4> QED
        BY <3>3, <4>1 DEF Byte
    <3>6. MapOfEscape(ctx)'
      BY <1>1, <3>1, <3>3, <3>4, <3>5, SMT
         DEF MapOfEscape, AllMaps, HiddenMaps, XOP_08, XOP_09, XOP_0A, MAP_0F
    <3> QED
      BY <1>4, <3>3, <3>6
  <2> QED
    BY <2>1, <2>2
<1>10. CASE TwoOrThreeByte
  <2>1. CASE \E map \in {MAP_0F38, MAP_0F3A} : OpcodeAt(2, ctx, map, ctx.mandatory)
    <3>1. PICK map \in {MAP_0F38, MAP_0F3A} : OpcodeAt(2, ctx, map, ctx.mandatory)
      BY <2>1
    <3>2. OpcodeFound(ctx)' /\ at' = "sizes" /\ ctx'.table = map
      BY <1>1, <1>2, <3>1, FoundAt
    <3>3. MapOfEscape(ctx)'
      BY <3>2, SMT DEF MapOfEscape, AllMaps, HiddenMaps, MAP_0F, MAP_0F38, MAP_0F3A, XOP_0A
    <3> QED
      BY <1>4, <3>2, <3>3
  <2>2. CASE OpcodeAt(1, ctx, MAP_0F, ctx.mandatory)
    <3>1. OpcodeFound(ctx)' /\ at' = "sizes" /\ ctx'.table = MAP_0F /\ i' = i + 1 /\ ip' = ip
      BY <1>1, <1>2, <2>2, FoundAt
    <3>2. Byte(i) = ESCAPE
      BY <1>10 DEF TwoOrThreeByte, Escape
    <3>3. Byte(i - 1)' = ESCAPE
      <4>1. i' - 1 = i
        BY <1>1, <3>1, SMT
      <4> QED
        BY <3>1, <3>2, <4>1 DEF Byte
    <3>4. MapOfEscape(ctx)'
      BY <1>1, <3>1, <3>3, SMT DEF MapOfEscape, AllMaps, MAP_0F, XOP_0A
    <3> QED
      BY <1>4, <3>1, <3>4
  <2> QED
    BY <1>10, <2>1, <2>2 DEF TwoOrThreeByte
<1>11. CASE OneByte
  <2>1. OpcodeFound(ctx)' /\ at' = "sizes" /\ ctx'.table = ONEBYTE
    BY <1>1, <1>2, <1>11, FoundAt DEF OneByte
  <2>2. MapOfEscape(ctx)'
    BY <2>1, SMT DEF MapOfEscape, AllMaps, ONEBYTE, MAP_0F, XOP_0A
  <2> QED
    BY <1>4, <2>1, <2>2
<1> QED
  BY <1>6, <1>7, <1>8, <1>9, <1>10, <1>11

(* The opcode has been fetched, perhaps with a ModRM byte *)
Ready(c) ==
  MapOfEscape(c) /\ PartsFound(c) /\ NoAddress(c) /\ c.pos = End(c) /\ c.table = ctx.table

LEMMA FetchedReady ==
  ASSUME TypeOK, PositionInv, at = "opcode"
  PROVE  /\ Ready(Fetched) /\ Fetched.opcode_size = 1 /\ Fetched.pos_opcode = i % PosMod
         /\ Fetched.pos = i + 1 /\ Fetched.present = ctx.present /\ Opcode = Byte(i)
<1>1. ctx \in Context /\ i \in Nat /\ OpcodeFound(ctx) /\ MapOfEscape(ctx)
  BY DEF TypeOK, PositionInv
<1>2. /\ Fetched.pos = i + 1 /\ Fetched.present = ctx.present /\ Fetched.table = ctx.table
      /\ Fetched.disp_size = 0 /\ Fetched.opcode_size = 1 /\ Fetched.pos_opcode = i % PosMod
  BY <1>1, SMT DEF Fetched, OpcodeFound, NothingBehind, NoAddress, Context
<1>3. MapOfEscape(Fetched)
  BY <1>1, <1>2 DEF MapOfEscape
<1>4. "modrm" \notin Fetched.present /\ "sib" \notin Fetched.present
  BY <1>1, <1>2 DEF OpcodeFound, NothingBehind, NoAddress
<1>5. Opcode = Byte(i)
  BY <1>1 DEF Opcode, OpcodeFound
<1> QED
  BY <1>1, <1>2, <1>3, <1>4, <1>5, SMT DEF Ready, PartsFound, NoAddress, End, Has

LEMMA ReadyWithOsize ==
  ASSUME NEW c \in Context, NEW size, Ready(c)
  PROVE  LET d == [c EXCEPT !.osize = size]
         IN  Ready(d) /\ d.opcode_size = c.opcode_size /\ d.pos_opcode = c.pos_opcode
<1> DEFINE d == [c EXCEPT !.osize = size]
<1>1. /\ d.pos = c.pos /\ d.present = c.present /\ d.table = c.table /\ d.disp_size = c.disp_size
      /\ d.opcode_size = c.opcode_size /\ d.pos_opcode = c.pos_opcode /\ d.modrm = c.modrm
      /\ d.sib = c.sib /\ d.pos_modrm = c.pos_modrm /\ d.pos_sib = c.pos_sib
      /\ d.pos_disp = c.pos_disp
  BY SMT DEF Context
<1> HIDE DEF d
<1>2. Ready(d)
  BY <1>1 DEF Ready, MapOfEscape, PartsFound, NoAddress, End, Has
<1> QED
  BY <1>1, <1>2 DEF d

LEMMA ReadyWithCopy ==
  ASSUME NEW c \in Context, NEW size, NEW back, Ready(c), c.pos_opcode = i % PosMod
  PROVE  Ready(Opcode0F(c, size, back)) /\ Copied(Opcode0F(c, size, back), size, back)
<1> DEFINE d == Opcode0F(c, size, back)
<1>1. /\ d.pos = c.pos /\ d.present = c.present /\ d.table = c.table /\ d.disp_size = c.disp_size
      /\ d.modrm = c.modrm /\ d.sib = c.sib /\ d.pos_modrm = c.pos_modrm
      /\ d.pos_sib = c.pos_sib /\ d.pos_disp = c.pos_disp
      /\ d.opcode_size = size /\ d.pos_opcode = (c.pos_opcode - back) % PosMod
  BY SMT DEF Opcode0F, Context
<1> HIDE DEF d
<1>2. Ready(d)
  BY <1>1 DEF Ready, MapOfEscape, PartsFound, NoAddress, End, Has
<1>3. Copied(d, size, back)
  BY <1>1 DEF Copied
<1> QED
  BY <1>2, <1>3 DEF d

(* GetModRM notes where the byte is, if it has not been read before *)
LEMMA GetModRMPositions ==
  ASSUME TypeOK, NEW c \in Context, PartsFound(c), NoAddress(c), c.pos = End(c)
  PROVE  LET d == GetModRM(c)
         IN  /\ PartsFound(d) /\ NoAddress(d) /\ d.pos = End(d) /\ "modrm" \in d.present
             /\ c.present \subseteq d.present /\ d.table = c.table
             /\ d.opcode_size = c.opcode_size /\ d.pos_opcode = c.pos_opcode
<1> DEFINE d == GetModRM(c)
<1>1. CASE "modrm" \in c.present
  BY <1>1 DEF GetModRM
<1>2. CASE "modrm" \notin c.present
  <2>1. c.pos = i + 1 /\ i \in Nat
    BY <1>2, SMT DEF End, Has, NoAddress, TypeOK
  <2>2. /\ d.present = c.present \cup {"modrm"} /\ d.pos_modrm = (i + 1) % PosMod
        /\ d.modrm = Byte(i + 1) /\ d.pos = i + 2 /\ d.disp_size = c.disp_size /\ d.table = c.table
        /\ d.opcode_size = c.opcode_size /\ d.pos_opcode = c.pos_opcode
    BY <1>2, <2>1, SMT DEF GetModRM, Seen, Context
  <2> HIDE DEF d
  <2>3. NoAddress(d) /\ PartsFound(d) /\ d.pos = End(d)
    BY <2>1, <2>2, SMT DEF NoAddress, PartsFound, End, Has
  <2> QED
    BY <2>2, <2>3 DEF d
<1> QED
  BY <1>1, <1>2

LEMMA ToPositions ==
  ASSUME TypeOK, NEW c, NEW flags, Ready(c), OpcodeCopied(c), To(c, flags)
  PROVE  PositionInv'
<1>1. ctx' = c /\ i' = i /\ ip' = ip /\ at' = "modrm"
  BY DEF To
<1>2. (Read(ctx) /\ NoAddress(ctx) /\ ctx.pos = End(ctx))'
  BY <1>1 DEF Read, Ready, MapOfEscape, OpcodeCopied, Copied, PartsFound, NoAddress, End, Has, Byte
<1> QED
  BY <1>1, <1>2 DEF PositionInv

LEMMA OpcodePositions ==
  ASSUME TypeOK, PositionInv, OneByteOpcode \/ TwoByteOpcode \/ XopOpcode \/ OtherOpcode
  PROVE  PositionInv'
<1>1. at = "opcode"
  BY DEF OneByteOpcode, TwoByteOpcode, XopOpcode, OtherOpcode, AtOpcode
<1>2. /\ Ready(Fetched) /\ Fetched.opcode_size = 1 /\ Fetched.pos_opcode = i % PosMod
      /\ Opcode = Byte(i)
  BY <1>1, FetchedReady
<1>3. Fetched \in Context
  BY FetchedTyped
<1>4. ASSUME NEW c, NEW flags, Ready(c), To(c, flags), OpcodeCopied(c)
      PROVE  PositionInv'
  BY <1>4, ToPositions
<1>5. \A c : Ready(c) => c.table = ctx.table
  BY DEF Ready
<1>6. CASE OneByteOpcode
  <2>1. \A c : c.table = ONEBYTE /\ c.opcode_size = 1 /\ c.pos_opcode = i % PosMod => OpcodeCopied(c)
    BY SMT DEF OpcodeCopied, ONEBYTE, MAP_0F, XOP_0A
  <2>2. ctx.table = ONEBYTE
    BY <1>6 DEF OneByteOpcode, AtOpcode
  <2>3. ASSUME NEW flag, To([Fetched EXCEPT !.osize = GetOsize(ctx, flag)], {"Z"}) PROVE PositionInv'
    <3> DEFINE d == [Fetched EXCEPT !.osize = GetOsize(ctx, flag)]
    <3>1. Ready(d) /\ d.opcode_size = 1 /\ d.pos_opcode = i % PosMod
      BY <1>2, <1>3, ReadyWithOsize
    <3> HIDE DEF d
    <3> QED
      BY <1>4, <1>5, <2>1, <2>2, <2>3, <3>1 DEF d
  <2>4. ASSUME NEW flags, To(Fetched, flags) PROVE PositionInv'
    BY <1>2, <1>4, <1>5, <2>1, <2>2, <2>4
  <2>5. ASSUME NEW flags, To(GetModRM(Fetched), flags) PROVE PositionInv'
    <3> DEFINE d == GetModRM(Fetched)
    <3>1. /\ PartsFound(d) /\ NoAddress(d) /\ d.pos = End(d) /\ d.table = Fetched.table
          /\ d.opcode_size = 1 /\ d.pos_opcode = i % PosMod
      BY <1>2, <1>3, GetModRMPositions DEF Ready
    <3>2. d.table = ONEBYTE
      BY <1>2, <1>5, <2>2, <3>1
    <3> HIDE DEF d
    <3>3. MapOfEscape(d)
      BY <3>2, SMT DEF MapOfEscape, AllMaps, ONEBYTE, MAP_0F, XOP_0A
    <3>4. Ready(d) /\ OpcodeCopied(d)
      BY <2>1, <2>2, <3>1, <3>2, <3>3 DEF Ready
    <3> QED
      BY <1>4, <2>5, <3>4 DEF d
  <2>6. \/ \E flag : To([Fetched EXCEPT !.osize = GetOsize(ctx, flag)], {"Z"})
        \/ \E flags : To(Fetched, flags)
        \/ \E flags : To(GetModRM(Fetched), flags)
    <3> HIDE DEF To, Fetched, GetModRM, FlagsOfUnary, GetOsize
    <3> QED
      BY <1>6, SMT DEF OneByteOpcode
  <2> QED
    BY <2>3, <2>4, <2>5, <2>6
<1>7. CASE TwoByteOpcode
  <2> DEFINE c == Opcode0F(Fetched, 2, 1)
             d == Opcode0F(Fetched, 3, 3)
             e == [c EXCEPT !.osize = GetOsize(ctx, "F64")]
  <2>1. ctx.table = MAP_0F
    BY <1>7 DEF TwoByteOpcode, AtOpcode
  <2>2. c \in Context /\ Ready(c) /\ Copied(c, 2, 1) /\ Ready(d) /\ Copied(d, 3, 3)
    BY <1>2, <1>3, FetchedTyped, ReadyWithCopy, SMT
  <2>3. \/ \E flags : To(e, flags) /\ Byte(i) # 120
        \/ \E flags : To(d, flags) /\ Byte(i) = 120
        \/ \E flags : To(c, flags) /\ Byte(i) # 120
    <3> HIDE DEF To, Fetched, Opcode0F, GetOsize
    <3> QED
      BY <1>2, <1>7, SMT DEF TwoByteOpcode
  <2> HIDE DEF c, d
  <2>4. Ready(e) /\ e.opcode_size = c.opcode_size /\ e.pos_opcode = c.pos_opcode
    BY <2>2, ReadyWithOsize
  <2> HIDE DEF e
  <2>5. Copied(e, 2, 1)
    BY <2>2, <2>4 DEF Copied
  <2>6. \A x : Ready(x) /\ (IF Byte(i) = 120 THEN Copied(x, 3, 3) ELSE Copied(x, 2, 1)) => OpcodeCopied(x)
    BY <1>5, <2>1 DEF OpcodeCopied
  <2> QED
    BY <1>4, <2>2, <2>3, <2>4, <2>5, <2>6
<1>8. CASE XopOpcode
  <2> DEFINE c == Opcode0F(Fetched, 3, 2)
  <2>1. ctx.table = XOP_0A /\ \E flags : To(c, flags)
    BY <1>8 DEF XopOpcode, AtOpcode
  <2>2. Ready(c) /\ Copied(c, 3, 2)
    BY <1>2, <1>3, ReadyWithCopy
  <2> HIDE DEF c
  <2>3. OpcodeCopied(c)
    BY <1>5, <2>1, <2>2, SMT DEF OpcodeCopied, XOP_0A, MAP_0F
  <2> QED
    BY <1>4, <2>1, <2>2, <2>3
<1>9. CASE OtherOpcode
  <2>1. ctx.table \notin {MAP_0F, XOP_0A} /\ \E flags : To(Fetched, flags)
    BY <1>9, SMT DEF OtherOpcode, AtOpcode, MAP_0F, MAP_0F38, MAP_0F3A, XOP_08, XOP_09, XOP_0A
  <2>2. OpcodeCopied(Fetched)
    BY <1>2, <1>5, <2>1 DEF OpcodeCopied
  <2> QED
    BY <1>2, <1>4, <2>1, <2>2
<1> QED
  BY <1>6, <1>7, <1>8, <1>9

LEMMA GetSibPositions ==
  ASSUME TypeOK, NEW c \in Context, PartsFound(c), NoAddress(c), c.pos = End(c), "modrm" \in c.present
  PROVE  LET d == GetSib(c)
         IN  /\ PartsFound(d) /\ d.disp_size = 0 /\ d.pos = End(d) /\ "modrm" \in d.present
             /\ c.present \subseteq d.present /\ d.table = c.table
             /\ d.opcode_size = c.opcode_size /\ d.pos_opcode = c.pos_opcode
<1> DEFINE d == GetSib(c)
<1>1. c.pos = i + 2 /\ i \in Nat
  BY SMT DEF End, Has, NoAddress, TypeOK
<1>2. /\ d.present = c.present \cup {"sib"} /\ d.pos_sib = (i + 2) % PosMod
      /\ d.sib = Byte(i + 2) /\ d.pos = i + 3 /\ d.disp_size = c.disp_size /\ d.table = c.table
      /\ d.pos_modrm = c.pos_modrm /\ d.modrm = c.modrm
      /\ d.opcode_size = c.opcode_size /\ d.pos_opcode = c.pos_opcode
  BY <1>1, SMT DEF GetSib, Seen, Context, NoAddress
<1> HIDE DEF d
<1>3. PartsFound(d) /\ d.pos = End(d)
  BY <1>1, <1>2, SMT DEF NoAddress, PartsFound, End, Has
<1> QED
  BY <1>2, <1>3 DEF d, NoAddress

LEMMA DisplacedPositions ==
  ASSUME TypeOK, NEW c \in Context, NEW size \in {0, 1, 4},
         PartsFound(c), c.disp_size = 0, c.pos = End(c), "modrm" \in c.present
  PROVE  LET d == Displaced(c, size)
         IN  /\ PartsFound(d) /\ d.pos = End(d) /\ d.present = c.present /\ d.table = c.table
             /\ d.opcode_size = c.opcode_size /\ d.pos_opcode = c.pos_opcode
<1> DEFINE d == Displaced(c, size)
<1>1. CASE size = 0
  BY <1>1 DEF Displaced
<1>2. CASE size # 0
  <2>1. c.pos = i + 2 + Has("sib", c) /\ i \in Nat
    BY SMT DEF End, Has, TypeOK
  <2>2. /\ d.present = c.present /\ d.pos_disp = c.pos % PosMod /\ d.pos = c.pos + size
        /\ d.disp_size = size /\ d.table = c.table
        /\ d.pos_modrm = c.pos_modrm /\ d.modrm = c.modrm /\ d.pos_sib = c.pos_sib /\ d.sib = c.sib
        /\ d.opcode_size = c.opcode_size /\ d.pos_opcode = c.pos_opcode
    BY <1>2, SMT DEF Displaced, Context
  <2> HIDE DEF d
  <2>3. PartsFound(d)
    BY <2>1, <2>2 DEF PartsFound, Has
  <2>4. d.pos = End(d)
    BY <2>1, <2>2, SMT DEF End, Has
  <2> QED
    BY <2>2, <2>3, <2>4 DEF d
<1> QED
  BY <1>1, <1>2

LEMMA DecodeModRMPositions ==
  ASSUME TypeOK, NEW c \in Context, PartsFound(c), NoAddress(c), c.pos = End(c), "modrm" \in c.present
  PROVE  LET d == DecodeModRM(c)
         IN  /\ PartsFound(d) /\ d.pos = End(d) /\ c.present \subseteq d.present
             /\ d.table = c.table /\ d.opcode_size = c.opcode_size /\ d.pos_opcode = c.pos_opcode
<1> DEFINE s == IF Rm(c.modrm) = 4 THEN GetSib(c) ELSE c
<1>1. DecodeModRM(c) = c \/ DecodeModRM(c) = Displaced(s, DispSize(s))
  BY DEF DecodeModRM
<1>2. s \in Context
  BY GetSibTyped
<1>3. /\ PartsFound(s) /\ s.disp_size = 0 /\ s.pos = End(s) /\ "modrm" \in s.present
      /\ c.present \subseteq s.present /\ s.table = c.table
      /\ s.opcode_size = c.opcode_size /\ s.pos_opcode = c.pos_opcode
  BY GetSibPositions DEF NoAddress
<1> HIDE DEF s
<1>4. DispSize(s) \in {0, 1, 4}
  BY DispSizeType
<1>5. LET d == Displaced(s, DispSize(s))
      IN  /\ PartsFound(d) /\ d.pos = End(d) /\ d.present = s.present /\ d.table = s.table
          /\ d.opcode_size = s.opcode_size /\ d.pos_opcode = s.pos_opcode
  BY <1>2, <1>3, <1>4, DisplacedPositions
<1> QED
  BY <1>1, <1>3, <1>5

(* A context of the same map with the same opcode copied *)
LEMMA SameOpcode ==
  ASSUME NEW c, NEW d, MapOfEscape(c), OpcodeCopied(c), c.present \subseteq d.present,
         d.table = c.table, d.opcode_size = c.opcode_size, d.pos_opcode = c.pos_opcode
  PROVE  MapOfEscape(d) /\ OpcodeCopied(d)
BY Zenon DEF MapOfEscape, OpcodeCopied, Copied

LEMMA AddressPositions ==
  ASSUME TypeOK, PositionInv, Sizes \/ FlagModRM \/ FlagImmediate
  PROVE  PositionInv'
<1>1. ctx \in Context /\ i \in Nat
  BY DEF TypeOK
<1>2. CASE Sizes
  <2>1. OpcodeFound(ctx) /\ MapOfEscape(ctx)
    BY <1>2 DEF Sizes, PositionInv
  <2>2. /\ ctx'.pos = ctx.pos /\ ctx'.pos_opcode = ctx.pos_opcode /\ ctx'.table = ctx.table
        /\ ctx'.present = ctx.present /\ ctx'.disp_size = ctx.disp_size
        /\ ctx'.opcode_size = ctx.opcode_size
    BY <1>1, <1>2, SMT DEF Sizes, Context
  <2>3. ip' = ip /\ i' = i /\ at' = "opcode"
    BY <1>2 DEF Sizes
  <2>4. OpcodeFound(ctx)' /\ MapOfEscape(ctx)'
    BY <2>1, <2>2, <2>3 DEF OpcodeFound, MapOfEscape, NothingBehind, NoAddress, Byte
  <2> QED
    BY <2>3, <2>4 DEF PositionInv
<1>3. CASE FlagModRM
  <2>1. Read(ctx) /\ ctx.pos = End(ctx) /\ NoAddress(ctx)
    BY <1>3 DEF FlagModRM, PositionInv
  <2>2. ip' = ip /\ i' = i /\ at' = "immediate"
    BY <1>3 DEF FlagModRM
  <2>3. ASSUME NEW c, ctx' = c, Read(c), c.pos = End(c) PROVE PositionInv'
    <3>1. Read(ctx)' /\ (ctx.pos = End(ctx))'
      BY <2>2, <2>3 DEF Read, MapOfEscape, OpcodeCopied, Copied, PartsFound, End, Has, Byte
    <3> QED
      BY <2>2, <3>1 DEF PositionInv
  <2>4. CASE "modrm" \in follow
    <3> DEFINE g == GetModRM(ctx)
               d == DecodeModRM(g)
    <3>1. ctx' = d
      BY <1>3, <2>4 DEF FlagModRM
    <3>2. /\ PartsFound(g) /\ NoAddress(g) /\ g.pos = End(g) /\ "modrm" \in g.present
          /\ ctx.present \subseteq g.present /\ g.table = ctx.table
          /\ g.opcode_size = ctx.opcode_size /\ g.pos_opcode = ctx.pos_opcode
      BY <1>1, <2>1, GetModRMPositions DEF Read
    <3>3. g \in Context
      BY <1>1, GetModRMTyped
    <3> HIDE DEF g
    <3>4. /\ PartsFound(d) /\ d.pos = End(d) /\ g.present \subseteq d.present
          /\ d.table = g.table /\ d.opcode_size = g.opcode_size /\ d.pos_opcode = g.pos_opcode
      BY <3>2, <3>3, DecodeModRMPositions
    <3> HIDE DEF d
    <3>5. MapOfEscape(g) /\ OpcodeCopied(g)
      BY <2>1, <3>2, SameOpcode DEF Read
    <3>6. MapOfEscape(d) /\ OpcodeCopied(d)
      BY <3>4, <3>5, SameOpcode
    <3> QED
      BY <2>3, <3>1, <3>4, <3>6 DEF Read
  <2>5. CASE "modrm" \notin follow
    BY <1>3, <2>1, <2>3, <2>5 DEF FlagModRM
  <2> QED
    BY <2>4, <2>5
<1>4. CASE FlagImmediate
  <2>1. Read(ctx) /\ ctx.pos = End(ctx)
    BY <1>4 DEF FlagImmediate, PositionInv
  <2>2. ip' = ip /\ i' = i /\ at' = "done" /\ len' = ctx.pos + ImmediateBytes
    BY <1>4 DEF FlagImmediate
  <2>3. /\ ctx'.pos_opcode = ctx.pos_opcode /\ ctx'.table = ctx.table
        /\ ctx'.present = ctx.present /\ ctx'.disp_size = ctx.disp_size
        /\ ctx'.opcode_size = ctx.opcode_size /\ ctx'.pos_modrm = ctx.pos_modrm
        /\ ctx'.pos_sib = ctx.pos_sib /\ ctx'.pos_disp = ctx.pos_disp
        /\ ctx'.modrm = ctx.modrm /\ ctx'.sib = ctx.sib
    BY <1>1, <1>4, SMT DEF FlagImmediate, Context
  <2>4. Read(ctx)'
    BY <2>1, <2>2, <2>3 DEF Read, MapOfEscape, OpcodeCopied, Copied, PartsFound, Has, Byte
  <2>5. End(ctx)' = End(ctx)
    BY <2>2, <2>3 DEF End, Has
  <2>6. len' >= End(ctx)
    <3>1. ctx.pos \in Nat /\ ImmediateBytes \in Nat
      BY <1>1, FieldTypes, ImmediateType
    <3> QED
      BY <2>1, <2>2, <3>1, SMT
  <2> QED
    BY <2>2, <2>4, <2>5, <2>6 DEF PositionInv
<1> QED
  BY <1>2, <1>3, <1>4

LEMMA NextPositions == TypeOK /\ PositionInv /\ [Next]_vars => PositionInv'
<1> SUFFICES ASSUME TypeOK, PositionInv, [Next]_vars PROVE PositionInv'
  OBVIOUS
<1>1. CASE UNCHANGED vars
  BY <1>1 DEF vars, PositionInv, Read, MapOfEscape, OpcodeCopied, Copied, PartsFound, End, Has, Byte,
              OpcodeFound, NothingBehind, NoAddress
<1> QED
  BY <1>1, PrefixPositions, EscapePositions, OpcodePositions, AddressPositions
     DEF Next, DecodePrefix, DecodeInstruction

LEMMA DonePositions ==
  ASSUME TypeOK, PositionInv, at = "done"
  PROVE  /\ Read(ctx) /\ len >= End(ctx) /\ i \in Nat /\ len \in Nat
         /\ ctx.disp_size \in {0, 1, 4} /\ ctx.opcode_size \in 1 .. 3 /\ End(ctx) \in Nat /\ End(ctx) >= i + 1
<1>1. /\ Read(ctx) /\ len >= End(ctx) /\ i \in Nat /\ len \in Nat /\ ctx \in Context
  BY DEF TypeOK, PositionInv
<1>2. ctx.disp_size \in {0, 1, 4} /\ ctx.opcode_size \in 1 .. 3
  BY <1>1, FieldTypes
<1>3. End(ctx) \in Nat /\ End(ctx) >= i + 1
  BY <1>1, <1>2, SMT DEF End, Has
<1> QED
  BY <1>1, <1>2, <1>3

LEMMA PositionsFound == TypeOK /\ PositionInv => PositionsExact
<1> SUFFICES ASSUME TypeOK, PositionInv, at = "done", len < PosMod
             PROVE  /\ "modrm" \in ctx.present => ctx.pos_modrm = i + 1 /\ ctx.modrm = Byte(i + 1)
                    /\ "sib" \in ctx.present => ctx.pos_sib = i + 2 /\ ctx.sib = Byte(i + 2)
                    /\ ctx.disp_size > 0 =>
                         ctx.pos_disp = i + 2 + (IF "sib" \in ctx.present THEN 1 ELSE 0)
  BY DEF PositionsExact
<1>1. /\ PartsFound(ctx) /\ len >= End(ctx) /\ i \in Nat /\ len \in Nat
      /\ ctx.disp_size \in {0, 1, 4}
  BY DonePositions DEF Read
<1>2. \A k \in Nat : k < len => k % PosMod = k
  <2> SUFFICES ASSUME NEW k \in Nat, k < len PROVE k % PosMod = k
    OBVIOUS
  <2>1. k \in 0 .. PosMod - 1
    BY <1>1, LimitAssumption, SMT
  <2> QED
    BY <2>1, ModBelow
<1>3. CASE "modrm" \in ctx.present
  <2>1. i + 1 \in Nat /\ i + 1 < len
    BY <1>1, <1>3, SMT DEF End, Has
  <2>2. (i + 1) % PosMod = i + 1
    BY <1>2, <2>1
  <2>3. "sib" \in ctx.present => ctx.pos_sib = i + 2 /\ ctx.sib = Byte(i + 2)
    <3> SUFFICES ASSUME "sib" \in ctx.present PROVE ctx.pos_sib = i + 2 /\ ctx.sib = Byte(i + 2)
      OBVIOUS
    <3>1. i + 2 \in Nat /\ i + 2 < len
      BY <1>1, <1>3, SMT DEF End, Has
    <3>2. (i + 2) % PosMod = i + 2
      BY <1>2, <3>1
    <3> QED
      BY <1>1, <3>2 DEF PartsFound
  <2>4. ctx.disp_size > 0 => ctx.pos_disp = i + 2 + Has("sib", ctx)
    <3> SUFFICES ASSUME ctx.disp_size > 0 PROVE ctx.pos_disp = i + 2 + Has("sib", ctx)
      OBVIOUS
    <3>1. i + 2 + Has("sib", ctx) \in Nat /\ i + 2 + Has("sib", ctx) < len
      BY <1>1, <1>3, SMT DEF End, Has
    <3>2. (i + 2 + Has("sib", ctx)) % PosMod = i + 2 + Has("sib", ctx)
      BY <1>2, <3>1
    <3> QED
      BY <1>1, <3>2 DEF PartsFound
  <2> QED
    BY <1>1, <1>3, <2>2, <2>3, <2>4 DEF PartsFound, Has
<1>4. CASE "modrm" \notin ctx.present
  BY <1>1, <1>4 DEF PartsFound
<1> QED
  BY <1>3, <1>4

(* An instruction of at most 15 bytes: the ModRM byte, the SIB byte and    *)
(* the displacement are where the context says, for every input and        *)
(* whatever was decoded before (Decoder.cpp:10-29, 205-206).               *)
THEOREM PositionsSound == Spec => []PositionsExact
BY InitTyped, InitPositions, NextTyped, NextPositions, PositionsFound, PTL DEF Spec
-----------------------------------------------------------------------------
(* The opcode that Run copies *)

(* Going back from a position: below zero it wraps to the end *)
LEMMA ModOfLarge ==
  ASSUME NEW n \in Nat, n >= PosMod
  PROVE  n % PosMod <= n - PosMod
<1> DEFINE q == n \div PosMod
           r == n % PosMod
<1>1. q \in Nat /\ r \in 0 .. PosMod - 1 /\ n = (PosMod * q) + r
  BY LimitAssumption, SMT
<1> HIDE DEF q, r
<1>2. q # 0
  BY <1>1, LimitAssumption, SMT
<1>3. PosMod * q >= PosMod
  BY <1>1, <1>2, LimitAssumption, SMT
<1>4. r <= n - PosMod
  BY <1>1, <1>3, LimitAssumption, SMT
<1> QED
  BY <1>4 DEF r

LEMMA Back ==
  ASSUME NEW n \in Nat, NEW back \in 1 .. 3, n >= back
  PROVE  /\ ((n % PosMod) - back) % PosMod <= n - back
         /\ n < PosMod => ((n % PosMod) - back) % PosMod = n - back
<1> DEFINE r == n % PosMod
<1>1. r \in 0 .. PosMod - 1 /\ r <= n
  BY ModOfNatural
<1>2. n < PosMod => r = n
  <2>1. n < PosMod => n \in 0 .. PosMod - 1
    BY LimitAssumption, SMT
  <2> QED
    BY <2>1, ModBelow
<1>3. n >= PosMod => r <= n - PosMod
  BY ModOfLarge
<1> SUFFICES /\ (r - back) % PosMod <= n - back
             /\ n < PosMod => (r - back) % PosMod = n - back
  OBVIOUS
<1> HIDE DEF r
<1>4. CASE r >= back
  <2>1. r - back \in 0 .. PosMod - 1
    BY <1>1, <1>4, LimitAssumption, SMT
  <2>2. (r - back) % PosMod = r - back
    BY <2>1, ModBelow
  <2>3. r - back <= n - back
    BY <1>1, SMT
  <2> QED
    BY <1>2, <2>2, <2>3
<1>5. CASE r < back
  <2>1. n >= PosMod
    BY <1>2, <1>5, LimitAssumption, SMT
  <2>2. r - back \in 1 - PosMod .. -1
    BY <1>1, <1>5, LimitAssumption, SMT
  <2>3. (r - back) % PosMod = r - back + PosMod
    BY <2>2, ModOfNegative
  <2>4. r - back + PosMod <= n - back /\ ~(n < PosMod)
    BY <1>1, <1>3, <2>1, LimitAssumption, SMT
  <2> QED
    BY <2>3, <2>4
<1> QED
  BY <1>1, <1>4, <1>5, SMT

LEMMA OpcodeIsInside == TypeOK /\ PositionInv => OpcodeInside
<1> SUFFICES ASSUME TypeOK, PositionInv, at = "done"
             PROVE  IF ctx.table = MAP_0F /\ Byte(i) = 120
                    THEN i < 3 => ctx.pos_opcode >= PosMod - 2
                    ELSE /\ ctx.pos_opcode + ctx.opcode_size <= len
                         /\ len < PosMod => ctx.pos_opcode + ctx.opcode_size = i + 1
  BY DEF OpcodeInside
<1>1. /\ MapOfEscape(ctx) /\ OpcodeCopied(ctx) /\ i \in Nat /\ len \in Nat /\ len >= i + 1
  <2>1. /\ Read(ctx) /\ len >= End(ctx) /\ i \in Nat /\ len \in Nat /\ End(ctx) \in Nat
        /\ End(ctx) >= i + 1
    BY DonePositions
  <2> HIDE DEF End
  <2> QED
    BY <2>1, SMT DEF Read
<1>2. CASE ctx.table = MAP_0F /\ Byte(i) = 120
  <2> SUFFICES ASSUME i < 3 PROVE ctx.pos_opcode >= PosMod - 2
    BY <1>2
  <2>1. i \in 1 .. 2 /\ i \in 0 .. PosMod - 1 /\ i - 3 \in 1 - PosMod .. -1
    BY <1>1, <1>2, LimitAssumption, SMT DEF MapOfEscape
  <2>2. ctx.pos_opcode = ((i % PosMod) - 3) % PosMod
    BY <1>1, <1>2 DEF OpcodeCopied, Copied
  <2>3. i % PosMod = i
    BY <2>1, ModBelow
  <2>4. (i - 3) % PosMod = i - 3 + PosMod
    BY <2>1, ModOfNegative
  <2>5. ctx.pos_opcode = i - 3 + PosMod
    BY <2>2, <2>3, <2>4
  <2> QED
    BY <2>1, <2>5, LimitAssumption, SMT
<1>3. ASSUME NEW back \in 1 .. 2, Copied(ctx, back + 1, back), i >= back
      PROVE  /\ ctx.pos_opcode + ctx.opcode_size <= len
             /\ len < PosMod => ctx.pos_opcode + ctx.opcode_size = i + 1
  <2> DEFINE p == ((i % PosMod) - back) % PosMod
  <2>1. ctx.pos_opcode = p /\ ctx.opcode_size = back + 1
    BY <1>3 DEF Copied
  <2>2. back \in 1 .. 3
    BY SMT
  <2>3. p <= i - back /\ (i < PosMod => p = i - back)
    BY <1>1, <1>3, <2>2, Back
  <2>4. p \in Int
    <3>1. ctx.pos_opcode \in Position
      BY FieldTypes DEF TypeOK
    <3> QED
      BY <2>1, <3>1, LimitAssumption, SMT DEF Position
  <2> HIDE DEF p
  <2> QED
    BY <1>1, <2>1, <2>3, <2>4, LimitAssumption, SMT
<1>4. CASE ctx.table = MAP_0F /\ Byte(i) # 120
  <2>1. Copied(ctx, 1 + 1, 1) /\ i >= 1
    BY <1>1, <1>4 DEF OpcodeCopied, MapOfEscape
  <2>2. 1 \in 1 .. 2
    BY SMT
  <2> QED
    BY <1>3, <1>4, <2>1, <2>2
<1>5. CASE ctx.table = XOP_0A
  <2>1. ctx.table # MAP_0F
    BY <1>5, SMT DEF XOP_0A, MAP_0F
  <2>2. Copied(ctx, 2 + 1, 2)
    BY <1>1, <1>5, <2>1, SMT DEF OpcodeCopied
  <2>3. 2 \in 1 .. 2 /\ i >= 2
    BY <1>1, <1>5, SMT DEF MapOfEscape
  <2> QED
    BY <1>3, <2>1, <2>2, <2>3
<1>6. CASE ctx.table \notin {MAP_0F, XOP_0A}
  <2>1. ctx.opcode_size = 1 /\ ctx.pos_opcode = i % PosMod
    BY <1>1, <1>6 DEF OpcodeCopied
  <2>2. i % PosMod \in 0 .. PosMod - 1 /\ i % PosMod <= i
    BY <1>1, ModOfNatural
  <2>3. len < PosMod => i \in 0 .. PosMod - 1
    BY <1>1, LimitAssumption, SMT
  <2>4. len < PosMod => i % PosMod = i
    BY <2>3, ModBelow
  <2> QED
    BY <1>1, <1>6, <2>1, <2>2, <2>4, LimitAssumption, SMT
<1> QED
  BY <1>2, <1>4, <1>5, <1>6

(* Run copies an opcode from inside the instruction, up to its last byte,  *)
(* for every input; the exception, 0F 78, is always outside when fewer     *)
(* than two bytes stand before it (Decoder.cpp:666-678, 692-695).          *)
THEOREM CopySound == Spec => []OpcodeInside
BY InitTyped, InitPositions, NextTyped, NextPositions, OpcodeIsInside, PTL DEF Spec

(* The numbers of the switch have no first byte but 0F *)
LEMMA CasesAreOneOrTwoBytes ==
  \A v \in Cases : v < 256 \/ v \in 3840 .. 4095
BY SMT DEF Cases, ModRMCases, SYSCALL_0F05, MOVZX_0FB6

LEMMA DispatchIsSound == TypeOK /\ PositionInv => DispatchSound
<1> SUFFICES ASSUME TypeOK, PositionInv, at = "done", len < PosMod,
                    ~(ctx.table = MAP_0F /\ Byte(i) = 120), Switch \in Cases
             PROVE  \/ ctx.table = ONEBYTE /\ Switch = Byte(i)
                    \/ ctx.table = MAP_0F /\ Switch = 256 * ESCAPE + Byte(i) /\ Byte(i - 1) = ESCAPE
                    \/ VexPayloadIs0 /\ Switch = Byte(i)
                    \/ ctx.table \in HiddenMaps /\ Switch = Byte(i)
  BY DEF DispatchSound
<1>1. /\ MapOfEscape(ctx) /\ OpcodeCopied(ctx) /\ i \in Nat /\ len >= i + 1 /\ len \in Nat
  <2>1. /\ Read(ctx) /\ len >= End(ctx) /\ i \in Nat /\ len \in Nat /\ End(ctx) \in Nat
        /\ End(ctx) >= i + 1
    BY DonePositions
  <2> HIDE DEF End
  <2> QED
    BY <2>1, SMT DEF Read
<1>2. i < PosMod /\ i \in 0 .. PosMod - 1
  BY <1>1, LimitAssumption, SMT
<1>3. Switch < 256 \/ Switch \in 3840 .. 4095
  BY CasesAreOneOrTwoBytes
<1>4. Byte(i) \in 0 .. 255
  BY <1>1, ByteType DEF TypeOK
<1>5. CASE ctx.table \notin {MAP_0F, XOP_0A}
  <2>1. ctx.opcode_size = 1 /\ ctx.pos_opcode = i
    BY <1>1, <1>2, <1>5, ModBelow DEF OpcodeCopied
  <2>2. Switch = Byte(i)
    BY <2>1 DEF Switch
  <2> QED
    BY <1>1, <1>5, <2>2 DEF MapOfEscape, AllMaps
<1>6. CASE ctx.table = MAP_0F
  <2>1. i >= 1 /\ (Byte(i - 1) = ESCAPE \/ ctx.present \cap {"vex2b", "vex3b"} # {})
    BY <1>1, <1>6 DEF MapOfEscape
  <2>2. ctx.opcode_size = 2 /\ ctx.pos_opcode = i - 1
    <3>1. Copied(ctx, 2, 1)
      BY <1>1, <1>6 DEF OpcodeCopied
    <3>2. 1 \in 1 .. 3
      BY SMT
    <3> QED
      BY <1>1, <1>2, <2>1, <3>1, <3>2, Back DEF Copied
  <2>3. (i - 1) + 1 = i /\ i - 1 \in Nat
    BY <1>1, <2>1, SMT
  <2>4. Switch = 256 * Byte(i - 1) + Byte(i)
    BY <2>2, <2>3, SMT DEF Switch
  <2>5. Byte(i - 1) \in 0 .. 255
    BY <2>3, ByteType DEF TypeOK
  <2>6. Byte(i - 1) \in {0, ESCAPE}
    <3> DEFINE a == Byte(i - 1)
               b == Byte(i)
               v == Switch
    <3>1. a \in 0 .. 255 /\ b \in 0 .. 255 /\ v = 256 * a + b /\ (v < 256 \/ v \in 3840 .. 4095)
      BY <1>3, <1>4, <2>4, <2>5
    <3> HIDE DEF a, b, v
    <3>2. a \in {0, ESCAPE}
      BY <3>1, SMT DEF ESCAPE
    <3> QED
      BY <3>2 DEF a
  <2>7. CASE Byte(i - 1) = ESCAPE
    BY <1>6, <2>4, <2>7
  <2>8. CASE Byte(i - 1) = 0
    <3>1. Switch = Byte(i)
      BY <1>4, <2>4, <2>8, SMT
    <3>2. VexPayloadIs0
      BY <1>6, <2>1, <2>8, SMT DEF VexPayloadIs0, ESCAPE
    <3> QED
      BY <3>1, <3>2
  <2> QED
    BY <2>6, <2>7, <2>8
<1>7. CASE ctx.table = XOP_0A
  <2>1. ctx.table # MAP_0F
    BY <1>7, SMT DEF XOP_0A, MAP_0F
  <2>2. i >= 3 /\ Mmmmm(Byte(i - 2)) \in 8 .. 10
    BY <1>1, <1>7 DEF MapOfEscape
  <2>3. ctx.opcode_size = 3 /\ ctx.pos_opcode = i - 2
    <3>1. Copied(ctx, 3, 2)
      BY <1>1, <1>7, <2>1 DEF OpcodeCopied
    <3>2. 2 \in 1 .. 3 /\ i >= 2
      BY <1>1, <2>2, SMT
    <3> QED
      BY <1>1, <1>2, <3>1, <3>2, Back DEF Copied
  <2>4. i - 2 \in Nat /\ i - 2 + 1 \in Nat /\ i - 2 + 2 \in Nat
    BY <1>1, <2>2, SMT
  <2>5. Byte(i - 2) \in 0 .. 255 /\ Byte(i - 2 + 1) \in 0 .. 255 /\ Byte(i - 2 + 2) \in 0 .. 255
    BY <2>4, ByteType DEF TypeOK
  <2>6. Byte(i - 2) >= 8
    <3>1. Mmmmm(Byte(i - 2)) <= Byte(i - 2)
      BY <2>5, BitFields
    <3> QED
      BY <2>2, <2>5, <3>1, SMT
  <2>7. Switch = 65536 * Byte(i - 2) + 256 * Byte(i - 2 + 1) + Byte(i - 2 + 2)
    BY <2>3, SMT DEF Switch
  <2>8. ~(Switch < 256 \/ Switch \in 3840 .. 4095)
    <3> DEFINE a == Byte(i - 2)
               b == Byte(i - 2 + 1)
               c == Byte(i - 2 + 2)
               v == Switch
    <3>1. /\ a \in 0 .. 255 /\ b \in 0 .. 255 /\ c \in 0 .. 255 /\ a >= 8
          /\ v = 65536 * a + 256 * b + c
      BY <2>5, <2>6, <2>7
    <3> HIDE DEF a, b, c, v
    <3>2. ~(v < 256 \/ v \in 3840 .. 4095)
      BY <3>1, SMT
    <3> QED
      BY <3>2 DEF v
  <2> QED
    BY <1>3, <2>8
<1> QED
  BY <1>5, <1>6, <1>7

(* What Run executes is what was decoded, for every input, with the two    *)
(* exceptions the property names and no other (Decoder.cpp:660-703,        *)
(* Emulator.cpp:120-127).                                                  *)
THEOREM DispatchCorrect == Spec => []DispatchSound
BY InitTyped, InitPositions, NextTyped, NextPositions, DispatchIsSound, PTL DEF Spec
-----------------------------------------------------------------------------
(* A handler's ModRM byte.  Where the flags of an opcode of Run's switch   *)
(* ask for the byte, the decoder has read it before it is done.            *)

NeedsModRM ==
  \/ ctx.table = ONEBYTE /\ Byte(i) \in ArchModRM
  \/ ctx.table = MAP_0F /\ Byte(i) = MOVZX_0FB6 % 256

ModRMInv ==
  /\ at = "modrm" /\ NeedsModRM => "modrm" \in follow \cup ctx.present
  /\ at \in {"immediate", "done"} /\ NeedsModRM => "modrm" \in ctx.present

Replaced == {232, 233, 194, 202, 200, 104, 234, 154} \cup 184 .. 191 \cup 160 .. 163

LEMMA ArchModRMOpcodes ==
  /\ ArchModRM \cap Replaced = {} /\ ArchModRM \subseteq 0 .. 255 \ {EVEX}
  /\ MOVZX_0FB6 % 256 = 182
BY SMT DEF ArchModRM, MOVZX_0FB6, Replaced, EVEX

(* the flags of a one-byte opcode are replaced, or depend on its ModRM     *)
(* byte, or are those of the table                                         *)
LEMMA OneByteCases ==
  ASSUME OneByteOpcode
  PROVE  \/ Opcode \in Replaced
         \/ /\ Opcode \in {246, 247}
            /\ To(GetModRM(Fetched), FlagsOfUnary(Opcode, RegField(GetModRM(Fetched).modrm)))
         \/ Opcode \notin {246, 247} /\ To(Fetched, TableFlags(ONEBYTE, Opcode))
<1> HIDE DEF To, Fetched, GetModRM, FlagsOfUnary, GetOsize
<1> QED
  BY SMT DEF OneByteOpcode, Replaced

LEMMA OpcodeKeepsTable ==
  ASSUME TypeOK, OneByteOpcode \/ TwoByteOpcode \/ XopOpcode \/ OtherOpcode
  PROVE  ctx'.table = ctx.table /\ ip' = ip /\ i' = i /\ at' = "modrm"
<1>1. Fetched \in Context /\ Fetched.table = ctx.table
  <2>1. Fetched \in Context
    BY FetchedTyped
  <2>2. Fetched.table = ctx.table
    BY SMT DEF Fetched, Context, TypeOK
  <2> QED
    BY <2>1, <2>2
<1>2. \A flags, c : To(c, flags) => ctx' = c /\ ip' = ip /\ i' = i /\ at' = "modrm"
  BY DEF To
<1>3. \A x : [Fetched EXCEPT !.osize = x].table = ctx.table
  BY <1>1, SMT DEF Context
<1>4. GetModRM(Fetched).table = ctx.table
  BY <1>1, SMT DEF GetModRM, Seen, Context
<1>5. \A size, back :
         /\ Opcode0F(Fetched, size, back).table = ctx.table
         /\ \A x : [Opcode0F(Fetched, size, back) EXCEPT !.osize = x].table = ctx.table
  BY <1>1, SMT DEF Opcode0F, Context
<1>6. CASE OneByteOpcode
  <2>1. \/ \E flag, flags : To([Fetched EXCEPT !.osize = GetOsize(ctx, flag)], flags)
        \/ \E flags : To(Fetched, flags)
        \/ \E flags : To(GetModRM(Fetched), flags)
    <3> HIDE DEF To, Fetched, GetModRM, FlagsOfUnary, GetOsize
    <3> QED
      BY <1>6, SMT DEF OneByteOpcode
  <2> QED
    BY <1>1, <1>2, <1>3, <1>4, <2>1
<1>7. CASE TwoByteOpcode
  <2> DEFINE c == Opcode0F(Fetched, 2, 1)
             d == Opcode0F(Fetched, 3, 3)
             e == [c EXCEPT !.osize = GetOsize(ctx, "F64")]
  <2>1. \E flags : To(e, flags) \/ To(d, flags) \/ To(c, flags)
    <3> HIDE DEF To, Fetched, Opcode0F, GetOsize
    <3> QED
      BY <1>7, SMT DEF TwoByteOpcode
  <2>2. c.table = ctx.table /\ d.table = ctx.table /\ e.table = ctx.table
    BY <1>5
  <2> HIDE DEF c, d, e
  <2> QED
    BY <1>2, <2>1, <2>2
<1>8. CASE XopOpcode
  BY <1>2, <1>5, <1>8 DEF XopOpcode
<1>9. CASE OtherOpcode
  BY <1>1, <1>2, <1>9 DEF OtherOpcode
<1> QED
  BY <1>6, <1>7, <1>8, <1>9

LEMMA NextModRM == TypeOK /\ PositionInv /\ ModRMInv /\ [Next]_vars => ModRMInv'
<1> SUFFICES ASSUME TypeOK, PositionInv, ModRMInv, [Next]_vars PROVE ModRMInv'
  OBVIOUS
<1>1. i \in Nat /\ ctx \in Context
  BY DEF TypeOK
<1>2. CASE DecodePrefix \/ Sizes
  <2>1. at' \notin {"modrm", "immediate", "done"}
    BY <1>2 DEF DecodePrefix, RexPrefix, OsizePrefix, SegmentPrefix, AsizeOrLockPrefix, RepPrefix,
                TooLong, EndOfPrefixes, Vex3, Vex2, Evex, Xop, TwoOrThreeByte, OneByte, Sizes,
                AtPrefix, NextByte, IgnoreSegment, Reject, OpcodeAt
  <2> QED
    BY <2>1 DEF ModRMInv
<1>3. CASE OneByteOpcode \/ TwoByteOpcode \/ XopOpcode \/ OtherOpcode
  <2>1. ctx'.table = ctx.table /\ Byte(i)' = Byte(i) /\ at' = "modrm"
    BY <1>3, OpcodeKeepsTable DEF Byte
  <2>2. at = "opcode" /\ Opcode = Byte(i)
    <3>1. at = "opcode"
      BY <1>3 DEF OneByteOpcode, TwoByteOpcode, XopOpcode, OtherOpcode, AtOpcode
    <3> QED
      BY <3>1, FetchedReady
  <2> SUFFICES ASSUME NeedsModRM PROVE "modrm" \in follow' \cup ctx'.present
    BY <2>1 DEF ModRMInv, NeedsModRM
  <2>3. CASE ctx.table = ONEBYTE
    <3>1. Opcode \in ArchModRM
      BY <2>2, <2>3, SMT DEF NeedsModRM, ONEBYTE, MAP_0F
    <3>2. OneByteOpcode
      BY <1>3, <2>3, SMT DEF TwoByteOpcode, XopOpcode, OtherOpcode, AtOpcode, ONEBYTE, MAP_0F, MAP_0F38,
                             MAP_0F3A, XOP_08, XOP_09, XOP_0A
    <3>3. CASE To(GetModRM(Fetched), FlagsOfUnary(Opcode, RegField(GetModRM(Fetched).modrm)))
      <4>1. Fetched \in Context /\ Ready(Fetched)
        BY <2>2, FetchedTyped, FetchedReady
      <4>2. "modrm" \in GetModRM(Fetched).present
        BY <4>1, GetModRMPositions DEF Ready
      <4> QED
        BY <3>3, <4>2 DEF To
    <3>4. CASE To(Fetched, TableFlags(ONEBYTE, Opcode))
      <4>1. "modrm" \in TableFlags(ONEBYTE, Opcode)
        BY <3>1, TableAssumption, ArchModRMOpcodes
      <4> QED
        BY <3>4, <4>1 DEF To
    <3> QED
      BY <3>1, <3>2, <3>3, <3>4, OneByteCases, ArchModRMOpcodes
  <2>4. CASE ctx.table = MAP_0F
    <3>1. Opcode = 182
      BY <2>2, <2>4, ArchModRMOpcodes, SMT DEF NeedsModRM, ONEBYTE, MAP_0F
    <3>2. TwoByteOpcode
      BY <1>3, <2>4, SMT DEF OneByteOpcode, XopOpcode, OtherOpcode, AtOpcode, ONEBYTE, MAP_0F, MAP_0F38,
                             MAP_0F3A, XOP_08, XOP_09, XOP_0A
    <3>3. To(Opcode0F(Fetched, 2, 1), TableFlags(MAP_0F, 182))
      <4> HIDE DEF To, Fetched, Opcode0F, GetOsize
      <4> QED
        BY <3>1, <3>2, SMT DEF TwoByteOpcode
    <3> QED
      BY <3>3, TableAssumption, ArchModRMOpcodes DEF To
  <2> QED
    BY <2>3, <2>4 DEF NeedsModRM
<1>4. CASE FlagModRM
  <2>1. /\ at = "modrm" /\ at' = "immediate" /\ i' = i /\ ip' = ip
        /\ Read(ctx) /\ NoAddress(ctx) /\ ctx.pos = End(ctx)
    BY <1>4 DEF FlagModRM, PositionInv
  <2> DEFINE g == GetModRM(ctx)
             d == DecodeModRM(g)
  <2>2. /\ PartsFound(g) /\ NoAddress(g) /\ g.pos = End(g) /\ "modrm" \in g.present
        /\ ctx.present \subseteq g.present /\ g.table = ctx.table /\ g \in Context
    BY <1>1, <2>1, GetModRMPositions, GetModRMTyped DEF Read
  <2>3. ctx' = IF "modrm" \in follow THEN d ELSE ctx
    BY <1>4 DEF FlagModRM
  <2> HIDE DEF g
  <2>4. g.present \subseteq d.present /\ d.table = g.table
    BY <2>2, DecodeModRMPositions
  <2> HIDE DEF d
  <2>5. ctx'.table = ctx.table /\ ("modrm" \in follow \cup ctx.present => "modrm" \in ctx'.present)
    BY <2>2, <2>3, <2>4
  <2> QED
    BY <2>1, <2>5 DEF ModRMInv, NeedsModRM, Byte
<1>5. CASE FlagImmediate
  <2>1. ctx'.table = ctx.table /\ ctx'.present = ctx.present
    BY <1>1, <1>5, SMT DEF FlagImmediate, Context
  <2> QED
    BY <1>5, <2>1 DEF FlagImmediate, ModRMInv, NeedsModRM, Byte
<1>6. CASE UNCHANGED vars
  BY <1>6 DEF vars, ModRMInv, NeedsModRM, Byte
<1> QED
  BY <1>2, <1>3, <1>4, <1>5, <1>6 DEF Next, DecodeInstruction

LEMMA ModRMOfHandler == TypeOK /\ PositionInv /\ ModRMInv => HandlerHasModRM
<1> SUFFICES ASSUME TypeOK, PositionInv, ModRMInv, at = "done", len < PosMod,
                    Switch \in ModRMCases, "modrm" \notin ctx.present
             PROVE  \/ ctx.table \in HiddenMaps \/ VexPayloadIs0
                    \/ ctx.table = MAP_0F /\ Byte(i) = 120
  BY DEF HandlerHasModRM
<1>1. ~NeedsModRM
  BY DEF ModRMInv
<1>2. Switch \in Cases /\ DispatchSound
  BY DispatchIsSound DEF Cases
<1>3. Byte(i) \in 0 .. 255
  BY ByteType DEF TypeOK
<1>4. CASE ctx.table = ONEBYTE /\ Switch = Byte(i)
  <2>1. \A v \in ModRMCases : v \in 0 .. 255 => v \in ArchModRM
    BY SMT DEF ModRMCases, ArchModRM, MOVZX_0FB6
  <2> QED
    BY <1>1, <1>3, <1>4, <2>1 DEF NeedsModRM
<1>5. CASE ctx.table = MAP_0F /\ Switch = 256 * ESCAPE + Byte(i) /\ Byte(i - 1) = ESCAPE
  <2> DEFINE b == Byte(i)
             v == Switch
  <2>1. b \in 0 .. 255 /\ v = 256 * ESCAPE + b /\ v \in ModRMCases
    BY <1>3, <1>5
  <2> HIDE DEF b, v
  <2>2. b = 182
    BY <2>1, SMT DEF ESCAPE, ModRMCases, MOVZX_0FB6
  <2> QED
    BY <1>1, <1>5, <2>2, ArchModRMOpcodes DEF NeedsModRM, b
<1> QED
  BY <1>2, <1>4, <1>5 DEF DispatchSound

(* A handler finds the ModRM byte of its own instruction, for every input  *)
(* and whatever was decoded before, but for the opcodes the property names *)
(* (Decoder.cpp:721-725, Emulator.cpp:368-414).                            *)
THEOREM HandlerSound == Spec => []HandlerHasModRM
<1>1. Init => ModRMInv
  BY SMT DEF Init, ModRMInv
<1> QED
  BY <1>1, InitTyped, InitPositions, NextTyped, NextPositions, NextModRM, ModRMOfHandler, PTL DEF Spec
-----------------------------------------------------------------------------
(***************************************************************************)
(* The length of an instruction of the one-byte map is that of the         *)
(* architecture.  On the way from the prefixes to the last byte the        *)
(* decoder turns what it has seen into a few facts, each found by one of   *)
(* its functions: which size prefixes were seen (SeenInv); whether W is in *)
(* force, the operand and address sizes, the flags of the opcode, the end  *)
(* of the address (LengthInv).                                             *)
(***************************************************************************)

(* What the architecture makes of the bytes *)
Before(b) == \E k \in 0 .. i - 1 : Byte(k) = b
Plain == ~(\E k \in 0 .. i - 2 : RexBeforeSegments(k, i))
ArchWide == i > 0 /\ IsRex(Byte(i - 1)) /\ Bits(Byte(i - 1), W, 1) = 1
ArchAddressBytes == IF Byte(i) \in ArchModRM THEN ArchAddress(Byte(i + 1), Byte(i + 2)) ELSE 0
ArchImmediateBytes ==
  ArchImmediate(Byte(i), RegField(Byte(i + 1)), ArchWide, Before(PREFIX_OSIZE), Before(PREFIX_ASIZE))

LEMMA ArchLengthParts == ArchLength(i) = i + 1 + ArchAddressBytes + ArchImmediateBytes
BY DEF ArchLength, ArchAddressBytes, ArchImmediateBytes, ArchWide, Before
-----------------------------------------------------------------------------
(* The prefixes *)

PrefixesSeen(c) ==
  /\ "osize" \in c.present <=> Before(PREFIX_OSIZE)
  /\ "asize" \in c.present <=> Before(PREFIX_ASIZE)
  /\ c.present \cap {"vex3b", "xop"} = {}
  /\ "rex" \notin c.present => c.rex = 0

SeenInv == at \in {"prefixes", "escape"} => PrefixesSeen(ctx)

LEMMA InitSeen == Init => SeenInv
<1> SUFFICES ASSUME Init PROVE PrefixesSeen(ctx)
  BY DEF SeenInv
<1>1. PICK c \in Contexts : ctx = DecodeClear(c)
  BY DEF Init
<1>2. c \in Context
  BY ContextAssumption
<1>3. ctx.present = {} /\ ctx.rex = 0
  BY <1>1, <1>2, SMT DEF DecodeClear, Context
<1>4. i = 0
  BY DEF Init
<1>5. ~Before(PREFIX_OSIZE) /\ ~Before(PREFIX_ASIZE)
  BY <1>4, SMT DEF Before
<1> QED
  BY <1>3, <1>5 DEF PrefixesSeen

(* One more byte is behind *)
LEMMA BeforeNext ==
  ASSUME TypeOK, ip' = ip, i' = i + 1, NEW b
  PROVE  Before(b)' <=> Before(b) \/ Byte(i) = b
<1>1. i \in Nat
  BY DEF TypeOK
<1>2. 0 .. (i + 1) - 1 = (0 .. i - 1) \cup {i}
  BY <1>1, SMT
<1> QED
  BY <1>2 DEF Before, Byte

LEMMA PrefixSeen ==
  ASSUME TypeOK, SeenInv, RexPrefix \/ OsizePrefix \/ SegmentPrefix \/ AsizeOrLockPrefix \/ RepPrefix
  PROVE  SeenInv'
<1>1. at = "prefixes" /\ at' = "prefixes" /\ ip' = ip /\ i' = i + 1 /\ ctx \in Context
  BY DEF RexPrefix, OsizePrefix, SegmentPrefix, AsizeOrLockPrefix, RepPrefix, AtPrefix, NextByte,
         IgnoreSegment, TypeOK
<1>2. /\ Before(PREFIX_OSIZE)' <=> Before(PREFIX_OSIZE) \/ Byte(i) = PREFIX_OSIZE
      /\ Before(PREFIX_ASIZE)' <=> Before(PREFIX_ASIZE) \/ Byte(i) = PREFIX_ASIZE
  BY <1>1, BeforeNext
<1>3. PrefixesSeen(ctx)
  BY <1>1 DEF SeenInv
<1> SUFFICES PrefixesSeen(ctx)'
  BY DEF SeenInv
<1>4. ASSUME NEW name \in {"rex", "seg", "lock", "rep", "repne"}, ctx'.present = ctx.present \cup {name},
             Byte(i) \notin {PREFIX_OSIZE, PREFIX_ASIZE}, name = "rex" \/ ctx'.rex = ctx.rex
      PROVE  PrefixesSeen(ctx)'
  BY <1>2, <1>3, <1>4, Zenon DEF PrefixesSeen
<1>5. CASE RexPrefix
  <2>1. ctx'.present = ctx.present \cup {"rex"}
    BY <1>1, <1>5, SMT DEF RexPrefix, NextByte, Seen, Noted, Context
  <2>2. Byte(i) \notin {PREFIX_OSIZE, PREFIX_ASIZE}
    BY <1>5, OtherBytesAreNotRex DEF RexPrefix, AtPrefix, OtherPrefixes
  <2> QED
    BY <1>4, <2>1, <2>2
<1>6. CASE OsizePrefix
  <2>1. ctx'.present = ctx.present \cup {"osize"} /\ ctx'.rex = ctx.rex
    BY <1>1, <1>6, SMT DEF OsizePrefix, NextByte, Seen, Noted, Context
  <2>2. Byte(i) = PREFIX_OSIZE /\ Byte(i) # PREFIX_ASIZE
    BY <1>6, SMT DEF OsizePrefix, AtPrefix, PREFIX_OSIZE, PREFIX_ASIZE
  <2> QED
    BY <1>2, <1>3, <2>1, <2>2, Zenon DEF PrefixesSeen
<1>7. CASE SegmentPrefix
  <2>1. Byte(i) \notin {PREFIX_OSIZE, PREFIX_ASIZE}
    BY <1>7, SMT DEF SegmentPrefix, AtPrefix, IgnoredSegments, Segments, PREFIX_OSIZE, PREFIX_ASIZE
  <2>2. CASE ctx' = ctx
    BY <1>2, <1>3, <2>1, <2>2 DEF PrefixesSeen
  <2>3. CASE ctx' = Seen(Noted(ctx), "seg")
    <3>1. ctx'.present = ctx.present \cup {"seg"} /\ ctx'.rex = ctx.rex
      BY <1>1, <2>3, SMT DEF Seen, Noted, Context
    <3> QED
      BY <1>4, <2>1, <3>1
  <2> QED
    BY <1>7, <2>2, <2>3 DEF SegmentPrefix, IgnoreSegment, NextByte
<1>8. CASE AsizeOrLockPrefix
  <2>1. CASE AtPrefix({PREFIX_ASIZE}) /\ NextByte(Seen(Noted(ctx), "asize"))
    <3>1. ctx'.present = ctx.present \cup {"asize"} /\ ctx'.rex = ctx.rex
      BY <1>1, <2>1, SMT DEF NextByte, Seen, Noted, Context
    <3>2. Byte(i) = PREFIX_ASIZE /\ Byte(i) # PREFIX_OSIZE
      BY <2>1, SMT DEF AtPrefix, PREFIX_OSIZE, PREFIX_ASIZE
    <3> QED
      BY <1>2, <1>3, <3>1, <3>2, Zenon DEF PrefixesSeen
  <2>2. CASE AtPrefix({PREFIX_LOCK}) /\ NextByte(Seen(Noted(ctx), "lock"))
    <3>1. ctx'.present = ctx.present \cup {"lock"} /\ ctx'.rex = ctx.rex
      BY <1>1, <2>2, SMT DEF NextByte, Seen, Noted, Context
    <3>2. Byte(i) \notin {PREFIX_OSIZE, PREFIX_ASIZE}
      BY <2>2, SMT DEF AtPrefix, PREFIX_LOCK, PREFIX_OSIZE, PREFIX_ASIZE
    <3> QED
      BY <1>4, <3>1, <3>2
  <2> QED
    BY <1>8, <2>1, <2>2 DEF AsizeOrLockPrefix
<1>9. CASE RepPrefix
  <2> DEFINE name == IF Byte(i) = PREFIX_REP THEN "rep" ELSE "repne"
  <2>1. ctx'.present = ctx.present \cup {name} /\ ctx'.rex = ctx.rex
    BY <1>1, <1>9, SMT DEF RepPrefix, NextByte, Seen, Noted, Context
  <2>2. Byte(i) \notin {PREFIX_OSIZE, PREFIX_ASIZE}
    BY <1>9, SMT DEF RepPrefix, AtPrefix, PREFIX_REP, PREFIX_REPNE, PREFIX_OSIZE, PREFIX_ASIZE
  <2>3. name \in {"rep", "repne"}
    OBVIOUS
  <2> HIDE DEF name
  <2> QED
    BY <1>4, <2>1, <2>2, <2>3
<1> QED
  BY <1>5, <1>6, <1>7, <1>8, <1>9

LEMMA DropRexFields ==
  ASSUME NEW c \in Context
  PROVE  /\ DropRex(c).present \subseteq c.present
         /\ c.present \subseteq DropRex(c).present \cup {"rex"}
         /\ "rex" \notin c.present => DropRex(c).rex = c.rex \/ DropRex(c).rex = 0
         /\ "rex" \in c.present /\ "rex" \notin DropRex(c).present => DropRex(c).rex = 0
BY SMT DEF DropRex, Context

LEMMA NextSeen == TypeOK /\ SeenInv /\ [Next]_vars => SeenInv'
<1> SUFFICES ASSUME TypeOK, SeenInv, [Next]_vars PROVE SeenInv'
  OBVIOUS
<1>1. CASE RexPrefix \/ OsizePrefix \/ SegmentPrefix \/ AsizeOrLockPrefix \/ RepPrefix
  BY <1>1, PrefixSeen
<1>2. CASE EndOfPrefixes
  <2>1. ctx' = DropRex(ctx) /\ i' = i /\ ip' = ip /\ PrefixesSeen(ctx) /\ ctx \in Context
    BY <1>2 DEF EndOfPrefixes, SeenInv, TypeOK
  <2> DEFINE d == DropRex(ctx)
  <2>2. /\ d.present \subseteq ctx.present /\ ctx.present \subseteq d.present \cup {"rex"}
        /\ "rex" \notin ctx.present => d.rex = ctx.rex \/ d.rex = 0
        /\ "rex" \in ctx.present /\ "rex" \notin d.present => d.rex = 0
    BY <2>1, DropRexFields
  <2> HIDE DEF d
  <2>3. PrefixesSeen(d)
    BY <2>1, <2>2, SMT DEF PrefixesSeen
  <2>4. PrefixesSeen(ctx)'
    BY <2>1, <2>3 DEF PrefixesSeen, Before, Byte, d
  <2> QED
    BY <2>4 DEF SeenInv
<1>3. CASE TooLong \/ Vex3 \/ Vex2 \/ Evex \/ Xop \/ TwoOrThreeByte \/ OneByte \/ Sizes \/ DecodeInstruction
  <2>1. at' \notin {"prefixes", "escape"}
    BY <1>3 DEF TooLong, Vex3, Vex2, Evex, Xop, TwoOrThreeByte, OneByte, Sizes, Reject, OpcodeAt,
                DecodeInstruction, OneByteOpcode, TwoByteOpcode, XopOpcode, OtherOpcode, To,
                FlagModRM, FlagImmediate
  <2> QED
    BY <2>1 DEF SeenInv
<1>4. CASE UNCHANGED vars
  BY <1>4 DEF vars, SeenInv, PrefixesSeen, Before, Byte
<1> QED
  BY <1>1, <1>2, <1>3, <1>4 DEF Next, DecodePrefix
-----------------------------------------------------------------------------
(* Immediates and addresses, of the decoder and of the architecture *)

(* the bytes that flags ask for *)
Immediate(osize, asize, flags) ==
  LET of(flag, bytes) == IF flag \in flags THEN bytes ELSE 0
  IN  of("Z", IF osize = 16 THEN 2 ELSE 4) + of("B", 1) + of("W", 2) + of("D", 4)
        + of("O", Wide(asize)) + of("V", Wide(osize)) + of("AP", Wide(osize) + 2)

LEMMA ImmediateIs == ImmediateBytes = Immediate(ctx.osize, ctx.asize, follow)
BY SMT DEF ImmediateBytes, Immediate, BytesOfFlag

(* What DecodeModRM reads is what the architecture counts *)
LEMMA AddressLength ==
  ASSUME TypeOK, NEW c \in Context, PartsFound(c), NoAddress(c), c.pos = End(c), "modrm" \in c.present
  PROVE  LET d == DecodeModRM(c)
         IN  d.pos = i + 1 + ArchAddress(Byte(i + 1), Byte(i + 2)) /\ d.osize = c.osize /\ d.asize = c.asize
<1> DEFINE s == IF Rm(c.modrm) = 4 THEN GetSib(c) ELSE c
           d == DecodeModRM(c)
<1>1. c.modrm = Byte(i + 1) /\ c.pos = i + 2 /\ i \in Nat /\ c.disp_size = 0
  BY SMT DEF PartsFound, End, Has, NoAddress, TypeOK
<1>2. /\ s \in Context /\ s.modrm = c.modrm /\ s.osize = c.osize /\ s.asize = c.asize
      /\ IF Rm(c.modrm) = 4
         THEN "sib" \in s.present /\ s.sib = Byte(i + 2) /\ s.pos = i + 3
         ELSE "sib" \notin s.present /\ s.pos = i + 2
  <2>1. s \in Context
    BY GetSibTyped
  <2>2. CASE Rm(c.modrm) = 4
    <3> DEFINE g == GetSib(c)
    <3>1. /\ "sib" \in g.present /\ g.sib = Byte(c.pos) /\ g.pos = c.pos + 1 /\ g.modrm = c.modrm
          /\ g.osize = c.osize /\ g.asize = c.asize
      BY SMT DEF GetSib, Seen, NoAddress, Context
    <3> HIDE DEF g
    <3>2. g.sib = Byte(i + 2)
      BY <1>1, <3>1
    <3>3. g.pos = i + 3
      BY <1>1, <3>1, SMT
    <3>4. s = g
      BY <2>2 DEF g
    <3> QED
      BY <2>1, <2>2, <3>1, <3>2, <3>3, <3>4
  <2>3. CASE Rm(c.modrm) # 4
    BY <1>1, <2>3 DEF NoAddress
  <2> QED
    BY <2>1, <2>2, <2>3
<1>3. Mod(c.modrm) \in 0 .. 3
  <2>1. c.modrm \in 0 .. 255
    BY FieldTypes
  <2> QED
    BY <2>1, SMT DEF Mod, Bits
<1>4. CASE Mod(c.modrm) = 3
  BY <1>1, <1>4, SMT DEF DecodeModRM, ArchAddress
<1>5. CASE Mod(c.modrm) # 3
  <2>1. d = Displaced(s, DispSize(s))
    BY <1>5 DEF DecodeModRM
  <2> HIDE DEF s, d
  <2>2. DispSize(s) \in {0, 1, 4}
    BY DispSizeType
  <2> DEFINE size == DispSize(s)
  <2>3. d.pos = s.pos + size /\ d.osize = s.osize /\ d.asize = s.asize
    <3>1. s.pos \in Nat
      BY <1>2, FieldTypes
    <3> HIDE DEF size
    <3>2. Displaced(s, size).pos = s.pos + size /\ Displaced(s, size).osize = s.osize
          /\ Displaced(s, size).asize = s.asize
      BY <1>2, <3>1, SMT DEF Displaced, Context
    <3> QED
      BY <2>1, <3>2 DEF size
  <2>4. CASE Rm(c.modrm) = 4
    <3>1. size = IF Bits(Byte(i + 2), 0, 3) # 5
                 THEN CASE Mod(c.modrm) = 1 -> 1 [] Mod(c.modrm) = 2 -> 4 [] OTHER -> 0
                 ELSE IF Mod(c.modrm) = 1 THEN 1 ELSE 4
      BY <1>2, <2>4, SMT DEF DispSize, DecodeSib
    <3> HIDE DEF size
    <3> QED
      BY <1>1, <1>2, <1>3, <1>5, <2>3, <2>4, <3>1, SMT DEF ArchAddress, d
  <2>5. CASE Rm(c.modrm) # 4
    <3>1. size = CASE Mod(c.modrm) = 1 -> 1 [] Mod(c.modrm) = 2 -> 4
                   [] OTHER -> IF Rm(c.modrm) = 5 THEN 4 ELSE 0
      BY <1>2, <2>5, SMT DEF DispSize
    <3> HIDE DEF size
    <3> QED
      BY <1>1, <1>2, <1>3, <1>5, <2>3, <2>5, <3>1, SMT DEF ArchAddress, d
  <2> QED
    BY <2>4, <2>5
<1> QED
  BY <1>4, <1>5
-----------------------------------------------------------------------------
(* The invariant: how much of the length of a one-byte opcode is settled.  *)
(* RexExactly turns the prefixes into one bit, W; the sizes follow from it *)
(* and from what was seen; the immediates from the sizes and the table;    *)
(* the address from the ModRM byte.                                        *)

OneByteInstruction == ctx.table = ONEBYTE /\ Plain /\ Byte(i) \notin {154, 234}

LengthInv ==
  OneByteInstruction =>
    /\ at \in {"sizes", "opcode"} =>
         PrefixesSeen(ctx) /\ (WideRequested(ctx) <=> ArchWide) /\ Byte(i) # EVEX
    /\ at = "opcode" => ctx.osize = GetOsize(ctx, "none") /\ ctx.asize = GetAsize(ctx)
    /\ at \in {"modrm", "immediate"} => ImmediateBytes = ArchImmediateBytes
    /\ at = "modrm" =>
         /\ "modrm" \in follow <=> Byte(i) \in ArchModRM
         /\ "modrm" \in ctx.present => Byte(i) \in ArchModRM
    /\ at = "immediate" => ctx.pos = i + 1 + ArchAddressBytes
    /\ at = "done" => len = ArchLength(i)

LEMMA ArchUnchanged ==
  ASSUME ip' = ip, i' = i
  PROVE  /\ ArchWide' = ArchWide /\ ArchImmediateBytes' = ArchImmediateBytes
         /\ ArchAddressBytes' = ArchAddressBytes /\ Plain' = Plain /\ ArchLength(i)' = ArchLength(i)
         /\ Byte(i)' = Byte(i) /\ \A b : Before(b)' = Before(b)
BY DEF ArchWide, ArchImmediateBytes, ArchAddressBytes, Plain, ArchLength, Byte, Before, RexBeforeSegments

LEMMA WideAtEscape ==
  ASSUME TypeOK, Inv, SeenInv, at = "escape", Plain
  PROVE  WideRequested(ctx) <=> ArchWide
<1>1. i \in Nat /\ ctx \in Context
  BY DEF TypeOK
<1>2. PrefixesSeen(ctx)
  BY DEF SeenInv
<1>3. WideRequested(ctx) <=> Bits(ctx.rex, W, 1) = 1
  BY <1>2 DEF WideRequested, PrefixesSeen
<1>4. /\ "rex" \in ctx.present <=> \E k \in 0 .. i - 1 : RexBeforeSegments(k, i)
      /\ "rex" \in ctx.present =>
           /\ ctx.pos_rex \in 0 .. i - 1 /\ RexBeforeSegments(ctx.pos_rex, i)
           /\ ctx.rex = Byte(ctx.pos_rex)
  BY DEF Inv, RexExactly
<1>5. \A k \in 0 .. i - 1 : RexBeforeSegments(k, i) => k = i - 1
  <2> SUFFICES ASSUME NEW k \in 0 .. i - 1, RexBeforeSegments(k, i), k # i - 1 PROVE FALSE
    OBVIOUS
  <2>1. k \in 0 .. i - 2
    BY <1>1, SMT
  <2> QED
    BY <2>1 DEF Plain
<1>6. i > 0 => (RexBeforeSegments(i - 1, i) <=> IsRex(Byte(i - 1)))
  BY <1>1, SMT DEF RexBeforeSegments
<1>7. CASE "rex" \in ctx.present
  <2>1. i > 0 /\ ctx.pos_rex = i - 1
    BY <1>1, <1>4, <1>5, <1>7, SMT
  <2> QED
    BY <1>3, <1>4, <1>6, <1>7, <2>1 DEF ArchWide
<1>8. CASE "rex" \notin ctx.present
  <2>1. ctx.rex = 0
    BY <1>2, <1>8 DEF PrefixesSeen
  <2>2. Bits(0, W, 1) # 1
    BY SMT DEF Bits, W
  <2>3. ~ArchWide
    <3> SUFFICES ASSUME i > 0, IsRex(Byte(i - 1)) PROVE FALSE
      BY DEF ArchWide
    <3>1. i - 1 \in 0 .. i - 1
      BY <1>1, SMT
    <3> QED
      BY <1>4, <1>6, <1>8, <3>1
  <2> QED
    BY <1>3, <2>1, <2>2, <2>3
<1> QED
  BY <1>7, <1>8

LEMMA OneByteLength ==
  ASSUME TypeOK, Inv, SeenInv, PositionInv, OneByte
  PROVE  LengthInv'
<1>1. at = "escape" /\ OpcodeAt(0, ctx, ONEBYTE, 0) /\ ctx \in Context /\ i \in Nat /\ Byte(i) # EVEX
  BY DEF OneByte, TypeOK
<1>2. ip' = ip /\ i' = i /\ at' = "sizes"
  BY <1>1, SMT DEF OpcodeAt
<1>3. ctx'.present = ctx.present /\ ctx'.rex = ctx.rex /\ ctx'.payload = ctx.payload
  BY <1>1, SMT DEF OpcodeAt, Context
<1> SUFFICES ASSUME Plain PROVE (PrefixesSeen(ctx) /\ (WideRequested(ctx) <=> ArchWide) /\ Byte(i) # EVEX)'
  BY <1>2, ArchUnchanged DEF LengthInv, OneByteInstruction
<1>4. PrefixesSeen(ctx)
  BY <1>1 DEF SeenInv
<1>5. WideRequested(ctx) <=> ArchWide
  BY <1>1, WideAtEscape
<1>6. PrefixesSeen(ctx)'
  BY <1>2, <1>3, <1>4, ArchUnchanged DEF PrefixesSeen
<1>7. WideRequested(ctx)' <=> ArchWide'
  BY <1>2, <1>3, <1>5, ArchUnchanged DEF WideRequested
<1> QED
  BY <1>1, <1>2, <1>6, <1>7, ArchUnchanged

(* The other escapes lead to other maps *)
LEMMA OtherMaps ==
  ASSUME TypeOK, PositionInv, Vex3 \/ Vex2 \/ Evex \/ Xop \/ TwoOrThreeByte
  PROVE  at' = "rejected" \/ ctx'.table # ONEBYTE
<1>1. ctx \in Context
  BY DEF TypeOK
<1>2. \A n, c, map, mandatory : c \in Context /\ OpcodeAt(n, c, map, mandatory) => ctx'.table = map
  BY SMT DEF OpcodeAt, Context
<1>3. \A c : Reject(c) => at' = "rejected"
  BY DEF Reject
<1>4. WithPayload("vex3b") \in Context /\ WithPayload("xop") \in Context
  <2>1. "vex3b" \in Present /\ "xop" \in Present
    BY DEF Present
  <2> QED
    BY <2>1, WithPayloadTyped
<1>5. /\ \A k \in 1 .. 3 : 256 * k # ONEBYTE
      /\ \A k \in 8 .. 10 : 256 * (k - 4) # ONEBYTE
      /\ MAP_0F # ONEBYTE /\ MAP_0F38 # ONEBYTE /\ MAP_0F3A # ONEBYTE
  BY SMT DEF ONEBYTE, MAP_0F, MAP_0F38, MAP_0F3A
<1>6. CASE Vex3
  BY <1>2, <1>3, <1>4, <1>5, <1>6 DEF Vex3
<1>7. CASE Vex2
  <2> DEFINE c == [Seen(ctx, "vex2b") EXCEPT !.payload[1] = Byte(i + 1)]
  <2>1. c \in Context
    <3>1. i + 1 \in Nat
      BY SMT DEF TypeOK
    <3>2. Byte(i + 1) \in 0 .. 255
      BY <3>1, ByteType DEF TypeOK
    <3>3. "vex2b" \in Present
      BY DEF Present
    <3>4. Seen(ctx, "vex2b") \in Context
      BY <1>1, <3>3, SeenTyped
    <3> QED
      BY <3>2, <3>4, BytesTyped
  <2>2. Reject(ctx) \/ \E mandatory : OpcodeAt(2, c, MAP_0F, mandatory)
    BY <1>7 DEF Vex2
  <2> HIDE DEF c
  <2> QED
    BY <1>2, <1>3, <1>5, <2>1, <2>2
<1>8. CASE Evex
  BY <1>3, <1>8 DEF Evex
<1>9. CASE Xop
  BY <1>2, <1>3, <1>4, <1>5, <1>9 DEF Xop, XopValid
<1>10. CASE TwoOrThreeByte
  BY <1>1, <1>2, <1>5, <1>10 DEF TwoOrThreeByte
<1> QED
  BY <1>6, <1>7, <1>8, <1>9, <1>10

LEMMA SizesLength ==
  ASSUME TypeOK, LengthInv, Sizes
  PROVE  LengthInv'
<1>1. at = "sizes" /\ at' = "opcode" /\ ip' = ip /\ i' = i /\ ctx \in Context
  BY DEF Sizes, TypeOK
<1>2. /\ ctx'.present = ctx.present /\ ctx'.rex = ctx.rex /\ ctx'.payload = ctx.payload
      /\ ctx'.table = ctx.table /\ ctx'.osize = GetOsize(ctx, "none") /\ ctx'.asize = GetAsize(ctx)
  <2> DEFINE o == GetOsize(ctx, "none")
             a == GetAsize(ctx)
  <2>1. ctx' = [ctx EXCEPT !.asize = a, !.osize = o]
    BY DEF Sizes
  <2> HIDE DEF a, o
  <2>2. /\ ctx'.present = ctx.present /\ ctx'.rex = ctx.rex /\ ctx'.payload = ctx.payload
        /\ ctx'.table = ctx.table /\ ctx'.osize = o /\ ctx'.asize = a
    BY <1>1, <2>1, SMT DEF Context
  <2> QED
    BY <2>2 DEF a, o
<1>3. GetOsize(ctx, "none")' = GetOsize(ctx, "none") /\ GetAsize(ctx)' = GetAsize(ctx)
      /\ WideRequested(ctx)' = WideRequested(ctx)
  BY <1>2 DEF GetOsize, GetAsize, WideRequested
<1> SUFFICES ASSUME OneByteInstruction
             PROVE  /\ PrefixesSeen(ctx)' /\ (WideRequested(ctx) <=> ArchWide)' /\ Byte(i)' # EVEX
                    /\ ctx'.osize = GetOsize(ctx, "none")' /\ ctx'.asize = GetAsize(ctx)'
  BY <1>1, <1>2, ArchUnchanged DEF LengthInv, OneByteInstruction
<1>4. PrefixesSeen(ctx) /\ (WideRequested(ctx) <=> ArchWide) /\ Byte(i) # EVEX
  BY <1>1 DEF LengthInv
<1>5. PrefixesSeen(ctx)'
  BY <1>1, <1>2, <1>4, ArchUnchanged DEF PrefixesSeen
<1> QED
  BY <1>1, <1>2, <1>3, <1>4, <1>5, ArchUnchanged
-----------------------------------------------------------------------------
(* The opcode: its flags and its operand size *)

LEMMA OneByteActions ==
  ASSUME OneByteOpcode
  PROVE  \/ Opcode \in {232, 233} /\ To([Fetched EXCEPT !.osize = GetOsize(ctx, "F64")], {"Z"})
         \/ Opcode \in 184 .. 191 /\ To(Fetched, {"V"})
         \/ Opcode \in 160 .. 163 /\ To(Fetched, {"O"})
         \/ Opcode \in {194, 202} /\ To(Fetched, {"W"})
         \/ Opcode = 200 /\ To(Fetched, {"W", "B"})
         \/ Opcode = 104 /\ To([Fetched EXCEPT !.osize = GetOsize(ctx, "D64")], {"Z"})
         \/ Opcode \in {234, 154} /\ To(Fetched, {"AP"})
         \/ /\ Opcode \in {246, 247}
            /\ To(GetModRM(Fetched), FlagsOfUnary(Opcode, RegField(GetModRM(Fetched).modrm)))
         \/ Opcode \notin Replaced \cup {246, 247} /\ To(Fetched, TableFlags(ONEBYTE, Opcode))
<1> HIDE DEF To, Fetched, GetModRM, FlagsOfUnary, GetOsize
<1> QED
  BY SMT DEF OneByteOpcode, Replaced

SizesFound ==
  /\ PrefixesSeen(ctx) /\ (WideRequested(ctx) <=> ArchWide) /\ Byte(i) # EVEX
  /\ ctx.osize = GetOsize(ctx, "none") /\ ctx.asize = GetAsize(ctx)

ArchZ == IF Before(PREFIX_OSIZE) /\ ~ArchWide THEN 2 ELSE 4

ImmediateOf(op, reg) ==
  ArchImmediate(op, reg, ArchWide, Before(PREFIX_OSIZE), Before(PREFIX_ASIZE))

(* the cases of ArchImmediate do not overlap *)
LEMMA ArchImmediateCases ==
  ASSUME NEW op \in 0 .. 255, NEW reg \in 0 .. 7
  PROVE  /\ op \in {232, 233} => ImmediateOf(op, reg) = 4
         /\ op \in 184 .. 191 => ImmediateOf(op, reg) = IF ArchWide THEN 8 ELSE ArchZ
         /\ op \in 160 .. 163 => ImmediateOf(op, reg) = IF Before(PREFIX_ASIZE) THEN 4 ELSE 8
         /\ op \in {194, 202} => ImmediateOf(op, reg) = 2
         /\ op = 200 => ImmediateOf(op, reg) = 3
         /\ op = 104 => ImmediateOf(op, reg) = ArchZ
         /\ op = 246 => ImmediateOf(op, reg) = IF reg < 2 THEN 1 ELSE 0
         /\ op = 247 => ImmediateOf(op, reg) = IF reg < 2 THEN ArchZ ELSE 0
<1>1. op \in {232, 233} => ImmediateOf(op, reg) = 4
  BY SMT DEF ImmediateOf, ArchImmediate, ArchByte, ArchWordOrDword
<1>2. op \in 184 .. 191 => ImmediateOf(op, reg) = IF ArchWide THEN 8 ELSE ArchZ
  BY SMT DEF ImmediateOf, ArchImmediate, ArchByte, ArchWordOrDword, ArchZ
<1>3. op \in 160 .. 163 => ImmediateOf(op, reg) = IF Before(PREFIX_ASIZE) THEN 4 ELSE 8
  BY SMT DEF ImmediateOf, ArchImmediate, ArchByte, ArchWordOrDword
<1>4. op \in {194, 202} => ImmediateOf(op, reg) = 2
  BY SMT DEF ImmediateOf, ArchImmediate, ArchByte, ArchWordOrDword
<1>5. op = 200 => ImmediateOf(op, reg) = 3
  BY SMT DEF ImmediateOf, ArchImmediate, ArchByte, ArchWordOrDword
<1>6. op = 104 => ImmediateOf(op, reg) = ArchZ
  BY SMT DEF ImmediateOf, ArchImmediate, ArchByte, ArchWordOrDword, ArchZ
<1>7. op = 246 => ImmediateOf(op, reg) = IF reg < 2 THEN 1 ELSE 0
  BY SMT DEF ImmediateOf, ArchImmediate, ArchByte, ArchWordOrDword
<1>8. op = 247 => ImmediateOf(op, reg) = IF reg < 2 THEN ArchZ ELSE 0
  BY SMT DEF ImmediateOf, ArchImmediate, ArchByte, ArchWordOrDword, ArchZ
<1> QED
  BY <1>1, <1>2, <1>3, <1>4, <1>5, <1>6, <1>7, <1>8

TableImmediate(op) ==
  (IF op \in ArchWordOrDword THEN ArchZ ELSE 0) + (IF op \in ArchByte THEN 1 ELSE 0)

LEMMA ArchImmediateOther ==
  ASSUME NEW op \in 0 .. 255, NEW reg \in 0 .. 7, op \notin Replaced \cup {246, 247}
  PROVE  ImmediateOf(op, reg) = TableImmediate(op)
<1>1. op \in ArchByte => op \notin ArchWordOrDword
  BY SMT DEF ArchByte, ArchWordOrDword
<1>2. CASE op \in ArchByte
  BY <1>1, <1>2, SMT DEF ImmediateOf, ArchImmediate, Replaced, TableImmediate
<1>3. CASE op \in ArchWordOrDword
  BY <1>1, <1>3, SMT DEF ImmediateOf, ArchImmediate, Replaced, TableImmediate, ArchZ
<1>4. CASE op \notin ArchByte \cup ArchWordOrDword
  BY <1>4, SMT DEF ImmediateOf, ArchImmediate, Replaced, TableImmediate
<1> QED
  BY <1>2, <1>3, <1>4

Z(osize) == IF osize = 16 THEN 2 ELSE 4

LEMMA SizesOfArchitecture ==
  ASSUME SizesFound
  PROVE  /\ Z(ctx.osize) = ArchZ /\ Z(GetOsize(ctx, "D64")) = ArchZ /\ GetOsize(ctx, "F64") = 64
         /\ Wide(ctx.osize) = IF ArchWide THEN 8 ELSE ArchZ
         /\ Wide(ctx.asize) = IF Before(PREFIX_ASIZE) THEN 4 ELSE 8
<1>1. /\ "osize" \in ctx.present <=> Before(PREFIX_OSIZE)
      /\ "asize" \in ctx.present <=> Before(PREFIX_ASIZE)
      /\ WideRequested(ctx) <=> ArchWide
      /\ ctx.osize = GetOsize(ctx, "none") /\ ctx.asize = GetAsize(ctx)
  BY DEF SizesFound, PrefixesSeen
<1> HIDE DEF WideRequested, ArchWide, Before
<1> QED
  BY <1>1, SMT DEF GetOsize, GetAsize, Z, ArchZ, Wide

LEMMA ImmediateOfFlags ==
  ASSUME NEW osize, NEW asize
  PROVE  /\ Immediate(osize, asize, {"Z"}) = Z(osize)
         /\ Immediate(osize, asize, {"V"}) = Wide(osize)
         /\ Immediate(osize, asize, {"O"}) = Wide(asize)
         /\ Immediate(osize, asize, {"W"}) = 2
         /\ Immediate(osize, asize, {"W", "B"}) = 3
<1>1. Wide(osize) \in {2, 4, 8} /\ Wide(asize) \in {2, 4, 8} /\ Z(osize) \in {2, 4}
  BY DEF Wide, Z
<1>2. /\ Immediate(osize, asize, {"Z"}) = Z(osize)
      /\ Immediate(osize, asize, {"W"}) = 2
      /\ Immediate(osize, asize, {"W", "B"}) = 3
  BY <1>1, SMT DEF Immediate, Z
<1>3. Immediate(osize, asize, {"V"}) = Wide(osize)
  BY <1>1, SMT DEF Immediate
<1>4. Immediate(osize, asize, {"O"}) = Wide(asize)
  BY <1>1, SMT DEF Immediate
<1> QED
  BY <1>2, <1>3, <1>4

LEMMA ImmediateOfTable ==
  ASSUME NEW osize, NEW asize, NEW flags \in SUBSET {"modrm", "Z", "B"}
  PROVE  Immediate(osize, asize, flags) =
           (IF "Z" \in flags THEN Z(osize) ELSE 0) + (IF "B" \in flags THEN 1 ELSE 0)
<1>1. Wide(osize) \in {2, 4, 8} /\ Wide(asize) \in {2, 4, 8} /\ Z(osize) \in {2, 4}
  BY DEF Wide, Z
<1>2. "W" \notin flags /\ "D" \notin flags /\ "O" \notin flags /\ "V" \notin flags /\ "AP" \notin flags
  OBVIOUS
<1> QED
  BY <1>1, <1>2, SMT DEF Immediate, Z

(* the flags of F6 and F7 *)
LEMMA UnaryFlags ==
  ASSUME NEW op \in {246, 247}, NEW reg \in 0 .. 7
  PROVE  /\ FlagsOfUnary(op, reg) \in SUBSET {"modrm", "Z", "B"} /\ "modrm" \in FlagsOfUnary(op, reg)
         /\ "B" \in FlagsOfUnary(op, reg) <=> op = 246 /\ reg < 2
         /\ "Z" \in FlagsOfUnary(op, reg) <=> op = 247 /\ reg < 2
<1>1. op \in ArchModRM /\ op \notin ArchByte \cup ArchWordOrDword /\ op # EVEX
  BY SMT DEF ArchModRM, ArchByte, ArchWordOrDword, EVEX
<1>2. op \in 0 .. 255 \ {EVEX} /\ op \in 0 .. 255 \ {200} /\ op \in 0 .. 255 \ {232, 233}
  BY <1>1, SMT
<1> DEFINE flags == TableFlags(ONEBYTE, op)
<1>3. "modrm" \in flags /\ "B" \notin flags /\ "Z" \notin flags
  BY <1>1, <1>2, TableAssumption
<1>4. flags \in SUBSET {"modrm", "Z", "B"}
  BY TableFlagsType
<1> HIDE DEF flags
<1>5. FlagsOfUnary(op, reg) =
        IF reg \in {0, 1} THEN {"modrm", IF op = 246 THEN "B" ELSE "Z"} ELSE flags
  BY DEF FlagsOfUnary, flags
<1>6. reg \in {0, 1} <=> reg < 2
  BY SMT
<1>7. CASE reg \in {0, 1}
  BY <1>5, <1>6, <1>7
<1>8. CASE reg \notin {0, 1}
  BY <1>3, <1>4, <1>5, <1>6, <1>8
<1> QED
  BY <1>7, <1>8

LEMMA OneByteFlags ==
  ASSUME TypeOK, PositionInv, SizesFound, Byte(i) \notin {154, 234}, OneByteOpcode
  PROVE  /\ Immediate(ctx'.osize, ctx'.asize, follow') = ArchImmediateBytes
         /\ "modrm" \in follow' <=> Byte(i) \in ArchModRM
         /\ "modrm" \in ctx'.present => Byte(i) \in ArchModRM
<1> DEFINE op == Byte(i)
           reg == RegField(Byte(i + 1))
           imm == ImmediateOf(op, reg)
<1>1. at = "opcode" /\ i \in Nat /\ ctx \in Context /\ op # EVEX
  BY DEF OneByteOpcode, AtOpcode, TypeOK, SizesFound
<1>2. /\ Ready(Fetched) /\ Fetched.pos = i + 1 /\ Fetched.present = ctx.present /\ Opcode = op
  BY <1>1, FetchedReady
<1>3. Fetched \in Context
  BY FetchedTyped
<1>4. Fetched.osize = ctx.osize /\ Fetched.asize = ctx.asize
  BY <1>1, SMT DEF Fetched, Context
<1>5. "modrm" \notin Fetched.present
  BY <1>1, <1>2 DEF PositionInv, OpcodeFound, NothingBehind
<1>6. op \in 0 .. 255 /\ Byte(i + 1) \in 0 .. 255
  <2>1. i + 1 \in Nat
    BY <1>1, SMT
  <2> QED
    BY <1>1, <2>1, ByteType DEF TypeOK
<1>7. reg \in 0 .. 7
  BY <1>6, SMT DEF RegField, Bits
<1>9. /\ op \in {232, 233} => imm = 4
      /\ op \in 184 .. 191 => imm = IF ArchWide THEN 8 ELSE ArchZ
      /\ op \in 160 .. 163 => imm = IF Before(PREFIX_ASIZE) THEN 4 ELSE 8
      /\ op \in {194, 202} => imm = 2
      /\ op = 200 => imm = 3
      /\ op = 104 => imm = ArchZ
      /\ op = 246 => imm = IF reg < 2 THEN 1 ELSE 0
      /\ op = 247 => imm = IF reg < 2 THEN ArchZ ELSE 0
      /\ op \notin Replaced \cup {246, 247} => imm = TableImmediate(op)
  <2>1. op \in 0 .. 255
    BY <1>6
  <2> HIDE DEF op, reg, imm
  <2>2. imm = ImmediateOf(op, reg)
    BY DEF imm
  <2>3. op \notin Replaced \cup {246, 247} => imm = TableImmediate(op)
    BY <2>1, <1>7, <2>2, ArchImmediateOther
  <2>4. /\ op = 246 => imm = IF reg < 2 THEN 1 ELSE 0
        /\ op = 247 => imm = IF reg < 2 THEN ArchZ ELSE 0
    BY <2>1, <1>7, <2>2, ArchImmediateCases
  <2>5. /\ op \in {232, 233} => imm = 4
        /\ op \in 184 .. 191 => imm = IF ArchWide THEN 8 ELSE ArchZ
        /\ op \in 160 .. 163 => imm = IF Before(PREFIX_ASIZE) THEN 4 ELSE 8
        /\ op \in {194, 202} => imm = 2
        /\ op = 200 => imm = 3
        /\ op = 104 => imm = ArchZ
    BY <2>1, <1>7, <2>2, ArchImmediateCases
  <2> QED
    BY <2>3, <2>4, <2>5
<1>10. imm = ArchImmediateBytes
  BY DEF ArchImmediateBytes, ImmediateOf
<1>11. /\ Z(ctx.osize) = ArchZ /\ Z(GetOsize(ctx, "D64")) = ArchZ /\ GetOsize(ctx, "F64") = 64
       /\ Wide(ctx.osize) = IF ArchWide THEN 8 ELSE ArchZ
       /\ Wide(ctx.asize) = IF Before(PREFIX_ASIZE) THEN 4 ELSE 8
  BY SizesOfArchitecture
<1>12. \A c, flags : To(c, flags) => ctx' = c /\ follow' = flags
  BY DEF To
<1>13. op \in Replaced => op \notin ArchModRM
  BY ArchModRMOpcodes
<1>14. \A x : [Fetched EXCEPT !.osize = x].osize = x /\ [Fetched EXCEPT !.osize = x].asize = ctx.asize
              /\ [Fetched EXCEPT !.osize = x].present = Fetched.present
  BY <1>3, <1>4, SMT DEF Context
<1>15. Z(64) = 4
  BY DEF Z
<1> HIDE DEF imm, op, reg, Fetched
<1>25. ASSUME NEW x, To([Fetched EXCEPT !.osize = x], {"Z"})
       PROVE  ctx'.osize = x /\ ctx'.present = Fetched.present /\ follow' = {"Z"}
  <2> DEFINE c == [Fetched EXCEPT !.osize = x]
  <2>1. c.osize = x /\ c.present = Fetched.present
    BY <1>14
  <2>2. To(c, {"Z"})
    BY <1>25
  <2> HIDE DEF c
  <2> QED
    BY <1>12, <2>1, <2>2
<1>16. CASE op \in {232, 233} /\ To([Fetched EXCEPT !.osize = GetOsize(ctx, "F64")], {"Z"})
  <2>1. ctx'.osize = 64 /\ ctx'.present = Fetched.present /\ follow' = {"Z"}
    BY <1>11, <1>16, <1>25
  <2>2. op \in Replaced
    BY <1>16 DEF Replaced
  <2>3. Immediate(ctx'.osize, ctx'.asize, follow') = 4
    BY <2>1, <1>15, ImmediateOfFlags
  <2> QED
    BY <1>5, <1>9, <1>10, <1>13, <1>16, <2>1, <2>2, <2>3 DEF op
<1>17. CASE op \in 184 .. 191 /\ To(Fetched, {"V"})
  <2>1. ctx' = Fetched /\ follow' = {"V"}
    BY <1>12, <1>17
  <2>2. op \in Replaced
    BY <1>17 DEF Replaced
  <2>3. Immediate(ctx'.osize, ctx'.asize, follow') = Wide(ctx.osize)
    BY <1>4, <2>1, ImmediateOfFlags
  <2> QED
    BY <1>5, <1>9, <1>10, <1>11, <1>13, <1>17, <2>1, <2>2, <2>3 DEF op
<1>18. CASE op \in 160 .. 163 /\ To(Fetched, {"O"})
  <2>1. ctx' = Fetched /\ follow' = {"O"}
    BY <1>12, <1>18
  <2>2. op \in Replaced
    BY <1>18 DEF Replaced
  <2>3. Immediate(ctx'.osize, ctx'.asize, follow') = Wide(ctx.asize)
    BY <1>4, <2>1, ImmediateOfFlags
  <2> QED
    BY <1>5, <1>9, <1>10, <1>11, <1>13, <1>18, <2>1, <2>2, <2>3 DEF op
<1>19. CASE op \in {194, 202} /\ To(Fetched, {"W"})
  <2>1. ctx' = Fetched /\ follow' = {"W"}
    BY <1>12, <1>19
  <2>2. op \in Replaced
    BY <1>19 DEF Replaced
  <2>3. Immediate(ctx'.osize, ctx'.asize, follow') = 2
    BY <1>4, <2>1, ImmediateOfFlags
  <2> QED
    BY <1>5, <1>9, <1>10, <1>13, <1>19, <2>1, <2>2, <2>3 DEF op
<1>20. CASE op = 200 /\ To(Fetched, {"W", "B"})
  <2>1. ctx' = Fetched /\ follow' = {"W", "B"}
    BY <1>12, <1>20
  <2>2. op \in Replaced
    BY <1>20 DEF Replaced
  <2>3. Immediate(ctx'.osize, ctx'.asize, follow') = 3
    BY <1>4, <2>1, ImmediateOfFlags
  <2> QED
    BY <1>5, <1>9, <1>10, <1>13, <1>20, <2>1, <2>2, <2>3 DEF op
<1>21. CASE op = 104 /\ To([Fetched EXCEPT !.osize = GetOsize(ctx, "D64")], {"Z"})
  <2>1. ctx'.osize = GetOsize(ctx, "D64") /\ ctx'.present = Fetched.present /\ follow' = {"Z"}
    BY <1>21, <1>25
  <2>2. op \in Replaced
    BY <1>21 DEF Replaced
  <2>3. Immediate(ctx'.osize, ctx'.asize, follow') = ArchZ
    BY <1>11, <2>1, ImmediateOfFlags
  <2> QED
    BY <1>5, <1>9, <1>10, <1>13, <1>21, <2>1, <2>2, <2>3 DEF op
<1>22. CASE op \in {246, 247} /\ To(GetModRM(Fetched), FlagsOfUnary(op, RegField(GetModRM(Fetched).modrm)))
  <2> DEFINE g == GetModRM(Fetched)
             flags == FlagsOfUnary(op, reg)
  <2>1. g.modrm = Byte(i + 1) /\ g.osize = ctx.osize /\ g.asize = ctx.asize
    <3>1. /\ g.modrm = Byte(Fetched.pos) /\ g.osize = Fetched.osize /\ g.asize = Fetched.asize
      BY <1>3, <1>5, SMT DEF GetModRM, Seen, Context
    <3> QED
      BY <1>2, <1>4, <3>1
  <2>2. To(g, flags)
    BY <1>22, <2>1 DEF reg
  <2>3. /\ flags \in SUBSET {"modrm", "Z", "B"} /\ "modrm" \in flags
        /\ "B" \in flags <=> op = 246 /\ reg < 2
        /\ "Z" \in flags <=> op = 247 /\ reg < 2
    BY <1>7, <1>22, UnaryFlags
  <2>4. op \in ArchModRM
    BY <1>22, SMT DEF ArchModRM
  <2> HIDE DEF flags, g
  <2>5. ctx' = g /\ follow' = flags
    BY <1>12, <2>2
  <2>6. Immediate(ctx'.osize, ctx'.asize, follow')
          = (IF "Z" \in flags THEN Z(ctx.osize) ELSE 0) + (IF "B" \in flags THEN 1 ELSE 0)
    BY <2>1, <2>3, <2>5, ImmediateOfTable
  <2>7. ArchZ \in {2, 4}
    BY DEF ArchZ
  <2>8. Immediate(ctx'.osize, ctx'.asize, follow') = imm
    BY <1>9, <1>11, <1>22, <2>3, <2>6, <2>7, SMT
  <2> QED
    BY <1>10, <2>3, <2>4, <2>5, <2>8 DEF op
<1>23. CASE op \notin Replaced \cup {246, 247} /\ To(Fetched, TableFlags(ONEBYTE, op))
  <2> DEFINE flags == TableFlags(ONEBYTE, op)
  <2>1. op \in 0 .. 255 \ {EVEX} /\ op \in 0 .. 255 \ {200} /\ op \in 0 .. 255 \ {232, 233}
    BY <1>1, <1>6, <1>23, SMT DEF Replaced
  <2>2. /\ "modrm" \in flags <=> op \in ArchModRM
        /\ "B" \in flags <=> op \in ArchByte
        /\ "Z" \in flags <=> op \in ArchWordOrDword
    BY <2>1, TableAssumption
  <2>3. flags \in SUBSET {"modrm", "Z", "B"}
    BY TableFlagsType
  <2> HIDE DEF flags
  <2>4. ctx' = Fetched /\ follow' = flags
    BY <1>12, <1>23 DEF flags
  <2>5. Immediate(ctx'.osize, ctx'.asize, follow')
          = (IF "Z" \in flags THEN Z(ctx.osize) ELSE 0) + (IF "B" \in flags THEN 1 ELSE 0)
    <3>1. Immediate(ctx.osize, ctx.asize, flags)
            = (IF "Z" \in flags THEN Z(ctx.osize) ELSE 0) + (IF "B" \in flags THEN 1 ELSE 0)
      BY <2>3, ImmediateOfTable
    <3> QED
      BY <1>4, <2>4, <3>1
  <2> QED
    BY <1>5, <1>9, <1>10, <1>11, <1>23, <2>2, <2>4, <2>5 DEF op, TableImmediate
<1>24. op \notin {234, 154}
  BY DEF op
<1> QED
  BY <1>2, <1>16, <1>17, <1>18, <1>19, <1>20, <1>21, <1>22, <1>23, <1>24, OneByteActions

LEMMA OpcodeLength ==
  ASSUME TypeOK, PositionInv, LengthInv, OneByteOpcode \/ TwoByteOpcode \/ XopOpcode \/ OtherOpcode
  PROVE  LengthInv'
<1>1. ctx'.table = ctx.table /\ ip' = ip /\ i' = i /\ at' = "modrm"
  BY OpcodeKeepsTable
<1>2. at = "opcode"
  BY DEF OneByteOpcode, TwoByteOpcode, XopOpcode, OtherOpcode, AtOpcode
<1>6. ArchImmediateBytes' = ArchImmediateBytes /\ Byte(i)' = Byte(i) /\ (Plain' => Plain)
  BY <1>1, ArchUnchanged
<1>7. OneByteInstruction' => OneByteInstruction
  BY <1>1, <1>6, Zenon DEF OneByteInstruction
<1> SUFFICES ASSUME OneByteInstruction
             PROVE  /\ ImmediateBytes' = ArchImmediateBytes
                    /\ "modrm" \in follow' <=> Byte(i) \in ArchModRM
                    /\ "modrm" \in ctx'.present => Byte(i) \in ArchModRM
  BY <1>1, <1>6, <1>7 DEF LengthInv
<1>3. SizesFound /\ Byte(i) \notin {154, 234} /\ ctx.table = ONEBYTE
  BY <1>2 DEF LengthInv, SizesFound, OneByteInstruction
<1>4. OneByteOpcode
  BY <1>3, SMT DEF TwoByteOpcode, XopOpcode, OtherOpcode, AtOpcode, ONEBYTE, MAP_0F, MAP_0F38,
                   MAP_0F3A, XOP_08, XOP_09, XOP_0A
<1>5. ImmediateBytes' = Immediate(ctx'.osize, ctx'.asize, follow')
  BY SMT DEF ImmediateBytes, Immediate, BytesOfFlag
<1> QED
  BY <1>3, <1>4, <1>5, OneByteFlags
-----------------------------------------------------------------------------
(* The address and the immediates *)

LEMMA AddressStepLength ==
  ASSUME TypeOK, PositionInv, LengthInv, FlagModRM
  PROVE  LengthInv'
<1>1. at = "modrm" /\ at' = "immediate" /\ ip' = ip /\ i' = i /\ follow' = follow /\ ctx \in Context
      /\ i \in Nat
  BY DEF FlagModRM, TypeOK
<1>2. Read(ctx) /\ ctx.pos = End(ctx) /\ NoAddress(ctx) /\ PartsFound(ctx)
  BY <1>1 DEF PositionInv, Read
<1>3. ArchImmediateBytes' = ArchImmediateBytes /\ ArchAddressBytes' = ArchAddressBytes
      /\ Byte(i)' = Byte(i) /\ (Plain' => Plain)
  BY <1>1, ArchUnchanged
<1>4. ctx'.table = ctx.table /\ ctx'.osize = ctx.osize /\ ctx'.asize = ctx.asize
      /\ IF "modrm" \in follow
         THEN ctx'.pos = i + 1 + ArchAddress(Byte(i + 1), Byte(i + 2))
         ELSE ctx' = ctx
  <2>1. CASE "modrm" \in follow
    <3> DEFINE g == GetModRM(ctx)
               d == DecodeModRM(g)
    <3>1. ctx' = d
      BY <2>1 DEF FlagModRM
    <3>2. PartsFound(g) /\ NoAddress(g) /\ g.pos = End(g) /\ "modrm" \in g.present /\ g.table = ctx.table
      BY <1>1, <1>2, GetModRMPositions
    <3>3. g \in Context
      BY <1>1, GetModRMTyped
    <3>4. g.osize = ctx.osize /\ g.asize = ctx.asize
      BY <1>1, SMT DEF GetModRM, Seen, Context
    <3> HIDE DEF g
    <3>5. d.pos = i + 1 + ArchAddress(Byte(i + 1), Byte(i + 2)) /\ d.osize = g.osize /\ d.asize = g.asize
      BY <3>2, <3>3, AddressLength
    <3>6. d.table = g.table
      BY <3>2, <3>3, DecodeModRMPositions
    <3> HIDE DEF d
    <3> QED
      BY <2>1, <3>1, <3>2, <3>4, <3>5, <3>6
  <2>2. CASE "modrm" \notin follow
    BY <2>2 DEF FlagModRM
  <2> QED
    BY <2>1, <2>2
<1>5. OneByteInstruction' => OneByteInstruction
  BY <1>1, <1>3, <1>4, Zenon DEF OneByteInstruction
<1>6. ImmediateBytes' = ImmediateBytes
  BY <1>1, <1>4, Zenon DEF ImmediateBytes, BytesOfFlag
<1> SUFFICES ASSUME OneByteInstruction
             PROVE  ImmediateBytes = ArchImmediateBytes /\ ctx'.pos = i + 1 + ArchAddressBytes
  <2>1. (i + 1 + ArchAddressBytes)' = i + 1 + ArchAddressBytes
    BY <1>1, <1>3
  <2> QED
    BY <1>1, <1>3, <1>5, <1>6, <2>1 DEF LengthInv
<1>7. /\ ImmediateBytes = ArchImmediateBytes
      /\ "modrm" \in follow <=> Byte(i) \in ArchModRM
      /\ "modrm" \in ctx.present => Byte(i) \in ArchModRM
  BY <1>1 DEF LengthInv
<1>8. CASE "modrm" \in follow
  BY <1>4, <1>7, <1>8 DEF ArchAddressBytes
<1>9. CASE "modrm" \notin follow
  <2>1. ctx.pos = i + 1
    BY <1>1, <1>2, <1>7, <1>9, SMT DEF End, Has, NoAddress
  <2>2. ArchAddressBytes = 0
    BY <1>7, <1>9 DEF ArchAddressBytes
  <2>3. ctx'.pos = i + 1 + 0
    BY <1>1, <1>4, <1>9, <2>1, SMT
  <2> QED
    BY <1>7, <2>2, <2>3
<1> QED
  BY <1>8, <1>9

LEMMA ImmediateStepLength ==
  ASSUME TypeOK, LengthInv, FlagImmediate
  PROVE  LengthInv'
<1>1. /\ at = "immediate" /\ at' = "done" /\ ip' = ip /\ i' = i /\ len' = ctx.pos + ImmediateBytes
      /\ ctx \in Context /\ i \in Nat
  BY DEF FlagImmediate, TypeOK
<1>2. ctx'.table = ctx.table
  <2> DEFINE n == ImmediateBytes
  <2>1. ctx' = [ctx EXCEPT !.pos = @ + n]
    BY DEF FlagImmediate
  <2> HIDE DEF n
  <2> QED
    BY <1>1, <2>1, SMT DEF Context
<1>3. Byte(i)' = Byte(i) /\ (Plain' => Plain) /\ ArchLength(i)' = ArchLength(i)
  BY <1>1, ArchUnchanged
<1>4. OneByteInstruction' => OneByteInstruction
  BY <1>1, <1>2, <1>3, Zenon DEF OneByteInstruction
<1> SUFFICES ASSUME OneByteInstruction PROVE len' = ArchLength(i)
  BY <1>1, <1>3, <1>4 DEF LengthInv
<1>5. ImmediateBytes = ArchImmediateBytes /\ ctx.pos = i + 1 + ArchAddressBytes
  BY <1>1 DEF LengthInv
<1> QED
  BY <1>1, <1>5, ArchLengthParts
-----------------------------------------------------------------------------

LEMMA NextLength == TypeOK /\ Inv /\ SeenInv /\ PositionInv /\ LengthInv /\ [Next]_vars => LengthInv'
<1> SUFFICES ASSUME TypeOK, Inv, SeenInv, PositionInv, LengthInv, [Next]_vars PROVE LengthInv'
  OBVIOUS
<1>1. CASE RexPrefix \/ OsizePrefix \/ SegmentPrefix \/ AsizeOrLockPrefix \/ RepPrefix \/ TooLong
             \/ EndOfPrefixes
  <2>1. at' \in {"prefixes", "escape", "rejected"}
    BY <1>1 DEF RexPrefix, OsizePrefix, SegmentPrefix, AsizeOrLockPrefix, RepPrefix, TooLong,
                EndOfPrefixes, AtPrefix, NextByte, IgnoreSegment, Reject
  <2> QED
    BY <2>1 DEF LengthInv
<1>2. CASE Vex3 \/ Vex2 \/ Evex \/ Xop \/ TwoOrThreeByte
  <2>1. at' = "rejected" \/ ctx'.table # ONEBYTE
    BY <1>2, OtherMaps
  <2> QED
    BY <2>1 DEF LengthInv, OneByteInstruction
<1>3. CASE OneByte
  BY <1>3, OneByteLength
<1>4. CASE Sizes
  BY <1>4, SizesLength
<1>5. CASE OneByteOpcode \/ TwoByteOpcode \/ XopOpcode \/ OtherOpcode
  BY <1>5, OpcodeLength
<1>6. CASE FlagModRM
  BY <1>6, AddressStepLength
<1>7. CASE FlagImmediate
  BY <1>7, ImmediateStepLength
<1>8. CASE UNCHANGED vars
  <2>1. /\ ip' = ip /\ i' = i /\ at' = at /\ ctx' = ctx /\ follow' = follow /\ len' = len
    BY <1>8 DEF vars
  <2>2. /\ ArchWide' <=> ArchWide
        /\ ArchImmediateBytes' = ArchImmediateBytes /\ ArchAddressBytes' = ArchAddressBytes
        /\ Plain' <=> Plain
        /\ ArchLength(i)' = ArchLength(i) /\ Byte(i)' = Byte(i)
    BY <2>1, ArchUnchanged
  <2>3. PrefixesSeen(ctx)' <=> PrefixesSeen(ctx)
    BY <2>1 DEF PrefixesSeen, Before, Byte
  <2>4. /\ WideRequested(ctx)' <=> WideRequested(ctx)
        /\ GetOsize(ctx, "none")' = GetOsize(ctx, "none") /\ GetAsize(ctx)' = GetAsize(ctx)
    BY <2>1 DEF WideRequested, GetOsize, GetAsize
  <2>5. ImmediateBytes' = ImmediateBytes
    BY <2>1, Zenon DEF ImmediateBytes, BytesOfFlag
  <2> QED
    BY <2>1, <2>2, <2>3, <2>4, <2>5, SMT DEF LengthInv, OneByteInstruction
<1> QED
  BY <1>1, <1>2, <1>3, <1>4, <1>5, <1>6, <1>7, <1>8 DEF Next, DecodePrefix, DecodeInstruction

LEMMA InitLength == Init => LengthInv
BY DEF Init, LengthInv

(* The length of every instruction of the one-byte map is that of the      *)
(* architecture, whatever instruction was decoded before; except where a   *)
(* segment override separates the opcode from a REX prefix that should     *)
(* then be ignored: for every input and every context left behind.         *)
THEOREM LengthSound == Spec => []LengthExact
<1>1. LengthInv => LengthExact
  BY Zenon DEF LengthInv, OneByteInstruction, Plain, LengthExact
<1>2. TypeOK /\ Inv /\ SeenInv /\ PositionInv /\ LengthInv /\ [Next]_vars
        => TypeOK' /\ Inv' /\ SeenInv' /\ PositionInv' /\ LengthInv'
  BY NextTyped, NextInv, NextSeen, NextPositions, NextLength
<1> QED
  BY InitTyped, InitInv, InitSeen, InitPositions, InitLength, <1>1, <1>2, PTL DEF Spec
=============================================================================
