----------------------------- MODULE MmuProofs -----------------------------
EXTENDS Mmu, WordsProofs, FiniteSetTheorems

-----------------------------------------------------------------------------
(* Lemmas about the address arithmetic *)

(* An accepted range of a legal input lies inside the memory. *)
LEMMA BoundsInside ==
  ASSUME NEW addr \in Word(AddrMod), NEW len \in 0 .. Size,
         ~MissedOverflow(AddrMod, addr, len)
  PROVE  BoundsError(addr, len) = "none" <=> addr + len <= Size
<1> DEFINE h == AddrMod \div 2
<1>1. h \in Nat \ {0} /\ AddrMod = 2 * h
  BY GeometryAssumption, SMT
<1>2. len \in Word(AddrMod)
  BY GeometryAssumption, SMT DEF Word
<1>3. CheckedAddRefused(AddrMod, addr, len) <=> addr + len >= AddrMod
  <2>1. CheckedAddRefused(2 * h, addr, len)
          <=> Overflows(2 * h, addr, len) /\ ~MissedOverflow(2 * h, addr, len)
    BY <1>1, <1>2, CheckedAddCharacterised
  <2> QED
    BY <1>1, <2>1 DEF Overflows
<1>4. addr + len < AddrMod => WrapAdd(AddrMod, addr, len) = addr + len
  <2> HIDE DEF h
  <2> SUFFICES ASSUME addr + len < AddrMod
               PROVE  WrapAdd(AddrMod, addr, len) = addr + len
    OBVIOUS
  <2>1. addr + len \in 0 .. AddrMod - 1
    BY GeometryAssumption, SMT DEF Word
  <2> QED
    BY <2>1, GeometryAssumption, SMT DEF WrapAdd
<1> QED
  BY <1>1, <1>3, <1>4, GeometryAssumption, SMT DEF BoundsError, Word

(* Rounding up yields a natural below twice the memory, without wrapping. *)
LEMMA AlignUpBound ==
  ASSUME NEW size \in AllocSizes
  PROVE  /\ AlignUp(AddrMod, Granule, size) \in 0 .. 2 * Size
         /\ \A c \in 0 .. Size :
              WrapAdd(AddrMod, c, AlignUp(AddrMod, Granule, size))
                = c + AlignUp(AddrMod, Granule, size)
<1>1. size \in 1 .. Size
  BY InputAssumption
<1> DEFINE s == size + Granule - 1
<1>2. s \in 0 .. 2 * Size /\ s < AddrMod
  BY <1>1, GeometryAssumption, SMT
<1>3. size + (Granule - 1) = s
  BY <1>1, GeometryAssumption, SMT
<1>4. s % AddrMod = s
  BY <1>2, GeometryAssumption, SMT
<1>5. AlignUp(AddrMod, Granule, size) = s - (s % Granule)
  BY <1>3, <1>4 DEF AlignUp, WrapAdd
<1>6. s % Granule \in 0 .. s
  <2> HIDE DEF s
  <2>1. Granule \in Nat \ {0} /\ s \in Nat
    BY <1>2, GeometryAssumption, SMT
  <2> QED
    BY <2>1, SMT
<1>7. AlignUp(AddrMod, Granule, size) \in 0 .. 2 * Size
  <2> HIDE DEF s
  <2> QED
  BY <1>2, <1>5, <1>6, GeometryAssumption, SMT
<1>8. ASSUME NEW c \in 0 .. Size
      PROVE  WrapAdd(AddrMod, c, AlignUp(AddrMod, Granule, size))
               = c + AlignUp(AddrMod, Granule, size)
  <2> DEFINE up == AlignUp(AddrMod, Granule, size)
  <2>1. c + up \in 0 .. AddrMod - 1
    BY <1>7, GeometryAssumption, SMT
  <2> QED
    BY <2>1, GeometryAssumption, SMT DEF WrapAdd
<1> QED
  BY <1>7, <1>8
LEMMA DivModFacts ==
  ASSUME NEW a \in Nat, NEW b \in Nat \ {0}
  PROVE  /\ a \div b \in Nat
         /\ a % b \in 0 .. b - 1
         /\ a = b * (a \div b) + (a % b)
  BY SMT

LEMMA ProductOrder ==
  ASSUME NEW b \in Nat \ {0}, NEW p \in Nat, NEW q \in Nat, b * q < b * p
  PROVE  q < p
  BY SMT

LEMMA WordOfInside ==
  ASSUME NEW q \in Blocks
  PROVE  q \in Nat /\ WordOf(q) \in BitmapWords
<1> DEFINE blocks == Size \div DIRTY_BLOCK_SIZE
           x == q \div WordBits
           y == blocks \div WordBits
<1>1. WordBits \in Nat \ {0} /\ blocks \in Nat /\ q \in Nat /\ q < blocks
  <2>1. blocks \in Nat
    BY GeometryAssumption, DivModFacts, SMT
  <2> QED
    BY <2>1, GeometryAssumption, SMT DEF Blocks
<1> HIDE DEF blocks
<1>2. q = WordBits * x + (q % WordBits) /\ x \in Nat /\ q % WordBits \in 0 .. WordBits - 1
  BY <1>1, DivModFacts
<1>3. /\ blocks = WordBits * y + (blocks % WordBits) /\ y \in Nat
      /\ blocks % WordBits \in 0 .. WordBits - 1
  BY <1>1, DivModFacts
<1> HIDE DEF x, y
<1>4. WordBits * (y + 1) = WordBits * y + WordBits
  BY <1>1, <1>3, SMT
<1>5. WordBits * x < WordBits * (y + 1)
  BY <1>1, <1>2, <1>3, <1>4, SMT
<1>6. x < y + 1
  <2>1. y + 1 \in Nat
    BY <1>3, SMT
  <2> QED
    BY <1>1, <1>2, <1>5, <2>1, ProductOrder
<1> QED
  BY <1>1, <1>2, <1>3, <1>6, SMT DEF WordOf, BitmapWords, x, y, blocks

(* The block of an address exists in this memory, and so does its word. *)
LEMMA BlockOfInside ==
  ASSUME NEW a \in Addr
  PROVE  BlockOf(a) \in Blocks /\ WordOf(BlockOf(a)) \in BitmapWords
<1> DEFINE b == DIRTY_BLOCK_SIZE
           blocks == Size \div b
<1>1. a \in Nat /\ a < Size /\ b \in Nat \ {0} /\ Size \in Nat
  BY GeometryAssumption, SMT DEF Addr
<1>2. Size = b * blocks /\ blocks \in Nat
  <2>1. Size = b * blocks + (Size % b) /\ blocks \in Nat
    BY <1>1, DivModFacts
  <2>2. Size % b = 0
    BY GeometryAssumption
  <2>3. b * blocks \in Nat
    BY <1>1, <2>1, SMT
  <2> QED
    BY <2>1, <2>2, <2>3, SMT
<1>3. a \div b \in Nat /\ a \div b < blocks
  <2>1. a = b * (a \div b) + (a % b) /\ a \div b \in Nat /\ a % b \in 0 .. b - 1
    BY <1>1, DivModFacts
  <2> HIDE DEF b, blocks
  <2>2. b * (a \div b) < b * blocks
    BY <1>1, <1>2, <2>1, SMT
  <2> QED
    BY <1>1, <1>2, <2>1, <2>2, ProductOrder
<1>4. BlockOf(a) \in Blocks
  BY <1>2, <1>3, SMT DEF BlockOf, Blocks
<1> QED
  BY <1>4, WordOfInside

LEMMA ShiftMaskType ==
  ASSUME NEW block \in Nat
  PROVE  ShiftMask(block) \in SUBSET (0 .. WordBits - 1) /\ ShiftMask(block) # {}
<1> DEFINE bit == (block % WordBits) % IntBits
<1>1. IntBits \in Nat \ {0} /\ WordBits \in Nat \ {0} /\ IntBits <= WordBits
  BY GeometryAssumption
<1>2. block % WordBits \in Nat
  BY <1>1, DivModFacts, SMT
<1>3. bit \in 0 .. IntBits - 1
  BY <1>1, <1>2, DivModFacts
<1>4. ShiftMask(block) = IF bit = IntBits - 1 THEN bit .. WordBits - 1 ELSE {bit}
  BY DEF ShiftMask
<1> HIDE DEF bit
<1>5. bit \in ShiftMask(block)
  BY <1>1, <1>3, <1>4, SMT
<1> QED
  BY <1>1, <1>3, <1>4, <1>5, SMT

LEMMA WriteBounds ==
  ASSUME NEW w \in Writes
  PROVE  BoundsError(w.addr, Len(w.buf)) = "none" <=> w.addr + Len(w.buf) <= Size
<1>1. /\ w.addr \in Word(AddrMod) /\ w.buf \in Seq(Values) /\ Len(w.buf) <= Size
      /\ ~MissedOverflow(AddrMod, w.addr, Len(w.buf))
  BY InputAssumption
<1>2. Len(w.buf) \in 0 .. Size
  BY <1>1, GeometryAssumption, SMT
<1> QED
  BY <1>1, <1>2, BoundsInside

LEMMA WriteInside ==
  ASSUME NEW w \in Writes, BoundsError(w.addr, Len(w.buf)) = "none"
  PROVE  /\ w.addr \in Addr
         /\ Span(w.addr, Len(w.buf)) \subseteq Addr
         /\ \A a \in Span(w.addr, Len(w.buf)) : w.buf[a - w.addr + 1] \in Values
<1>1. /\ w.addr \in Word(AddrMod) /\ w.buf \in Seq(Values) /\ Len(w.buf) <= Size
      /\ ~MissedOverflow(AddrMod, w.addr, Len(w.buf))
      /\ w.buf = <<>> => w.addr # Size
  BY InputAssumption
<1>2. Len(w.buf) \in 0 .. Size /\ w.addr \in Nat
  BY <1>1, GeometryAssumption, SMT DEF Word
<1>3. w.addr + Len(w.buf) <= Size
  BY <1>1, <1>2, BoundsInside
<1>4. Len(w.buf) = 0 => w.buf = <<>>
  BY <1>1, SMT
<1>5. \A a \in Span(w.addr, Len(w.buf)) : a - w.addr + 1 \in 1 .. Len(w.buf)
  BY <1>2, SMT DEF Span
<1>6. \A i \in 1 .. Len(w.buf) : w.buf[i] \in Values
  BY <1>1, SMT
<1> QED
  BY <1>1, <1>2, <1>3, <1>4, <1>5, <1>6, GeometryAssumption, SMT DEF Addr, Span

LEMMA AllocInside ==
  ASSUME NEW size \in AllocSizes, cur_alloc \in 0 .. Size, EndAlloc(size) <= Size
  PROVE  /\ EndAlloc(size) \in cur_alloc .. Size
         /\ Span(cur_alloc, AlignUp(AddrMod, Granule, size)) \subseteq Addr
         /\ \A a \in Span(cur_alloc, AlignUp(AddrMod, Granule, size)) : 
              cur_alloc <= a /\ a < EndAlloc(size)
<1>1. AlignUp(AddrMod, Granule, size) \in 0 .. 2 * Size
  BY AlignUpBound
<1>2. EndAlloc(size) = cur_alloc + AlignUp(AddrMod, Granule, size)
  BY AlignUpBound DEF EndAlloc
<1> QED
  BY <1>1, <1>2, GeometryAssumption, SMT DEF Addr, Span
-----------------------------------------------------------------------------
(* What a call of MarkDirty does to the list and to the bitmap *)

LEMMA MarkDirtyEffect ==
  ASSUME TypeOK, NEW a \in Addr, MarkDirty(a)
  PROVE  /\ dirty' \in Seq(Blocks)
         /\ dirty_bitmap' \in [BitmapWords -> SUBSET (0 .. WordBits - 1)]
<1>1. BlockOf(a) \in Blocks /\ WordOf(BlockOf(a)) \in BitmapWords
  BY BlockOfInside
<1>2. BlockOf(a) \in Nat
  BY <1>1, SMT DEF Blocks
<1>3. ShiftMask(BlockOf(a)) \in SUBSET (0 .. WordBits - 1)
  BY <1>2, ShiftMaskType
<1>4. CASE dirty_bitmap[WordOf(BlockOf(a))] \cap ShiftMask(BlockOf(a)) = {}
  <2>1. /\ dirty' = Append(dirty, BlockOf(a))
        /\ dirty_bitmap' = [dirty_bitmap EXCEPT ![WordOf(BlockOf(a))] = @ \cup ShiftMask(BlockOf(a))]
    BY <1>4 DEF MarkDirty
  <2>2. dirty' \in Seq(Blocks)
    BY <1>1, <2>1, SMT DEF TypeOK
  <2> QED
    BY <1>1, <1>3, <2>1, <2>2 DEF TypeOK
<1>5. CASE dirty_bitmap[WordOf(BlockOf(a))] \cap ShiftMask(BlockOf(a)) # {}
  BY <1>5 DEF MarkDirty, tracking, TypeOK
<1> QED
  BY <1>4, <1>5
-----------------------------------------------------------------------------
LEMMA InitTypeOK == Init => TypeOK
<1> SUFFICES ASSUME Init PROVE TypeOK
  OBVIOUS
<1> USE DEF Init
<1>1. memory \in [Addr -> Values] /\ permission \in [Addr -> Permission]
  BY GeometryAssumption DEF Permission
<1>2. dirty \in Seq(Blocks) /\ dirty_bitmap \in [BitmapWords -> SUBSET (0 .. WordBits - 1)]
  BY SMT DEF CleanBitmap
<1>3. cur_alloc \in 0 .. Size
  BY GeometryAssumption
<1>4. other \in [memory : [Addr -> Values], permission : [Addr -> Permission],
                 cur_alloc : 0 .. Size, written : SUBSET Addr]
  BY <1>1, <1>3
<1>5. result \in Results
  BY DEF Results
<1> QED
  BY <1>1, <1>2, <1>3, <1>4, <1>5 DEF TypeOK

LEMMA NextTypeOK == TypeOK /\ [Next]_vars => TypeOK'
<1> SUFFICES ASSUME TypeOK, [Next]_vars PROVE TypeOK'
  OBVIOUS
<1> USE DEF TypeOK
<1>1. ASSUME NEW w \in Writes, WriteFrom(w.addr, w.buf) PROVE TypeOK'
  <2> DEFINE span == Span(w.addr, Len(w.buf))
  <2>1. /\ w.addr \in Addr /\ span \subseteq Addr
        /\ \A a \in span : w.buf[a - w.addr + 1] \in Values
    BY <1>1, WriteInside DEF WriteFrom
  <2>2. /\ dirty' \in Seq(Blocks)
        /\ dirty_bitmap' \in [BitmapWords -> SUBSET (0 .. WordBits - 1)]
    BY <1>1, <2>1, MarkDirtyEffect DEF WriteFrom
  <2>3. memory' \in [Addr -> Values]
    BY <1>1, <2>1 DEF WriteFrom
  <2>4. permission' \in [Addr -> Permission]
    BY <1>1 DEF WriteFrom, DiscloseRaw, Permission, Access
  <2>5. slipped' \subseteq Addr
    BY <1>1, <2>1 DEF WriteFrom, Missed
  <2> QED
    BY <1>1, <2>1, <2>2, <2>3, <2>4, <2>5 DEF WriteFrom, Results
<1>2. ASSUME NEW w \in Writes, WriteFromFails(w.addr, w.buf) PROVE TypeOK'
  <2>1. result' \in Results
    BY <1>2 DEF WriteFromFails, BoundsError, Results
  <2> QED
    BY <1>2, <2>1 DEF WriteFromFails, tracking, history
<1>3. ASSUME NEW g \in Grants, SetPermission(g.addr, g.len, g.perm) PROVE TypeOK'
  <2>1. Span(g.addr, g.len) \subseteq Addr /\ g.perm \in Permission
    BY <1>3, InputAssumption, GeometryAssumption, SMT
       DEF SetPermission, Span, Addr, Permission
  <2> QED
    BY <1>3, <2>1 DEF SetPermission, Grant, Results, tracking
<1>4. ASSUME NEW g \in Grants, SetPermissionThrows(g.addr, g.len) PROVE TypeOK'
  BY <1>4 DEF SetPermissionThrows, Results, tracking, history
<1>5. ASSUME NEW size \in AllocSizes, mem_alloc(size) PROVE TypeOK'
  <2> DEFINE span == Span(cur_alloc, AlignUp(AddrMod, Granule, size))
  <2>1. span \subseteq Addr /\ cur_alloc' \in 0 .. Size
    BY <1>5, AllocInside, GeometryAssumption, SMT DEF mem_alloc
  <2>2. {"RAW", "WRITE"} \in Permission
    BY DEF Permission, Access
  <2> HIDE DEF span
  <2>3. permission' \in [Addr -> Permission] /\ granted' \subseteq Addr
    BY <1>5, <2>1, <2>2 DEF mem_alloc, Grant, span
  <2>4. written' \subseteq Addr /\ owned' \subseteq Addr
    BY <1>5, <2>1 DEF mem_alloc, span
  <2> QED
    BY <1>5, <2>1, <2>3, <2>4 DEF mem_alloc, Results, tracking
<1>6. ASSUME NEW size \in AllocSizes, mem_allocFails(size) PROVE TypeOK'
  BY <1>6 DEF mem_allocFails, Results, tracking, history
<1>7. ASSUME Snapshot,
             \/ dirty' = <<>> /\ dirty_bitmap' = CleanBitmap
             \/ UNCHANGED tracking
      PROVE  TypeOK'
  <2>1. dirty' \in Seq(Blocks) /\ dirty_bitmap' \in [BitmapWords -> SUBSET (0 .. WordBits - 1)]
    <3>1. <<>> \in Seq(Blocks) /\ CleanBitmap \in [BitmapWords -> SUBSET (0 .. WordBits - 1)]
      BY DEF CleanBitmap
    <3> QED
      BY <1>7, <3>1 DEF tracking
  <2> QED
    BY <1>7, <2>1 DEF Snapshot, Results
<1>8. ASSUME Reset PROVE TypeOK'
  <2>1. memory' \in [Addr -> Values] /\ permission' \in [Addr -> Permission]
    BY <1>8 DEF Reset, RestorePermission
  <2>2. dirty' \in Seq(Blocks) /\ dirty_bitmap' \in [BitmapWords -> SUBSET (0 .. WordBits - 1)]
    BY <1>8 DEF Reset, ClearedBitmap
  <2> QED
    BY <1>8, <2>1, <2>2 DEF Reset, Results
<1>9. ASSUME NEW r \in Reads, ReadIntoPerm(r.addr, r.len, r.perm) PROVE TypeOK'
  <2>1. result' \in Results
    BY <1>9 DEF ReadIntoPerm, BoundsError, Results
  <2> QED
    BY <1>9, <2>1 DEF ReadIntoPerm, tracking, history
<1>10. CASE UNCHANGED vars
  BY <1>10 DEF vars, tracking, history
<1> QED
  BY <1>1, <1>2, <1>3, <1>4, <1>5, <1>6, <1>7, <1>8, <1>9, <1>10
     DEF Next, ForkRunCopy, ForkRunOriginal

(* The types of all variables hold in every reachable state; in particular *)
(* the dirty list names blocks of this memory only, so the copies made by  *)
(* Reset stay inside the vectors, and cur_alloc stays inside the memory.   *)
THEOREM TypeCorrect == Spec => []TypeOK
<1> QED
  BY InitTypeOK, NextTypeOK, PTL DEF Spec
-----------------------------------------------------------------------------
(* The dirty list and the bitmap *)

NoDuplicates == \A i, j \in DOMAIN dirty : dirty[i] = dirty[j] => i = j

(* The inductive invariant of the tracking *)
DirtyInv == TypeOK /\ BitmapFollowsList /\ NoDuplicates

(* The bits a set of blocks accounts for in word w *)
MaskOf(blocks, w) == UNION {ShiftMask(block) : block \in {d \in blocks : WordOf(d) = w}}

LEMMA AppendDirty ==
  ASSUME NEW S, NEW s \in Seq(S), NEW e \in S
  PROVE  {Append(s, e)[i] : i \in DOMAIN Append(s, e)} = {s[i] : i \in DOMAIN s} \cup {e}
<1>1. /\ DOMAIN s = 1 .. Len(s) /\ Len(s) \in Nat
      /\ DOMAIN Append(s, e) = 1 .. Len(s) + 1
      /\ \A i \in 1 .. Len(s) : Append(s, e)[i] = s[i]
      /\ Append(s, e)[Len(s) + 1] = e
  BY SMT
<1> QED
  BY <1>1, SMT

(* A listed block has its own bits set, so it is not listed again. *)
LEMMA ListedHasBits ==
  ASSUME TypeOK, BitmapFollowsList, NEW block \in DirtyBlocks
  PROVE  /\ block \in Blocks
         /\ ShiftMask(block) \subseteq dirty_bitmap[WordOf(block)]
<1>1. block \in Blocks
  BY DEF TypeOK, DirtyBlocks
<1>2. WordOf(block) \in BitmapWords
  BY <1>1, WordOfInside
<1> QED
  BY <1>1, <1>2 DEF BitmapFollowsList

LEMMA MarkDirtyPreserves ==
  ASSUME TypeOK, BitmapFollowsList, NoDuplicates, NEW a \in Addr, MarkDirty(a)
  PROVE  BitmapFollowsList' /\ NoDuplicates'
<1> DEFINE block == BlockOf(a)
           idx == WordOf(block)
<1>1. block \in Blocks /\ block \in Nat /\ idx \in BitmapWords
  BY BlockOfInside, WordOfInside
<1>2. CASE dirty_bitmap[idx] \cap ShiftMask(block) = {}
  <2>1. /\ dirty' = Append(dirty, block)
        /\ dirty_bitmap' = [dirty_bitmap EXCEPT ![idx] = @ \cup ShiftMask(block)]
    BY <1>2 DEF MarkDirty
  <2> HIDE DEF block, idx
  <2>2. DirtyBlocks' = DirtyBlocks \cup {block}
    <3>1. dirty \in Seq(Blocks)
      BY DEF TypeOK
    <3>2. {Append(dirty, block)[i] : i \in DOMAIN Append(dirty, block)}
            = {dirty[i] : i \in DOMAIN dirty} \cup {block}
      BY <1>1, <3>1, AppendDirty
    <3> QED
      BY <2>1, <3>2, Zenon DEF DirtyBlocks
  <2>3. block \notin DirtyBlocks
    BY <1>1, <1>2, ListedHasBits, ShiftMaskType DEF idx
  <2>4. BitmapFollowsList'
    <3> SUFFICES ASSUME NEW w \in BitmapWords
                 PROVE  dirty_bitmap'[w] = MaskOf(DirtyBlocks', w)
      BY DEF BitmapFollowsList, MaskOf
    <3>1. dirty_bitmap[w] = MaskOf(DirtyBlocks, w)
      BY DEF BitmapFollowsList, MaskOf
    <3>2. CASE w = idx
      <4>1. dirty_bitmap'[w] = dirty_bitmap[w] \cup ShiftMask(block)
        BY <2>1, <3>2 DEF TypeOK
      <4>2. MaskOf(DirtyBlocks', w) = MaskOf(DirtyBlocks, w) \cup ShiftMask(block)
        BY <2>2, <3>2 DEF MaskOf, idx
      <4> QED
        BY <3>1, <4>1, <4>2
    <3>3. CASE w # idx
      <4>1. dirty_bitmap'[w] = dirty_bitmap[w]
        BY <2>1, <3>3 DEF TypeOK
      <4>2. {d \in DirtyBlocks' : WordOf(d) = w} = {d \in DirtyBlocks : WordOf(d) = w}
        BY <2>2, <3>3 DEF idx
      <4> QED
        BY <3>1, <4>1, <4>2 DEF MaskOf
    <3> QED
      BY <3>2, <3>3
  <2>5. NoDuplicates'
    <3>1. dirty \in Seq(Blocks)
      BY DEF TypeOK
    <3>2. \A i \in DOMAIN dirty : dirty[i] # block
      BY <2>3 DEF DirtyBlocks
    <3> QED
      BY <1>1, <2>1, <3>1, <3>2, SMT DEF NoDuplicates
  <2> QED
    BY <2>4, <2>5
<1>3. CASE dirty_bitmap[idx] \cap ShiftMask(block) # {}
  <2>1. UNCHANGED <<dirty, dirty_bitmap>>
    BY <1>3 DEF MarkDirty, tracking
  <2> QED
    BY <2>1 DEF BitmapFollowsList, NoDuplicates, DirtyBlocks
<1> QED
  BY <1>2, <1>3

(* A list without entries and a bitmap without bits agree. *)
LEMMA CleanIsConsistent ==
  ASSUME dirty' = <<>>, dirty_bitmap' = CleanBitmap
  PROVE  BitmapFollowsList' /\ NoDuplicates'
<1>1. DirtyBlocks' = {}
  BY DEF DirtyBlocks
<1>2. BitmapFollowsList'
  BY <1>1 DEF BitmapFollowsList, CleanBitmap
<1>3. NoDuplicates'
  BY DEF NoDuplicates
<1> QED
  BY <1>2, <1>3

(* Reset clears the word of every listed block, and no other word has a bit. *)
LEMMA ClearedIsClean ==
  ASSUME BitmapFollowsList
  PROVE  ClearedBitmap = CleanBitmap
<1> SUFFICES ASSUME NEW w \in BitmapWords,
                    \A block \in DirtyBlocks : WordOf(block) # w
             PROVE  dirty_bitmap[w] = {}
  BY DEF ClearedBitmap, CleanBitmap
<1>1. {d \in DirtyBlocks : WordOf(d) = w} = {}
  OBVIOUS
<1> QED
  BY <1>1 DEF BitmapFollowsList

LEMMA InitDirtyInv == Init => DirtyInv
<1> SUFFICES ASSUME Init PROVE BitmapFollowsList /\ NoDuplicates
  BY InitTypeOK DEF DirtyInv
<1>1. DirtyBlocks = {}
  BY DEF Init, DirtyBlocks
<1> QED
  BY <1>1 DEF Init, BitmapFollowsList, CleanBitmap, NoDuplicates

LEMMA NextDirtyInv == DirtyInv /\ [Next]_vars => DirtyInv'
<1> SUFFICES ASSUME TypeOK, BitmapFollowsList, NoDuplicates, [Next]_vars
             PROVE  BitmapFollowsList' /\ NoDuplicates'
  BY NextTypeOK DEF DirtyInv
<1>1. ASSUME NEW w \in Writes, WriteFrom(w.addr, w.buf)
      PROVE  BitmapFollowsList' /\ NoDuplicates'
  BY <1>1, WriteInside, MarkDirtyPreserves DEF WriteFrom
<1>2. ASSUME dirty' = <<>>, dirty_bitmap' = CleanBitmap
      PROVE  BitmapFollowsList' /\ NoDuplicates'
  BY <1>2, CleanIsConsistent
<1>3. Reset => dirty' = <<>> /\ dirty_bitmap' = CleanBitmap
  BY ClearedIsClean DEF Reset
<1>4. ASSUME UNCHANGED tracking
      PROVE  BitmapFollowsList' /\ NoDuplicates'
  <2>1. DirtyBlocks' = DirtyBlocks
    BY <1>4 DEF tracking, DirtyBlocks
  <2> QED
    BY <1>4, <2>1 DEF tracking, BitmapFollowsList, NoDuplicates
<1> QED
  BY <1>1, <1>2, <1>3, <1>4
     DEF Next, ForkRunCopy, ForkRunOriginal, vars, WriteFromFails, SetPermission,
         SetPermissionThrows, mem_alloc, mem_allocFails, ReadIntoPerm

(* Distinct listed blocks are at most as many as the blocks of the memory. *)
LEMMA ListLength == TypeOK /\ NoDuplicates => DirtyWithinReserve
<1> SUFFICES ASSUME TypeOK, NoDuplicates PROVE Len(dirty) <= Size \div DIRTY_BLOCK_SIZE
  BY DEF NoDuplicates, DirtyWithinReserve
<1> DEFINE n == Size \div DIRTY_BLOCK_SIZE
<1>1. n \in Nat
  BY GeometryAssumption, DivModFacts, SMT
<1>2. /\ Len(dirty) \in Nat /\ DOMAIN dirty = 1 .. Len(dirty)
      /\ \A i \in 1 .. Len(dirty) : dirty[i] \in Blocks
  BY SMT DEF TypeOK
<1>3. IsFiniteSet(0 .. n - 1) /\ Cardinality(0 .. n - 1) = n
  <2> HIDE DEF n
  <2>1. n - 1 \in Int /\ 0 \in Int
    BY <1>1, SMT
  <2>2. /\ IsFiniteSet(0 .. n - 1)
        /\ Cardinality(0 .. n - 1) = IF 0 > n - 1 THEN 0 ELSE n - 1 - 0 + 1
    BY <2>1, FS_Interval
  <2> QED
    BY <1>1, <2>2, SMT
<1>4. IsFiniteSet(1 .. Len(dirty)) /\ Cardinality(1 .. Len(dirty)) = Len(dirty)
  <2>1. /\ IsFiniteSet(1 .. Len(dirty))
        /\ Cardinality(1 .. Len(dirty)) = IF 1 > Len(dirty) THEN 0 ELSE Len(dirty) - 1 + 1
    BY <1>2, FS_Interval, SMT
  <2> QED
    BY <1>2, <2>1, SMT
<1>5. CASE n < Len(dirty)
  <2> DEFINE f == [i \in 1 .. Len(dirty) |-> dirty[i]]
  <2>1. f \in [1 .. Len(dirty) -> 0 .. n - 1]
    BY <1>2 DEF Blocks
  <2>2. \E i, j \in 1 .. Len(dirty) : i # j /\ f[i] = f[j]
    <3> HIDE DEF f, n
    <3> QED
      BY <1>3, <1>4, <1>5, <2>1, FS_PigeonHole
  <2> QED
    BY <1>2, <2>2 DEF NoDuplicates
<1> QED
  BY <1>1, <1>2, <1>5, SMT

(* In every reachable state the bitmap is exactly what the list accounts   *)
(* for: a Reset leaves no stale bit behind that would hide a later write.  *)
THEOREM BitmapSound == Spec => []BitmapFollowsList
<1>1. DirtyInv => BitmapFollowsList
  BY DEF DirtyInv
<1> QED
  BY InitDirtyInv, NextDirtyInv, <1>1, PTL DEF Spec

(* In every reachable state no block is listed twice, so the list fits the *)
(* capacity the constructors reserve for it.                               *)
THEOREM DirtyListSound == Spec => []DirtyWithinReserve
<1>1. DirtyInv => DirtyWithinReserve
  BY ListLength DEF DirtyInv
<1> QED
  BY InitDirtyInv, NextDirtyInv, <1>1, PTL DEF Spec
-----------------------------------------------------------------------------
(* PERM_RAW: readable exactly when stored to *)

RawAgrees(perms, stored) ==
  \A a \in Addr : "RAW" \in perms[a] => ("READ" \in perms[a] <=> a \in stored)

(* Reset mixes the running memory with the snapshot, so both must agree. *)
RawInv == TypeOK /\ RawAgrees(permission, written) /\ RawAgrees(other.permission, other.written)

LEMMA InitRawInv == Init => RawInv
  BY InitTypeOK DEF Init, RawInv, RawAgrees

LEMMA NextRawInv == RawInv /\ [Next]_vars => RawInv'
<1> SUFFICES ASSUME TypeOK, RawAgrees(permission, written),
                    RawAgrees(other.permission, other.written), [Next]_vars
             PROVE  /\ RawAgrees(permission', written')
                    /\ RawAgrees(other.permission', other.written')
  BY NextTypeOK DEF RawInv
<1> DEFINE Goal == /\ RawAgrees(permission', written')
                   /\ RawAgrees(other.permission', other.written')
<1>1. ASSUME NEW w \in Writes, WriteFrom(w.addr, w.buf) PROVE Goal
  <2> DEFINE span == Span(w.addr, Len(w.buf))
  <2>1. /\ permission' = [a \in Addr |-> IF a \in span /\ "RAW" \in permission[a]
                                         THEN permission[a] \cup {"READ"} ELSE permission[a]]
        /\ written' = written \cup span /\ other' = other
    BY <1>1 DEF WriteFrom, DiscloseRaw
  <2> HIDE DEF span
  <2> QED
    BY <2>1 DEF RawAgrees
<1>2. ASSUME NEW g \in Grants, SetPermission(g.addr, g.len, g.perm) PROVE Goal
  <2>1. "RAW" \notin g.perm
    BY InputAssumption DEF Access
  <2> QED
    BY <1>2, <2>1 DEF SetPermission, Grant, RawAgrees
<1>3. ASSUME NEW size \in AllocSizes, mem_alloc(size) PROVE Goal
  BY <1>3 DEF mem_alloc, Grant, RawAgrees
<1>4. ASSUME Snapshot PROVE Goal
  BY <1>4 DEF Snapshot, RawAgrees
<1>5. ASSUME Reset PROVE Goal
  <2>1. /\ permission' = [a \in Addr |-> IF a \in Restored THEN other.permission[a]
                                         ELSE permission[a]]
        /\ written' = (written \ Restored) \cup (other.written \cap Restored)
        /\ other' = other
    BY <1>5 DEF Reset, RestorePermission
  <2> QED
    BY <2>1 DEF RawAgrees
<1>6. ASSUME UNCHANGED <<permission, written, other>> PROVE Goal
  BY <1>6 DEF RawAgrees
<1> QED
  BY <1>1, <1>2, <1>3, <1>4, <1>5, <1>6
     DEF Next, ForkRunCopy, ForkRunOriginal, vars, history, WriteFromFails,
         SetPermissionThrows, mem_allocFails, ReadIntoPerm

(* In every reachable state a byte that mem_alloc handed out can be read   *)
(* exactly when it has been stored to since, whatever faults, forks and    *)
(* resets came between.                                                    *)
THEOREM RawBytesSound == Spec => []RawReadableIffWritten
<1>1. RawInv => RawReadableIffWritten
  BY DEF RawInv, RawAgrees, RawReadableIffWritten
<1> QED
  BY InitRawInv, NextRawInv, <1>1, PTL DEF Spec
-----------------------------------------------------------------------------
(* The allocator *)

(* mem_alloc hands out every byte at most once, before and after a Reset. *)
THEOREM AllocatorSound == Spec => []AllocationsDisjoint
<1> DEFINE Inv == TypeOK /\ AllocationsDisjoint
<1>1. Init => Inv
  BY InitTypeOK DEF Init, AllocationsDisjoint
<1>2. Inv /\ [Next]_vars => Inv'
  <2> SUFFICES ASSUME TypeOK, AllocationsDisjoint, [Next]_vars PROVE AllocationsDisjoint'
    BY NextTypeOK
  <2>1. ASSUME NEW size \in AllocSizes, mem_alloc(size) PROVE AllocationsDisjoint'
    <3> DEFINE span == Span(cur_alloc, AlignUp(AddrMod, Granule, size))
    <3>1. /\ cur_alloc' \in cur_alloc .. Size
          /\ \A a \in span : a < cur_alloc'
      BY <2>1, AllocInside DEF mem_alloc, TypeOK
    <3>2. owned' = owned \cup span
      BY <2>1 DEF mem_alloc
    <3>3. owned \subseteq Addr /\ cur_alloc \in 0 .. Size
      BY DEF TypeOK
    <3> HIDE DEF span
    <3> QED
      BY <3>1, <3>2, <3>3, GeometryAssumption, SMT DEF AllocationsDisjoint, Addr
  <2>2. ASSUME UNCHANGED <<cur_alloc, owned>> PROVE AllocationsDisjoint'
    BY <2>2 DEF AllocationsDisjoint
  <2> QED
    BY <2>1, <2>2 DEF Next, ForkRunCopy, ForkRunOriginal, Snapshot, Reset, vars, history,
       WriteFrom, WriteFromFails, SetPermission, SetPermissionThrows, mem_allocFails, ReadIntoPerm
<1> QED
  BY <1>1, <1>2, PTL DEF Spec
-----------------------------------------------------------------------------
(* A byte without PERM_WRITE keeps its value in every step except a Reset, *)
(* which gives it the snapshot's.                                          *)
THEOREM OnlyWritableBytesChange == Spec => OnlyWritableChanges
<1> DEFINE Step == \A a \in Addr : memory'[a] # memory[a] /\ ~Writable(a)
                     => result' = "none" /\ memory'[a] = other.memory[a]
<1>1. ASSUME TypeOK, Next PROVE Step
  <2>1. ASSUME NEW w \in Writes, WriteFrom(w.addr, w.buf) PROVE Step
    <3> DEFINE span == Span(w.addr, Len(w.buf))
    <3>1. \A a \in span : Writable(a)
      BY <2>1 DEF WriteFrom, MayWrite
    <3>2. memory' = [a \in Addr |-> IF a \in span THEN w.buf[a - w.addr + 1] ELSE memory[a]]
      BY <2>1 DEF WriteFrom
    <3> HIDE DEF span
    <3> QED
      BY <3>1, <3>2
  <2>2. ASSUME Reset PROVE Step
    BY <2>2 DEF Reset
  <2>3. ASSUME UNCHANGED memory PROVE Step
    BY <2>3
  <2> QED
    BY <1>1, <2>1, <2>2, <2>3 DEF Next, ForkRunCopy, ForkRunOriginal, Snapshot, WriteFromFails,
       SetPermission, SetPermissionThrows, mem_alloc, mem_allocFails, ReadIntoPerm
<1>2. TypeOK /\ [Next]_vars => [Step]_vars
  BY <1>1
<1> QED
  BY TypeCorrect, <1>2, PTL DEF Spec, OnlyWritableChanges
=============================================================================
