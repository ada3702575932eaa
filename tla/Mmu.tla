-------------------------------- MODULE Mmu --------------------------------
(***************************************************************************)
(* The guest memory of the emulator (memory/Mmu.hpp, memory/Mmu.cpp):      *)
(* bytes with per-byte permissions, a bump allocator, and the list of      *)
(* dirty blocks that lets Reset restore a forked memory without copying    *)
(* all of it.                                                              *)
(*                                                                         *)
(* The inputs of the operations are the constants: Writes the buffers a    *)
(* write is called with, Reads the ranges a read is, Grants the calls of   *)
(* SetPermission, AllocSizes the sizes passed to mem_alloc.                *)
(***************************************************************************)
EXTENDS Words, Sequences, FiniteSets

CONSTANTS
  AddrMod,           \* number of addresses of a VirtualAddr, 2^64 in the code
  Size,              \* bytes of guest memory
  DIRTY_BLOCK_SIZE,  \* bytes in a dirty block
  WordBits,          \* bits in a word of dirty_bitmap, 64 in the code
  IntBits,           \* bits of the int that is shifted into a mask, 32
  Granule,           \* alignment of mem_alloc, 16 in the code
  AllocBase,         \* initial cur_alloc, 0x10000 in the code
  Values, Zero,      \* contents of a byte, and the initial one
  Writes,            \* {[addr, buf]}: calls of WriteFrom
  Reads,             \* {[addr, len, perm]}: calls of ReadIntoPerm
  Grants,            \* {[addr, len, perm]}: calls of SetPermission
  AllocSizes         \* arguments of mem_alloc

Access == {"READ", "WRITE", "EXEC"}
Permission == SUBSET (Access \cup {"RAW"})
Addr == 0 .. Size - 1
Span(addr, len) == addr .. addr + len - 1
Blocks == 0 .. (Size \div DIRTY_BLOCK_SIZE) - 1
BlockOf(addr) == addr \div DIRTY_BLOCK_SIZE

(* Memory is a whole number of blocks, and the allocator starts inside it. *)
ASSUME GeometryAssumption ==
  /\ AddrMod \in Nat /\ AddrMod % 2 = 0
  /\ Size \in Nat \ {0} /\ DIRTY_BLOCK_SIZE \in Nat \ {0}
  /\ Size % DIRTY_BLOCK_SIZE = 0 /\ 4 * Size <= AddrMod
  /\ IntBits \in Nat \ {0} /\ WordBits \in Nat \ {0} /\ IntBits <= WordBits
  /\ Granule \in 1 .. Size /\ AllocBase \in 0 .. Size
  /\ Zero \in Values

(***************************************************************************)
(* What the callers in the repository respect: a write that starts at the  *)
(* end of memory is not empty, only even sizes are stored at the top of    *)
(* the address space (checked_add misses odd + odd = 2^w), no caller of    *)
(* SetPermission passes PERM_RAW or a wrapping range, and the two sizes    *)
(* passed to mem_alloc are small.                                          *)
(***************************************************************************)
ASSUME InputAssumption ==
  /\ \A w \in Writes :
       /\ w.addr \in Word(AddrMod) /\ w.buf \in Seq(Values)
       /\ Len(w.buf) <= Size
       /\ ~MissedOverflow(AddrMod, w.addr, Len(w.buf))
       /\ w.buf = <<>> => w.addr # Size
  /\ \A r \in Reads :
       /\ r.addr \in Word(AddrMod) /\ r.len \in 0 .. Size /\ r.perm \in SUBSET Access
       /\ ~MissedOverflow(AddrMod, r.addr, r.len)
  /\ \A g \in Grants :
       /\ g.addr \in Nat /\ g.len \in Nat /\ g.perm \in SUBSET Access
       /\ g.addr + g.len < AddrMod
  /\ AllocSizes \subseteq 1 .. Size

VARIABLES
  memory, permission,    \* functions on Addr
  dirty,                 \* sequence of blocks
  dirty_bitmap,          \* word number -> set of bits that are 1
  cur_alloc,
  other,                 \* the Mmu that Reset restores from
  forked,                \* whether there is one
  result,                \* what the last call returned
  written,               \* history: bytes stored since they were allocated
  granted,               \* history: bytes whose permission was set by
                         \*   SetPermission since the fork
  slipped,               \* history: bytes stored since the fork by a write
                         \*   that marked another block instead of theirs
  owned                  \* history: bytes mem_alloc has handed out

tracking == <<dirty, dirty_bitmap>>
history == <<written, granted, slipped, owned>>
vars == <<memory, permission, tracking, cur_alloc, other, forked, result, history>>

BitmapWords == 0 .. (Size \div DIRTY_BLOCK_SIZE) \div WordBits
CleanBitmap == [w \in BitmapWords |-> {}]

Init ==
  /\ memory = [a \in Addr |-> Zero]
  /\ permission = [a \in Addr |-> {}]
  /\ dirty = <<>>
  /\ dirty_bitmap = CleanBitmap
  /\ cur_alloc = AllocBase
  /\ other = [memory |-> memory, permission |-> permission, cur_alloc |-> cur_alloc,
               written |-> {}]
  /\ forked = FALSE
  /\ result = "none"
  /\ written = {} /\ granted = {} /\ slipped = {} /\ owned = {}
-----------------------------------------------------------------------------
(* WriteFrom *)

(***************************************************************************)
(* The bits of `1 << bit`: the shift count of an int is taken modulo its   *)
(* width, and the sign bit is extended when the int meets a 64-bit word.   *)
(***************************************************************************)
ShiftMask(block) ==
  LET bit == (block % WordBits) % IntBits
  IN  IF bit = IntBits - 1 THEN bit .. WordBits - 1 ELSE {bit}

WordOf(block) == block \div WordBits

(* plausible slips in the marking, for the properties to notice *)
MutMarkAddress(addr) ==
  /\ dirty' = Append(dirty, addr)
  /\ dirty_bitmap' = [dirty_bitmap EXCEPT ![WordOf(BlockOf(addr))] = @ \cup ShiftMask(BlockOf(addr))]

MutMarkWithoutBitmap(addr) ==
  /\ dirty' = Append(dirty, BlockOf(addr))
  /\ UNCHANGED dirty_bitmap

MutMarkWithoutList(addr) ==
  LET block == BlockOf(addr) IN
    /\ dirty_bitmap' = [dirty_bitmap EXCEPT ![WordOf(block)] = @ \cup ShiftMask(block)]
    /\ UNCHANGED dirty

(***************************************************************************)
(* The loop over block_start..block_end tests and sets the bit of          *)
(* block_start in every iteration, so only the first one has an effect.    *)
(***************************************************************************)
MarkDirty(addr) ==
  LET block_start == BlockOf(addr)
      idx == WordOf(block_start)
  IN  IF dirty_bitmap[idx] \cap ShiftMask(block_start) = {}
      THEN /\ dirty' = Append(dirty, block_start)
           /\ dirty_bitmap' = [dirty_bitmap EXCEPT ![idx] = @ \cup ShiftMask(block_start)]
      ELSE UNCHANGED tracking

DirtyBlocks == {dirty[i] : i \in DOMAIN dirty}

(* another block is listed, and one of its bits is a bit of this one *)
BitTaken(block) ==
  \E d \in DirtyBlocks \ {block} :
    WordOf(d) = WordOf(block) /\ ShiftMask(d) \cap ShiftMask(block) # {}

(***************************************************************************)
(* The bytes of a write that the marking misses: those beyond the block of *)
(* its first byte, and all of that block when its bit is taken.            *)
(***************************************************************************)
Missed(addr, span) ==
  {a \in span : BlockOf(a) # BlockOf(addr) \/ BitTaken(BlockOf(a))}

MutDiscloseBlock(span) ==
  permission' = [a \in Addr |->
    IF "RAW" \in permission[a] /\ \E b \in span : BlockOf(b) = BlockOf(a)
    THEN permission[a] \cup {"READ"} ELSE permission[a]]

(* PERM_RAW bytes become readable once they are stored to *)
DiscloseRaw(span) ==
  permission' = [a \in Addr |->
    IF a \in span /\ "RAW" \in permission[a]
    THEN permission[a] \cup {"READ"} ELSE permission[a]]

Writable(a) == "WRITE" \in permission[a]

(* The address checks shared by WriteFrom, ReadIntoPerm and peek_perms *)
BoundsError(addr, len) ==
  IF CheckedAddRefused(AddrMod, addr, len) THEN "AddressIntegerOverflow"
  ELSE IF WrapAdd(AddrMod, addr, len) > Size THEN "AddressMissed"
  ELSE "none"

MutWritableAt(addr, span) == \E a \in span : Writable(a)
MayWrite(addr, span) == \A a \in span : Writable(a)

WriteFrom(addr, buf) ==
  LET span == Span(addr, Len(buf)) IN
    /\ BoundsError(addr, Len(buf)) = "none"
    /\ MayWrite(addr, span)
    /\ MarkDirty(addr)
    /\ DiscloseRaw(span)
    /\ memory' = [a \in Addr |-> IF a \in span THEN buf[a - addr + 1] ELSE memory[a]]
    /\ result' = "ok"
    /\ written' = written \cup span
    /\ slipped' = slipped \cup Missed(addr, span)
    /\ UNCHANGED <<cur_alloc, other, forked, granted, owned>>

WriteFromFails(addr, buf) ==
  /\ \/ /\ BoundsError(addr, Len(buf)) # "none"
        /\ result' = BoundsError(addr, Len(buf))
     \/ /\ BoundsError(addr, Len(buf)) = "none"
        /\ ~MayWrite(addr, Span(addr, Len(buf)))
        /\ result' = "WriteFault"
  /\ UNCHANGED <<memory, permission, tracking, cur_alloc, other, forked, history>>
-----------------------------------------------------------------------------
(* SetPermission, mem_alloc *)

Grant(span, perm) ==
  /\ permission' = [a \in Addr |-> IF a \in span THEN perm ELSE permission[a]]
  /\ granted' = granted \cup span

SetPermission(addr, len, perm) ==
  /\ addr < Size /\ addr + len <= Size
  /\ Grant(Span(addr, len), perm)
  /\ result' = "ok"
  /\ UNCHANGED <<memory, tracking, cur_alloc, other, forked, written, slipped, owned>>

SetPermissionThrows(addr, len) ==
  /\ addr >= Size \/ addr + len > Size
  /\ result' = "out_of_range"
  /\ UNCHANGED <<memory, permission, tracking, cur_alloc, other, forked, history>>

MutEndUnaligned(size) == WrapAdd(AddrMod, cur_alloc, size)
EndAlloc(size) == WrapAdd(AddrMod, cur_alloc, AlignUp(AddrMod, Granule, size))

mem_alloc(size) ==
  LET span == Span(cur_alloc, AlignUp(AddrMod, Granule, size)) IN
    /\ EndAlloc(size) <= Size
    /\ cur_alloc' = EndAlloc(size)
    /\ Grant(span, {"RAW", "WRITE"})
    /\ written' = written \ span
    /\ owned' = owned \cup span
    /\ result' = "ok"
    /\ UNCHANGED <<memory, tracking, other, forked, slipped>>

mem_allocFails(size) ==
  /\ EndAlloc(size) > Size
  /\ result' = "no_space"
  /\ UNCHANGED <<memory, permission, tracking, cur_alloc, other, forked, history>>
-----------------------------------------------------------------------------
(* The copy constructor, and Reset *)

Snapshot ==
  /\ other' = [memory |-> memory, permission |-> permission, cur_alloc |-> cur_alloc,
                written |-> written]
  /\ forked' = TRUE
  /\ granted' = {} /\ slipped' = {}
  /\ result' = "none"
  /\ UNCHANGED <<memory, permission, cur_alloc, written, owned>>

(* the copy runs and is reset from the original *)
ForkRunCopy == Snapshot /\ dirty' = <<>> /\ dirty_bitmap' = CleanBitmap

(* the original runs, as in main, and the copy is what it is reset from *)
ForkRunOriginal == Snapshot /\ UNCHANGED tracking

Restored == {a \in Addr : BlockOf(a) \in DirtyBlocks}

MutClearWrongWord == [w \in BitmapWords |->
  IF \E block \in DirtyBlocks : block % WordBits = w THEN {} ELSE dirty_bitmap[w]]

(* dirty_bitmap[block / 64] = 0 for every dirty block *)
ClearedBitmap == [w \in BitmapWords |->
  IF \E block \in DirtyBlocks : WordOf(block) = w THEN {} ELSE dirty_bitmap[w]]

MutKeepPermission == UNCHANGED permission
RestorePermission ==
  permission' = [a \in Addr |->
                   IF a \in Restored THEN other.permission[a] ELSE permission[a]]

Reset ==
  /\ forked
  /\ memory' = [a \in Addr |-> IF a \in Restored THEN other.memory[a] ELSE memory[a]]
  /\ RestorePermission
  /\ dirty_bitmap' = ClearedBitmap
  /\ dirty' = <<>>
  /\ written' = (written \ Restored) \cup (other.written \cap Restored)
  /\ slipped' = slipped \ Restored
  /\ result' = "none"
  /\ UNCHANGED <<cur_alloc, other, forked, granted, owned>>
-----------------------------------------------------------------------------
(* Reads: ReadIntoPerm, and peek_perms with the same checks *)

Permitted(addr, len, perm) == \A a \in Span(addr, len) : perm \subseteq permission[a]

ReadIntoPerm(addr, len, perm) ==
  /\ result' = IF BoundsError(addr, len) # "none" THEN BoundsError(addr, len)
               ELSE IF Permitted(addr, len, perm) THEN "ok"
               ELSE "ReadFault"
  /\ UNCHANGED <<memory, permission, tracking, cur_alloc, other, forked, history>>
-----------------------------------------------------------------------------
Next ==
  \/ \E w \in Writes : WriteFrom(w.addr, w.buf)
  \/ \E w \in Writes : WriteFromFails(w.addr, w.buf)
  \/ \E g \in Grants : SetPermission(g.addr, g.len, g.perm)
  \/ \E g \in Grants : SetPermissionThrows(g.addr, g.len)
  \/ \E size \in AllocSizes : mem_alloc(size)
  \/ \E size \in AllocSizes : mem_allocFails(size)
  \/ ForkRunCopy
  \/ ForkRunOriginal
  \/ Reset
  \/ \E r \in Reads : ReadIntoPerm(r.addr, r.len, r.perm)

Spec == Init /\ [][Next]_vars
-----------------------------------------------------------------------------
Results == {"none", "ok", "AddressIntegerOverflow", "AddressMissed",
            "WriteFault", "ReadFault", "no_space", "out_of_range"}

(* Every variable keeps its type: in particular the dirty list holds       *)
(* blocks of this memory, so the copies of Reset stay inside it            *)
(* (Mmu.cpp:134-144).                                                      *)
TypeOK ==
  /\ memory \in [Addr -> Values]
  /\ permission \in [Addr -> Permission]
  /\ dirty \in Seq(Blocks)
  /\ dirty_bitmap \in [BitmapWords -> SUBSET (0 .. WordBits - 1)]
  /\ cur_alloc \in 0 .. Size
  /\ other \in [memory : [Addr -> Values], permission : [Addr -> Permission],
                cur_alloc : 0 .. Size, written : SUBSET Addr]
  /\ forked \in BOOLEAN
  /\ result \in Results
  /\ written \subseteq Addr /\ granted \subseteq Addr
  /\ slipped \subseteq Addr /\ owned \subseteq Addr

(* The bitmap is the union of the masks of the listed blocks.  Reset       *)
(* clears the whole word of every listed block; were a bit left behind or  *)
(* lost, its block would never be listed again or listed twice             *)
(* (Mmu.cpp:56-62, 140).                                                   *)
BitmapFollowsList ==
  \A w \in BitmapWords :
    dirty_bitmap[w] = UNION {ShiftMask(block) : block \in {d \in DirtyBlocks : WordOf(d) = w}}

(* No block is listed twice, so the list never outgrows the capacity       *)
(* reserved for it by the constructors (Mmu.cpp:12, Mmu.hpp:34).           *)
DirtyWithinReserve ==
  /\ \A i, j \in DOMAIN dirty : dirty[i] = dirty[j] => i = j
  /\ Len(dirty) <= Size \div DIRTY_BLOCK_SIZE

(* A PERM_RAW byte can be read exactly when it has been stored to since    *)
(* mem_alloc handed it out, across faults, forks and resets.               *)
RawReadableIffWritten ==
  \A a \in Addr : "RAW" \in permission[a] => ("READ" \in permission[a] <=> a \in written)

(* mem_alloc never hands out a byte twice: whatever it has handed out,     *)
(* before or after a fork or a reset, lies below cur_alloc.                *)
AllocationsDisjoint == \A a \in owned : a < cur_alloc

(* A byte that is not writable changes only when Reset brings back the     *)
(* snapshot's value; a write that faults part-way changes none.            *)
OnlyWritableChanges ==
  [][\A a \in Addr : memory'[a] # memory[a] /\ ~Writable(a)
       => result' = "none" /\ memory'[a] = other.memory[a]]_vars

(* What Reset is documented to do: "Restores the memory back to the        *)
(* original state" (Mmu.hpp:80).                                           *)
ResetRestoresMemory == [][Reset => memory' = other.memory]_vars

(* What it does, in any geometry: it brings back every byte but those that *)
(* a write reached without marking their block (Mmu.cpp:52-60, 134-148).   *)
ResetBringsBack ==
  [][Reset => \A a \in Addr \ slipped : memory'[a] = other.memory[a]]_vars

(* The two ways in which the marking of Mmu.cpp:52-60 misses a store are   *)
(* the only ones: every byte that differs from the snapshot lies in a      *)
(* listed block, or a write reached it from the block before, or its block *)
(* shared a bit with a listed one.                                         *)
EveryChangeTracked ==
  forked => \A a \in Addr \ slipped :
              memory[a] # other.memory[a] => BlockOf(a) \in DirtyBlocks

(* The same for permissions, but for those set by SetPermission or         *)
(* mem_alloc since the fork, which no dirty block records.                 *)
PermissionChangesTracked ==
  forked => \A a \in Addr \ (granted \cup slipped) :
              permission[a] # other.permission[a] => BlockOf(a) \in DirtyBlocks
=============================================================================
