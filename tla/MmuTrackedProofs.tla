-------------------------- MODULE MmuTrackedProofs --------------------------
EXTENDS MmuTracked, MmuProofs

(* A write keeps what is listed.  Afterwards its block is listed as well:  *)
(* its bits were clear and it has been added, or one of its bits was set,  *)
(* which only a listed block can have done, and that is the block itself   *)
(* when no other has its bit.                                              *)
LEMMA MarkDirtyLists ==
  ASSUME TypeOK, BitmapFollowsList, NEW a \in Addr, MarkDirty(a)
  PROVE  /\ DirtyBlocks \subseteq DirtyBlocks'
         /\ ~BitTaken(BlockOf(a)) => BlockOf(a) \in DirtyBlocks'
<1> DEFINE block == BlockOf(a)
           idx == WordOf(block)
<1>1. block \in Blocks /\ idx \in BitmapWords /\ dirty \in Seq(Blocks)
  BY BlockOfInside DEF TypeOK
<1>2. CASE dirty_bitmap[idx] \cap ShiftMask(block) = {}
  <2>1. dirty' = Append(dirty, block)
    BY <1>2 DEF MarkDirty
  <2> HIDE DEF block
  <2>2. {Append(dirty, block)[i] : i \in DOMAIN Append(dirty, block)}
          = {dirty[i] : i \in DOMAIN dirty} \cup {block}
    BY <1>1, AppendDirty
  <2> QED
    BY <2>1, <2>2, Zenon DEF DirtyBlocks, block
<1>3. CASE dirty_bitmap[idx] \cap ShiftMask(block) # {}
  <2>1. UNCHANGED dirty
    BY <1>3 DEF MarkDirty, tracking
  <2>2. PICK bit : bit \in dirty_bitmap[idx] /\ bit \in ShiftMask(block)
    BY <1>3
  <2>3. dirty_bitmap[idx] = MaskOf(DirtyBlocks, idx)
    BY <1>1 DEF BitmapFollowsList, MaskOf
  <2>4. PICK d \in DirtyBlocks : WordOf(d) = idx /\ bit \in ShiftMask(d)
    BY <2>2, <2>3 DEF MaskOf
  <2>5. d # block => BitTaken(block)
    BY <2>2, <2>4 DEF BitTaken
  <2>6. DirtyBlocks' = DirtyBlocks
    BY <2>1 DEF DirtyBlocks
  <2> QED
    BY <2>4, <2>5, <2>6
<1> QED
  BY <1>2, <1>3
-----------------------------------------------------------------------------
TrackedInv == DirtyInv /\ EveryChangeTracked /\ PermissionChangesTracked

LEMMA InitTrackedInv == Init => TrackedInv
  BY InitDirtyInv DEF Init, TrackedInv, EveryChangeTracked, PermissionChangesTracked

LEMMA NextTrackedInv == TrackedInv /\ [Next]_vars => TrackedInv'
<1> SUFFICES ASSUME DirtyInv, EveryChangeTracked, PermissionChangesTracked, [Next]_vars
             PROVE  EveryChangeTracked' /\ PermissionChangesTracked'
  BY NextDirtyInv DEF TrackedInv
<1> DEFINE Goal == EveryChangeTracked' /\ PermissionChangesTracked'
<1> USE DEF EveryChangeTracked, PermissionChangesTracked
<1>0. TypeOK /\ BitmapFollowsList /\ NoDuplicates
  BY DEF DirtyInv
<1>1. ASSUME NEW w \in Writes, WriteFrom(w.addr, w.buf) PROVE Goal
  <2> DEFINE span == Span(w.addr, Len(w.buf))
  <2>1. w.addr \in Addr
    BY <1>1, WriteInside DEF WriteFrom
  <2>2. /\ DirtyBlocks \subseteq DirtyBlocks'
        /\ ~BitTaken(BlockOf(w.addr)) => BlockOf(w.addr) \in DirtyBlocks'
    BY <1>0, <1>1, <2>1, MarkDirtyLists DEF WriteFrom
  <2>3. /\ \A a \in Addr \ span : memory'[a] = memory[a] /\ permission'[a] = permission[a]
        /\ UNCHANGED <<other, forked, granted>>
    BY <1>1 DEF WriteFrom, DiscloseRaw
  <2>4. /\ slipped \subseteq slipped'
        /\ \A a \in span \ slipped' :
             BlockOf(a) = BlockOf(w.addr) /\ ~BitTaken(BlockOf(w.addr))
    BY <1>1 DEF WriteFrom, Missed
  <2> HIDE DEF span
  <2>5. \A a \in span \ slipped' : BlockOf(a) \in DirtyBlocks'
    BY <2>2, <2>4
  <2> QED
    BY <2>2, <2>3, <2>4, <2>5
<1>2. ASSUME NEW span \in SUBSET Addr, NEW perm, Grant(span, perm),
             UNCHANGED <<memory, tracking, other, forked, slipped>>
      PROVE  Goal
  <2>1. DirtyBlocks' = DirtyBlocks
    BY <1>2 DEF DirtyBlocks, tracking
  <2> QED
    BY <1>2, <2>1 DEF Grant
<1>3. ASSUME Snapshot PROVE Goal
  BY <1>3 DEF Snapshot
<1>4. ASSUME Reset PROVE Goal
  <2>1. /\ \A a \in Restored : memory'[a] = other.memory[a] /\ permission'[a] = other.permission[a]
        /\ \A a \in Addr \ Restored : memory'[a] = memory[a] /\ permission'[a] = permission[a]
        /\ UNCHANGED <<other, forked, granted>>
        /\ slipped' = slipped \ Restored
    BY <1>4 DEF Reset, RestorePermission, Restored
  <2> QED
    BY <1>4, <2>1 DEF Restored, Reset
<1>5. ASSUME UNCHANGED <<memory, permission, dirty, other, forked, granted, slipped>> PROVE Goal
  BY <1>5 DEF DirtyBlocks
<1>6. ASSUME NEW g \in Grants, SetPermission(g.addr, g.len, g.perm) PROVE Goal
  <2>1. Span(g.addr, g.len) \in SUBSET Addr
    BY <1>6, InputAssumption, GeometryAssumption, SMT DEF SetPermission, Span, Addr
  <2> QED
    BY <1>2, <1>6, <2>1 DEF SetPermission
<1>7. ASSUME NEW size \in AllocSizes, mem_alloc(size) PROVE Goal
  <2>1. Span(cur_alloc, AlignUp(AddrMod, Granule, size)) \in SUBSET Addr
    BY <1>0, <1>7, AllocInside DEF mem_alloc, TypeOK
  <2> QED
    BY <1>2, <1>7, <2>1 DEF mem_alloc
<1> QED
  BY <1>1, <1>3, <1>4, <1>5, <1>6, <1>7
     DEF Next, ForkRunCopy, ForkRunOriginal, vars, tracking, history, WriteFromFails,
         SetPermissionThrows, mem_allocFails, ReadIntoPerm

(* For every geometry of the memory and every set of writes, a byte that   *)
(* differs from the snapshot lies in a listed block, or a write reached it *)
(* from the block before, or its block shared a bit with a listed one.     *)
THEOREM TrackingComplete == Spec => []EveryChangeTracked
<1>1. TrackedInv => EveryChangeTracked
  BY DEF TrackedInv
<1> QED
  BY InitTrackedInv, NextTrackedInv, <1>1, PTL DEF Spec

(* Every permission that differs from the snapshot's lies in a listed      *)
(* block, or was granted since the fork, or its byte slipped in one of     *)
(* those two ways.                                                         *)
THEOREM PermissionTracking == Spec => []PermissionChangesTracked
<1>1. TrackedInv => PermissionChangesTracked
  BY DEF TrackedInv
<1> QED
  BY InitTrackedInv, NextTrackedInv, <1>1, PTL DEF Spec

(* Reset gives every byte that has not slipped the value it had at the     *)
(* fork.                                                                   *)
THEOREM ResetComplete == Spec => ResetBringsBack
<1> DEFINE Back == \A a \in Addr \ slipped : memory'[a] = other.memory[a]
<1>1. TrackedInv /\ [Next]_vars => [Reset => Back]_vars
  <2> SUFFICES ASSUME TrackedInv, Reset PROVE Back
    OBVIOUS
  <2>1. TypeOK /\ EveryChangeTracked
    BY DEF TrackedInv, DirtyInv
  <2>2. /\ memory' = [a \in Addr |-> IF a \in Restored THEN other.memory[a] ELSE memory[a]]
        /\ forked
    BY DEF Reset
  <2>3. \A a \in Addr \ slipped : a \notin Restored => memory[a] = other.memory[a]
    BY <2>1, <2>2 DEF EveryChangeTracked, Restored
  <2> QED
    BY <2>2, <2>3
<1> QED
  BY InitTrackedInv, NextTrackedInv, <1>1, PTL DEF Spec, ResetBringsBack
-----------------------------------------------------------------------------
(* The refinement of ForkableMemory *)

LEMMA CeilingIsAlignUp ==
  ASSUME NEW size \in AllocSizes
  PROVE  AlignUp(AddrMod, Granule, size) = Abstract!Ceiling(size)
<1> DEFINE s == size + Granule - 1
<1>1. size \in 1 .. Size
  BY InputAssumption
<1>2. s \in Nat /\ s < AddrMod /\ size + (Granule - 1) = s /\ Granule \in Nat \ {0}
  BY <1>1, GeometryAssumption, SMT
<1>3. s % AddrMod = s
  BY <1>2, GeometryAssumption, SMT
<1>4. AlignUp(AddrMod, Granule, size) = s - (s % Granule)
  BY <1>2, <1>3 DEF AlignUp, WrapAdd
<1> DEFINE q == s \div Granule
           r == s % Granule
<1>5. s = Granule * q + r /\ q \in Nat /\ r \in 0 .. Granule - 1
  <2> HIDE DEF s
  <2> QED
    BY <1>2, DivModFacts
<1>6. Abstract!Ceiling(size) = Granule * q
  BY DEF Abstract!Ceiling
<1> HIDE DEF s, q, r
<1>7. Granule * q \in Nat
  BY <1>2, <1>5, SMT
<1>8. AlignUp(AddrMod, Granule, size) = s - r
  BY <1>4 DEF r
<1> QED
  BY <1>2, <1>5, <1>6, <1>7, <1>8, SMT

LEMMA InitRefines == Init => Abstract!Init
<1> SUFFICES ASSUME Init PROVE Abstract!Init
  OBVIOUS
<1>1. /\ Visible(permission) = [a \in Addr |-> {}]
      /\ Unstored(permission) = {}
      /\ other.memory = memory /\ other.permission = permission
  BY DEF Init, Visible, Unstored
<1> QED
  BY <1>1 DEF Init, Abstract!Init, Abstract!Bytes, Addr

LEMMA WriteRefines ==
  ASSUME TypeOK, NEW w \in Writes, WriteFrom(w.addr, w.buf)
  PROVE  Abstract!Store(w.addr, w.buf)
<1> DEFINE span == Span(w.addr, Len(w.buf))
<1>1. /\ span \subseteq Addr
      /\ \A a \in span : "WRITE" \in permission[a]
  BY WriteInside DEF WriteFrom, MayWrite, Writable
<1>2. w.addr + Len(w.buf) <= Size
  BY WriteBounds DEF WriteFrom
<1>3. span = Abstract!Range(w.addr, Len(w.buf)) /\ Addr = Abstract!Bytes
  BY DEF Span, Abstract!Range, Addr, Abstract!Bytes
<1>4. permission' = [a \in Addr |-> IF a \in span /\ "RAW" \in permission[a]
                                    THEN permission[a] \cup {"READ"} ELSE permission[a]]
  BY DEF WriteFrom, DiscloseRaw
<1>5. memory' = [a \in Addr |-> IF a \in span THEN w.buf[a - w.addr + 1] ELSE memory[a]]
  BY DEF WriteFrom
<1>6. /\ result' = "ok"
      /\ UNCHANGED <<cur_alloc, other, forked, granted>>
      /\ slipped \subseteq slipped' /\ slipped' \subseteq slipped \cup span
  BY DEF WriteFrom, Missed
<1> HIDE DEF span
<1>7. Abstract!MayStore(w.addr, Len(w.buf))
  BY <1>1, <1>2, <1>3 DEF Abstract!MayStore, Abstract!Inside, Visible
<1>8. Visible(permission)' = [a \in Addr |->
         IF a \in span \cap Unstored(permission) THEN Visible(permission)[a] \cup {"READ"}
         ELSE Visible(permission)[a]]
  BY <1>4 DEF Visible, Unstored
<1>9. Unstored(permission)' = Unstored(permission) \ span
  BY <1>4 DEF Unstored
<1> QED
  BY <1>3, <1>5, <1>6, <1>7, <1>8, <1>9 DEF Abstract!Store

LEMMA WriteFailRefines ==
  ASSUME TypeOK, NEW w \in Writes, WriteFromFails(w.addr, w.buf)
  PROVE  Abstract!StoreRefused(w.addr, w.buf)
<1>1. UNCHANGED <<memory, permission, cur_alloc, other, forked, granted, slipped>>
  BY DEF WriteFromFails, history
<1>2. result' \in {"AddressIntegerOverflow", "AddressMissed", "WriteFault"}
  BY DEF WriteFromFails, BoundsError
<1>3. ~Abstract!MayStore(w.addr, Len(w.buf))
  <2>1. CASE BoundsError(w.addr, Len(w.buf)) # "none"
    BY <2>1, WriteBounds DEF Abstract!MayStore, Abstract!Inside
  <2>2. CASE BoundsError(w.addr, Len(w.buf)) = "none"
    <3>1. PICK a \in Span(w.addr, Len(w.buf)) : "WRITE" \notin permission[a]
      BY <2>2 DEF WriteFromFails, MayWrite, Writable
    <3>2. a \in Addr
      BY <2>2, <3>1, WriteInside
    <3> QED
      BY <3>1, <3>2 DEF Abstract!MayStore, Abstract!Range, Span, Visible
  <2> QED
    BY <2>1, <2>2
<1> QED
  BY <1>1, <1>2, <1>3 DEF Abstract!StoreRefused, Abstract!Refuse, Visible, Unstored

LEMMA GrantRefines ==
  ASSUME TypeOK, NEW g \in Grants,
         SetPermission(g.addr, g.len, g.perm) \/ SetPermissionThrows(g.addr, g.len)
  PROVE  Abstract!Grant(g.addr, g.len, g.perm)
<1> DEFINE span == Span(g.addr, g.len)
<1>1. g.perm \subseteq Access /\ "RAW" \notin g.perm
  BY InputAssumption DEF Access
<1>2. g.addr \in Nat /\ g.len \in Nat
  BY InputAssumption
<1>3. CASE SetPermission(g.addr, g.len, g.perm)
  <2>1. /\ permission' = [a \in Addr |-> IF a \in span THEN g.perm ELSE permission[a]]
        /\ granted' = granted \cup span
        /\ result' = "ok"
        /\ UNCHANGED <<memory, cur_alloc, other, forked, slipped>>
        /\ g.addr < Size /\ g.addr + g.len <= Size
    BY <1>3 DEF SetPermission, Grant
  <2>2. span = Abstract!Range(g.addr, g.len) /\ Addr = Abstract!Bytes
    BY DEF Span, Abstract!Range, Addr, Abstract!Bytes
  <2> HIDE DEF span
  <2>3. Visible(permission)' = [a \in Addr |-> IF a \in span THEN g.perm
                                               ELSE Visible(permission)[a]]
    BY <1>1, <2>1 DEF Visible
  <2>4. Unstored(permission)' = Unstored(permission) \ span
    BY <1>1, <2>1 DEF Unstored
  <2>5. Visible(other.permission)' = Visible(other.permission)
        /\ Unstored(other.permission)' = Unstored(other.permission)
    BY <2>1 DEF Visible, Unstored
  <2> QED
    BY <2>1, <2>2, <2>3, <2>4, <2>5 DEF Abstract!Grant, Abstract!GrantTo, Abstract!Inside
<1>4. CASE SetPermissionThrows(g.addr, g.len)
  <2>1. /\ UNCHANGED <<memory, permission, cur_alloc, other, forked, granted, slipped>>
        /\ result' = "out_of_range"
        /\ ~(g.addr < Size /\ g.addr + g.len <= Size)
    BY <1>2, <1>4, GeometryAssumption, SMT DEF SetPermissionThrows, history
  <2> QED
    BY <2>1 DEF Abstract!Grant, Abstract!Refuse, Abstract!Inside, Visible, Unstored
<1> QED
  BY <1>3, <1>4

LEMMA AllocRefines ==
  ASSUME TypeOK, NEW size \in AllocSizes, mem_alloc(size) \/ mem_allocFails(size)
  PROVE  Abstract!Alloc(size)
<1> DEFINE up == AlignUp(AddrMod, Granule, size)
           span == Span(cur_alloc, up)
<1>1. up = Abstract!Ceiling(size)
  BY CeilingIsAlignUp
<1>2. EndAlloc(size) = cur_alloc + up
  BY AlignUpBound DEF EndAlloc, TypeOK
<1>3. cur_alloc \in Nat /\ up \in Nat
  BY AlignUpBound, GeometryAssumption, SMT DEF TypeOK
<1>4. CASE mem_alloc(size)
  <2>1. /\ permission' = [a \in Addr |-> IF a \in span THEN {"RAW", "WRITE"} ELSE permission[a]]
        /\ granted' = granted \cup span
        /\ result' = "ok"
        /\ cur_alloc' = EndAlloc(size) /\ EndAlloc(size) <= Size
        /\ UNCHANGED <<memory, other, forked, slipped>>
    BY <1>4 DEF mem_alloc, Grant
  <2>2. /\ span = Abstract!Range(cur_alloc, Abstract!Ceiling(size)) /\ Addr = Abstract!Bytes
        /\ span \subseteq Addr
    BY <1>1, <2>1, AllocInside DEF Span, Abstract!Range, Addr, Abstract!Bytes, TypeOK
  <2> HIDE DEF span, up
  <2>3. Visible(permission)' = [a \in Addr |-> IF a \in span THEN {"WRITE"}
                                               ELSE Visible(permission)[a]]
    BY <2>1 DEF Visible
  <2>4. Unstored(permission)' = Unstored(permission) \cup span
    BY <2>1, <2>2 DEF Unstored
  <2>5. Visible(other.permission)' = Visible(other.permission)
        /\ Unstored(other.permission)' = Unstored(other.permission)
    BY <2>1 DEF Visible, Unstored
  <2> QED
    BY <1>1, <1>2, <2>1, <2>2, <2>3, <2>4, <2>5 DEF Abstract!Alloc, Abstract!GrantTo
<1>5. CASE mem_allocFails(size)
  <2>1. /\ UNCHANGED <<memory, permission, cur_alloc, other, forked, granted, slipped>>
        /\ result' = "no_space"
        /\ EndAlloc(size) > Size
    BY <1>5 DEF mem_allocFails, history
  <2>2. ~(cur_alloc + up <= Size)
    <3> HIDE DEF up
    <3> QED
      BY <1>2, <1>3, <2>1, GeometryAssumption, SMT
  <2> QED
    BY <1>1, <2>1, <2>2 DEF Abstract!Alloc, Abstract!Refuse, Visible, Unstored
<1> QED
  BY <1>4, <1>5

LEMMA ForkRefines == ASSUME Snapshot PROVE Abstract!Fork
<1>1. /\ other'.memory = memory /\ other'.permission = permission
      /\ forked' = TRUE /\ granted' = {} /\ slipped' = {} /\ result' = "none"
      /\ UNCHANGED <<memory, permission, cur_alloc>>
  BY DEF Snapshot
<1> QED
  BY <1>1 DEF Abstract!Fork, Visible, Unstored

LEMMA ResetRefines == ASSUME TrackedInv, Reset PROVE Abstract!Reset
<1> DEFINE kept == (granted \cup slipped) \ Restored
<1>1. TypeOK /\ EveryChangeTracked /\ PermissionChangesTracked
  BY DEF TrackedInv, DirtyInv
<1>2. /\ forked /\ result' = "none"
      /\ permission' = [a \in Addr |-> IF a \in Restored THEN other.permission[a]
                                       ELSE permission[a]]
      /\ slipped' = slipped \ Restored
      /\ UNCHANGED <<cur_alloc, other, forked, granted>>
  BY DEF Reset, RestorePermission
<1>3. memory' = [a \in Addr |-> IF a \in slipped' THEN memory[a] ELSE other.memory[a]]
  <2>1. memory' = [a \in Addr |-> IF a \in Restored THEN other.memory[a] ELSE memory[a]]
    BY DEF Reset
  <2>2. \A a \in Addr \ slipped : a \notin Restored => memory[a] = other.memory[a]
    BY <1>1, <1>2 DEF EveryChangeTracked, Restored
  <2> QED
    BY <1>2, <2>1, <2>2
<1>4. \A a \in Addr : permission'[a] = IF a \in kept THEN permission[a] ELSE other.permission[a]
  BY <1>1, <1>2 DEF PermissionChangesTracked, Restored
<1>5. Addr = Abstract!Bytes
  BY DEF Addr, Abstract!Bytes
<1> HIDE DEF kept
<1>6. Visible(permission)' = [a \in Addr |-> IF a \in kept THEN Visible(permission)[a]
                                             ELSE Visible(other.permission)[a]]
  BY <1>4 DEF Visible
<1>7. Unstored(permission)' = (Unstored(permission) \cap kept) \cup (Unstored(other.permission) \ kept)
  BY <1>4 DEF Unstored
<1>8. kept \in SUBSET (granted \cup slipped') /\ slipped' \subseteq slipped
  BY <1>2 DEF kept
<1>9. Visible(other.permission)' = Visible(other.permission)
      /\ Unstored(other.permission)' = Unstored(other.permission)
  BY <1>2 DEF Visible, Unstored
<1> QED
  BY <1>2, <1>3, <1>5, <1>6, <1>7, <1>8, <1>9 DEF Abstract!Reset

LEMMA ReadRefines ==
  ASSUME TypeOK, NEW r \in Reads, ReadIntoPerm(r.addr, r.len, r.perm)
  PROVE  Abstract!Load(r.addr, r.len, r.perm)
<1>1. /\ r.addr \in Word(AddrMod) /\ r.len \in 0 .. Size /\ r.perm \in SUBSET Access
      /\ ~MissedOverflow(AddrMod, r.addr, r.len)
  BY InputAssumption
<1>2. BoundsError(r.addr, r.len) = "none" <=> r.addr + r.len <= Size
  BY <1>1, BoundsInside
<1>3. UNCHANGED <<memory, permission, cur_alloc, other, forked, granted, slipped>>
  BY DEF ReadIntoPerm, history
<1>4. BoundsError(r.addr, r.len) \in {"none", "AddressIntegerOverflow", "AddressMissed"}
  BY DEF BoundsError
<1>5. r.addr + r.len <= Size =>
        (Permitted(r.addr, r.len, r.perm)
           <=> \A a \in Abstract!Range(r.addr, r.len) : r.perm \subseteq Visible(permission)[a])
  <2>1. r.addr + r.len <= Size => Span(r.addr, r.len) \subseteq Addr
    BY <1>1, GeometryAssumption, SMT DEF Span, Addr, Word
  <2>2. "RAW" \notin r.perm
    BY <1>1 DEF Access
  <2> QED
    BY <2>1, <2>2 DEF Permitted, Span, Abstract!Range, Visible
<1>6. Abstract!MayLoad(r.addr, r.len, r.perm)
        <=> BoundsError(r.addr, r.len) = "none" /\ Permitted(r.addr, r.len, r.perm)
  BY <1>2, <1>5 DEF Abstract!MayLoad, Abstract!Inside
<1> QED
  BY <1>3, <1>4, <1>6 DEF ReadIntoPerm, Abstract!Load, Abstract!Refuse, Visible, Unstored

(* The memory with its dirty list behaves as the plain memory that Reset   *)
(* copies back, but for the bytes that slipped.                            *)
THEOREM MmuImplementsForkableMemory == Spec => ImplementsForkableMemory
<1>1. TrackedInv /\ [Next]_vars => [Abstract!Next]_(Abstract!avars)
  <2> SUFFICES ASSUME TrackedInv, [Next]_vars PROVE [Abstract!Next]_(Abstract!avars)
    OBVIOUS
  <2>1. TypeOK
    BY DEF TrackedInv, DirtyInv
  <2>2. UNCHANGED vars => UNCHANGED Abstract!avars
    BY DEF vars, history, Abstract!avars, Visible, Unstored
  <2> QED
    BY <2>1, <2>2, WriteRefines, WriteFailRefines, GrantRefines, AllocRefines, ForkRefines,
       ResetRefines, ReadRefines DEF Next, ForkRunCopy, ForkRunOriginal, Abstract!Next
<1> QED
  BY InitRefines, InitTrackedInv, NextTrackedInv, <1>1, PTL
     DEF Spec, ImplementsForkableMemory, Abstract!Spec
=============================================================================
