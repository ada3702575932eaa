--------------------------- MODULE ForkableMemory ---------------------------
(***************************************************************************)
(* What the guest memory promises, with no dirty list and no bitmap: a     *)
(* store happens whole or not at all, a byte that mem_alloc hands out is   *)
(* fresh until it is first stored to, memory is handed out once, and Reset *)
(* brings bytes and access rights back to the fork.  A store may leave     *)
(* some of its own bytes loose: of those, and of the rights granted since  *)
(* the fork, Reset may bring back any part.                                *)
(***************************************************************************)
EXTENDS Integers, Sequences

CONSTANTS Size, Granule, AllocBase, Values, Zero, Writes, Reads, Grants, AllocSizes

VARIABLES cells, rights, fresh, brk, snap, forked, granted, loose, result

avars == <<cells, rights, fresh, brk, snap, forked, granted, loose, result>>

Bytes == 0 .. Size - 1
Range(addr, len) == addr .. addr + len - 1
Inside(addr, len) == addr + len <= Size

Init ==
  /\ cells = [a \in Bytes |-> Zero]
  /\ rights = [a \in Bytes |-> {}]
  /\ fresh = {}
  /\ brk = AllocBase
  /\ snap = [cells |-> cells, rights |-> rights, fresh |-> {}]
  /\ forked = FALSE /\ granted = {} /\ loose = {} /\ result = "none"

MayStore(addr, len) == Inside(addr, len) /\ \A a \in Range(addr, len) : "WRITE" \in rights[a]

Store(addr, buf) ==
  LET range == Range(addr, Len(buf)) IN
    /\ MayStore(addr, Len(buf))
    /\ cells' = [a \in Bytes |-> IF a \in range THEN buf[a - addr + 1] ELSE cells[a]]
    /\ rights' = [a \in Bytes |-> IF a \in range \cap fresh THEN rights[a] \cup {"READ"}
                                  ELSE rights[a]]
    /\ fresh' = fresh \ range
    /\ loose \subseteq loose' /\ loose' \subseteq loose \cup range
    /\ result' = "ok"
    /\ UNCHANGED <<brk, snap, forked, granted>>

Refuse(errors) ==
  /\ result' \in errors
  /\ UNCHANGED <<cells, rights, fresh, brk, snap, forked, granted, loose>>

StoreRefused(addr, buf) ==
  /\ ~MayStore(addr, Len(buf))
  /\ Refuse({"AddressIntegerOverflow", "AddressMissed", "WriteFault"})

MayLoad(addr, len, perm) == Inside(addr, len) /\ \A a \in Range(addr, len) : perm \subseteq rights[a]

Load(addr, len, perm) ==
  IF MayLoad(addr, len, perm) THEN Refuse({"ok"})
  ELSE Refuse({"AddressIntegerOverflow", "AddressMissed", "ReadFault"})

GrantTo(range, perm) ==
  /\ rights' = [a \in Bytes |-> IF a \in range THEN perm ELSE rights[a]]
  /\ granted' = granted \cup range
  /\ result' = "ok"
  /\ UNCHANGED <<cells, snap, forked, loose>>

Grant(addr, len, perm) ==
  IF addr < Size /\ Inside(addr, len)
  THEN /\ GrantTo(Range(addr, len), perm)
       /\ fresh' = fresh \ Range(addr, len)
       /\ UNCHANGED brk
  ELSE Refuse({"out_of_range"})

(* the least multiple of Granule that is not below the size *)
Ceiling(size) == Granule * ((size + Granule - 1) \div Granule)

Alloc(size) ==
  IF brk + Ceiling(size) <= Size
  THEN /\ brk' = brk + Ceiling(size)
       /\ GrantTo(Range(brk, Ceiling(size)), {"WRITE"})
       /\ fresh' = fresh \cup Range(brk, Ceiling(size))
  ELSE Refuse({"no_space"})

Fork ==
  /\ snap' = [cells |-> cells, rights |-> rights, fresh |-> fresh]
  /\ forked' = TRUE
  /\ granted' = {} /\ loose' = {}
  /\ result' = "none"
  /\ UNCHANGED <<cells, rights, fresh, brk>>

Reset ==
  /\ forked
  /\ loose' \subseteq loose
  /\ cells' = [a \in Bytes |-> IF a \in loose' THEN cells[a] ELSE snap.cells[a]]
  /\ \E kept \in SUBSET (granted \cup loose') :
       /\ rights' = [a \in Bytes |-> IF a \in kept THEN rights[a] ELSE snap.rights[a]]
       /\ fresh' = (fresh \cap kept) \cup (snap.fresh \ kept)
  /\ result' = "none"
  /\ UNCHANGED <<brk, snap, forked, granted>>

Next ==
  \/ \E w \in Writes : Store(w.addr, w.buf) \/ StoreRefused(w.addr, w.buf)
  \/ \E r \in Reads : Load(r.addr, r.len, r.perm)
  \/ \E g \in Grants : Grant(g.addr, g.len, g.perm)
  \/ \E size \in AllocSizes : Alloc(size)
  \/ Fork
  \/ Reset

Spec == Init /\ [][Next]_avars
=============================================================================
