--------------------------- MODULE MachineProofs ---------------------------
EXTENDS Machine, WordsProofs

-----------------------------------------------------------------------------
(* Arithmetic of words and slots *)

LEMMA DivMod ==
  ASSUME NEW n \in Int, NEW m \in Nat \ {0}
  PROVE  /\ n \div m \in Int
         /\ n % m \in 0 .. m - 1
         /\ n = m * (n \div m) + (n % m)
  BY Z3

LEMMA MultipleModZero ==
  ASSUME NEW m \in Nat \ {0}, NEW q \in Int
  PROVE  (m * q) % m = 0
  BY Z3

LEMMA Moduli == AddrMod \in Nat \ {0} /\ SlotBytes \in Nat \ {0} /\ ByteMod \in Nat \ {0}
  BY MachineAssumption, SMT

LEMMA ModIsWord ==
  ASSUME NEW n \in Int
  PROVE  n % AddrMod \in Word(AddrMod)
  BY DivMod, Moduli DEF Word

LEMMA AlignedSum ==
  ASSUME NEW x \in Int, NEW y \in Int, Aligned(x), Aligned(y)
  PROVE  Aligned(x + y) /\ Aligned(x - y)
<1> DEFINE i == x \div SlotBytes
           j == y \div SlotBytes
<1>1. i \in Int /\ x = SlotBytes * i
  BY DivMod, MachineAssumption, Z3 DEF Aligned
<1>2. j \in Int /\ y = SlotBytes * j
  BY DivMod, MachineAssumption, Z3 DEF Aligned
<1> HIDE DEF i, j
<1>3. x + y = SlotBytes * (i + j) /\ x - y = SlotBytes * (i - j)
  BY <1>1, <1>2, MachineAssumption, Z3
<1>4. (SlotBytes * (i + j)) % SlotBytes = 0 /\ (SlotBytes * (i - j)) % SlotBytes = 0
  BY <1>1, <1>2, MultipleModZero, MachineAssumption, Z3
<1> QED
  BY <1>3, <1>4 DEF Aligned

(* wrapping around keeps the alignment, since slots divide the addresses *)
LEMMA AlignedWrap ==
  ASSUME NEW n \in Int, Aligned(n)
  PROVE  Aligned(n % AddrMod)
<1> DEFINE q == n \div AddrMod
           k == AddrMod \div SlotBytes
<1>1. q \in Int /\ n = AddrMod * q + (n % AddrMod) /\ n % AddrMod \in Int
  <2>1. q \in Int /\ n = AddrMod * q + (n % AddrMod) /\ n % AddrMod \in 0 .. AddrMod - 1
    BY DivMod, Moduli
  <2> QED
    BY <2>1, Moduli, SMT
<1>2. k \in Int /\ AddrMod = SlotBytes * k
  BY DivMod, MachineAssumption, Z3
<1> HIDE DEF q, k
<1>3. AddrMod * q = SlotBytes * (k * q) /\ k * q \in Int
  BY <1>1, <1>2, MachineAssumption, Z3
<1>4. Aligned(AddrMod * q)
  BY <1>3, MultipleModZero, MachineAssumption, Z3 DEF Aligned
<1>5. n % AddrMod = n - AddrMod * q /\ AddrMod * q \in Int
  BY <1>1, <1>2, MachineAssumption, Z3
<1>6. Aligned(n - AddrMod * q)
  BY <1>4, <1>5, AlignedSum, Zenon
<1> QED
  BY <1>5, <1>6

LEMMA NeighbourSlots ==
  ASSUME NEW addr \in Word(AddrMod), Aligned(addr)
  PROVE  /\ Below(addr) \in Word(AddrMod) /\ Aligned(Below(addr))
         /\ Above(addr) \in Word(AddrMod) /\ Aligned(Above(addr))
<1>1. addr \in Int /\ SlotBytes \in Int /\ Aligned(SlotBytes)
  BY MachineAssumption, Z3 DEF Word, Aligned
<1>2. Aligned(addr - SlotBytes) /\ Aligned(addr + SlotBytes)
  BY <1>1, AlignedSum
<1>3. addr - SlotBytes \in Int /\ addr + SlotBytes \in Int
  BY <1>1
<1>4. Aligned(Below(addr)) /\ Aligned(Above(addr))
  BY <1>2, <1>3, AlignedWrap DEF Below, Above, WrapAdd
<1>5. Below(addr) \in Word(AddrMod) /\ Above(addr) \in Word(AddrMod)
  BY <1>3, ModIsWord DEF Below, Above, WrapAdd
<1> QED
  BY <1>4, <1>5

(* An access that passes the bounds check at an aligned address is a slot. *)
LEMMA BoundedIsSlot ==
  ASSUME NEW addr \in Word(AddrMod), Aligned(addr), InBounds(addr, SlotBytes)
  PROVE  addr \in Slots
<1> DEFINE h == AddrMod \div 2
<1>1. h \in Nat \ {0} /\ AddrMod = 2 * h
  BY MachineAssumption, SMT
<1>2. SlotBytes \in Word(2 * h) /\ addr \in Word(2 * h)
  BY <1>1, MachineAssumption, SMT DEF Word
<1>3. ~CheckedAddRefused(2 * h, addr, SlotBytes)
  BY <1>1 DEF InBounds
<1>4. ~MissedOverflow(2 * h, addr, SlotBytes)
  BY MachineAssumption, SMT DEF MissedOverflow
<1>5. WrapAdd(2 * h, addr, SlotBytes) = addr + SlotBytes
  BY <1>1, <1>2, <1>3, <1>4, CheckedAddValue
<1> QED
  BY <1>1, <1>5 DEF InBounds, Slots, Aligned

LEMMA InstructionTyped ==
  ASSUME code \in Programs, registers[Rip] \in CodeAddr
  PROVE  InstructionOK(inst)
  BY ProgramAssumption DEF inst
-----------------------------------------------------------------------------
(* What the parts of the actions do to the types *)

RegistersOK(regs) == regs \in [Reg -> Word(AddrMod)] /\ Aligned(regs[Rsp])

LEMMA AdvanceTyped ==
  ASSUME NEW regs, RegistersOK(regs), NEW pc \in Int, inst.size \in Nat, Advance(regs, pc)
  PROVE  RegistersOK(registers') /\ registers'[Rsp] = regs[Rsp]
<1>1. WrapAdd(AddrMod, pc, inst.size) \in Word(AddrMod)
  BY ModIsWord DEF WrapAdd
<1> QED
  BY <1>1 DEF Advance, RegistersOK, Reg, Rip, Rsp

LEMMA PushTyped ==
  ASSUME TypeOK, NEW val \in Word(AddrMod), PushSlot(val)
  PROVE  /\ memory' \in [Slots -> Word(AddrMod)]
         /\ DOMAIN pushed' \subseteq Word(AddrMod)
         /\ \A a \in DOMAIN pushed' : Aligned(a) /\ pushed'[a] \in Word(AddrMod)
<1> DEFINE rsp == Below(registers[Rsp])
<1>1. rsp \in Word(AddrMod) /\ Aligned(rsp)
  BY NeighbourSlots DEF TypeOK, Reg, Rsp
<1>2. memory' \in [Slots -> Word(AddrMod)]
  BY DEF TypeOK, PushSlot
<1>4. pushed' = [a \in Kept(rsp) \cup {rsp} |-> IF a = rsp THEN val ELSE pushed[a]]
  BY DEF PushSlot
<1> HIDE DEF rsp
<1>5. Kept(rsp) \subseteq DOMAIN pushed
  BY DEF Kept
<1> QED
  BY <1>1, <1>2, <1>4, <1>5 DEF TypeOK

LEMMA ForgetTyped ==
  ASSUME TypeOK, NEW rsp, Forget(rsp)
  PROVE  /\ DOMAIN pushed' \subseteq Word(AddrMod)
         /\ \A a \in DOMAIN pushed' : Aligned(a) /\ pushed'[a] \in Word(AddrMod)
  BY DEF TypeOK, Forget, Kept

LEMMA SetRegTyped ==
  ASSUME TypeOK, NEW reg \in Reg, NEW val \in Int, NEW width \in Nat \ {0}, AddrMod % width = 0
  PROVE  SetReg(reg, val, width) \in Word(AddrMod)
<1> DEFINE r == registers[reg]
           q == r \div width
           k == AddrMod \div width
<1>1. r \in 0 .. AddrMod - 1
  BY DEF TypeOK, Word
<1>2. q \in Int /\ r = width * q + (r % width) /\ r % width \in 0 .. width - 1
  <2>1. r \in Int
    BY <1>1, Moduli, SMT
  <2> HIDE DEF r
  <2> QED
    BY <2>1, DivMod
<1>3. k \in Int /\ AddrMod = width * k
  BY DivMod, Moduli, SMT
<1>4. val % width \in 0 .. width - 1
  BY DivMod
<1>5. SetReg(reg, val, width) = width * q + (val % width)
  BY <1>2, <1>4, <1>1 DEF SetReg
<1> HIDE DEF r, q, k
<1>6. width * q < width * k
  BY <1>1, <1>2, <1>3, SMT
<1>7. q < k
  BY <1>6, <1>2, <1>3, Z3
<1>8. width * q + width <= width * k
  <2>1. q + 1 <= k
    BY <1>2, <1>3, <1>7
  <2>2. width * (q + 1) <= width * k
    BY <2>1, <1>2, <1>3, Z3
  <2> QED
    BY <2>2, <1>2, <1>3, Z3
<1>9. 0 <= width * q
  <2>1. 0 <= q
    BY <1>1, <1>2, Z3
  <2> QED
    BY <2>1, <1>2, Z3
<1> QED
  BY <1>2, <1>3, <1>4, <1>5, <1>8, <1>9, SMT DEF Word
-----------------------------------------------------------------------------
(***************************************************************************)
(* The inductive invariant.  StackHoldsPushed needs the types (a slot is   *)
(* aligned, so two of them are equal or apart), ExitIsRequested needs to   *)
(* know that Run came back from a SYSCALL, and HostNeverRuns that no       *)
(* SYSCALL has a SIB byte.                                                 *)
(***************************************************************************)
Pending ==
  status \in {"syscall", "exited"} => registers[Rip] \in CodeAddr /\ inst.op = "syscall"

Inv ==
  /\ TypeOK /\ code \in Programs
  /\ StackHoldsPushed
  /\ Pending
  /\ ExitIsRequested
  /\ HostNeverRuns

(* Stores go to a slot that no live entry other than the new one occupies. *)
LEMMA PushHolds ==
  ASSUME TypeOK, StackHoldsPushed, NEW val \in Word(AddrMod), PushSlot(val),
         registers'[Rsp] = Below(registers[Rsp])
  PROVE  StackHoldsPushed'
<1> DEFINE rsp == Below(registers[Rsp])
<1>1. rsp \in Word(AddrMod) /\ Aligned(rsp)
  BY NeighbourSlots DEF TypeOK, Reg, Rsp
<1>2. Storable(rsp) => rsp \in Slots
  BY <1>1, BoundedIsSlot DEF Storable
<1>3. pushed' = [a \in Kept(rsp) \cup {rsp} |-> IF a = rsp THEN val ELSE pushed[a]]
  BY DEF PushSlot
<1>4. memory' = IF Storable(rsp) THEN [memory EXCEPT ![rsp] = val] ELSE memory
  BY DEF PushSlot
<1>5. registers'[Rsp] = rsp
  OBVIOUS
<1>6. memory \in [Slots -> Word(AddrMod)] /\ rsp \in Int
  BY <1>1, Moduli, SMT DEF TypeOK, Word
<1> HIDE DEF rsp
<1>7. ASSUME NEW a \in DOMAIN pushed'
      PROVE  a >= registers'[Rsp] /\ (Storable(a) => memory'[a] = pushed'[a])
  <2>1. CASE a = rsp
    BY <2>1, <1>2, <1>3, <1>4, <1>5, <1>6
  <2>2. CASE a # rsp
    <3>1. a \in DOMAIN pushed /\ a >= rsp /\ pushed'[a] = pushed[a]
      BY <2>2, <1>3 DEF Kept
    <3>2. memory'[a] = memory[a]
      BY <2>2, <1>4, <1>6
    <3>3. Storable(a) => memory[a] = pushed[a]
      BY <3>1 DEF StackHoldsPushed
    <3> QED
      BY <3>1, <3>2, <3>3, <1>5
  <2> QED
    BY <2>1, <2>2
<1> QED
  BY <1>7 DEF StackHoldsPushed, Storable, InBounds

LEMMA ForgetHolds ==
  ASSUME StackHoldsPushed, Forget(registers'[Rsp]), UNCHANGED memory
  PROVE  StackHoldsPushed'
  BY DEF StackHoldsPushed, Forget, Kept, Storable, InBounds

LEMMA KeepHolds ==
  ASSUME StackHoldsPushed, registers'[Rsp] = registers[Rsp], UNCHANGED <<memory, pushed>>
  PROVE  StackHoldsPushed'
  BY DEF StackHoldsPushed, Storable, InBounds

(* an instruction that pushes *)
LEMMA PushStep ==
  ASSUME Inv, status = "run", inst.size \in Nat,
         NEW regs, RegistersOK(regs), regs[Rsp] = Below(registers[Rsp]), NEW pc \in Int,
         NEW val \in Word(AddrMod), PushSlot(val), Advance(regs, pc), Quiet
  PROVE  Inv'
<1>1. RegistersOK(registers') /\ registers'[Rsp] = Below(registers[Rsp])
  BY AdvanceTyped
<1>2. TypeOK' /\ (code \in Programs)'
  BY <1>1, PushTyped DEF Inv, TypeOK, RegistersOK, Quiet
<1>3. StackHoldsPushed'
  BY <1>1, PushHolds DEF Inv
<1> QED
  BY <1>2, <1>3 DEF Inv, Pending, ExitIsRequested, HostNeverRuns, Quiet

(* an instruction that moves Rsp, or does not, and stores nothing *)
LEMMA PlainStep ==
  ASSUME Inv, status = "run", inst.size \in Nat,
         NEW regs, RegistersOK(regs), NEW pc \in Int, Advance(regs, pc),
         \/ Forget(regs[Rsp])
         \/ UNCHANGED pushed /\ regs[Rsp] = registers[Rsp],
         UNCHANGED <<memory, code, status, num>>,
         flags' \in [ZF : BOOLEAN, SF : BOOLEAN, OF : BOOLEAN]
  PROVE  Inv'
<1>1. RegistersOK(registers') /\ registers'[Rsp] = regs[Rsp]
  BY AdvanceTyped
<1>2. TypeOK' /\ (code \in Programs)'
  BY <1>1, ForgetTyped DEF Inv, TypeOK, RegistersOK
<1>3. StackHoldsPushed'
  BY <1>1, ForgetHolds, KeepHolds DEF Inv
<1> QED
  BY <1>2, <1>3 DEF Inv, Pending, ExitIsRequested, HostNeverRuns

(* the process ends, or its behaviour is undefined *)
LEMMA StopStep ==
  ASSUME Inv, Terminate \/ OutOfArray
  PROVE  Inv'
<1>1. TypeOK' /\ (code \in Programs)'
  BY DEF Inv, TypeOK, Terminate, OutOfArray, machine
<1>2. StackHoldsPushed'
  BY KeepHolds DEF Inv, Terminate, OutOfArray, machine
<1> QED
  BY <1>1, <1>2 DEF Inv, Pending, ExitIsRequested, HostNeverRuns, Terminate, OutOfArray

LEMMA FetchedFacts ==
  ASSUME Inv, NEW op, Fetched(op)
  PROVE  /\ InstructionOK(inst) /\ inst.size \in Nat /\ status = "run"
         /\ op # "unknown" => inst.op = op
         /\ CopyGuarded => op = "unknown" \/ inst.sib
         /\ RegistersOK(registers)
         /\ \A r \in Reg : registers[r] \in Word(AddrMod) /\ registers[r] \in Int
         /\ NextInstruction \in Word(AddrMod)
<1>1. /\ InstructionOK(inst) /\ status = "run" /\ inst.size \in Nat
      /\ op # "unknown" => inst.op = op
      /\ CopyGuarded => op = "unknown" \/ inst.sib
  BY InstructionTyped, MachineAssumption DEF Inv, Fetched, Opcode, InstructionOK
<1>2. RegistersOK(registers) /\ \A r \in Reg : registers[r] \in Word(AddrMod)
  BY DEF Inv, TypeOK, RegistersOK
<1>3. \A r \in Reg : registers[r] \in Int
  BY <1>2, Moduli, SMT DEF Word
<1>4. NextInstruction \in Word(AddrMod)
  BY <1>1, <1>3, ModIsWord DEF NextInstruction, WrapAdd, Reg, Rip
<1> QED
  BY <1>1, <1>2, <1>3, <1>4

(* Rsp and one slot down *)
LEMMA LowerRsp ==
  ASSUME Inv
  PROVE  /\ RegistersOK([registers EXCEPT ![Rsp] = Below(@)])
         /\ [registers EXCEPT ![Rsp] = Below(@)][Rsp] = Below(registers[Rsp])
         /\ \A r \in Reg : [registers EXCEPT ![Rsp] = Below(@)][r] \in Word(AddrMod)
         /\ [registers EXCEPT ![Rsp] = Below(@)][Rip] = registers[Rip]
<1>1. registers \in [Reg -> Word(AddrMod)] /\ Aligned(registers[Rsp])
  BY DEF Inv, TypeOK
<1>2. Below(registers[Rsp]) \in Word(AddrMod) /\ Aligned(Below(registers[Rsp]))
  BY <1>1, NeighbourSlots DEF Reg, Rsp
<1> QED
  BY <1>1, <1>2 DEF RegistersOK, Reg, Rsp, Rip

(* a slot that can be loaded from holds a word *)
LEMMA LoadedWord ==
  ASSUME Inv, NEW addr \in Word(AddrMod), Aligned(addr), Loadable(addr)
  PROVE  memory[addr] \in Word(AddrMod)
  BY BoundedIsSlot DEF Inv, TypeOK, Loadable

LEMMA CallStep ==
  ASSUME Inv, NEW op, Fetched(op), NEW return \in Word(AddrMod), NEW pc \in Int,
         CallTo(return, pc)
  PROVE  Inv'
  BY FetchedFacts, LowerRsp, PushStep DEF CallTo

LEMMA AssignStep ==
  ASSUME Inv, NEW op, Fetched(op), NEW reg \in 0 .. 15, NEW val \in Word(AddrMod),
         reg = Rsp => Aligned(val), Assign(reg, val)
  PROVE  Inv'
<1> DEFINE regs == [registers EXCEPT ![reg] = val]
<1>1. RegistersOK(regs)
  BY FetchedFacts DEF RegistersOK, Reg, Rsp
<1>2. Advance(regs, registers[Rip]) /\ Forget(regs[Rsp]) /\ UNCHANGED memory /\ Quiet
  BY DEF Assign
<1> HIDE DEF regs
<1>3. flags' \in [ZF : BOOLEAN, SF : BOOLEAN, OF : BOOLEAN]
  BY <1>2 DEF Inv, TypeOK, Quiet
<1>4. registers[Rip] \in Int
  BY FetchedFacts DEF Reg, Rip
<1> QED
  BY <1>1, <1>2, <1>3, <1>4, FetchedFacts, PlainStep DEF Quiet

(* an instruction that only moves Rip *)
LEMMA GotoStep ==
  ASSUME Inv, NEW op, Fetched(op), NEW pc \in Int, Advance(registers, pc),
         UNCHANGED <<pushed, memory>>, Quiet
  PROVE  Inv'
<1>1. flags' \in [ZF : BOOLEAN, SF : BOOLEAN, OF : BOOLEAN]
  BY DEF Inv, TypeOK, Quiet
<1> QED
  BY <1>1, FetchedFacts, PlainStep DEF Quiet

LEMMA SetAlStep ==
  ASSUME Inv, NEW op, Fetched(op), NEW val \in Int,
         NEW fl \in [ZF : BOOLEAN, SF : BOOLEAN, OF : BOOLEAN], SetAl(val, fl)
  PROVE  Inv'
<1> DEFINE regs == [registers EXCEPT ![Rax] = SetReg(Rax, val, ByteMod)]
<1>1. SetReg(Rax, val, ByteMod) \in Word(AddrMod)
  BY SetRegTyped, Moduli, MachineAssumption DEF Inv, Rax, Reg
<1>2. RegistersOK(regs) /\ regs[Rsp] = registers[Rsp]
  BY <1>1, FetchedFacts DEF RegistersOK, Reg, Rsp, Rax
<1>3. Advance(regs, registers[Rip])
  BY DEF SetAl
<1> HIDE DEF regs
<1>4. registers[Rip] \in Int /\ status = "run" /\ inst.size \in Nat
  BY FetchedFacts DEF Reg, Rip
<1>5. UNCHANGED <<memory, code, status, num, pushed>> /\ flags' = fl
  BY DEF SetAl
<1> QED
  BY <1>2, <1>3, <1>4, <1>5, PlainStep

(* AL is a byte *)
LEMMA AlTyped ==
  ASSUME Inv
  PROVE  Al \in Word(ByteMod) /\ Al \in Int
<1>1. registers[Rax] \in Int
  BY Moduli, SMT DEF Inv, TypeOK, Reg, Rax, Word
<1>2. Al \in 0 .. ByteMod - 1
  BY <1>1, DivMod, Moduli DEF Al
<1> QED
  BY <1>2, Moduli, SMT DEF Word
-----------------------------------------------------------------------------
(* Every instruction preserves the invariant. *)

LEMMA PushInstructions ==
  ASSUME Inv, Push \/ PushExtended \/ PushRex
  PROVE  Inv'
<1> DEFINE regs == [registers EXCEPT ![Rsp] = Below(@)]
<1>1. ASSUME NEW op, Fetched(op), NEW reg \in Reg, PushReg(reg)
      PROVE  Inv'
  <2>1. regs[reg] \in Word(AddrMod) /\ RegistersOK(regs) /\ regs[Rsp] = Below(registers[Rsp])
    BY LowerRsp
  <2>2. PushSlot(regs[reg]) /\ Advance(regs, regs[Rip]) /\ Quiet
    BY <1>1 DEF PushReg
  <2>3. regs[Rip] \in Int /\ status = "run" /\ inst.size \in Nat
    BY <1>1, LowerRsp, FetchedFacts DEF Reg, Rip
  <2> HIDE DEF regs
  <2> QED
    BY <2>1, <2>2, <2>3, PushStep
<1>2. CASE Push
  <2>1. inst.reg \in Reg
    BY <1>2, FetchedFacts DEF Push, InstructionOK, Reg
  <2> QED
    BY <1>1, <1>2, <2>1 DEF Push
<1>3. CASE PushExtended
  <2>1. inst.reg + 8 \in Reg
    BY <1>3, FetchedFacts, SMT DEF PushExtended, InstructionOK, Reg
  <2> QED
    BY <1>1, <1>3, <2>1 DEF PushExtended
<1>4. CASE PushRex
  <2>1. RegistersOK(regs) /\ regs[Rsp] = Below(registers[Rsp])
    BY LowerRsp
  <2>2. Advance(regs, registers[Rip]) /\ Forget(Below(registers[Rsp])) /\ UNCHANGED memory /\ Quiet
    BY <1>4 DEF PushRex
  <2>3. registers[Rip] \in Int /\ status = "run" /\ inst.size \in Nat
    BY <1>4, FetchedFacts DEF PushRex, Reg, Rip
  <2>4. flags' \in [ZF : BOOLEAN, SF : BOOLEAN, OF : BOOLEAN]
    BY <2>2 DEF Quiet, Inv, TypeOK
  <2> HIDE DEF regs
  <2> QED
    BY <2>1, <2>2, <2>3, <2>4, PlainStep DEF Quiet
<1> QED
  BY <1>2, <1>3, <1>4

LEMMA PopInstructions ==
  ASSUME Inv, Pop \/ PopExtended \/ PopRex
  PROVE  Inv'
<1>1. registers[Rsp] \in Word(AddrMod) /\ Aligned(registers[Rsp])
  BY DEF Inv, TypeOK, Reg, Rsp
<1>2. CASE Pop
  <2>1. CASE ~Loadable(registers[Rsp])
    BY <1>2, <2>1, StopStep DEF Pop
  <2>2. CASE Loadable(registers[Rsp])
    <3> DEFINE regs == [registers EXCEPT ![inst.reg + 8] = memory[registers[Rsp]]]
    <3>1. memory[registers[Rsp]] \in Word(AddrMod)
      BY <1>1, <2>2, LoadedWord
    <3>2. inst.reg \in 0 .. 7 /\ registers[Rip] \in Int /\ status = "run" /\ inst.size \in Nat
      BY <1>2, FetchedFacts DEF Pop, InstructionOK, Reg, Rip
    <3>3. RegistersOK(regs) /\ regs[Rsp] = registers[Rsp]
      BY <1>1, <3>1, <3>2 DEF RegistersOK, Inv, TypeOK, Reg, Rsp
    <3>4. Advance(regs, registers[Rip]) /\ UNCHANGED <<memory, pushed>> /\ Quiet
      BY <1>2, <2>2 DEF Pop
    <3> HIDE DEF regs
    <3>5. flags' \in [ZF : BOOLEAN, SF : BOOLEAN, OF : BOOLEAN]
      BY <3>4 DEF Quiet, Inv, TypeOK
    <3> QED
      BY <3>2, <3>3, <3>4, <3>5, PlainStep DEF Quiet
  <2> QED
    BY <2>1, <2>2
<1>3. CASE PopExtended
  <2>1. registers[Rip] \in Int
    BY <1>3, FetchedFacts DEF PopExtended, Reg, Rip
  <2>2. CASE Terminate \/ OutOfArray
    BY <2>2, StopStep
  <2>3. CASE Advance(registers, registers[Rip]) /\ UNCHANGED <<memory, pushed>> /\ Quiet
    BY <1>3, <2>1, <2>3, GotoStep DEF PopExtended
  <2> QED
    BY <1>3, <2>2, <2>3 DEF PopExtended
<1>4. CASE PopRex
  <2>1. registers[Rip] \in Int
    BY <1>4, FetchedFacts DEF PopRex, Reg, Rip
  <2> QED
    BY <1>4, <2>1, GotoStep DEF PopRex
<1> QED
  BY <1>2, <1>3, <1>4

LEMMA ReturnTyped ==
  ASSUME Inv, NEW op, Fetched(op)
  PROVE  ReturnAddress \in Word(AddrMod)
<1>1. NextInstruction \in Word(AddrMod) /\ NextInstruction \in Int
  <2>1. NextInstruction \in Word(AddrMod)
    BY FetchedFacts
  <2> QED
    BY <2>1, Moduli, SMT DEF Word
<1>2. WrapAdd(AddrMod, NextInstruction, 1) \in Word(AddrMod)
  BY <1>1, ModIsWord DEF WrapAdd
<1> QED
  BY <1>1, <1>2 DEF ReturnAddress

LEMMA Offset ==
  ASSUME Inv, NEW op, Fetched(op), NEW n \in Int
  PROVE  WrapAdd(AddrMod, registers[Rip], n) \in Int
<1> DEFINE rip == registers[Rip]
<1>1. rip \in Int
  BY FetchedFacts DEF Reg, Rip
<1> HIDE DEF rip
<1>2. (rip + n) % AddrMod \in Int
  BY <1>1, Moduli, SMT
<1> QED
  BY <1>2 DEF WrapAdd, rip

LEMMA CallInstructions ==
  ASSUME Inv, Call \/ CallRegister \/ CallMemory \/ CallUnresolved
  PROVE  Inv'
<1>1. CASE Call
  <2>1. inst.imm \in Int /\ registers[Rip] \in Int /\ NextInstruction \in Word(AddrMod)
    BY <1>1, FetchedFacts DEF Call, InstructionOK, Reg, Rip
  <2>2. (registers[Rip] + inst.imm) % AddrMod \in Int
    BY <2>1, Moduli, SMT
  <2> QED
    BY <1>1, <2>1, <2>2, CallStep DEF Call
<1>2. CASE CallRegister
  <2> DEFINE val == IF inst.reg = Rsp THEN Below(registers[Rsp]) ELSE registers[inst.reg]
             operand == IF MatchesOsize(inst.width) THEN val % inst.width ELSE 0
  <2>1. inst.width \in Nat \ {0} /\ inst.reg \in Reg
    BY <1>2, FetchedFacts, SMT DEF CallRegister, InstructionOK, Reg
  <2>2. val \in Int
    <3>1. Below(registers[Rsp]) \in Word(AddrMod) /\ registers[inst.reg] \in Word(AddrMod)
      BY <2>1, NeighbourSlots DEF Inv, TypeOK, Reg, Rsp
    <3> QED
      BY <3>1, Moduli, SMT DEF Word
  <2>3. CallTo(ReturnAddress, WrapAdd(AddrMod, registers[Rip], operand))
    BY <1>2 DEF CallRegister
  <2> HIDE DEF val
  <2>4. operand \in Int
    BY <2>1, <2>2, DivMod
  <2> HIDE DEF operand
  <2>5. WrapAdd(AddrMod, registers[Rip], operand) \in Int
    BY <1>2, <2>4, Offset DEF CallRegister
  <2> QED
    BY <1>2, <2>3, <2>5, ReturnTyped, CallStep DEF CallRegister
<1>3. CASE CallMemory
  <2>1. /\ registers[Rip] \in Int
        /\ \A o \in Word(AddrMod) : WrapAdd(AddrMod, registers[Rip], o) \in Int
    <3>1. \A o \in Word(AddrMod) : o \in Int
      BY Moduli, SMT DEF Word
    <3> QED
      BY <1>3, <3>1, FetchedFacts, Offset DEF CallMemory, Reg, Rip
  <2>2. ReturnAddress \in Word(AddrMod)
    BY <1>3, ReturnTyped DEF CallMemory
  <2>3. CASE Terminate
    BY <2>3, StopStep
  <2>4. CASE CallTo(ReturnAddress, registers[Rip])
    BY <1>3, <2>1, <2>2, <2>4, CallStep DEF CallMemory
  <2>5. CASE \E o \in Word(AddrMod) : CallTo(ReturnAddress, WrapAdd(AddrMod, registers[Rip], o))
    BY <1>3, <2>1, <2>2, <2>5, CallStep DEF CallMemory
  <2> QED
    BY <1>3, <2>3, <2>4, <2>5 DEF CallMemory
<1>4. CASE CallUnresolved
  <2>1. registers[Rip] \in Int
    BY <1>4, FetchedFacts DEF CallUnresolved, Reg, Rip
  <2> QED
    BY <1>4, <2>1, ReturnTyped, CallStep DEF CallUnresolved
<1> QED
  BY <1>1, <1>2, <1>3, <1>4

LEMMA RetInstruction ==
  ASSUME Inv, Ret
  PROVE  Inv'
<1>1. registers[Rsp] \in Word(AddrMod) /\ Aligned(registers[Rsp])
  BY DEF Inv, TypeOK, Reg, Rsp
<1>2. CASE ~Loadable(registers[Rsp])
  BY <1>2, StopStep DEF Ret
<1>3. CASE Loadable(registers[Rsp])
  <2> DEFINE regs == [registers EXCEPT ![Rsp] = RspAfterRet]
             pc == memory[registers[Rsp]]
  <2>1. pc \in Int /\ status = "run" /\ inst.size \in Nat
    BY <1>1, <1>3, LoadedWord, FetchedFacts, Moduli, SMT DEF Ret, Word
  <2>2. RegistersOK(regs) /\ regs[Rsp] = RspAfterRet
    BY <1>1, NeighbourSlots DEF RspAfterRet, RegistersOK, Inv, TypeOK, Reg, Rsp
  <2>3. Advance(regs, pc) /\ Forget(RspAfterRet) /\ UNCHANGED memory /\ Quiet
    BY <1>3 DEF Ret
  <2> HIDE DEF regs, pc
  <2>4. flags' \in [ZF : BOOLEAN, SF : BOOLEAN, OF : BOOLEAN]
    BY <2>3 DEF Quiet, Inv, TypeOK
  <2> QED
    BY <2>1, <2>2, <2>3, <2>4, PlainStep DEF Quiet
<1> QED
  BY <1>2, <1>3

LEMMA JumpInstructions ==
  ASSUME Inv,
         (\E op \in {"jz", "jnz", "jl", "jle", "jmp"} : Jump(op)) \/ JumpNear \/ Unknown
  PROVE  Inv'
<1>2. ASSUME NEW op \in {"jz", "jnz", "jl", "jle", "jmp"}, Jump(op)
      PROVE  Inv'
  <2>1. registers[Rip] \in Int /\ inst.imm \in Int
    BY <1>2, FetchedFacts DEF Jump, InstructionOK, Reg, Rip
  <2>2. (registers[Rip] + inst.imm) % AddrMod \in Int
    BY <2>1, Moduli, SMT
  <2> DEFINE pc == IF Taken(op) THEN (registers[Rip] + inst.imm) % AddrMod ELSE registers[Rip]
  <2>3. pc \in Int
    BY <2>1, <2>2
  <2>4. Fetched(op) /\ Advance(registers, pc) /\ UNCHANGED <<pushed, memory>> /\ Quiet
    BY <1>2 DEF Jump
  <2> HIDE DEF pc
  <2> QED
    BY <2>3, <2>4, GotoStep
<1>3. CASE JumpNear
  <2>1. registers[Rip] \in Int
    BY <1>3, FetchedFacts DEF JumpNear, Reg, Rip
  <2> QED
    BY <1>3, <2>1, GotoStep DEF JumpNear
<1>4. CASE Unknown
  <2>1. registers[Rip] \in Int
    BY <1>4, FetchedFacts DEF Unknown, Reg, Rip
  <2> QED
    BY <1>4, <2>1, GotoStep DEF Unknown
<1> QED
  BY <1>2, <1>3, <1>4

LEMMA AssignInstructions ==
  ASSUME Inv, Mov \/ Add \/ Dec \/ Compare
  PROVE  Inv'
<1>1. CASE Mov
  <2>1. /\ inst.reg \in 0 .. 15 /\ inst.reg \in Reg /\ inst.imm \in Int
        /\ inst.width \in Nat \ {0} /\ AddrMod % inst.width = 0
        /\ inst.reg = Rsp => Aligned(inst.imm) /\ inst.width = AddrMod
    <3>1. /\ inst.reg \in 0 .. 15 /\ inst.imm \in Word(inst.width)
          /\ inst.width \in Nat \ {0} /\ AddrMod % inst.width = 0
          /\ inst.reg = Rsp => Aligned(inst.imm) /\ inst.width = AddrMod
      BY <1>1, FetchedFacts DEF Mov, InstructionOK
    <3> QED
      BY <3>1, SMT DEF Reg, Word
  <2>2. SetReg(inst.reg, inst.imm, inst.width) \in Word(AddrMod)
    BY <2>1, SetRegTyped DEF Inv
  <2>3. inst.reg = Rsp => Aligned(SetReg(inst.reg, inst.imm, inst.width))
    <3> SUFFICES ASSUME inst.reg = Rsp
                 PROVE  Aligned(SetReg(inst.reg, inst.imm, inst.width))
      OBVIOUS
    <3>1. registers[Rsp] \in 0 .. AddrMod - 1
      BY DEF Inv, TypeOK, Reg, Rsp, Word
    <3>2. registers[Rsp] % AddrMod = registers[Rsp]
      BY <3>1, Moduli, Z3
    <3>3. Aligned(inst.imm % AddrMod) /\ inst.imm % AddrMod \in Int
      BY <2>1, AlignedWrap, ModIsWord, Moduli, SMT DEF Word
    <3>4. SetReg(inst.reg, inst.imm, inst.width) = inst.imm % AddrMod
      BY <2>1, <3>1, <3>2, <3>3 DEF SetReg
    <3> QED
      BY <3>3, <3>4
  <2>4. registers[inst.reg] \in Word(AddrMod) /\ Aligned(registers[Rsp])
    BY <2>1 DEF Inv, TypeOK
  <2>5. CASE MatchesOsize(inst.width)
    BY <1>1, <2>1, <2>2, <2>3, <2>5, AssignStep DEF Mov
  <2>6. CASE ~MatchesOsize(inst.width)
    BY <1>1, <2>1, <2>4, <2>6, AssignStep DEF Mov
  <2> QED
    BY <2>5, <2>6
<1>2. CASE Add
  <2> DEFINE sum == registers[inst.reg] + inst.imm
  <2>1. /\ inst.reg \in 0 .. 15 /\ inst.reg \in Reg /\ sum \in Int /\ inst.imm \in Int
        /\ inst.width \in Nat \ {0} /\ AddrMod % inst.width = 0
        /\ inst.reg = Rsp => Aligned(inst.imm) /\ inst.width = AddrMod
    BY <1>2, FetchedFacts, SMT DEF Add, InstructionOK, Reg
  <2>2. SetReg(inst.reg, sum, inst.width) \in Word(AddrMod)
    BY <2>1, SetRegTyped DEF Inv
  <2>3. inst.reg = Rsp => Aligned(SetReg(inst.reg, sum, inst.width))
    <3> SUFFICES ASSUME inst.reg = Rsp
                 PROVE  Aligned(SetReg(inst.reg, sum, inst.width))
      OBVIOUS
    <3>1. registers[Rsp] \in 0 .. AddrMod - 1 /\ Aligned(registers[Rsp]) /\ registers[Rsp] \in Int
      BY Moduli, SMT DEF Inv, TypeOK, Reg, Rsp, Word
    <3>2. registers[Rsp] % AddrMod = registers[Rsp]
      BY <3>1, Moduli, Z3
    <3>3. Aligned(sum)
      BY <2>1, <3>1, AlignedSum
    <3> HIDE DEF sum
    <3>4. Aligned(sum % AddrMod) /\ sum % AddrMod \in Int
      BY <2>1, <3>3, AlignedWrap, ModIsWord, Moduli, SMT DEF Word
    <3>5. SetReg(inst.reg, sum, inst.width) = sum % AddrMod
      BY <2>1, <3>1, <3>2, <3>4 DEF SetReg
    <3> QED
      BY <3>4, <3>5
  <2> QED
    BY <1>2, <2>1, <2>2, <2>3, AssignStep DEF Add
<1>3. CASE Dec
  <2>1. /\ inst.reg \in 0 .. 15 /\ inst.reg \in Reg /\ inst.reg # Rsp
        /\ inst.width \in Nat \ {0} /\ registers[inst.reg] \in Int
    BY <1>3, FetchedFacts, SMT DEF Dec, InstructionOK, Reg
  <2>2. (registers[inst.reg] % inst.width) - 1 \in Int
    BY <2>1, DivMod, SMT
  <2>3. ((registers[inst.reg] % inst.width) - 1) % AddrMod \in Word(AddrMod)
    BY <2>2, ModIsWord
  <2> QED
    BY <1>3, <2>1, <2>3, AssignStep DEF Dec
<1>4. CASE Compare
  <2>1. inst.reg \in 0 .. 15 /\ registers[inst.reg] \in Word(AddrMod)
    BY <1>4, FetchedFacts, SMT DEF Compare, InstructionOK, Reg
  <2>2. inst.reg = Rsp => Aligned(registers[inst.reg])
    BY DEF Inv, TypeOK
  <2> QED
    BY <1>4, <2>1, <2>2, AssignStep DEF Compare
<1> QED
  BY <1>1, <1>2, <1>3, <1>4

(* an operand next to Rsp is a slot *)
LEMMA OperandTyped ==
  ASSUME Inv, NEW op \in {"load", "store", "dec_mem"}, Fetched(op)
  PROVE  /\ OperandAddr(registers[Rsp]) \in Word(AddrMod)
         /\ Aligned(OperandAddr(registers[Rsp]))
<1> DEFINE rsp == registers[Rsp]
           disp == inst.imm
<1>1. rsp \in Int /\ Aligned(rsp)
  BY FetchedFacts DEF RegistersOK, Reg, Rsp
<1>2. disp \in Int /\ Aligned(disp)
  BY FetchedFacts DEF InstructionOK
<1> HIDE DEF rsp, disp
<1>3. rsp + disp \in Int
  BY <1>1, <1>2
<1>4. Aligned(rsp + disp)
  BY <1>1, <1>2, AlignedSum
<1>5. (rsp + disp) % AddrMod \in Word(AddrMod) /\ Aligned((rsp + disp) % AddrMod)
  BY <1>3, <1>4, AlignedWrap, ModIsWord
<1> QED
  BY <1>5 DEF OperandAddr, rsp, disp

LEMMA LoadInstruction ==
  ASSUME Inv, Load
  PROVE  Inv'
<1> DEFINE addr == OperandAddr(registers[Rsp])
           regs == IF Loadable(addr) THEN [registers EXCEPT ![inst.reg] = memory[addr]]
                   ELSE registers
<1>1. Loadable(addr) => memory[addr] \in Word(AddrMod)
  BY OperandTyped, LoadedWord DEF Load
<1>2. /\ Advance(regs, registers[Rip])
      /\ UNCHANGED <<memory, pushed>> /\ Quiet
  BY DEF Load
<1>3. /\ inst.reg \in 0 .. 15 /\ inst.reg # Rsp /\ registers[Rip] \in Int
      /\ status = "run" /\ inst.size \in Nat
  BY FetchedFacts DEF Load, InstructionOK, Reg, Rip
<1> HIDE DEF addr
<1>4. RegistersOK(regs) /\ regs[Rsp] = registers[Rsp]
  BY <1>1, <1>3 DEF RegistersOK, Inv, TypeOK, Reg, Rsp
<1>5. flags' \in [ZF : BOOLEAN, SF : BOOLEAN, OF : BOOLEAN]
  BY <1>2 DEF Quiet, Inv, TypeOK
<1> HIDE DEF regs
<1> QED
  BY <1>2, <1>3, <1>4, <1>5, PlainStep DEF Quiet

(* A store to a slot changes that slot and what the history says of it. *)
LEMMA StoreStep ==
  ASSUME Inv, NEW op, Fetched(op), NEW addr \in Word(AddrMod), Aligned(addr),
         NEW val, Loadable(addr) => val \in Word(AddrMod), StoreTo(addr, val)
  PROVE  Inv'
<1>1. CASE ~Loadable(addr)
  BY <1>1, StopStep DEF StoreTo
<1>2. CASE Loadable(addr)
  <2>1. /\ memory' = IF Storable(addr) THEN [memory EXCEPT ![addr] = val] ELSE memory
       
        /\ pushed' = [a \in DOMAIN pushed |-> IF a = addr /\ Storable(a) THEN val ELSE pushed[a]]
        /\ Advance(registers, registers[Rip]) /\ Quiet
    BY <1>2 DEF StoreTo
  <2>2. RegistersOK(registers') /\ registers'[Rsp] = registers[Rsp]
    <3>1. RegistersOK(registers) /\ inst.size \in Nat /\ registers[Rip] \in Int
      BY FetchedFacts DEF Reg, Rip
    <3> QED
      BY <2>1, <3>1, AdvanceTyped
  <2>3. addr \in Slots /\ val \in Word(AddrMod)
    BY <1>2, BoundedIsSlot DEF Loadable
  <2>4. TypeOK' /\ (code \in Programs)'
    <3>1. /\ DOMAIN pushed' = DOMAIN pushed
          /\ \A a \in DOMAIN pushed' : pushed'[a] \in Word(AddrMod)
      BY <2>1, <2>3 DEF Inv, TypeOK
    <3>2. memory' \in [Slots -> Word(AddrMod)]
      BY <2>1, <2>3 DEF Inv, TypeOK
    <3> QED
      BY <2>1, <2>2, <3>1, <3>2 DEF Inv, TypeOK, RegistersOK, Quiet
  <2>5. StackHoldsPushed'
    <3>1. memory \in [Slots -> Word(AddrMod)]
      BY DEF Inv, TypeOK
    <3>2. ASSUME NEW a \in DOMAIN pushed
          PROVE  a >= registers[Rsp] /\ (Storable(a) => memory'[a] = pushed'[a])
      BY <2>1, <2>3, <3>1 DEF Inv, StackHoldsPushed
    <3>3. DOMAIN pushed' = DOMAIN pushed
      BY <2>1
    <3> QED
      BY <2>2, <3>2, <3>3 DEF StackHoldsPushed, Storable, InBounds
  <2> QED
    BY <2>1, <2>4, <2>5, FetchedFacts DEF Inv, Pending, ExitIsRequested, HostNeverRuns, Quiet
<1> QED
  BY <1>1, <1>2

LEMMA StoreInstructions ==
  ASSUME Inv, Store \/ DecMemory
  PROVE  Inv'
<1> DEFINE addr == OperandAddr(registers[Rsp])
<1>1. CASE Store
  <2>1. registers[inst.reg] \in Word(AddrMod)
    BY <1>1, FetchedFacts, SMT DEF Store, InstructionOK, Reg
  <2> QED
    BY <1>1, <2>1, OperandTyped, StoreStep DEF Store
<1>2. CASE DecMemory
  <2>1. addr \in Word(AddrMod) /\ Aligned(addr) /\ Fetched("dec_mem")
    BY <1>2, OperandTyped DEF DecMemory
  <2>2. StoreTo(addr, (memory[addr] - 1) % AddrMod)
    BY <1>2 DEF DecMemory
  <2> HIDE DEF addr
  <2>3. Loadable(addr) => (memory[addr] - 1) % AddrMod \in Word(AddrMod)
    <3> SUFFICES ASSUME Loadable(addr)
                 PROVE  (memory[addr] - 1) % AddrMod \in Word(AddrMod)
      OBVIOUS
    <3> DEFINE old == memory[addr]
    <3>1. old \in Word(AddrMod)
      BY <2>1, LoadedWord
    <3> HIDE DEF old
    <3>2. old - 1 \in Int
      BY <3>1, Moduli, SMT DEF Word
    <3>3. (old - 1) % AddrMod \in Word(AddrMod)
      BY <3>2, ModIsWord
    <3> QED
      BY <3>3 DEF old
  <2> QED
    BY <2>1, <2>2, <2>3, StoreStep
<1> QED
  BY <1>1, <1>2

LEMMA AlInstructions ==
  ASSUME Inv, SubAl \/ LogicAl \/ TestAl
  PROVE  Inv'
<1>1. \A v \in Int : SetLogicOpFlags(v) \in [ZF : BOOLEAN, SF : BOOLEAN, OF : BOOLEAN]
  BY DEF SetLogicOpFlags
<1>2. CASE SubAl
  <2>1. inst.imm \in Int
    BY <1>2, FetchedFacts, Moduli, SMT DEF SubAl, InstructionOK, Word
  <2>2. (Al - inst.imm) % ByteMod \in Int
    BY <2>1, AlTyped, Moduli, SMT
  <2>3. SubFlags(Al, inst.imm) \in [ZF : BOOLEAN, SF : BOOLEAN, OF : BOOLEAN]
    BY <2>1, AlTyped DEF SubFlags
  <2> QED
    BY <1>2, <2>2, <2>3, SetAlStep DEF SubAl
<1>3. CASE LogicAl \/ TestAl
  <2>1. inst.fn \in [Word(ByteMod) -> Word(ByteMod)]
    BY <1>3, FetchedFacts DEF LogicAl, TestAl, InstructionOK
  <2>2. inst.fn[Al] \in Word(ByteMod) /\ inst.fn[inst.fn[Al]] \in Word(ByteMod)
    BY <2>1, AlTyped
  <2>3. inst.fn[Al] \in Int /\ inst.fn[inst.fn[Al]] \in Int /\ Al \in Int
    BY <2>2, AlTyped, Moduli, SMT DEF Word
  <2> QED
    BY <1>1, <1>3, <2>3, SetAlStep DEF LogicAl, TestAl
<1> QED
  BY <1>2, <1>3

(* what happens outside the code, and the return to the host *)
LEMMA EdgeSteps ==
  ASSUME Inv, SkipNotExecutable \/ DecodeOutsideMemory \/ Syscall
  PROVE  Inv'
<1>1. CASE SkipNotExecutable
  <2>1. PICK size \in SkipSizes :
          registers' = [registers EXCEPT ![Rip] = WrapAdd(AddrMod, @, size)]
    BY <1>1 DEF SkipNotExecutable
  <2>2. size \in Int /\ registers[Rip] \in Int
    BY MachineAssumption, Moduli, SMT DEF Inv, TypeOK, Reg, Rip, Word
  <2>3. WrapAdd(AddrMod, registers[Rip], size) \in Word(AddrMod)
    BY <2>2, ModIsWord DEF WrapAdd
  <2>4. RegistersOK(registers') /\ registers'[Rsp] = registers[Rsp]
    BY <2>1, <2>3 DEF RegistersOK, Inv, TypeOK, Reg, Rip, Rsp
  <2>5. UNCHANGED <<pushed, memory, flags, code, status, num>> /\ status = "run"
    BY <1>1 DEF SkipNotExecutable, Quiet
  <2>6. StackHoldsPushed'
    BY <2>4, <2>5, KeepHolds DEF Inv
  <2> QED
    BY <2>4, <2>5, <2>6 DEF Inv, TypeOK, RegistersOK, Pending, ExitIsRequested, HostNeverRuns
<1>2. CASE DecodeOutsideMemory
  BY <1>2, StopStep DEF DecodeOutsideMemory
<1>3. CASE Syscall
  <2>1. StackHoldsPushed'
    BY <1>3, KeepHolds DEF Syscall, Inv, machine
  <2>2. TypeOK' /\ (code \in Programs)'
    BY <1>3 DEF Syscall, Inv, TypeOK, machine
  <2>3. Pending' /\ ExitIsRequested' /\ HostNeverRuns'
    <3>1. /\ registers[Rip] \in CodeAddr /\ inst.op = "syscall" /\ InstructionOK(inst)
          /\ CopyGuarded => inst.sib
      BY <1>3, FetchedFacts DEF Syscall, Fetched
    <3>2. ~CopyGuarded
      BY <3>1, MachineAssumption DEF InstructionOK, SibOps
    <3> QED
      BY <1>3, <3>1, <3>2 DEF Syscall, Pending, ExitIsRequested, HostNeverRuns, inst, machine
  <2> QED
    BY <2>1, <2>2, <2>3 DEF Inv
<1> QED
  BY <1>1, <1>2, <1>3

-----------------------------------------------------------------------------
(* The host and the invariant *)

LEMMA Resumes ==
  ASSUME Inv, NEW regs, RegistersOK(regs), Resume(regs)
  PROVE  RegistersOK(registers') /\ registers'[Rsp] = regs[Rsp]
<1>1. regs[Rip] \in Int
  BY Moduli, SMT DEF RegistersOK, Reg, Rip, Word
<1>2. WrapAdd(AddrMod, regs[Rip], 2) \in Word(AddrMod)
  BY <1>1, ModIsWord DEF WrapAdd
<1> QED
  BY <1>2 DEF Resume, RegistersOK, Reg, Rip, Rsp

(* the slots that NtWriteFile takes its arguments from *)
LEMMA ArgumentSlots ==
  ASSUME Inv, NEW k \in 0 .. 4
  PROVE  ArgAddr(k) \in Word(AddrMod) /\ Aligned(ArgAddr(k))
<1> DEFINE offset == k * SlotBytes
<1>1. registers[Rsp] \in Int /\ Aligned(registers[Rsp])
  BY Moduli, SMT DEF Inv, TypeOK, Reg, Rsp, Word
<1>2. offset \in Int /\ offset = SlotBytes * k
  BY Moduli, SMT
<1>3. Aligned(offset)
  BY <1>2, MultipleModZero, Moduli DEF Aligned
<1> DEFINE rsp == registers[Rsp]
<1>5. ArgAddr(k) = (rsp + offset) % AddrMod
  BY DEF ArgAddr
<1>6. rsp \in Int /\ Aligned(rsp)
  BY <1>1
<1> HIDE DEF offset, rsp
<1>4. rsp + offset \in Int /\ Aligned(rsp + offset)
  <2>1. rsp + offset \in Int
    BY <1>2, <1>6, SMT
  <2> QED
    BY <2>1, <1>2, <1>3, <1>6, AlignedSum
<1> QED
  BY <1>4, <1>5, AlignedWrap, ModIsWord

LEMMA WriteFileStep ==
  ASSUME Inv, NtWriteFile
  PROVE  Inv'
<1>1. CASE Terminate \/ OutOfArray
  BY <1>1, StopStep
<1>2. CASE ~(Terminate \/ OutOfArray)
  <2> DEFINE regs == [registers EXCEPT ![Rsp] = ArgAddr(4)]
             refused == CheckedAddRefused(AddrMod, Arg(0), Arg(2))
             peek == PeekResult(Arg(0), Arg(1))
  <2>1. /\ IF refused THEN Exit("SyscallIntegerOverflow") /\ registers' = regs
           ELSE IF peek # "ok" THEN Exit(peek) /\ registers' = regs
           ELSE Resume(regs)
        /\ Forget(ArgAddr(4)) /\ UNCHANGED <<flags, memory, code>>
        /\ status = "syscall" /\ registers[Rax] = 8
    BY <1>2 DEF NtWriteFile
  <2>2. /\ RegistersOK(regs) /\ regs[Rsp] = ArgAddr(4)
        /\ regs[Rip] = registers[Rip] /\ regs[Rax] = registers[Rax]
    BY ArgumentSlots DEF RegistersOK, Inv, TypeOK, Reg, Rsp, Rip, Rax
  <2>3. peek \in Numbers \cup {"ok"} /\ peek # "none" /\ peek # "Exit"
    BY DEF PeekResult, Numbers
  <2> HIDE DEF regs, refused, peek
  <2>4. RegistersOK(registers') /\ registers'[Rsp] = ArgAddr(4)
    BY <2>1, <2>2, Resumes
  <2>5. StackHoldsPushed'
    BY <2>1, <2>4, ForgetHolds DEF Inv
  <2>6. /\ DOMAIN pushed' \subseteq Word(AddrMod)
        /\ \A a \in DOMAIN pushed' : Aligned(a) /\ pushed'[a] \in Word(AddrMod)
    BY <2>1, ForgetTyped DEF Inv
  <2>7. status' \in {"run", "exited"} /\ num' \in Numbers
    BY <2>1, <2>3 DEF Exit, Resume, Inv, TypeOK, Numbers
  <2>8. TypeOK' /\ (code \in Programs)'
    BY <2>1, <2>4, <2>6, <2>7 DEF Inv, TypeOK, RegistersOK
  <2>9. Pending' /\ ExitIsRequested' /\ HostNeverRuns'
    <3>1. CASE status' = "run"
      BY <3>1 DEF Pending, ExitIsRequested, HostNeverRuns
    <3>2. CASE status' = "exited"
      <4>1. /\ registers'[Rip] = registers[Rip] /\ registers'[Rax] = 8
            /\ num' # "none" /\ num' # "Exit" /\ code' = code
        BY <2>1, <2>2, <2>3, <3>2 DEF Exit, Resume
      <4>2. registers[Rip] \in CodeAddr /\ inst.op = "syscall" /\ ~CopyGuarded
        BY <2>1, MachineAssumption DEF Inv, Pending, HostNeverRuns
      <4> QED
        BY <4>1, <4>2 DEF Pending, ExitIsRequested, HostNeverRuns, inst
    <3> QED
      BY <2>7, <3>1, <3>2
  <2> QED
    BY <2>5, <2>8, <2>9 DEF Inv
<1> QED
  BY <1>1, <1>2

LEMMA HostSteps ==
  ASSUME Inv, NtDeviceIoControlFile \/ NtTerminateProcess \/ OtherSyscall
  PROVE  Inv'
<1>1. CASE NtDeviceIoControlFile \/ OtherSyscall
  <2>1. PICK regs : /\ RegistersOK(regs) /\ regs[Rsp] = registers[Rsp] /\ Resume(regs)
                    /\ UNCHANGED <<flags, memory, code, pushed>>
    <3>0. 1 \in Word(AddrMod)
      BY MachineAssumption, SMT DEF Word
    <3>1. [registers EXCEPT ![Rax] = 1] \in [Reg -> Word(AddrMod)]
      BY <3>0 DEF Inv, TypeOK
    <3>2. /\ RegistersOK([registers EXCEPT ![Rax] = 1])
          /\ [registers EXCEPT ![Rax] = 1][Rsp] = registers[Rsp]
          /\ RegistersOK(registers)
      BY <3>1 DEF Inv, TypeOK, RegistersOK, Reg, Rax, Rsp
    <3> QED
      BY <1>1, <3>2 DEF NtDeviceIoControlFile, OtherSyscall
  <2>2. RegistersOK(registers') /\ registers'[Rsp] = registers[Rsp]
    BY <2>1, Resumes
  <2>3. StackHoldsPushed'
    BY <2>1, <2>2, KeepHolds DEF Inv
  <2>4. TypeOK' /\ (code \in Programs)'
    BY <2>1, <2>2 DEF Inv, TypeOK, RegistersOK, Resume
  <2> QED
    BY <2>1, <2>3, <2>4 DEF Inv, Pending, ExitIsRequested, HostNeverRuns, Resume
<1>2. CASE NtTerminateProcess
  <2>1. StackHoldsPushed'
    BY <1>2, KeepHolds DEF NtTerminateProcess, Inv, machine
  <2>2. TypeOK' /\ (code \in Programs)'
    BY <1>2 DEF NtTerminateProcess, Exit, Inv, TypeOK, Numbers, machine
  <2>3. Pending' /\ ExitIsRequested' /\ HostNeverRuns'
    <3>1. registers[Rip] \in CodeAddr /\ inst.op = "syscall" /\ ~CopyGuarded
      BY <1>2, MachineAssumption DEF NtTerminateProcess, Inv, Pending, HostNeverRuns
    <3> QED
      BY <1>2, <3>1 DEF NtTerminateProcess, NtTerminateProcessNumber, Exit, Pending,
                        ExitIsRequested, HostNeverRuns, inst, machine
  <2> QED
    BY <2>1, <2>2, <2>3 DEF Inv
<1> QED
  BY <1>1, <1>2

(* what main has set up when the guest starts *)
LEMMA InitialState ==
  /\ RegistersOK([r \in Reg |-> IF r = Rip THEN Entry
                                 ELSE IF r = Rsp THEN StackTop - 4 * SlotBytes ELSE 0])
  /\ WithSlots(Arguments) \in [Slots -> Word(AddrMod)]
  /\ DOMAIN Arguments \subseteq Word(AddrMod)
  /\ \A a \in DOMAIN Arguments :
       /\ Aligned(a) /\ a >= StackTop - 4 * SlotBytes
       /\ Arguments[a] \in Word(AddrMod)
       /\ Storable(a) => WithSlots(Arguments)[a] = Arguments[a]
<1>1. ASSUME NEW k \in 1 .. 4
      PROVE  /\ StackTop - k * SlotBytes \in Word(AddrMod)
             /\ Aligned(StackTop - k * SlotBytes)
             /\ StackTop - k * SlotBytes >= StackTop - 4 * SlotBytes
  <2>1. k = 1 \/ k = 2 \/ k = 3 \/ k = 4
    OBVIOUS
  <2>2. StackTop - k * SlotBytes \in Word(AddrMod)
        /\ StackTop - k * SlotBytes >= StackTop - 4 * SlotBytes
    BY <2>1, MachineAssumption, SMT DEF Word
  <2>3. SlotBytes * k \in Int /\ k * SlotBytes = SlotBytes * k /\ StackTop \in Int
    BY <2>1, MachineAssumption, SMT
  <2>4. Aligned(SlotBytes * k)
    BY MultipleModZero, Moduli DEF Aligned
  <2>5. Aligned(StackTop - SlotBytes * k)
    BY <2>3, <2>4, AlignedSum, MachineAssumption
  <2> QED
    BY <2>2, <2>3, <2>5
<1>2. DOMAIN Arguments = {StackTop - k * SlotBytes : k \in 1 .. 4}
  BY DEF Arguments
<1>3. \A a \in DOMAIN Arguments : Arguments[a] \in Word(AddrMod)
  BY MachineAssumption, SMT DEF Arguments, Word
<1>4. \A a \in DOMAIN Arguments :
        Aligned(a) /\ a >= StackTop - 4 * SlotBytes /\ a \in Word(AddrMod)
  BY <1>1, <1>2
<1>5. WithSlots(Arguments) \in [Slots -> Word(AddrMod)]
  <2>1. 0 \in Word(AddrMod)
    BY Moduli, SMT DEF Word
  <2> QED
    BY <1>3, <2>1 DEF WithSlots
<1>6. \A a \in DOMAIN Arguments : Storable(a) => WithSlots(Arguments)[a] = Arguments[a]
  BY <1>4, BoundedIsSlot DEF WithSlots, Storable
<1>7. RegistersOK([r \in Reg |-> IF r = Rip THEN Entry
                                 ELSE IF r = Rsp THEN StackTop - 4 * SlotBytes ELSE 0])
  <2>1. 4 \in 1 .. 4 /\ 0 \in Word(AddrMod) /\ Entry \in Word(AddrMod)
    BY MachineAssumption, SMT DEF Word
  <2>2. StackTop - 4 * SlotBytes \in Word(AddrMod) /\ Aligned(StackTop - 4 * SlotBytes)
    BY <1>1, <2>1
  <2> QED
    BY <2>1, <2>2 DEF RegistersOK, Reg, Rip, Rsp
<1> QED
  BY <1>3, <1>4, <1>5, <1>6, <1>7

LEMMA InitInv ==
  ASSUME Init
  PROVE  Inv
<1>1. registers[Rsp] = StackTop - 4 * SlotBytes
  BY DEF Init, Reg, Rsp, Rip
<1>2. StackHoldsPushed
  BY <1>1, InitialState DEF Init, StackHoldsPushed
<1>3. TypeOK
  BY InitialState, ProgramAssumption DEF Init, TypeOK, RegistersOK, Numbers
<1> QED
  BY <1>2, <1>3 DEF Init, Inv, Pending, ExitIsRequested, HostNeverRuns

LEMMA StutterStep ==
  ASSUME Inv, UNCHANGED vars
  PROVE  Inv'
<1>1. TypeOK' /\ (code \in Programs)'
  BY DEF Inv, TypeOK, vars, machine
<1>2. StackHoldsPushed'
  BY KeepHolds DEF Inv, vars, machine
<1>3. Pending' /\ ExitIsRequested' /\ HostNeverRuns'
  BY DEF Inv, Pending, ExitIsRequested, HostNeverRuns, inst, vars, machine
<1> QED
  BY <1>1, <1>2, <1>3 DEF Inv

(* Every instruction and every system call keeps the invariant. *)
THEOREM InductiveInvariant == Spec => []Inv
<1>1. Init => Inv
  BY InitInv
<1>2. Inv /\ [Next]_vars => Inv'
  <2> SUFFICES ASSUME Inv, [Next]_vars PROVE Inv'
    OBVIOUS
  <2>1. ASSUME RunStep PROVE Inv'
    BY <2>1, PushInstructions, PopInstructions, CallInstructions, RetInstruction,
       JumpInstructions, AssignInstructions, LoadInstruction, StoreInstructions,
       AlInstructions, EdgeSteps DEF RunStep
  <2>2. ASSUME HandleSyscall PROVE Inv'
    BY <2>2, HostSteps, WriteFileStep DEF HandleSyscall
  <2> QED
    BY <2>1, <2>2, StutterStep DEF Next
<1> QED
  BY <1>1, <1>2, PTL DEF Spec

(* Registers and stack slots hold words and Rsp stays aligned, for every   *)
(* word size, memory layout and program.                                   *)
THEOREM MachineTypeCorrect == Spec => []TypeOK
<1>1. Inv => TypeOK
  BY DEF Inv
<1> QED
  BY <1>1, InductiveInvariant, PTL

(* No step of the guest or of the host damages a live stack entry. *)
THEOREM StackSound == Spec => []StackHoldsPushed
<1>1. Inv => StackHoldsPushed
  BY DEF Inv
<1> QED
  BY <1>1, InductiveInvariant, PTL

(* main exits only at a system call that asked for it or failed. *)
THEOREM ExitSound == Spec => []ExitIsRequested
<1>1. Inv => ExitIsRequested
  BY DEF Inv
<1> QED
  BY <1>1, InductiveInvariant, PTL

(* As it is compiled, Run never comes back for a system call. *)
THEOREM BuiltNeverExits == Spec => []HostNeverRuns
<1>1. Inv => HostNeverRuns
  BY DEF Inv
<1> QED
  BY <1>1, InductiveInvariant, PTL

(* RET takes what the matching push stored and removes it. *)
THEOREM RetSound == Spec => RetFollowsPush
<1> DEFINE Step == Ret /\ status' = "run" /\ registers[Rsp] \in DOMAIN pushed
                     /\ Storable(registers[Rsp])
                   => registers'[Rip] = WrapAdd(AddrMod, pushed[registers[Rsp]], inst.size)
                      /\ registers[Rsp] \notin DOMAIN pushed'
<1>1. ASSUME Inv, Next PROVE Step
  <2> SUFFICES ASSUME Ret, status' = "run", registers[Rsp] \in DOMAIN pushed,
                      Storable(registers[Rsp])
               PROVE  registers'[Rip] = WrapAdd(AddrMod, pushed[registers[Rsp]], inst.size)
                      /\ registers[Rsp] \notin DOMAIN pushed'
    OBVIOUS
  <2>1. memory[registers[Rsp]] = pushed[registers[Rsp]]
    BY <1>1 DEF Inv, StackHoldsPushed
  <2>2. /\ Advance([registers EXCEPT ![Rsp] = RspAfterRet], memory[registers[Rsp]])
        /\ Forget(RspAfterRet)
    BY DEF Ret, Terminate
  <2>3. registers'[Rip] = WrapAdd(AddrMod, memory[registers[Rsp]], inst.size)
    BY <1>1, <2>2 DEF Advance, Inv, TypeOK, Reg, Rip
  <2>4. ~(registers[Rsp] >= RspAfterRet)
    <3> DEFINE rsp == registers[Rsp]
    <3>1. rsp \in Word(AddrMod) /\ Aligned(rsp) /\ InBounds(rsp, SlotBytes)
      BY <1>1 DEF Inv, TypeOK, Reg, Rsp, Storable
    <3>2. rsp \in Slots
      BY <3>1, BoundedIsSlot
    <3>3. rsp \in Nat /\ rsp + SlotBytes < AddrMod
      BY <3>2, MachineAssumption, SMT DEF Slots, Word
    <3>4. RspAfterRet = (rsp + SlotBytes) % AddrMod
      BY DEF RspAfterRet, Above, WrapAdd
    <3> HIDE DEF rsp
    <3>5. (rsp + SlotBytes) % AddrMod = rsp + SlotBytes
      <4> DEFINE n == rsp + SlotBytes
      <4>1. n \in 0 .. AddrMod - 1
        BY <3>3, MachineAssumption, SMT
      <4> HIDE DEF n
      <4>2. n % AddrMod = n
        BY <4>1, Moduli, Z3
      <4> QED
        BY <4>2 DEF n
    <3>6. ~(rsp >= rsp + SlotBytes)
      BY <3>3, MachineAssumption, SMT
    <3> QED
      BY <3>4, <3>5, <3>6 DEF rsp
  <2>5. registers[Rsp] \notin DOMAIN pushed'
    BY <2>2, <2>4 DEF Forget, Kept
  <2> QED
    BY <2>1, <2>3, <2>5
<1>2. Inv /\ [Next]_vars => [Step]_vars
  BY <1>1
<1> QED
  BY InductiveInvariant, <1>2, PTL DEF Spec, RetFollowsPush
=============================================================================
