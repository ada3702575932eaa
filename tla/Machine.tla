------------------------------ MODULE Machine ------------------------------
(***************************************************************************)
(* The emulated CPU and its host: Emulator::Run with the instructions that *)
(* move the stack or the instruction pointer (emulator/Emulator.cpp,       *)
(* emulation/x86/InstructionHandler.cpp), handle_syscall                   *)
(* (emulator/Syscalls.cpp) and the loop of main (Buzz-Emu.cpp).            *)
(*                                                                         *)
(* A program gives, for every address of the code, the instruction that is *)
(* decoded there.  An instruction is a record of its op, its size in bytes *)
(* and its operands; widths are moduli, so that SetReg<u32> is a SetReg    *)
(* with HalfMod.  Guest memory is a function on the aligned slots of the   *)
(* stack; its permissions do not change while the guest runs.              *)
(*                                                                         *)
(* Two facts about the build are constants.  Run copies the opcode under   *)
(* two nested ifs, whose own statements are commented out (Emulator.cpp    *)
(* 110-122); TestRun, the source of the copy that a comment wants back in  *)
(* Run (444), copies it always.  And MSVC gives a two-bit field of an enum *)
(* without a fixed type a sign, so that osize == X86_Osize_64bit, which is *)
(* 2, is false.                                                            *)
(***************************************************************************)
EXTENDS Words

CONSTANTS
  CopyGuarded,   \* whether the opcode is copied under the two ifs
  OsizeSigned,   \* whether osize is signed
  AddrMod,       \* 2^64 in the code
  ByteMod,       \* 2^8
  SlotBytes,     \* bytes of a stack slot, 8
  MemSize,       \* bytes of guest memory
  Readable, Writable,   \* the bytes with PERM_READ, and with PERM_WRITE
  CodeAddr,      \* the addresses with PERM_READ and PERM_EXEC
  Programs,      \* functions from CodeAddr to instructions
  Countdowns,    \* those that count down and then ask to terminate
  SkipSizes,     \* lengths of what is decoded outside the code
  Entry, StackTop, Argv   \* main's choices

Reg == 0 .. 16
Rax == 0
Rsp == 4
Rip == 16

Slots == {a \in Word(AddrMod) : a % SlotBytes = 0 /\ a + SlotBytes <= MemSize}
Bytes(addr, len) == addr .. addr + len - 1

(* The stack stays aligned: only multiples of SlotBytes are loaded into    *)
(* Rsp or added to it.                                                     *)
Aligned(n) == n % SlotBytes = 0

ASSUME MachineAssumption ==
  /\ CopyGuarded \in BOOLEAN /\ OsizeSigned \in BOOLEAN
  /\ AddrMod \in Nat /\ AddrMod > 44 /\ AddrMod % 2 = 0 /\ MemSize \in Nat /\ MemSize < AddrMod
  /\ ByteMod \in Nat \ {0} /\ AddrMod % ByteMod = 0
  /\ SlotBytes \in Nat \ {0} /\ SlotBytes % 2 = 0 /\ AddrMod % SlotBytes = 0
  /\ CodeAddr \subseteq Word(AddrMod) /\ SkipSizes \subseteq Nat
  /\ Entry \in Word(AddrMod) /\ Argv \in Word(AddrMod)
  /\ StackTop \in Nat /\ Aligned(StackTop)
  /\ StackTop \in 4 * SlotBytes .. MemSize
  /\ StackTop - 4 * SlotBytes .. StackTop - 1 \subseteq Readable \cap Writable

(* Instructions with a SIB byte: the operand is at Rsp + imm, and the last  *)
(* one's has no base and no index.                                         *)
SibOps == {"load", "store", "dec_mem", "call_mem", "call_unresolved"}

GeneralOps == SibOps \cup
  {"push", "pop", "push_ext", "pop_ext", "push_rex", "pop_rex", "call", "call_reg", "ret",
   "jz", "jnz", "jl", "jle", "jmp", "jmp_near", "mov", "add", "dec", "cmp",
   "sub_al", "logic_al", "test_al", "syscall", "unknown"}

(* op, size, whether there is a REX prefix and a SIB byte, and what the op *)
(* has of                                                                  *)
(*   reg, src : registers        imm : an immediate or a displacement      *)
(*   width    : a modulus        fn  : what a logic op does to a byte      *)
(* Operands in memory are of 64 bits, the operand of DEC of 32 or 64.      *)
InstructionOK(i) ==
  /\ i.op \in GeneralOps /\ i.size \in Nat /\ i.rex \in BOOLEAN
  /\ i.sib <=> i.op \in SibOps
  /\ i.op \in {"push_ext", "push_rex", "pop_ext", "pop_rex"} => i.rex
  /\ i.op \in {"load", "store", "dec_mem", "call_mem"} => i.rex
  /\ i.op \in {"push", "push_ext", "pop", "pop_ext"} => i.reg \in 0 .. 7
  /\ i.op \in {"call", "call_mem", "jz", "jnz", "jl", "jle", "jmp", "add"} => i.imm \in Int
  /\ i.op \in {"mov", "add", "dec", "call_reg"} =>
       i.reg \in 0 .. 15 /\ i.width \in Nat \ {0} /\ AddrMod % i.width = 0
  /\ i.op = "mov" => i.imm \in Word(i.width)
  /\ i.op \in {"mov", "add"} /\ i.reg = Rsp => Aligned(i.imm) /\ i.width = AddrMod
  /\ i.op \in {"dec", "load"} => i.reg # Rsp
  /\ i.op \in {"load", "store"} => i.reg \in 0 .. 15
  /\ i.op \in {"load", "store", "dec_mem"} => i.imm \in Int /\ Aligned(i.imm)
  /\ i.op = "call_reg" /\ i.width = AddrMod => i.rex
  /\ i.op = "cmp" => i.reg \in 0 .. 15 /\ i.src \in 0 .. 15
  /\ i.op = "sub_al" => i.imm \in Word(ByteMod)
  /\ i.op \in {"logic_al", "test_al"} => i.fn \in [Word(ByteMod) -> Word(ByteMod)]

ASSUME ProgramAssumption ==
  \A p \in Programs : DOMAIN p = CodeAddr /\ \A a \in CodeAddr : InstructionOK(p[a])

VARIABLES
  registers,    \* function on Reg
  flags,        \* [ZF, SF, OF]: the flags that jumps read
  memory,       \* function on Slots
  code,         \* the program
  status,       \* "run": in Run; "syscall": Run has returned; "exited": the
                \*   loop of main has ended; "terminated": an exception left
                \*   main; "undefined": the behaviour of the build is
  num,          \* the result that main prints when it exits
  pushed        \* history: what was pushed at or above Rsp, and stored over
                \*   it, by address

machine == <<registers, flags, memory>>
vars == <<machine, code, status, num, pushed>>

WithSlots(entries) == [a \in Slots |-> IF a \in DOMAIN entries THEN entries[a] ELSE 0]

(* main pushes auxv, envp, argv and argc before the first Run *)
Arguments ==
  [a \in {StackTop - k * SlotBytes : k \in 1 .. 4} |->
     IF a = StackTop - 3 * SlotBytes THEN Argv
     ELSE IF a = StackTop - 4 * SlotBytes THEN 1 ELSE 0]

(* what main leaves for the first Run *)
Init ==
  /\ registers = [r \in Reg |-> IF r = Rip THEN Entry
                                ELSE IF r = Rsp THEN StackTop - 4 * SlotBytes ELSE 0]
  /\ memory = WithSlots(Arguments)
  /\ status = "run" /\ num = "none"
  /\ pushed = Arguments
  /\ flags = [ZF |-> FALSE, SF |-> FALSE, OF |-> FALSE]
  /\ code \in Programs
-----------------------------------------------------------------------------
(* Memory as the CPU sees it: checked_add, the bounds and the permissions  *)

InBounds(addr, len) ==
  ~CheckedAddRefused(AddrMod, addr, len) /\ WrapAdd(AddrMod, addr, len) <= MemSize
Loadable(addr) == InBounds(addr, SlotBytes) /\ Bytes(addr, SlotBytes) \subseteq Readable
Storable(addr) == InBounds(addr, SlotBytes) /\ Bytes(addr, SlotBytes) \subseteq Writable

(* SetReg<T>: the bits above the width stay as they are *)
SetReg(reg, val, width) == registers[reg] - (registers[reg] % width) + (val % width)

(* the history keeps what lies at or above the stack pointer *)
Kept(rsp) == {a \in DOMAIN pushed : a >= rsp}
Forget(rsp) == pushed' = [a \in Kept(rsp) |-> pushed[a]]

MutBelow(addr) == addr - SlotBytes
Below(addr) == (addr - SlotBytes) % AddrMod
Above(addr) == WrapAdd(AddrMod, addr, SlotBytes)

MutPushAtOldRsp(val) ==
  /\ memory' = IF Storable(registers[Rsp]) THEN [memory EXCEPT ![registers[Rsp]] = val] ELSE memory
  /\ pushed' = [a \in Kept(Below(registers[Rsp])) \cup {Below(registers[Rsp])} |->
                  IF a = Below(registers[Rsp]) THEN val ELSE pushed[a]]

(* Rsp goes down first; whether the store succeeded is not looked at *)
PushSlot(val) ==
  LET rsp == Below(registers[Rsp]) IN
    /\ memory' = IF Storable(rsp) THEN [memory EXCEPT ![rsp] = val] ELSE memory
    /\ pushed' = [a \in Kept(rsp) \cup {rsp} |-> IF a = rsp THEN val ELSE pushed[a]]
-----------------------------------------------------------------------------
(* Run: fetch, execute, and the increment of Rip at the end of the loop    *)

inst == code[registers[Rip]]

(* an opcode that is not copied stays 0, and 0 has no case *)
MutOpcode == IF CopyGuarded /\ ~inst.rex THEN "unknown" ELSE inst.op
Opcode == IF CopyGuarded /\ ~(inst.rex /\ inst.sib) THEN "unknown" ELSE inst.op
Fetched(op) == status = "run" /\ registers[Rip] \in CodeAddr /\ Opcode = op

(* SetReg<u64>(Rip, pc + inst.size()) after the handler changed regs *)
Advance(regs, pc) ==
  registers' = [regs EXCEPT ![Rip] = WrapAdd(AddrMod, pc, inst.size)]

Quiet == UNCHANGED <<flags, code, status, num>>

(* An uncaught bad_expected_access of .value(): nothing is kept *)
Terminate ==
  /\ status' = "terminated"
  /\ UNCHANGED <<machine, code, num, pushed>>

OutOfArray == status' = "undefined" /\ UNCHANGED <<machine, code, num, pushed>>

(* the value is read after Rsp went down, so `push rsp` stores the new Rsp *)
PushReg(reg) ==
  LET regs == [registers EXCEPT ![Rsp] = Below(@)] IN
    /\ PushSlot(regs[reg])
    /\ Advance(regs, regs[Rip])
    /\ Quiet

Push == Fetched("push") /\ PushReg(inst.reg)
PushExtended == Fetched("push_ext") /\ PushReg(inst.reg + 8)

(* a REX prefix without B: Rsp goes down and nothing is stored *)
PushRex ==
  /\ Fetched("push_rex")
  /\ Advance([registers EXCEPT ![Rsp] = Below(@)], registers[Rip])
  /\ Forget(Below(registers[Rsp]))
  /\ UNCHANGED memory /\ Quiet

(* 0x58 - 0x50 = 8: the destinations are R8 to R15, and Rsp stays *)
Pop ==
  /\ Fetched("pop")
  /\ IF ~Loadable(registers[Rsp]) THEN Terminate
     ELSE /\ Advance([registers EXCEPT ![inst.reg + 8] = memory[registers[Rsp]]], registers[Rip])
          /\ UNCHANGED <<memory, pushed>> /\ Quiet

(* With REX.B they are Rip, which the loop overwrites, and seven that the  *)
(* register array does not have.                                           *)
PopExtended ==
  /\ Fetched("pop_ext")
  /\ IF ~Loadable(registers[Rsp]) THEN Terminate
     ELSE IF inst.reg # 0 THEN OutOfArray
     ELSE /\ Advance(registers, registers[Rip])
          /\ UNCHANGED <<memory, pushed>> /\ Quiet

PopRex ==
  /\ Fetched("pop_rex")
  /\ Advance(registers, registers[Rip])
  /\ UNCHANGED <<memory, pushed>> /\ Quiet

(* every call pushes the address it is to return to and goes to pc + size *)
CallTo(return, pc) ==
  /\ PushSlot(return)
  /\ Advance([registers EXCEPT ![Rsp] = Below(@)], pc)
  /\ Quiet

NextInstruction == WrapAdd(AddrMod, registers[Rip], inst.size)

Call == Fetched("call") /\ CallTo(NextInstruction, (registers[Rip] + inst.imm) % AddrMod)

(* Call_FF_reg2 counts a REX prefix twice, and compares osize unmasked *)
ReturnAddress == IF inst.rex THEN WrapAdd(AddrMod, NextInstruction, 1) ELSE NextInstruction
MatchesOsize(width) == width # AddrMod \/ ~OsizeSigned

(* The operand is added to Rip.  It is read after Rsp went down.           *)
CallRegister ==
  /\ Fetched("call_reg")
  /\ LET val == IF inst.reg = Rsp THEN Below(registers[Rsp]) ELSE registers[inst.reg]
         operand == IF MatchesOsize(inst.width) THEN val % inst.width ELSE 0
     IN  CallTo(ReturnAddress, WrapAdd(AddrMod, registers[Rip], operand))

(* an operand at Rsp + imm *)
OperandAddr(rsp) == (rsp + inst.imm) % AddrMod

(* Behind a REX prefix the displacement is read one byte early, from the   *)
(* SIB byte, so the address is not that of a slot: the operand is put      *)
(* together from two slots, and is any word here.                          *)
CallMemory ==
  /\ Fetched("call_mem")
  /\ IF ~MatchesOsize(AddrMod) THEN CallTo(ReturnAddress, registers[Rip])
     ELSE IF ~Loadable(OperandAddr(Below(registers[Rsp]))) THEN Terminate
     ELSE \E operand \in Word(AddrMod) :
            CallTo(ReturnAddress, WrapAdd(AddrMod, registers[Rip], operand))

(* neither a base nor an index: the early return comes after the push *)
CallUnresolved == Fetched("call_unresolved") /\ CallTo(ReturnAddress, registers[Rip])

MutRetKeepsRsp == registers[Rsp]
RspAfterRet == Above(registers[Rsp])

(* the return address, and then Rip is incremented all the same *)
Ret ==
  /\ Fetched("ret")
  /\ IF ~Loadable(registers[Rsp]) THEN Terminate
     ELSE /\ Advance([registers EXCEPT ![Rsp] = RspAfterRet], memory[registers[Rsp]])
          /\ Forget(RspAfterRet)
          /\ UNCHANGED memory /\ Quiet

Taken(op) ==
  CASE op = "jz"  -> flags.ZF
    [] op = "jnz" -> ~flags.ZF
    [] op = "jl"  -> flags.SF # flags.OF
    [] op = "jle" -> flags.ZF \/ flags.SF # flags.OF
    [] OTHER -> TRUE

Jump(op) ==
  /\ Fetched(op)
  /\ Advance(registers, IF Taken(op) THEN (registers[Rip] + inst.imm) % AddrMod
                        ELSE registers[Rip])
  /\ UNCHANGED <<memory, pushed>> /\ Quiet

(* the operand size of E9 is 64 bits in 64-bit mode, which no case handles *)
JumpNear ==
  /\ Fetched("jmp_near")
  /\ Advance(registers, registers[Rip])
  /\ UNCHANGED <<memory, pushed>> /\ Quiet

(* instructions that write one register and leave the flags alone *)
Assign(reg, val) ==
  LET regs == [registers EXCEPT ![reg] = val] IN
    /\ Advance(regs, registers[Rip])
    /\ Forget(regs[Rsp])
    /\ UNCHANGED memory /\ Quiet

(* osize is compared unmasked *)
Mov ==
  /\ Fetched("mov")
  /\ Assign(inst.reg, IF MatchesOsize(inst.width) THEN SetReg(inst.reg, inst.imm, inst.width)
                      ELSE registers[inst.reg])

(* The templates that execute ADD, SUB, CMP, DEC and the others take the   *)
(* flags by value, so emu.flags is not written.                            *)
Add ==
  /\ Fetched("add")
  /\ Assign(inst.reg, SetReg(inst.reg, registers[inst.reg] + inst.imm, inst.width))

(* the operand has the width, the destination is written as a whole *)
Dec == Fetched("dec") /\ Assign(inst.reg, ((registers[inst.reg] % inst.width) - 1) % AddrMod)

Compare == Fetched("cmp") /\ Assign(inst.reg, registers[inst.reg])

(* MOV_8B: a load that fails is passed over *)
Load ==
  /\ Fetched("load")
  /\ LET addr == OperandAddr(registers[Rsp]) IN
       /\ Advance(IF Loadable(addr) THEN [registers EXCEPT ![inst.reg] = memory[addr]]
                  ELSE registers, registers[Rip])
  /\ UNCHANGED <<memory, pushed>> /\ Quiet

(* The old value is read even when it is not needed, with value(); whether *)
(* the store succeeded is not looked at.                                   *)
StoreTo(addr, val) ==
  IF ~Loadable(addr) THEN Terminate
  ELSE /\ memory' = IF Storable(addr) THEN [memory EXCEPT ![addr] = val] ELSE memory
       /\ pushed' = [a \in DOMAIN pushed |-> IF a = addr /\ Storable(a) THEN val ELSE pushed[a]]
       /\ Advance(registers, registers[Rip])
       /\ Quiet

(* MOV_89, and DEC of an operand in memory *)
Store == Fetched("store") /\ StoreTo(OperandAddr(registers[Rsp]), registers[inst.reg])
DecMemory ==
  /\ Fetched("dec_mem")
  /\ LET addr == OperandAddr(registers[Rsp]) IN StoreTo(addr, (memory[addr] - 1) % AddrMod)

(* the instructions of AL that Run executes itself do write the flags *)
Al == registers[Rax] % ByteMod
SetAl(val, fl) ==
  /\ Advance([registers EXCEPT ![Rax] = SetReg(Rax, val, ByteMod)], registers[Rip])
  /\ flags' = fl
  /\ UNCHANGED <<memory, code, status, num, pushed>>

MutZeroForgotten(minuend, subtrahend) ==
  [ZF |-> FALSE, SF |-> minuend < subtrahend, OF |-> FALSE]

(* SubAndSetFlags of two bytes: a borrow sets the sign bit of the 64-bit   *)
(* result, and the operands have none, so there is no overflow             *)
SubFlags(minuend, subtrahend) ==
  [ZF |-> minuend = subtrahend, SF |-> minuend < subtrahend, OF |-> FALSE]
SetLogicOpFlags(val) == [ZF |-> val = 0, SF |-> FALSE, OF |-> FALSE]

SubAl == Fetched("sub_al") /\ SetAl((Al - inst.imm) % ByteMod, SubFlags(Al, inst.imm))

(* OR, AND and XOR apply the operation again, to the new AL, for the flags *)
LogicAl == Fetched("logic_al") /\ SetAl(inst.fn[Al], SetLogicOpFlags(inst.fn[inst.fn[Al]]))
TestAl == Fetched("test_al") /\ SetAl(Al, SetLogicOpFlags(inst.fn[Al]))

(* an opcode without a case is skipped *)
Unknown ==
  /\ Fetched("unknown")
  /\ Advance(registers, registers[Rip])
  /\ UNCHANGED <<memory, pushed>> /\ Quiet

(* Bytes that may not be executed are fetched as zeros and skipped, with   *)
(* the length their contents decode to.                                    *)
SkipNotExecutable ==
  /\ status = "run" /\ registers[Rip] \notin CodeAddr /\ registers[Rip] < MemSize
  /\ \E size \in SkipSizes :
       registers' = [registers EXCEPT ![Rip] = WrapAdd(AddrMod, @, size)]
  /\ UNCHANGED <<memory, pushed>> /\ Quiet

(* the decoder reads past the vector *)
DecodeOutsideMemory ==
  /\ status = "run" /\ registers[Rip] \notin CodeAddr /\ registers[Rip] >= MemSize
  /\ OutOfArray

Syscall ==
  /\ Fetched("syscall")
  /\ status' = "syscall"
  /\ UNCHANGED <<machine, code, num, pushed>>
-----------------------------------------------------------------------------
(* the loop of main around handle_syscall *)

(* Advance PC by the size of a syscall, and Run again *)
Resume(regs) ==
  /\ registers' = [regs EXCEPT ![Rip] = WrapAdd(AddrMod, @, 2)]
  /\ status' = "run"
  /\ UNCHANGED num

Exit(result) == status' = "exited" /\ num' = result

MutTerminatesOn == 7
NtTerminateProcessNumber == 44

(* Rax = !0, which is 1 *)
NtDeviceIoControlFile ==
  /\ status = "syscall" /\ registers[Rax] = 7
  /\ Resume([registers EXCEPT ![Rax] = 1])
  /\ UNCHANGED <<flags, memory, code, pushed>>

NtTerminateProcess ==
  /\ status = "syscall" /\ registers[Rax] = NtTerminateProcessNumber
  /\ Exit("Exit")
  /\ UNCHANGED <<machine, code, pushed>>

OtherSyscall ==
  /\ status = "syscall" /\ registers[Rax] \notin {7, 8, NtTerminateProcessNumber}
  /\ Resume(registers)
  /\ UNCHANGED <<flags, memory, code, pushed>>

(* the k-th value that _pop takes, counted from 0 *)
ArgAddr(k) == (registers[Rsp] + k * SlotBytes) % AddrMod
Arg(k) == memory[ArgAddr(k)]

(* peek_perms with PERM_READ *)
PeekResult(addr, len) ==
  IF CheckedAddRefused(AddrMod, addr, len) THEN "AddressIntegerOverflow"
  ELSE IF WrapAdd(AddrMod, addr, len) > MemSize THEN "AddressMissed"
  ELSE IF ~(Bytes(addr, len) \subseteq Readable) THEN "ReadFault"
  ELSE "ok"

(* buf_ptr, len, byte_offset and key are popped; nothing is written out *)
NtWriteFile ==
  /\ status = "syscall" /\ registers[Rax] = 8
  /\ IF \E k \in 0 .. 3 : ~Loadable(ArgAddr(k)) THEN Terminate
     ELSE IF ~CheckedAddRefused(AddrMod, Arg(0), Arg(2)) /\ MissedOverflow(AddrMod, Arg(0), Arg(1))
     THEN OutOfArray
     ELSE LET regs == [registers EXCEPT ![Rsp] = ArgAddr(4)] IN
          /\ IF CheckedAddRefused(AddrMod, Arg(0), Arg(2))
             THEN Exit("SyscallIntegerOverflow") /\ registers' = regs
             ELSE IF PeekResult(Arg(0), Arg(1)) # "ok"
             THEN Exit(PeekResult(Arg(0), Arg(1))) /\ registers' = regs
             ELSE Resume(regs)
          /\ Forget(ArgAddr(4))
          /\ UNCHANGED <<flags, memory, code>>

HandleSyscall == NtDeviceIoControlFile \/ NtTerminateProcess \/ OtherSyscall \/ NtWriteFile

RunStep ==
  \/ Push \/ PushExtended \/ PushRex \/ Pop \/ PopExtended \/ PopRex
  \/ Call \/ CallRegister \/ CallMemory \/ CallUnresolved \/ Ret
  \/ \E op \in {"jz", "jnz", "jl", "jle", "jmp"} : Jump(op)
  \/ JumpNear \/ Mov \/ Add \/ Dec \/ Compare \/ Load \/ Store \/ DecMemory
  \/ SubAl \/ LogicAl \/ TestAl \/ Unknown \/ SkipNotExecutable \/ DecodeOutsideMemory \/ Syscall

Next == RunStep \/ HandleSyscall

(* The host runs the guest and the handler without waiting for anything.   *)
Spec == Init /\ [][Next]_vars
FairSpec == Spec /\ WF_vars(RunStep) /\ WF_vars(HandleSyscall)
-----------------------------------------------------------------------------
Numbers == {"none", "Exit", "SyscallIntegerOverflow", "AddressIntegerOverflow",
            "AddressMissed", "ReadFault"}

(* Registers and slots hold words, and the stack pointer stays aligned     *)
(* through every instruction and system call that moves it.                *)
TypeOK ==
  /\ registers \in [Reg -> Word(AddrMod)] /\ Aligned(registers[Rsp])
  /\ flags \in [ZF : BOOLEAN, SF : BOOLEAN, OF : BOOLEAN]
  /\ memory \in [Slots -> Word(AddrMod)]
  /\ DOMAIN code = CodeAddr
  /\ status \in {"run", "syscall", "exited", "terminated", "undefined"}
  /\ num \in Numbers
  /\ DOMAIN pushed \subseteq Word(AddrMod)
  /\ \A a \in DOMAIN pushed : Aligned(a) /\ pushed[a] \in Word(AddrMod)

(* Whatever main, PUSH and CALL have pushed and nothing has removed since, *)
(* or what an instruction stored over it, is still in its slot, if that    *)
(* could be stored to: no later push, call, change of Rsp or system call   *)
(* damages a live stack entry                                              *)
(* (InstructionHandler.cpp:340-342, 365-367, 377-378, 507-510).            *)
StackHoldsPushed ==
  \A a \in DOMAIN pushed : a >= registers[Rsp] /\ (Storable(a) => memory[a] = pushed[a])

(* RET goes by the value that the matching push or call stored, however    *)
(* many were nested in between; it lands one instruction length past it    *)
(* (InstructionHandler.cpp:505-511, Emulator.cpp:437).                     *)
RetFollowsPush ==
  [][Ret /\ status' = "run" /\ registers[Rsp] \in DOMAIN pushed /\ Storable(registers[Rsp])
       => registers'[Rip] = WrapAdd(AddrMod, pushed[registers[Rsp]], inst.size)
          /\ registers[Rsp] \notin DOMAIN pushed']_vars

(* main only ever exits at a system call the guest made: with Exit when    *)
(* the guest asked to terminate, with an error when NtWriteFile failed     *)
(* (Buzz-Emu.cpp:73-95, Syscalls.cpp:8-43).                                *)
ExitIsRequested ==
  status = "exited" =>
    /\ registers[Rip] \in CodeAddr /\ inst.op = "syscall"
    /\ registers[Rax] = (IF num = "Exit" THEN 44 ELSE 8)
    /\ num # "none"

(* A guest that calls NtTerminateProcess ends main with VmExit::Exit       *)
(* (Syscalls.cpp:39-40, Buzz-Emu.cpp:81-83).                               *)
TerminateEndsMain ==
  (status = "syscall" /\ registers[Rax] = 44) ~> (status = "exited" /\ num = "Exit")

(* As Run is compiled it never reaches a system call, in any program whose *)
(* opcodes are copied from inside their bytes, and so main never exits: no *)
(* SYSCALL has a SIB byte (Emulator.cpp:110-122, 422-423).                 *)
HostNeverRuns == CopyGuarded => status \notin {"syscall", "exited"}

(* A guest that counts down to a zero or negative flag, and then asks to   *)
(* terminate, stops: main exits, or its process does                       *)
(* (Emulator.cpp:179-181, 268-285).                                        *)
CountdownsHalt == code \in Countdowns => <>(status \notin {"run", "syscall"})

(* DEC sets the zero flag when the result is zero, and clears it otherwise *)
(* (Flags.cpp:228, "Set the Zero Flag (ZF)").                              *)
DecSetsZeroFlag ==
  [][DecMemory /\ status' = "run"
       => (flags'.ZF <=> memory[OperandAddr(registers[Rsp])] = 1)]_vars
=============================================================================
