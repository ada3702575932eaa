# Verification of BuzzEmu

BuzzEmu is an x86-64 emulator in C++ for Windows executables. It maps a PE file
into a flat guest memory, decodes and executes its instructions one by one, and
handles a few system calls. Its memory can be forked, and reset to the fork by
copying back only the blocks that were written to, which is what a fuzzer needs.
The repository has no tests and no documents; its comments are the only
statements of intent, and the modules are translated from the code.

Line numbers below are of files under `src/Buzz-Emu/`.

## Inventory

| Component | Files | State | Operations | What makes it correct |
|---|---|---|---|---|
| Guest memory | `memory/Mmu.*`, `Permission.hpp`, `Block.hpp` | bytes, permissions, dirty list and bitmap, `cur_alloc` | `WriteFrom`, `ReadIntoPerm`, `peek_perms`, `SetPermission`, `mem_alloc`, copy, `Reset` | a store is whole or not at all; uninitialised bytes stay unreadable; nothing is allocated twice; `Reset` brings the fork back |
| Address arithmetic | `core/Fs.*` | none | `checked_add`, readers of operands, `get_range` | overflow is refused and only overflow |
| Run loop | `emulator/Emulator.cpp`, `emulation/x86/InstructionHandler.*` | registers, flags, memory | fetch, one handler for each opcode, advance of `Rip` | the stack keeps what was pushed; returns match calls; loops end |
| System calls and main | `Buzz-Emu.cpp`, `emulator/Syscalls.cpp`, `VmExit.hpp` | the exit result | `handle_syscall`, the loop around `Run` | main exits when the guest asks and only then |
| Register file | `Emulator.hpp`, `Register.hpp` | 17 words | `SetReg<T>`, `Reset` (called by nothing) | narrow writes keep the upper bits |
| ALU flags | `emulation/x86/Flags.*` | the flags register | one function for each operation | the flags of the architecture |
| Decoder | `emulation/x86/Decoder.*`, `DecodeContext.hpp` | decode context | prefixes, operand sizes, opcode tables, lengths | length and fields for every byte sequence; nothing left from the instruction before |
| Operand encoding | `ModRM.cpp`, `Sib.cpp`, `OperandEncoding.hpp` | none | addressing forms, templates for operands | the address of the architecture, one access for each operand |
| PE mapper and linker | `pe/*` | image, export table | sections, exports, imports, patching | imports get the addresses of mapped exports |
| Test loop, strings, macros | `Emulator::TestRun`, `include/buzzemu/*` | none of their own | | |

Interaction is by calls in one thread: `main` calls `Run`, which calls the
decoder, a handler and the memory, and comes back for a `SYSCALL`, which `main`
hands to `handle_syscall`. There are no threads, callbacks, messages or
persistent files. What is hard to test is therefore order and history: long
sequences of writes, forks and resets, nested pushes and calls, faults half-way
through an operation, stale bookkeeping after a reset, words that wrap around,
and loops that should end. `PROJECT.json` lists each such hazard at its line.

## Modules

| Module | Models |
|---|---|
| `Words` | unsigned words, `checked_add`, the rounding of `mem_alloc` |
| `Flags` | every function of `Flags.cpp`, all six flags |
| `Mmu` | the guest memory as the code has it |
| `ForkableMemory` | what the guest memory promises, without list and bitmap |
| `MmuTracked` | the refinement mapping from `Mmu` to `ForkableMemory` |
| `Machine` | the run loop, the handlers that move the stack or `Rip`, the system calls, the loop of `main` |
| `OpcodeTable` | the decoder's compressed opcode table and how it is unpacked |
| `Decoder` | `DecodeInstructionLength` and all it calls, with the context that outlives a call |
| `Operands` | one instruction with operands: handlers, templates, addressing forms |
| `OperandRules` | the architecture's effect of an instruction, the code's deviations, the properties of `Operands` |
| `Mapper` | the loader: sections, allocator, exports, imports, linking |
| `WordsProofs`, `ArithmeticProofs`, `MmuProofs`, `MmuTrackedProofs`, `MachineProofs`, `DecoderProofs`, `MapperProofs`, `OperandsProofs` | theorems and their proofs |
| `MCArithmetic`, `MCMmu`, `MCMmuTracked`, `MCMachine`, `MCDecoder`, `MCOperands`, `MCMapper` | instances for TLC |

`Flags` and `Mapper` extend `Words`; `Operands` extends `Flags`; `Decoder` extends
`OpcodeTable`; `MmuTracked` extends `Mmu` and instantiates `ForkableMemory`.

### Mmu

One action for each outcome of each operation: `WriteFrom` and `WriteFromFails`,
`SetPermission` and `SetPermissionThrows`, `mem_alloc` and `mem_allocFails`,
`ReadIntoPerm`, the copy constructor (`ForkRunCopy`: the copy runs on, with an
empty list; `ForkRunOriginal`: the original does, as in `main`), and `Reset`.
Names of variables are those of the code. `other` is the memory that `Reset`
is given; `written`, `granted`, `slipped` and `owned` are history. The buffers and ranges
the operations are called with are constants. `InputAssumption` says what
callers in the repository respect; in particular no caller stores an odd number
of bytes so close to the top of the address space that `checked_add` misses the
overflow.

Two details of `WriteFrom` are kept exactly. The loop over dirty blocks computes
index and bit from `block_start` in every iteration, so it lists the first block
only. The mask is `1 << bit` with an `int`: its shift count is reduced modulo 32
and bit 31 extends to bits 31 to 63 (`ShiftMask`). Both break `Reset`: `mmu_alias`
shows the second. `slipped` collects the bytes that a write reached without
marking their block, by either of the two (`Missed`), until a reset brings them
back with another byte of their block or a fork begins anew. No assumption rules
them out: main has 8192 blocks in bitmap words whose masks come from an `int` of
32 bits, and sections that span blocks. What is claimed instead, for every
geometry and every set of calls, is that these bytes are all that goes wrong: every
other byte that differs from the snapshot lies in a listed block
(`EveryChangeTracked`, `PermissionChangesTracked`), `Reset` brings every other byte
back (`ResetBringsBack`), and `Mmu` implements `ForkableMemory`, whose `Reset` may
leave behind the bytes that a store left `loose`. A third slip, a bit lost or a
block dropped, would break all four.

### Machine

A program gives for every code address the instruction decoded there: its op,
its size, whether it has a REX prefix and a SIB byte, its operands. Guest memory
is a function on the aligned slots of the stack. Widths are moduli. Every
handler is one action: its accesses, register writes and the advance of `Rip` by
the size of the instruction at the end of the loop. `pushed` is history: what was
pushed or stored at or above `Rsp` and not removed.

Two facts about the build are constants, so that both readings are covered by
the same definitions and the same theorems.

`CopyGuarded`. In `Run` the statements of `if (pfx_p_rex)` and `if (p_sib)` are
commented out (`Emulator.cpp:110-122`), so the two ifs nest around the call that
copies the opcode: an instruction without both a REX prefix and a SIB byte is
executed as opcode 0, that is, skipped. `TestRun` copies always, and a comment
(444) wants its form back in `Run`. With `CopyGuarded = TRUE` the module is `Run`
as it is compiled; with `FALSE` it is `Run` with the unguarded copy, in which all
the handlers are reached. What the properties say of handlers
without a SIB byte is therefore of the second form; the finding about flags
(`machine_flags`) is of the first, on an instruction that has one.

`OsizeSigned`. `osize` is a two-bit field of an enum without a fixed type, which
MSVC gives a sign. `osize == X86_Osize_64bit` is then false where the code does
not mask it (`Mov_B8_BF`, `Call_FF_reg2`).

Abstracted: the decoding itself, addressing forms other than registers and
`[Rsp + displacement]`, and unaligned stack slots. The stack stays aligned since
only multiples of eight are loaded into `Rsp` or added to it (`InstructionOK`).
The operand of `CALL [Rsp + d]` is read at an address that is not a slot's,
since the displacement is taken from the SIB byte; it is any word. An exception
that leaves `main`, and an access outside an array, end the behaviour
(`terminated`, `undefined`). `Emulator::Reset` is called by nothing and left out:
its first half is the `Reset` of `Mmu`, its second assigns the registers and not
the flags, although `Emulator.hpp:39-41` says "Reset all state".

### Flags and Words

Operators without state; `MCArithmetic` walks two words through all their values
and compares. The functions of `Flags.cpp` cast what they get to 64-bit words, and
so does the model: `SubAndSetFlags` of two zero-extended bytes knows no sign of a
byte. `FlagsOfWholeWords` says that the conditions of the jumps are right for
64-bit operands, `NarrowIsUnsigned` that narrower ones are compared as unsigned.
The accumulator forms call a flag function after they have written AL
(`LogicAl`): a second OR or AND changes nothing, a second XOR brings the old AL
back, and the flags are those of that value (`LogicAlFlags`). For bitwise operations
(`Apply`) a word is the set of its bits, and back it is the sum of their
places; the sum is a function on the number of bits, not a fold, so that
it can be reasoned about (`WordMod = Power[Width]`).

### Decoder

One action for each turn of the prefix loop, and one for each function behind it:
`at` names the function to run next, `ctx` is `x86_dctx`. Bytes are bytes; the
opcode table is the code's string, unpacked as the code does it. Positions are
fields of four bits (`PosMod`). The context is a local of `Run` that nothing
initialises, and `DecodeClear` clears a part of it; a behaviour starts from any
context in `Contexts`, one of them with every field in use, so that one
decode stands for one after any other.

Four facts show in the properties. The REX prefix is dropped when another
prefix follows it, but not when that one is an ignored segment override,
although the comment at `Decoder.cpp:320-329` says that any placement but right
before the opcode is ignored: `decoder_rex` shows it, `RexInForce` says that no
other placement counts, and `LengthExact` excludes just these. The position of the opcode
of 0F 78 goes two bytes too far back and wraps (`OpcodeInside`). An opcode of a map
whose escape bytes `Run` does not copy is executed as the one-byte opcode of that
number; a VEX payload that reads 0F makes an AVX opcode a legacy one of map 0F,
and one that reads 0, a one-byte opcode (`VexPayloadIs0`, `DispatchSound`). The first kind can reach a handler that reads the ModRM byte
of an earlier instruction (`HandlerHasModRM`).

### Operands and OperandRules

`Operands` executes one decoded instruction. `Plain`, `Groups` and `Upper` are the
switch of `Run`; `Execute` takes the outcome `Effects` of the template its handler
has. `Init` requires that the switch has a case for the opcode, and leaves out
what would index outside an array (below). `HandlerOf` says which template a
handler is and with which types (`OperandTypes`); `InstrRM`, `InstrMR`, `InstrMI`, `InstrM`, `InstrI`,
`InstrMR8`, `InstrOI`, `InstrAL` and `InstrA` are the templates. Casts, scratch types and the
width of each access are those of the code. What `Sib.cpp` leaves unset, and
what `read_from_vec` finds past the end of the code, is chosen from `Residues`, and
so is the `rm.reg` that `reset_modrm` does not set and MOVZX looks up in tables of
eight before it is set (`LookupFails`, `ModRM.cpp:68, 163-170`): an index within
them is overwritten later and does no harm, any other (`Wild`) is taken to end the
emulator. A displacement that the code does not reach has no value, and `value()`
ends the emulator as well (`Reached`, `Fs.hpp:59-61`).
`Builds` has both readings of `osize`.

`OperandRules` has what the architecture does with the same bytes, written
independently, and each place where the code does something else:

| Deviation | Line | |
|---|---|---|
| `SibSlips` | `Sib.cpp:21,36,49` | base 0, base 101 with a displacement, index 100 with REX.X |
| `NegativeDisplacement` | `Fs.hpp:66` | added as a large unsigned number |
| `NotRelative` | `OperandEncoding.hpp:364,771,1121` | RIP-relative operands read as absolute |
| `PrefixShifts` | `OperandEncoding.hpp:359`, `Emulator.cpp:146,184` | immediates read from a fixed place, whatever the prefixes |
| `TwoByteShifts` | `OperandEncoding.hpp:230` | the same for a two-byte opcode |
| `BaseIsCast` | `OperandEncoding.hpp:170,298` | the base register cut to the width of the operand |
| `AddressKeepsCarry` | `OperandEncoding.hpp:176,298` | an address of 32 bits, as the prefix 67 asks for, is not cut to 32 |
| `ByteRegisters` | `OperandEncoding.hpp:49-60`, `InstructionHandler.cpp:289,321` | high bytes, registers above 7 and byte addresses |
| `ImmediateUnsigned` | `OperandEncoding.hpp:290,411` | not sign-extended |
| `ImmediateMisplaced` | `OperandEncoding.hpp:276,375` | behind a SIB byte with base 101 |
| `OsizeSigned` | `DecodeContext.hpp:14` | a signed bit field never equals 64 bits |
| `OtherLength` | `InstructionHandler.cpp:225-235` | the bytes are not those of one instruction: code ends inside it or goes on behind it |
| `DisplacementMissing` | `Fs.hpp:59` | the code ends before its displacement does, a case of `OtherLength` that two other properties name |
| `LookupFaults` | `ModRM.cpp:68,163` | MOVZX looks up a register that is not set (of `AgreesWithArchitecture` only: it depends on what the stack held) |
| `Or09` | `InstructionHandler.cpp:54` | OR to a register or memory ORs into RAX |
| `UpperHalfKept` | `Emulator.hpp:58` | 32-bit results keep the upper half |
| `CarryIsKept` | `OperandEncoding.hpp:690,1025` | 32-bit results spill their carry |
| `EightBytesStored` | `OperandEncoding.hpp:314` | every store to memory writes eight bytes |

`AgreesWithArchitecture` holds outside of these, and each but `DisplacementMissing` is needed: without any one
of them TLC finds a counterexample. The other properties bound the
damage inside them: which register or bytes may change
(`OnlyDestinationChanges`), what a wide store leaves behind (`NarrowStoreSpills`),
what ends the emulator and what it leaves (`FailedLoadChangesNothing`: a failed
read, a displacement that is missing, MOVZX's lookup; it excludes only operands
that are read from elsewhere, `Misread`), what a signed `osize` leaves undone
(`SignedOsizeSkipsMov`), where the uninitialised fields of a Sib and of a ModRM
matter (`GarbageOnlyWithoutIndexAndBase`: the first when there is neither an index
nor a base, the second to whether MOVZX's lookup fails).

Left out: flags of the templates, which are lost because they are passed by value
(`machine_flags`); permissions, which `Mmu` has; TEST 84 with REX.R, REX.B or a
RIP-relative address, which indexes outside an array; TEST A8 and A9, which change
flags only. An index outside the register array is taken to make an
address that faults. LEA (8D) is a case of `TestRun` only, and `Run`
steps over it; its handler is modelled with the others.

### Mapper

`map_into_mem` from the headers to the last section: `ReadImports`; for each DLL
`SkipDll` or `StartDll`, a `MapDllSection` for each section, `EndDll`; `LinkRuntime`;
`MapExeSection`, `EndExe`. It may also give up (`InvalidExe`, `NoSystemDirectory`), throw
(`SectionThrows`) or terminate on `value()` of an error (`ImportByOrdinal`). A file is the image its headers describe. A byte of it is the pair of
file and offset, so that a property can say which byte of which file ended up where. The
part of a section beyond `SizeOfRawData` is not reserved, as in the code, where
`mem_size` is `SizeOfRawData`.

An image lists its exported addresses and, in the order of the name table, the
names of functions. A function is exported under the first name it has, since the
search ends there (`FuncName`, `ExportHandler.cpp:45-57`), or as `{ORD}`; its other
names resolve to nothing.

The keys of the export map are `string_view`s of strings in a vector that grows:
when it moves, short strings move with it and the views dangle. A lookup of
such a key may then find anything or nothing (`dangling`). When a vector moves is the
standard library's choice (`Capacity`, external).

The linker patches the copy of the program's file, not the memory, and finds a
slot there through the first section that has its address. `SlotsAssumption`
says what an image must be for that to mean anything: every slot lies in a
section, is found inside the file, and apart from the other slots. A byte of
the file that is part of a slot is excepted from `SectionsHoldTheirData`
(`InSlot`), wherever in memory it goes; a slot whose section is read from
elsewhere in the file is excepted from `SlotsHoldLastExport` (`Elsewhere`).

## Runs

| Run | Question | Bounds |
|---|---|---|
| `arithmetic` | are `checked_add`, the rounding and the flags exact? | every pair of 8-bit words of two 4-bit bytes with 2-bit nibbles; granule 4 |
| `mmu` | do list and bitmap, allocator, PERM_RAW and faults stay right? | 4 blocks of 2 bytes, bitmap words of 3 bits, an int of 2: one pair of blocks shares a bit, one block has the sign bit, one starts a second word; writes within, across, beyond and at the top of memory; allocations of less and of more than a granule |
| `mmu_tracked` | does `Mmu` implement `ForkableMemory`, and are the two slips the only ones? | 3 blocks of 2 bytes, the third sharing the bit of the first; a write from the second into the third; grants across blocks |
| `machine` | do stack entries, returns and exits hold, and do counting loops end? | all pairs of 44 instructions and all triples of those that move the stack, each followed by a request to terminate; one slot to push to, so that pushes also fault; 7-bit addresses, 3-bit AL; loops of SUB from all starts, steps 1 to 3, tests JNZ and JL (`Countdowns`) |
| `machine_built` | is the host ever reached in `Run` as compiled? | all triples of instructions with a SIB byte, with system calls in between |
| `decoder` | prefixes, lengths, positions, dispatch | full-size: limit 15, positions of 4 bits; strings of up to 2 of 9 prefixes, all triples of 66, 2E and REX.W, and strings of 9 to 15 prefixes with and without REX; opcodes of every map and every form of address; two contexts left behind |
| `operands` | does each instruction do what the architecture says? | bytes of 2 bits, so words of 16 that still have eight bytes; 48 bytes of memory; every handler, addressing form and operand size, 6 sets of REX bits, code cut off inside a displacement, two register files, two memories, all residues, both builds |
| `mapper` | where do sections lie, what do they hold, what do imports get? | 10 programs, each with every choice of 6 DLL images or none for two names; functions with no name, with two, and two of one name; 40 bytes of memory |

Four runs expect a violation, because a comment says otherwise:

- `mmu_alias` (`Mmu.cpp:56`): two blocks share a bit of the bitmap, and `Reset` misses
  the second.
- `machine_flags` (`OperandEncoding.hpp:674`): DEC sets the flags of a copy. The run
  is of `Run` as compiled, on the DEC of a memory operand with a SIB byte, which
  is among the instructions that are executed.
- `decoder_rex` (`Decoder.cpp:271`): a REX prefix with an ignored segment override
  behind it is in force, where the comment says it is ignored.
- `mapper_rebase` (`Mapper.cpp:109`): the base of a DLL is added to a copy of the export
  table, and imports keep addresses relative to the file.

Other departures from what one would expect are part of the models. The passing
properties say what the code does there, and so document the defect and hold it to
its place; they do not catch it:

- `WriteFrom` lists only the first block of a write that crosses a border (`slipped`),
  and `Reset` leaves `cur_alloc` where it is.
- `Run` as compiled executes no system call (`HostNeverRuns`).
- `RET` lands one instruction length behind the address that was pushed, since the
  loop of `Run` adds the size of RET to it (`RetFollowsPush`).
- Narrow operands are compared as unsigned (`NarrowIsUnsigned`); the flags of OR,
  AND and XOR of AL are those of a second application (`LogicAlFlags`).
- The copy of the opcode of 0F 78 wraps (`OpcodeInside`), and opcodes of maps whose
  escape is not copied are executed as others (`DispatchSound`).
- A narrow store to memory clears or sets the bytes behind it (`NarrowStoreSpills`).
- `checked_add` accepts odd + odd = 2^w (`CheckedAddExact`).
- `POP` does not move `Rsp` and writes a register eight places off (`Pop`); `JMP rel32`
  goes nowhere (`JumpNear`); a push or a store that faults is dropped and the guest
  runs on (`PushReg`, `StoreTo`), which `StackHoldsPushed` exempts (`Storable`).
- A section whose address is where an earlier one ends is read from the end of
  that one (`Misplaced`); the program is mapped over DLLs that are in its way
  (`SectionsHoldTheirData`, `PermissionsOfSections`).

The bounds are small and enough for what the properties tell apart. The dirty
list needs two blocks that share a bit, two that do not, and two bitmap words.
The stack needs one free slot below the arguments of `main`, one that faults
below that, and code memory that is readable and not writable. Operands need
eight bytes to a word, so that every width and spill is a different one, and
registers on both sides of each cast. The mapper needs two DLLs, one too large
for the memory, one missing, one invalid, and a program that reaches above the
first of them. Deadlock is not checked where the system may stop: the process
may end, and the decoder, an instruction and a load come to their end.

## Fairness

`FairSpec` has weak fairness of `RunStep` and of `HandleSyscall`. One thread runs
the loops of `Run` and `main` and waits for nothing, so an enabled step is
taken. `CountdownsHalt` and `TerminateEndsMain` are checked under it, in the run
`machine`; the other runs use `Spec`.

## Proofs

TLAPS proves, for every value of the constants that satisfies the named
assumptions:

- `WordsProofs`: `checked_add` refuses exactly the sums that do not fit, but for
  odd + odd = 2^w, and its value is exact otherwise. This is cited in the proofs
  about both memories. It also has what the others need of recursive functions
  on the naturals: no installed prover can use the library's induction, whose
  hypothesis is an operator, so `Least` (a set of naturals that is not empty has a
  least element) is proved from finite sets, and `Induction` and `Recursion` are
  stated for sets and functions. With these the powers of two and the sum of a
  set of bits are what they should be (`PowerRecursive`, `SumsRecursive`), a word
  is the sum of its bits, and the low bits of a word are its remainder.
- `ArithmeticProofs`: all that the run `arithmetic` checks, for every width of word,
  byte and nibble and every granule that divides the address space. The
  invariant is that `x` and `y` are words. The rest are lemmas about words:
  `WordsAlignUp`, `WordsFlags`, `WordsNarrow`, `WordsDec`; for `LogicAlFlags` that a word
  and its set of bits determine each other, so that the second AND or OR is
  the first again and the second XOR undoes it.
- `MmuProofs`: type correctness; then, on top of it, `DirtyInv` (the bitmap is the
  union of the masks of listed blocks, and no block is listed twice: a block
  is appended only when its mask and the bitmap are disjoint, so it cannot be
  in the list, whose masks the bitmap contains); `RawInv` (PERM_RAW bytes are
  readable if and only if stored to, here and in the snapshot); the allocator;
  and the action property that only writable bytes change.
- `MmuTrackedProofs`: a block that is not appended is listed already or has a bit in
  common with one that is (`BitTaken`), since the bitmap is the union of the masks
  of the listed ones; so a write either lists the block of a byte or adds the byte
  to `slipped`. `TrackedInv` says that every difference from the snapshot lies in a
  listed block or in `slipped`. `Reset` then brings back all the rest, and every step
  of `Mmu` is a step of `ForkableMemory` or a stutter. Nothing is assumed of blocks,
  writes or the width of an `int` beyond what `Mmu` assumes.
- `MachineProofs`: the inductive invariant `Inv` is `TypeOK`, `StackHoldsPushed`,
  `Pending` (main handles a system call only at a `SYSCALL`), `ExitIsRequested` and
  `HostNeverRuns`. `StackHoldsPushed` needs the types: addresses of stack
  entries are aligned words, so two of them are equal or a slot apart, and a store
  to one leaves the others. That `Rsp` stays aligned when it wraps around uses
  that slots divide the address space. `RetFollowsPush` follows from the
  invariant and the definition of `Ret`.
- `DecoderProofs`: all that the run `decoder` checks, for every string of bytes and
  every context left behind. `RexInForce`: the loop keeps no list of the prefixes it
  has read, only the last one it noted; `PrefixInv` says that this one is a REX prefix
  exactly when one stands before ignored segment overrides only, and that the
  context then has its position and value. `PositionInv` follows `ctx.pos` from
  function to function (`End` is where what was read so far ends) and gives
  `PositionsExact`, `OpcodeInside` and `DispatchSound`; `ModRMInv` says that an opcode whose
  handler needs a ModRM byte has asked for it or read it, which gives
  `HandlerHasModRM`. `LengthInv` gives `LengthExact`: how much of the length is settled
  after each function, from the prefixes (`SeenInv`, and `RexInForce` for the one bit W)
  to sizes, immediates and address. What the proof takes from the opcode table
  is `TableAssumption`: the flags the unpacked string gives to the opcodes of the
  one-byte map. TLC evaluates it on the string itself.
- `MapperProofs`: all that the run `mapper` checks, in three invariants. `Inv` is `TypeOK`,
  `DllsDisjoint`, `BasesOK` (every section ends below `cur_alloc`, and `dll_base` is not
  above it) and `ImagesOK` (while a DLL is mapped, those before it end below
  `dll_base`). `DllsDisjoint` alone is not inductive: the next section lies at or above
  `dll_base`, and only `ImagesOK` says that the earlier ones do not reach it. `BytesInv`
  says what memory holds and permits while files are mapped: a section is held
  or remains to be mapped, later ones lie above it, and a byte has the permission of
  the one section that owns it; at the end nothing remains, which is
  `SectionsHoldTheirData` and `PermissionsOfSections`. `LinkInv` follows an import: the DLLs
  begun are the first in the order of import, the last entry of a name in the
  table is of the last of them that exports it, a slot in the file is patched
  with that entry, and the section that has the slot is copied after.
- `OperandsProofs`: all that the run `operands` checks. The
  invariant is that a state before execution is one of those it starts in.
  For `OnlyDestinationChanges` and `FailedLoadChangesNothing` every template's outcome
  is shown to be one of three shapes: nothing, one register, a run of memory.
  `AgreesWithArchitecture` is proved for every byte size, register file, memory and
  instruction, in three layers: numbers (a word is its eight bytes; a cast is a
  remainder modulo a power of `ByteMod`, extended by its sign; a sum of remainders is
  the remainder of the sum), places (outside of the deviations each template
  looks for its operand, its immediate and its registers where the
  architecture has them, `WhereOperandIs`), and one lemma for each form of handler
  (`CorrectRM`, `CorrectMR`, `CorrectI`, `CorrectMI`, `CorrectOI`, `CorrectA`, `CorrectAL`, `CorrectMR8`).
  The proof found two deviations that the instances of TLC had not: prefix 67
  on operands that are not LEA's, and `OtherLength`. `NarrowStoreSpills` splits by what
  is stored: a value that fits the operand, one that carries by one, or one
  that lies below zero, whose bytes behind are zeroes, a one, or all ones
  (`DigitsOfFitting`, `DigitsOfCarry`, `DigitsOfBorrow`). A bitwise result never carries,
  because every power of `ByteMod` is a power of two (`FactorsOfPower`).

The assumptions are `GeometryAssumption`, `InputAssumption`, `MachineAssumption`,
`ProgramAssumption`, `FlagsAssumption`, `GranuleAssumption`,
`ContextAssumption`, `InputsAssumption` and `LimitAssumption` (a context, bytes, and
fields that hold at least four positions), `TableAssumption`, `SizeAssumption`,
`ImageAssumption` (sections in ascending order), `SlotsAssumption` and
`OperandsAssumption` (a word is eight bytes; an instruction has the byte behind its
opcode, and the SIB byte that is said to be there); TLC evaluates them in the
runs.

Only model-checked are the liveness properties (`CountdownsHalt`, `TerminateEndsMain`),
which are out of the prover's reach. That the opcode table
unpacks to what `TableAssumption` says is a computation, and TLC's.

## Not modelled

- Console output, text conversion, timing and the macros for calls have no state.
- `TestRun` is called by nothing. It decodes and skips, but for 83 and LEA.
- The parsing of headers (`pe/ImportHandler.cpp`, `pe/ExportHandler.cpp`, `pe/PeUtils.cpp`):
  `Mapper` has what these functions collect and in which order, and starts from
  the images that the headers describe.
- `def_instruction_op2` and the templates that are commented out have no handler.
- `Machine`, `Mmu`, `Decoder` and `Operands` are not composed into one module.
  `Machine` keeps slots of its own for memory and an instruction for each
  address, `Operands` has one instruction and a memory without permissions. A
  state of all of them (registers, bytes, permissions, snapshot, context) is
  beyond TLC for programs long enough to be of interest. They meet in what they
  assume of each other: a store changes all of its bytes or none
  (`OnlyWritableChanges` in `Mmu`, `StoreTo` in `Machine`); an instruction
  changes its destination only (`OnlyDestinationChanges` in `Operands`, the
  handlers of `Machine`); `main` starts with the memory a load leaves
  (`AllocatorPastSections`).
- The modes of the decoder other than 64-bit: `ReadInstruction` asks for no other
  (`Mmu.cpp:109-116`).
