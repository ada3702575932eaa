----------------------------- MODULE MCMachine -----------------------------
(* Guest memory of 88 bytes: 40 of code, 8 that are unmapped, one slot for *)
(* the guest to push to, and the four arguments main pushes.  Words have   *)
(* seven bits, the lower half of a register six, AL three.                 *)
EXTENDS Machine, Sequences, TLC

MCReadable == 0 .. 39 \cup 48 .. 87
MCWritable == 48 .. 87
MCCodeAddr == 0 .. 39

Ops(op, size) == [op |-> op, size |-> size, rex |-> FALSE, sib |-> FALSE]
Rex(op, size) == [Ops(op, size) EXCEPT !.rex = TRUE]
Nop == Ops("unknown", 1)

RECURSIVE LayoutFrom(_, _)
LayoutFrom(instrs, at) ==
  IF instrs = <<>> THEN [a \in MCCodeAddr |-> Nop]
  ELSE (at :> Head(instrs)) @@ LayoutFrom(Tail(instrs), at + Head(instrs).size)

(* the program whose instructions follow each other from address 0 *)
Layout(instrs) == LayoutFrom(instrs, 0)

Reg1(op, reg, size) == Ops(op, size) @@ [reg |-> reg]
Load32(reg, val) == Ops("mov", 5) @@ [reg |-> reg, imm |-> val, width |-> 64]
LoadRsp(val) == Rex("mov", 10) @@ [reg |-> Rsp, imm |-> val, width |-> 128]
AddRsp(n) == Rex("add", 4) @@ [reg |-> Rsp, imm |-> n, width |-> 128]
SubAlBy(n) == Ops("sub_al", 2) @@ [imm |-> n]
DecRax(size) == Ops("dec", size) @@ [reg |-> 0, width |-> 64]
Rel(op, d, size) == Ops(op, size) @@ [imm |-> d]
(* an instruction with a SIB byte, a REX prefix and a displacement *)
AtRsp(op, d) == [Rex(op, 5) EXCEPT !.sib = TRUE] @@ [imm |-> d, reg |-> 0]
Unresolved == [Ops("call_unresolved", 3) EXCEPT !.sib = TRUE]
Invert == [b \in 0 .. 7 |-> 7 - b]
SysCall == Ops("syscall", 2)
RexSysCall == Rex("syscall", 3)

SibInstructions ==
  { AtRsp("load", 0), AtRsp("load", 8), AtRsp("load", -8), AtRsp("store", 0), AtRsp("store", 8),
    AtRsp("store", -48), AtRsp("dec_mem", 16), AtRsp("dec_mem", 48), AtRsp("call_mem", 36), Unresolved }

Instructions ==
  SibInstructions \cup
  { Reg1("push", 0, 1), Reg1("push", 4, 1),
    Rex("push_ext", 2) @@ [reg |-> 1], Rex("push_rex", 2),
    Reg1("pop", 1, 1), Rex("pop_ext", 2) @@ [reg |-> 0],
    Rex("pop_ext", 2) @@ [reg |-> 3], Rex("pop_rex", 2),
    Rel("call", 2, 5), Rel("call", -7, 5),
    Ops("call_reg", 2) @@ [reg |-> 0, width |-> 64],
    Rex("call_reg", 3) @@ [reg |-> 4, width |-> 128],
    Ops("ret", 1),
    Rel("jz", 1, 2), Rel("jnz", -3, 2), Rel("jl", 2, 2), Rel("jle", 1, 2), Rel("jmp", 2, 2),
    Rel("jmp_near", 3, 5),
    Load32(0, 7), Load32(0, 8), Load32(0, 44), LoadRsp(88), AddRsp(16), AddRsp(-8), DecRax(3),
    Ops("cmp", 2) @@ [reg |-> 0, src |-> 1],
    SubAlBy(1), Ops("logic_al", 2) @@ [fn |-> Invert],
    Ops("test_al", 2) @@ [fn |-> Invert], SysCall, Nop }

(* any two instructions, or three that move the stack, and then a request *)
(* to terminate                                                            *)
StackOps == {"push", "call", "call_reg", "store", "ret", "pop"}
StackInstructions == {i \in Instructions : i.op \in StackOps} \cup {LoadRsp(88), AddRsp(16)}
Tail2 == <<Load32(0, 44), SysCall>>

MixedPrograms ==
  {Layout(<<i, j>> \o Tail2) : i, j \in Instructions}
    \cup {Layout(<<i, j, k>> \o Tail2) : i, j, k \in StackInstructions}

(* what Run executes as it is compiled, with system calls in between *)
BuiltPrograms ==
  {Layout(<<i, SysCall, j, RexSysCall, k, Nop>>) : i, j, k \in SibInstructions \cup {AddRsp(16)}}

(* a loop that counts down and then terminates *)
Countdown(first, step, test) ==
  Layout(<<Load32(0, first), step, Rel(test, -4, 2), Load32(0, 44), SysCall>>)

CountdownPrograms ==
  {Countdown(n, SubAlBy(k), test) : n \in 1 .. 7, k \in {1, 3}, test \in {"jnz"}}
    \cup {Countdown(n, SubAlBy(k), test) : n \in 1 .. 7, k \in 1 .. 3, test \in {"jl"}}

MachinePrograms == MixedPrograms \cup CountdownPrograms

(* the slot at Rsp holds argc, which is 1 *)
ZeroPrograms == {Layout(<<AtRsp("dec_mem", 0), AtRsp("dec_mem", 16)>>)}
=============================================================================
