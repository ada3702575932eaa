----------------------------- MODULE MCOperands -----------------------------
(* Every handler, with every prefix that changes it, over every form of     *)
(* address; a byte has four values, so that words have sixteen bits.        *)
EXTENDS OperandRules

Fields(mod, reg, rm) == mod * 64 + reg * 8 + rm
Rexes == {{}, {"REX"}, {"REX", "W"}, {"REX", "B"}, {"REX", "W", "X"}, {"REX", "W", "R", "B"}}
Bit(rex, name, value) == IF name \in rex THEN value ELSE 0
RexByte(rex) ==
  IF rex = {} THEN <<>>
  ELSE <<64 + Bit(rex, "W", 8) + Bit(rex, "R", 4) + Bit(rex, "X", 2) + Bit(rex, "B", 1)>>

(* 66 and 67 before REX, then the opcode and what follows it               *)
Instruction(osize16, asize32, rex, op, sib, rest) ==
  LET prefixes == (IF osize16 THEN <<102>> ELSE <<>>) \o (IF asize32 THEN <<103>> ELSE <<>>)
                    \o RexByte(rex)
  IN [code |-> prefixes \o op \o rest, pos_opcode |-> Len(prefixes), opcode_size |-> Len(op),
      rex |-> rex, p_sib |-> sib, asize |-> IF asize32 THEN 32 ELSE 64,
      osize |-> IF "W" \in rex THEN 64 ELSE IF osize16 THEN 16 ELSE 32]

(* [sib, bytes] after ModRM's reg: bare, relative, two displacements, and  *)
(* registers; then SIB with and without index, base, and displacement      *)
Form1(sib, mod, rm, more) == [sib |-> sib, mod |-> mod, rm |-> rm, more |-> more]
Plain4(d) == <<d, 1, 0, 0>>
Modes ==
  {Form1(FALSE, 3, r, <<>>) : r \in {0, 1, 5}}
    \cup {Form1(FALSE, 0, r, <<>>) : r \in {1, 6}}
    \cup {Form1(FALSE, 0, 5, Plain4(2)), Form1(FALSE, 1, 3, <<1>>), Form1(FALSE, 1, 3, <<255>>),
          Form1(FALSE, 2, 6, Plain4(3)), Form1(FALSE, 2, 6, <<252, 255, 255, 255>>)}
    \cup {Form1(TRUE, 0, 4, <<s>>) : s \in {Fields(0, 1, 3), Fields(1, 3, 0), Fields(0, 4, 4), Fields(0, 4, 0)}}
    \cup {Form1(TRUE, 0, 4, <<s>> \o Plain4(2)) : s \in {Fields(1, 1, 5), Fields(0, 4, 5)}}
    \cup {Form1(TRUE, 1, 4, <<s>> \o <<1>>) : s \in {Fields(2, 1, 3), Fields(0, 3, 5), Fields(0, 4, 5)}}
    \cup {Form1(TRUE, 2, 4, <<Fields(0, 4, 6)>> \o Plain4(0))}

WithModRM(op, regs, modes, imm) ==
  {[op |-> op, sib |-> m.sib, rest |-> <<Fields(m.mod, r, m.rm)>> \o m.more \o imm] :
     r \in regs, m \in modes}
Without(op, imm) == {[op |-> op, sib |-> FALSE, rest |-> imm]}

Few == {m \in Modes : ~m.sib \/ m.more[1] \in {Fields(0, 1, 3), Fields(1, 1, 5)}}
NoRegisters == {m \in Modes : m.mod # 3}
(* TEST 84 converts the register's number before it looks whether there is one *)
HasRegister == {m \in Modes : m.mod # 0 \/ m.rm # 5}

Bodies(size) ==   \* of the immediate
  LET wide(v) == IF size = 16 THEN <<v, 3>> ELSE <<v, 3, 1, 0>>
      neg == IF size = 16 THEN <<255, 255>> ELSE <<252, 255, 255, 255>>
  IN UNION {WithModRM(<<op>>, {2, 5}, Modes, <<>>) : op \in {1, 137}}
       \cup UNION {WithModRM(<<op>>, {2}, Few, <<>>) : op \in {33, 41, 49, 133}}
       \cup UNION {WithModRM(<<op>>, {2}, Modes, <<>>) : op \in {3, 139, 99}}
       \cup UNION {WithModRM(<<op>>, {1}, Few, <<>>) : op \in {9, 43, 51, 59}}
       \cup WithModRM(<<15, 182>>, {1}, Modes, <<>>)
       \cup WithModRM(<<141>>, {2}, NoRegisters, <<>>)
       \cup WithModRM(<<136>>, {1, 5}, Modes, <<>>) \cup WithModRM(<<255>>, {1}, Modes, <<>>)
       \cup UNION {WithModRM(<<129>>, {r}, Few, wide(2)) : r \in {0, 1, 4, 5, 6}}
       \cup WithModRM(<<129>>, {5}, Few, neg)
       \cup UNION {WithModRM(<<131>>, {r}, Few, <<i>>) : r \in {0, 1, 4, 5, 6, 7}, i \in {1, 255}}
       \cup WithModRM(<<199>>, {0}, Modes, wide(1)) \cup WithModRM(<<199>>, {0}, Few, neg)
       \cup UNION {Without(<<op>>, i) : op \in {5, 13, 37, 53, 45}, i \in {wide(2), neg}}
       \cup UNION {Without(<<op>>, <<i>>) : op \in {12, 36, 44, 52}, i \in {1, 2}}

Truncated ==
  LET short == {Form1(FALSE, 1, 3, <<>>), Form1(FALSE, 2, 6, <<3, 1, 0>>), Form1(FALSE, 0, 5, <<2, 1, 0>>),
                Form1(TRUE, 1, 4, <<Fields(2, 1, 3)>>), Form1(TRUE, 0, 4, <<Fields(1, 1, 5), 2, 1, 0>>)}
  IN UNION {WithModRM(op, {1}, short, <<>>) : op \in {<<1>>, <<3>>, <<136>>, <<255>>, <<199>>, <<15, 182>>}}

MCInstructions ==
  {Instruction(w16, a32, rex, b.op, b.sib, b.rest) :
     w16 \in {FALSE}, a32 \in {FALSE}, rex \in Rexes, b \in Bodies(32)}
    \cup {Instruction(TRUE, FALSE, rex, b.op, b.sib, b.rest) : rex \in {{}}, b \in Bodies(16)}
    \cup {Instruction(FALSE, TRUE, rex, b.op, b.sib, b.rest) :
            rex \in {{}, {"REX", "W"}},
            b \in UNION {WithModRM(<<op>>, {2}, NoRegisters, <<>>) : op \in {137, 139, 141}}}
    \cup {Instruction(FALSE, FALSE, {}, b.op, b.sib, b.rest) :
            b \in WithModRM(<<132>>, {1, 5}, HasRegister, <<>>)}
    \cup {Instruction(FALSE, FALSE, rex, <<184 + r>>, FALSE, <<1, 2, 3, 0>>) :
            r \in {1, 7}, rex \in {{}, {"REX", "B"}}}
    \cup {Instruction(FALSE, FALSE, {"REX", "W"}, <<184 + r>>, FALSE, <<1, 2, 3, 0, 1, 2, 3, 1>>) :
            r \in {1, 7}}
    \cup {Instruction(TRUE, FALSE, {}, <<185>>, FALSE, <<1, 3>>)}
    \cup {Instruction(FALSE, FALSE, rex, b.op, b.sib, b.rest) :   \* a byte short of the displacement
            rex \in {{}, {"REX", "W"}}, b \in Truncated}

(* registers that address memory and one that does not; upper halves in use *)
Registers1 ==
  [r \in 0 .. 16 |->
     CASE r = 0 -> 258 + 3 * 4096 [] r = 1 -> 6 [] r = 3 -> 9 [] r = 4 -> 20 [] r = 5 -> 12
       [] r = 6 -> 40 [] r = 9 -> 3 [] r = 12 -> 2 [] r = 16 -> 4 [] OTHER -> 4 * r + 4099]
Registers2 == [Registers1 EXCEPT ![1] = 65535, ![2] = 255, ![3] = 46, ![6] = 33000, ![0] = 2]
MCFiles == {Registers1, Registers2}
Memory1 == [a \in 0 .. 47 |-> (a * a + 3 * (a \div 5)) % 4]
Memory2 == [a \in 0 .. 47 |-> IF a < 24 THEN 3 ELSE 0]
MCImages == {Memory1, Memory2}
MCResidues ==
  [index : {0, 9, Wild}, use_base : BOOLEAN, past : {0}, rm : {0}]
    \cup [index : {0}, use_base : {FALSE}, past : {3}, rm : {5}]
    \cup [index : {0}, use_base : {FALSE}, past : {0}, rm : {Wild}]
=============================================================================
