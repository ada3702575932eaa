------------------------------ MODULE MCDecoder ------------------------------
(* Inputs: every string of at most two prefixes, every string of three that *)
(* decide whether REX counts, and strings up to the limit; before opcodes   *)
(* of every map and every form of address.                                  *)
EXTENDS Decoder

Strings(bytes, n) == [1 .. n -> bytes]

Rex_W == 72
Rex_B == 65
PrefixBytes == {PREFIX_OSIZE, PREFIX_ASIZE, PREFIX_LOCK, PREFIX_REPNE, PREFIX_REP, 46, 100, Rex_W, Rex_B}
PrefixStrings ==
  UNION {Strings(PrefixBytes, n) : n \in 0 .. 2} \cup Strings({PREFIX_OSIZE, 46, Rex_W}, 3)

Filled(n) == [k \in 1 .. n |-> 46]
LongStrings ==
  {Filled(n) : n \in 9 .. 15} \cup {Append(Filled(n), Rex_W) : n \in 11 .. 14}
    \cup {<<Rex_W>> \o Filled(n) : n \in 12 .. 14}

(* [rax], [rip + d32], [rax + d8], [rax + d32], rcx; [rsp], [d32], [rbp + d8], *)
(* [rsp + d32]; reg is 1 in all but two                                    *)
Addresses ==
  {<<8>>, <<13>>, <<72>>, <<136>>, <<201>>, <<193>>, <<16>>,
   <<12, 36>>, <<12, 37>>, <<76, 37>>, <<140, 36>>}

OneByteOpcodes ==
  {<<b>> : b \in {5, 12, 80, 104, 106, 116, 144, 160, 184, 194, 195, 200, 202, 205, 232, 233, 234, 235}}
    \cup {<<b>> \o a : b \in {1, 99, 107, 129, 131, 139, 143, 199, 246, 247, 255}, a \in Addresses}

(* 0F 05, 0F 85, 0F B6, 0F 78, 0F A4, 0F 38 F0, 0F 38 89, 0F 3A 0F and their like *)
EscapedOpcodes ==
  {<<15, 5>>, <<15, 119>>, <<15, 133>>, <<15, 137>>, <<15, 120, 193>>, <<15, 164, 193>>,
   <<15, 56, 240, 193>>, <<15, 56, 137>>, <<15, 56, 131>>, <<15, 58, 15, 193>>, <<15, 58, 232>>}
    \cup {<<15, 182>> \o a : a \in Addresses}

(* C5 and C4 with and without W, with 0F or 0 as payload, and invalid maps; 62; 8F *)
VexOpcodes ==
  {<<197, 248, 119>>, <<197, 15, 5>>, <<197, 15, 182, 193>>, <<197, 241, 16, 193>>,
   <<197, 0, 88, 193>>, <<197, 0, 49>>, <<196, 225, 0, 131>>,
   <<196, 225, 15, 5>>, <<196, 225, 248, 16, 12, 37>>, <<196, 226, 121, 137>>,
   <<196, 227, 121, 15, 193>>, <<196, 224, 121, 16>>, <<196, 228, 121, 16>>,
   <<98, 241, 124, 72>>,
   <<143, 232, 120, 192, 193>>, <<143, 232, 120, 3>>, <<143, 233, 248, 1, 193>>,
   <<143, 234, 120, 16, 193>>, <<143, 234, 121, 16>>, <<143, 234, 120, 1>>}

Instructions == OneByteOpcodes \cup EscapedOpcodes \cup VexOpcodes
MCInputs == {p \o o : p \in PrefixStrings \cup LongStrings, o \in Instructions}

(* a context without an initialiser, and one with every field in use *)
Blank ==
  [pos |-> 0, osize |-> 16, asize |-> 32, modrm |-> 0, sib |-> 0, rex |-> 0, last |-> 0,
   mandatory |-> 0, payload |-> <<0, 0>>, pos_modrm |-> 0, pos_sib |-> 0, pos_rex |-> 0,
   pos_opcode |-> 0, pos_disp |-> 0, disp_size |-> 0, present |-> {}, opcode_size |-> 1, table |-> -1]
Used ==
  [pos |-> 15, osize |-> 64, asize |-> 64, modrm |-> 12, sib |-> 37, rex |-> Rex_W, last |-> Rex_W,
   mandatory |-> PREFIX_REP, payload |-> <<225, 248>>, pos_modrm |-> 5, pos_sib |-> 6, pos_rex |-> 1,
   pos_opcode |-> 4, pos_disp |-> 7, disp_size |-> 4, present |-> Present, opcode_size |-> 2,
   table |-> MAP_0F]
MCContexts == {Blank, Used}
=============================================================================
