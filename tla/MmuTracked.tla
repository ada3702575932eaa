----------------------------- MODULE MmuTracked -----------------------------
(***************************************************************************)
(* The memory with its dirty list implements ForkableMemory, in which      *)
(* there is neither a list nor a bitmap: the bytes that the marking misses *)
(* are those a Reset may leave behind.                                     *)
(***************************************************************************)
EXTENDS Mmu

Visible(perms) == [a \in Addr |-> perms[a] \ {"RAW"}]
Unstored(perms) == {a \in Addr : "RAW" \in perms[a] /\ "READ" \notin perms[a]}

Abstract == INSTANCE ForkableMemory WITH
  cells <- memory,
  rights <- Visible(permission),
  fresh <- Unstored(permission),
  brk <- cur_alloc,
  loose <- slipped,
  snap <- [cells |-> other.memory,
           rights |-> Visible(other.permission),
           fresh |-> Unstored(other.permission)]

(* Every step of the tracked memory is a step of the abstract one: the     *)
(* dirty list, the bitmap and PERM_RAW are invisible (Mmu.cpp:31-148).     *)
ImplementsForkableMemory == Abstract!Spec
=============================================================================
