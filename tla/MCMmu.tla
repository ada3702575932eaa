------------------------------- MODULE MCMmu -------------------------------
(* Four blocks of two bytes in bitmap words of three bits, masks shifted   *)
(* in a two-bit int: block 2 shares the bit of block 0, block 1 has the    *)
(* sign bit, block 3 starts the second word.                               *)
EXTENDS Mmu

MCWrites ==
  { [addr |-> 0, buf |-> <<1>>], [addr |-> 4, buf |-> <<1>>],
    [addr |-> 3, buf |-> <<1, 1>>], [addr |-> 6, buf |-> <<1>>],
    [addr |-> 7, buf |-> <<1, 1>>], [addr |-> 30, buf |-> <<1, 1, 1>>],
    [addr |-> 2, buf |-> <<>>] }
(* writes of one byte, to the two blocks that share a bit *)
AliasWrites == { [addr |-> 0, buf |-> <<1>>], [addr |-> 4, buf |-> <<1>>] }

AllWritable == { [addr |-> 0, len |-> 8, perm |-> {"READ", "WRITE"}] }

MCReads ==
  { [addr |-> 4, len |-> 2, perm |-> {"READ"}], [addr |-> 0, len |-> 1, perm |-> {}],
    [addr |-> 8, len |-> 1, perm |-> {"READ"}], [addr |-> 31, len |-> 3, perm |-> {"EXEC"}] }
MCGrants ==
  { [addr |-> 0, len |-> 4, perm |-> {"READ", "WRITE"}],
    [addr |-> 4, len |-> 1, perm |-> {"READ"}],
    [addr |-> 7, len |-> 2, perm |-> {"WRITE"}] }
=============================================================================
