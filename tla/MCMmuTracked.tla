---------------------------- MODULE MCMmuTracked ----------------------------
(* Three blocks of two bytes, the third sharing the bit of the first, and  *)
(* a write that crosses from the second into the third.                    *)
EXTENDS MmuTracked

MCWrites ==
  { [addr |-> 0, buf |-> <<1>>], [addr |-> 3, buf |-> <<1, 1>>],
    [addr |-> 4, buf |-> <<1>>], [addr |-> 1, buf |-> <<>>],
    [addr |-> 22, buf |-> <<1, 1>>], [addr |-> 6, buf |-> <<1>>] }
MCReads ==
  { [addr |-> 2, len |-> 2, perm |-> {"READ"}],
    [addr |-> 6, len |-> 1, perm |-> {"READ"}] }
MCGrants ==
  { [addr |-> 0, len |-> 3, perm |-> {"READ", "WRITE"}],
    [addr |-> 2, len |-> 4, perm |-> {"READ"}],
    [addr |-> 5, len |-> 2, perm |-> {"WRITE"}] }
=============================================================================
