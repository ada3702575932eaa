------------------------------ MODULE MCMapper ------------------------------
(* Programs and DLLs of one to three sections in a memory of forty bytes.  *)
EXTENDS Mapper

Part(va, raw, ptr, perm) == [va |-> va, raw |-> raw, ptr |-> ptr, perm |-> perm]
Name(func, name) == [func |-> func, name |-> name]
From(dll, first, funcs) == [dll |-> dll, first |-> first, funcs |-> funcs]
Text == {"READ", "EXEC"}
Rdata == {"READ"}
Bss == {"READ", "WRITE"}

Program(parts, size, imports) ==
  [valid |-> TRUE, sections |-> parts, size |-> size, imports |-> imports,
   exports |-> <<>>, names |-> <<>>]
Library(parts, size, exports, names) ==
  [valid |-> TRUE, sections |-> parts, size |-> size, imports |-> <<>>,
   exports |-> exports, names |-> names]

TextAndImports == <<Part(1, 2, 2, Text), Part(4, 6, 4, Rdata)>>
ImportsOfTwo == <<From("a", 4, <<"f", "long">>), From("b", 8, <<"g">>)>>

MCExes ==
  { Program(TextAndImports, 10, ImportsOfTwo),
    (* one DLL named twice, and one from which nothing is imported *)
    Program(TextAndImports, 10, <<From("b", 4, <<"long">>), From("a", 6, <<"g">>), From("b", 8, <<"f">>)>>),
    Program(TextAndImports, 10, <<From("a", 4, <<>>), From("b", 4, <<"g", "f">>)>>),
    (* a program that reaches above the first DLL; an empty section in it *)
    Program(<<Part(2, 4, 2, Rdata), Part(7, 0, 0, Bss), Part(9, 7, 6, Bss)>>, 13, <<From("a", 2, <<"f", "g">>)>>),
    (* a section that begins where the one before ends, elsewhere in the file *)
    Program(<<Part(1, 4, 2, Rdata), Part(5, 3, 8, Text)>>, 11, <<From("a", 1, <<"long">>), From("b", 6, <<"f">>)>>),
    (* a file that ends inside the last section, and before it *)
    Program(<<Part(1, 4, 2, Rdata), Part(6, 3, 6, Text)>>, 8, <<>>),
    Program(<<Part(1, 4, 2, Rdata), Part(6, 3, 8, Text)>>, 8, <<>>),
    (* a program that ends above the memory *)
    Program(<<Part(1, 2, 2, Text), Part(38, 4, 4, Bss)>>, 8, <<From("a", 1, <<"f">>)>>),
    Program(TextAndImports, 10, <<From("a", 4, <<"f", Ordinal>>)>>),
    [Program(TextAndImports, 10, ImportsOfTwo) EXCEPT !.valid = FALSE] }

MCDlls ==
  { (* a function with two names, of which the second is not exported *)
    Library(<<Part(1, 3, 1, Text)>>, 4, <<1>>, <<Name(1, "f"), Name(1, "g")>>),
    (* a function without a name, and two that share one *)
    Library(<<Part(2, 5, 1, Text), Part(8, 2, 6, Bss)>>, 8, <<2, 3, 5, 6>>,
            <<Name(2, "g"), Name(4, "g"), Name(1, "long")>>),
    (* a function whose address is not set *)
    Library(<<Part(1, 2, 1, Text), Part(3, 2, 5, Rdata)>>, 7, <<0, 1>>, <<Name(1, "f"), Name(2, "long")>>),
    Library(<<Part(1, 9, 1, Text)>>, 10, <<>>, <<>>),
    Library(<<Part(30, 4, 1, Text)>>, 5, <<30>>, <<Name(1, "g")>>),
    [Library(<<Part(1, 3, 1, Text)>>, 4, <<2>>, <<Name(1, "f")>>) EXCEPT !.valid = FALSE] }

(* one program and one DLL, for the address a slot receives *)
PlainExes == {Program(TextAndImports, 10, <<From("a", 4, <<"f">>)>>)}
PlainDlls == {Library(<<Part(1, 3, 1, Text)>>, 4, <<1>>, <<Name(1, "f")>>)}
=============================================================================
