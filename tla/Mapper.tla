------------------------------- MODULE Mapper -------------------------------
(***************************************************************************)
(* The loader: pe_mapper::map_into_mem (pe/Mapper.cpp), which maps the     *)
(* DLLs a program imports above the allocator, one after another, links    *)
(* the program against what they export, and maps the program itself at    *)
(* the addresses its headers name.  pe/ImportHandler.cpp and               *)
(* pe/ExportHandler.cpp collect the two tables, pe/linker/Linker.cpp       *)
(* patches the program, include/buzzemu/Address.cpp finds an address in a  *)
(* file.                                                                   *)
(*                                                                         *)
(* An image is what the headers of a file say: its sections in order, what *)
(* it exports and what it imports.  A byte of a file is the pair of the    *)
(* file and its offset.  The dirty list of the Mmu is left to module Mmu.  *)
(***************************************************************************)
EXTENDS Words, Sequences, FiniteSets, SequencesExt

CONSTANTS
  AddrMod,      \* number of addresses of a VirtualAddr, 2^64 in the code
  Size,         \* bytes of guest memory
  Granule,      \* alignment of cur_alloc, 16 in the code
  AllocBase,    \* initial cur_alloc, 0x10000 in the code
  ThunkSize,    \* bytes of an import slot, 8 in the code
  Exe,          \* the name of the program among the files
  DllNames,     \* the names of the DLLs that may be on disk
  Exes, Dlls,   \* the images a program and a DLL may have
  LongNames,    \* function names that std::string keeps on the heap
  Garbage       \* the values an unset address of an export may have

(* read_file returns no bytes for a file that is missing *)
Missing ==
  [valid |-> FALSE, sections |-> <<>>, size |-> 0, imports |-> <<>>, exports |-> <<>>, names |-> <<>>]
Ordinal == "ordinal"   \* an import by number
Ord == "{ORD}"         \* the name given to an export without one
Zero == <<>>           \* a byte of memory nothing was written to
Writing == {"WRITE"}

VARIABLES
  exe, disk,             \* the program and the DLLs on disk
  phase,
  imported_dlls,         \* the DLLs that are still to be mapped
  sections,              \* the sections of the current image still to be mapped
  image,                 \* the number of the current image
  dll_base,
  exported,              \* _exported, without the ordinals
  dangling,              \* _function_to_addr has a key that was moved away
  binary,                \* the program's file as the linker patches it
  memory, permission, cur_alloc,
  loaded                 \* history: the sections mapped, [image, file, base, first, end]

inputs == <<exe, disk>>
guest == <<memory, permission, cur_alloc>>
vars == <<inputs, phase, imported_dlls, sections, image, dll_base, exported, dangling, binary,
          guest, loaded>>

Addr == 0 .. Size - 1
Span(first, len) == first .. first + len - 1
FileByte(file, offset) == <<file, offset>>

(* Every image of a set lists its sections by ascending addresses. *)
Section == [va : Nat, raw : Nat, ptr : Nat, perm : SUBSET {"READ", "WRITE", "EXEC"}]
Laid(img) ==
  /\ img.sections \in Seq(Section) /\ img.size \in Nat
  /\ img.imports \in Seq(ToSet(img.imports)) /\ img.exports \in Seq(Nat)
  /\ \A i, j \in DOMAIN img.sections :
       i < j => img.sections[i].va + img.sections[i].raw <= img.sections[j].va

(* A section whose address is where an earlier one ends is read at the end *)
(* of that one, which is where it lies in most files.                      *)
Misplaced(img, i) ==
  \E j \in 1 .. i - 1 :
    /\ img.sections[j].va + img.sections[j].raw = img.sections[i].va
    /\ img.sections[j].ptr + img.sections[j].raw # img.sections[i].ptr

ASSUME SizeAssumption ==
  /\ AddrMod \in Nat /\ Size \in Nat /\ Granule \in Nat \ {0} /\ Size + Granule <= AddrMod
  /\ AllocBase \in 0 .. Size /\ ThunkSize \in Nat \ {0}
  /\ Exe \notin DllNames /\ Garbage \subseteq Nat
ASSUME ImageAssumption == \A img \in Exes \cup Dlls \cup {Missing} : Laid(img)
-----------------------------------------------------------------------------
(* Addresses in a file *)

(* the upper bound is inclusive *)
Covers(section, rva) == rva >= section.va /\ rva <= section.va + section.raw

MutAddressIsOffset(img, rva) == rva

(* the file offset of an address, by the first section that covers it; -1  *)
(* stands for foa_not_found, on which value() terminates                   *)
rva_to_foa(img, rva) ==
  LET i == SelectInSeq(img.sections, LAMBDA s : Covers(s, rva))
  IN IF i = 0 THEN -1 ELSE rva - img.sections[i].va + img.sections[i].ptr

get_pe_sections(img) ==
  [i \in DOMAIN img.sections |->
     LET s == img.sections[i] IN
       [virt_addr |-> s.va, file_off |-> rva_to_foa(img, s.va), mem_size |-> s.raw, permission |-> s.perm]]
-----------------------------------------------------------------------------
(* Imports and exports *)

(* the slots a program imports through, in the order of their thunks *)
Slots(img) ==
  UNION {{[rva |-> d.first + (i - 1) * ThunkSize, name |-> d.funcs[i]] : i \in DOMAIN d.funcs} :
           d \in ToSet(img.imports)}

(* the DLLs that functions are imported from, each once *)
ImportedDlls(img) ==
  LET found[n \in Nat] ==
        IF n = 0 THEN <<>>
        ELSE LET d == img.imports[n] IN
             IF d.funcs = <<>> \/ d.dll \in ToSet(found[n - 1]) THEN found[n - 1]
             ELSE Append(found[n - 1], d.dll)
  IN found[Len(img.imports)]

SlotIn(img, s, i) ==
  img.sections[i].va <= s.rva /\ s.rva + ThunkSize <= img.sections[i].va + img.sections[i].raw

(* An image exports the addresses of img.exports; the entries of img.names *)
(* name them in order.  A function keeps the first name it has.            *)
FuncName(img, i) ==
  LET j == SelectInSeq(img.names, LAMBDA n : n.func = i)
  IN IF j = 0 THEN Ord ELSE img.names[j].name

ExportTable(img) ==
  [i \in DOMAIN img.exports |-> [name |-> FuncName(img, i), rva |-> img.exports[i]]]

(* The linker patches the file where it finds the slot: every slot lies in *)
(* a section, is found inside the file, and apart from the others.         *)
ASSUME SlotsAssumption ==
  \A img \in Exes : \A s \in Slots(img) :
    /\ s.rva \in Nat /\ rva_to_foa(img, s.rva) \in 0 .. img.size - ThunkSize
    /\ \E i \in DOMAIN img.sections : SlotIn(img, s, i)
    /\ \A t \in Slots(img) : s # t =>
         Span(rva_to_foa(img, s.rva), ThunkSize) \cap Span(rva_to_foa(img, t.rva), ThunkSize) = {}

(* the capacity of a vector after n push_backs (it grows by one half)      *)
Capacity[n \in Nat] ==
  IF n = 0 THEN 0
  ELSE IF Capacity[n - 1] >= n THEN Capacity[n - 1]
  ELSE IF Capacity[n - 1] < 2 THEN n
  ELSE Capacity[n - 1] + Capacity[n - 1] \div 2

(***************************************************************************)
(* The keys of _function_to_addr are views of the strings in _exported.  A *)
(* short string moves with its vector and leaves its key dangling.         *)
(***************************************************************************)
Moves(old, new) ==
  /\ Capacity[Len(old)] # Capacity[Len(new)]
  /\ \E i \in DOMAIN old : old[i].name \notin LongNames

(* the addresses get_function_address may return; 0 where there is none.   *)
(* A comparison with a dangling key may go either way.                     *)
MutFirstExport(name) ==
  LET i == SelectInSeq(exported, LAMBDA e : e.name = name)
  IN {IF i = 0 THEN 0 ELSE exported[i].address}

get_function_address(name) ==
  IF dangling /\ name \notin LongNames
  THEN {0} \cup {exported[i].address : i \in {j \in DOMAIN exported : exported[j].name \notin LongNames}}
  ELSE LET i == SelectLastInSeq(exported, LAMBDA e : e.name = name)
       IN {IF i = 0 THEN 0 ELSE exported[i].address}
-----------------------------------------------------------------------------
Init ==
  /\ exe \in Exes
  /\ disk \in [DllNames -> Dlls \cup {Missing}]
  /\ phase = "imports"
  /\ imported_dlls = <<>> /\ sections = <<>>
  /\ image = 0 /\ dll_base = 0
  /\ exported = <<>> /\ dangling = FALSE
  /\ binary = [o \in 0 .. exe.size - 1 |-> FileByte(Exe, o)]
  /\ memory = [a \in Addr |-> Zero]
  /\ permission = [a \in Addr |-> {}]
  /\ cur_alloc = AllocBase
  /\ loaded = {}

(* the signature is wrong: map_pe_not_valid *)
InvalidExe ==
  /\ phase = "imports" /\ ~exe.valid
  /\ phase' = "rejected"
  /\ UNCHANGED <<inputs, imported_dlls, sections, image, dll_base, exported, dangling, binary,
                 guest, loaded>>

(* the address of an import by number is in no section: value() terminates *)
ImportByOrdinal ==
  /\ phase = "imports" /\ exe.valid
  /\ \E s \in Slots(exe) : s.name = Ordinal
  /\ phase' = "terminated"
  /\ UNCHANGED <<inputs, imported_dlls, sections, image, dll_base, exported, dangling, binary,
                 guest, loaded>>

(* the length of the system directory is zero: sysdir_not_found *)
NoSystemDirectory ==
  /\ phase = "imports" /\ exe.valid
  /\ \A s \in Slots(exe) : s.name # Ordinal
  /\ phase' = "rejected"
  /\ UNCHANGED <<inputs, imported_dlls, sections, image, dll_base, exported, dangling, binary,
                 guest, loaded>>

ReadImports ==
  /\ phase = "imports" /\ exe.valid
  /\ \A s \in Slots(exe) : s.name # Ordinal
  /\ imported_dlls' = ImportedDlls(exe)
  /\ phase' = "dlls"
  /\ UNCHANGED <<inputs, sections, image, dll_base, exported, dangling, binary, guest, loaded>>

Usable(dll) == dll \in DllNames /\ disk[dll].size # 0 /\ disk[dll].valid

(* the file is not found, or its signature is wrong *)
SkipDll ==
  /\ phase = "dlls" /\ imported_dlls # <<>> /\ ~Usable(Head(imported_dlls))
  /\ imported_dlls' = Tail(imported_dlls)
  /\ UNCHANGED <<inputs, phase, sections, image, dll_base, exported, dangling, binary, guest, loaded>>

(***************************************************************************)
(* The exports of the DLL join the table, at their addresses in the file:  *)
(* the loop that adds dll_base adds it to copies.  The address of an       *)
(* export that has none is not set.                                        *)
(***************************************************************************)
Exports(img) ==
  LET list == ExportTable(img) IN
    {[i \in DOMAIN list |->
        [name |-> list[i].name,
         address |-> IF list[i].rva = 0 THEN unset ELSE list[i].rva]] : unset \in Garbage}

MutKeepBase == dll_base
FreshBase == cur_alloc

StartDll ==
  /\ phase = "dlls" /\ imported_dlls # <<>> /\ Usable(Head(imported_dlls))
  /\ LET img == disk[Head(imported_dlls)] IN
       /\ \E added \in Exports(img) :
            /\ exported' = exported \o added
            /\ dangling' = (dangling \/ Moves(exported, exported'))
       /\ sections' = get_pe_sections(img)
  /\ dll_base' = FreshBase
  /\ image' = image + 1
  /\ phase' = "dll_sections"
  /\ UNCHANGED <<inputs, imported_dlls, binary, guest, loaded>>
-----------------------------------------------------------------------------
(* Sections *)

(* get_range, whose length is cut to the end of the file *)
Data(content, section) ==
  LET left == Cardinality(DOMAIN content) - section.file_off
  IN [k \in 0 .. (IF section.mem_size <= left THEN section.mem_size ELSE left) - 1 |->
        content[section.file_off + k]]

(* SetPermission or get_range throws; nothing catches it *)
Throws(first, section, content) ==
  \/ first >= Size
  \/ first + section.mem_size > Size
  \/ section.file_off >= Cardinality(DOMAIN content)

MutPermissionLeft(first, section) ==
  [a \in Addr |-> IF a \in Span(first, section.mem_size) THEN Writing ELSE permission[a]]

Protect(first, section) ==
  [a \in Addr |->
     IF a \in Span(first, section.mem_size) THEN section.permission ELSE permission[a]]

MutBumpFromFile(first, section) == AlignUp(AddrMod, Granule, section.virt_addr + section.mem_size)

PastSection(first, section) == AlignUp(AddrMod, Granule, first + section.mem_size)

(* The bytes are written while the section is writable, and no write fails: *)
(* every byte of it has just been given PERM_WRITE.                         *)
MapSection(file, base, section, content) ==
  LET first == base + section.virt_addr
      data == Data(content, section)
  IN
    /\ ~Throws(first, section, content)
    /\ memory' = [a \in Addr |-> IF a - first \in DOMAIN data THEN data[a - first] ELSE memory[a]]
    /\ permission' = Protect(first, section)
    /\ cur_alloc' = IF PastSection(first, section) > cur_alloc
                    THEN PastSection(first, section) ELSE cur_alloc
    /\ loaded' = loaded \cup
         {[image |-> image, file |-> file, base |-> base, first |-> first,
           end |-> first + section.mem_size]}

Content(dll) == [o \in 0 .. disk[dll].size - 1 |-> FileByte(dll, o)]

MapDllSection ==
  /\ phase = "dll_sections" /\ sections # <<>>
  /\ MapSection(Head(imported_dlls), dll_base, Head(sections), Content(Head(imported_dlls)))
  /\ sections' = Tail(sections)
  /\ UNCHANGED <<inputs, phase, imported_dlls, image, dll_base, exported, dangling, binary>>

EndDll ==
  /\ phase = "dll_sections" /\ sections = <<>>
  /\ imported_dlls' = Tail(imported_dlls)
  /\ phase' = "dlls"
  /\ UNCHANGED <<inputs, sections, image, dll_base, exported, dangling, binary, guest, loaded>>

(***************************************************************************)
(* link_runtime writes the address it finds over the slot in the program's *)
(* file; a slot without one keeps the bytes of the file.                   *)
(***************************************************************************)
Patched(resolved) ==
  [o \in DOMAIN binary |->
     LET Hit(s) == resolved[s] # 0 /\ o \in Span(rva_to_foa(exe, s.rva), ThunkSize)
     IN IF \E s \in DOMAIN resolved : Hit(s)
        THEN LET s == CHOOSE s \in DOMAIN resolved : Hit(s)
             IN <<"import", resolved[s], o - rva_to_foa(exe, s.rva)>>
        ELSE binary[o]]

LinkRuntime ==
  /\ phase = "dlls" /\ imported_dlls = <<>>
  /\ \E resolved \in [Slots(exe) -> UNION {get_function_address(s.name) : s \in Slots(exe)}] :
       /\ \A s \in Slots(exe) : resolved[s] \in get_function_address(s.name)
       /\ binary' = Patched(resolved)
  /\ sections' = get_pe_sections(exe)
  /\ image' = 0
  /\ phase' = "exe_sections"
  /\ UNCHANGED <<inputs, imported_dlls, dll_base, exported, dangling, guest, loaded>>

MapExeSection ==
  /\ phase = "exe_sections" /\ sections # <<>>
  /\ MapSection(Exe, 0, Head(sections), binary)
  /\ sections' = Tail(sections)
  /\ UNCHANGED <<inputs, phase, imported_dlls, image, dll_base, exported, dangling, binary>>

SectionThrows ==
  /\ sections # <<>>
  /\ \/ /\ phase = "dll_sections"
        /\ Throws(Head(sections).virt_addr + dll_base, Head(sections), Content(Head(imported_dlls)))
     \/ /\ phase = "exe_sections"
        /\ Throws(Head(sections).virt_addr, Head(sections), binary)
  /\ phase' = "terminated"
  /\ UNCHANGED <<inputs, imported_dlls, sections, image, dll_base, exported, dangling, binary,
                 guest, loaded>>

EndExe ==
  /\ phase = "exe_sections" /\ sections = <<>>
  /\ phase' = "mapped"
  /\ UNCHANGED <<inputs, imported_dlls, sections, image, dll_base, exported, dangling, binary,
                 guest, loaded>>

Next ==
  \/ InvalidExe \/ ImportByOrdinal \/ NoSystemDirectory \/ ReadImports
  \/ SkipDll \/ StartDll \/ MapDllSection \/ EndDll
  \/ LinkRuntime \/ MapExeSection \/ EndExe \/ SectionThrows

Spec == Init /\ [][Next]_vars
-----------------------------------------------------------------------------
(* Properties *)

TypeOK ==
  /\ exe \in Exes /\ disk \in [DllNames -> Dlls \cup {Missing}]
  /\ phase \in {"imports", "dlls", "dll_sections", "exe_sections", "mapped", "rejected", "terminated"}
  /\ image \in Nat /\ dll_base \in Nat /\ cur_alloc \in 0 .. AddrMod - 1
  /\ dangling \in BOOLEAN
  /\ permission \in [Addr -> SUBSET {"READ", "WRITE", "EXEC"}]
  /\ DOMAIN memory = Addr
  /\ \A s \in loaded : s.image \in Nat /\ s.first \in Nat /\ s.end \in Nat /\ s.end <= Size

(* The sections of two DLLs never share a byte, whatever their headers say *)
(* and in whichever order they are mapped (Mapper.cpp:83,116,131-135).     *)
DllsDisjoint ==
  \A s, t \in loaded :
    0 < s.image /\ s.image < t.image => s.end <= t.first

(* What mem_alloc hands out after the load, as for the stack of main, lies *)
(* above every section (Mapper.cpp:131-135, 162-166).                      *)
AllocatorPastSections == \A s \in loaded : s.end <= cur_alloc

Within(a, s) == s.first <= a /\ a < s.end
OfExe(a) == \E t \in loaded : t.image = 0 /\ Within(a, t)
ImageOf(file) == IF file = Exe THEN exe ELSE disk[file]
(* the bytes of its file that a program imports through *)
InSlot(offset) == \E s \in Slots(exe) : offset \in Span(rva_to_foa(exe, s.rva), ThunkSize)

(* After a load every byte of a section is the byte of the file its header *)
(* names, but for the import slots, the parts of a DLL that the program is *)
(* mapped over, and the sections read from elsewhere (Mapper.cpp:34,       *)
(* 115-127, 146-157; Address.cpp:12-14).                                   *)
SectionsHoldTheirData ==
  phase = "mapped" =>
    \A t \in loaded :
      LET img == ImageOf(t.file) IN
        \A i \in DOMAIN img.sections :
          LET sec == img.sections[i] IN
            \A k \in 0 .. sec.raw - 1 :
              LET a == t.base + sec.va + k IN
                \/ memory[a] = FileByte(t.file, sec.ptr + k)
                \/ sec.ptr + k >= img.size
                \/ Misplaced(img, i)
                \/ t.file # Exe /\ OfExe(a)
                \/ t.file = Exe /\ InSlot(sec.ptr + k)

(* After a load a byte has the permission of the section mapped there, the *)
(* program's over a DLL's, and a byte of no section has none: no byte      *)
(* stays writable from the copy (Mapper.cpp:117,129,148,160).              *)
PermissionsOfSections ==
  phase = "mapped" =>
    \A a \in Addr :
      LET Perms(file, base) ==
            {img \in ToSet(ImageOf(file).sections) : a \in Span(base + img.va, img.raw)}
          Owners == {s \in loaded : Within(a, s) /\ (OfExe(a) => s.image = 0)}
      IN permission[a] = UNION {UNION {sec.perm : sec \in Perms(s.file, s.base)} : s \in Owners}

Order == ImportedDlls(exe)
ExportsOf(m) == ExportTable(disk[Order[m]])
Exporting(m) == Usable(Order[m]) /\ ExportsOf(m) # <<>>
(* the places of a name among exports, and the DLLs that export it         *)
Places(exports, name) == {j \in DOMAIN exports : exports[j].name = name}
Providers(name) == {m \in DOMAIN Order : Usable(Order[m]) /\ Places(ExportsOf(m), name) # {}}

(* The keys cannot dangle when one DLL at most has exports, and those of   *)
(* long names never do.                                                    *)
Reliable(name) ==
  \/ name \in LongNames
  \/ \A m, n \in DOMAIN Order : Exporting(m) /\ Exporting(n) => m = n

AddressesOf(rva) == IF rva = 0 THEN Garbage ELSE {rva}
AddressesAt(m, j) == AddressesOf(ExportsOf(m)[j].rva)
Resolutions(name) ==
  IF ~Reliable(name)
  THEN {0} \cup UNION {UNION {AddressesAt(m, j) : j \in DOMAIN ExportsOf(m)} : m \in {m \in DOMAIN Order : Usable(Order[m])}}
  ELSE IF Providers(name) = {} THEN {0}
  ELSE LET m == Max(Providers(name)) IN AddressesAt(m, Max(Places(ExportsOf(m), name)))

(* the slots in a section that is read from elsewhere                      *)
Elsewhere(s) == \E i \in DOMAIN exe.sections : SlotIn(exe, s, i) /\ Misplaced(exe, i)

(* After a load an import slot in memory holds the address, relative to    *)
(* its image, that the last DLL to be mapped exports under the name, and   *)
(* the bytes of the file if none does, unless its section is read from     *)
(* elsewhere (ExportHandler.cpp:26-28, 59-64; Mapper.cpp:106-110, 142;     *)
(* Linker.cpp:44-56).                                                      *)
SlotsHoldLastExport ==
  phase = "mapped" =>
    \A s \in Slots(exe) : Elsewhere(s) \/ \E a \in Resolutions(s.name) : \A k \in 0 .. ThunkSize - 1 :
      memory[s.rva + k] = IF a = 0 THEN FileByte(Exe, rva_to_foa(exe, s.rva) + k)
                          ELSE <<"import", a, k>>

(* "add the dynamic address to the base address" (Mapper.cpp:108): a slot  *)
(* that is resolved holds the address at which the function was mapped.    *)
ImportsAreRebased ==
  phase = "mapped" =>
    \A s \in Slots(exe) : memory[s.rva][1] = "import" =>
      \E t \in loaded : t.file # Exe /\
        \E e \in ToSet(ExportTable(disk[t.file])) : e.name = s.name /\ memory[s.rva][2] = t.base + e.rva
=============================================================================
