---------------------------- MODULE MapperProofs ----------------------------
(* Where the loader puts the sections, for every set of images.            *)
EXTENDS Mapper, WordsProofs, SequenceTheorems, FiniteSetTheorems

-----------------------------------------------------------------------------
(* Lemmas about the helpers *)

(* The allocator's rounding does not go below an address of the memory.    *)
LEMMA AlignUpAbove ==
  ASSUME NEW x \in 0 .. Size
  PROVE  /\ AlignUp(AddrMod, Granule, x) \in 0 .. AddrMod - 1
         /\ x <= AlignUp(AddrMod, Granule, x)
<1> DEFINE b == x + (Granule - 1)
<1>1. b \in 0 .. AddrMod - 1 /\ Granule \in Nat \ {0} /\ AddrMod \in Nat
  BY SizeAssumption, SMT
<1>2. b % AddrMod = b
  <2> HIDE DEF b
  <2> QED
    BY <1>1, SMT
<1>3. AlignUp(AddrMod, Granule, x) = b - (b % Granule)
  BY <1>2 DEF AlignUp, WrapAdd
<1>4. b % Granule \in 0 .. Granule - 1 /\ b % Granule <= b
  <2> HIDE DEF b
  <2> QED
    BY <1>1, SMT
<1>5. b - (b % Granule) \in 0 .. AddrMod - 1
  <2> HIDE DEF b
  <2> QED
    BY <1>1, <1>4, SMT
<1>6. x <= b - (b % Granule)
  BY <1>1, <1>4, SMT
<1> QED
  BY <1>3, <1>5, <1>6

Images == Exes \cup Dlls \cup {Missing}

(* the sections as the loader reads them *)
MappedSections ==
  UNION {{get_pe_sections(img)[i] : i \in DOMAIN img.sections} : img \in Images}

(* What the loader reads of an image is a sequence of sections with the    *)
(* addresses, the sizes and the permissions of the headers.                *)
LEMMA SectionsRead ==
  /\ \A img \in Images : get_pe_sections(img) \in Seq(MappedSections)
  /\ \A s \in MappedSections :
       s.virt_addr \in Nat /\ s.mem_size \in Nat /\ s.permission \in SUBSET {"READ", "WRITE", "EXEC"}
<1>1. ASSUME NEW img \in Images
      PROVE  get_pe_sections(img) \in Seq(MappedSections)
  <2>1. img.sections \in Seq(Section)
    BY ImageAssumption DEF Laid, Images
  <2>2. DOMAIN img.sections = 1 .. Len(img.sections) /\ Len(img.sections) \in Nat
    BY <2>1
  <2>3. \A i \in DOMAIN img.sections : get_pe_sections(img)[i] \in MappedSections
    BY DEF MappedSections
  <2>4. get_pe_sections(img) = [i \in 1 .. Len(img.sections) |-> get_pe_sections(img)[i]]
    BY <2>2 DEF get_pe_sections
  <2> QED
    BY <2>2, <2>3, <2>4, IsASeq
<1>2. ASSUME NEW s \in MappedSections
      PROVE  s.virt_addr \in Nat /\ s.mem_size \in Nat /\ s.permission \in SUBSET {"READ", "WRITE", "EXEC"}
  <2>1. PICK img \in Images : s \in {get_pe_sections(img)[i] : i \in DOMAIN img.sections}
    BY DEF MappedSections
  <2>2. PICK i \in DOMAIN img.sections : s = get_pe_sections(img)[i]
    BY <2>1
  <2>3. img.sections[i] \in Section
    BY <2>2, ImageAssumption DEF Laid, Images
  <2>4. /\ s.virt_addr = img.sections[i].va
        /\ s.mem_size = img.sections[i].raw
        /\ s.permission = img.sections[i].perm
    BY <2>2 DEF get_pe_sections
  <2> QED
    BY <2>3, <2>4 DEF Section
<1> QED
  BY <1>1, <1>2

-----------------------------------------------------------------------------
(***************************************************************************)
(* The invariant.  A section of a finished DLL ends at or below dll_base,  *)
(* where the sections of the current one begin, since dll_base was fetched *)
(* from an allocator that had passed all sections by then.  The program's  *)
(* own sections, of image 0, come after all DLLs.                          *)
(***************************************************************************)

BasesOK ==
  /\ sections \in Seq(MappedSections)
  /\ dll_base <= cur_alloc
  /\ \A s \in loaded : s.end <= cur_alloc

ImagesOK ==
  /\ phase \in {"imports", "dlls", "dll_sections"} => \A s \in loaded : 0 < s.image /\ s.image <= image
  /\ phase = "dll_sections" => 0 < image /\ \A s \in loaded : s.image < image => s.end <= dll_base
  /\ phase = "exe_sections" => image = 0

Inv == TypeOK /\ BasesOK /\ ImagesOK /\ DllsDisjoint

LEMMA InitInv == Init => Inv
<1> SUFFICES ASSUME Init PROVE Inv
  OBVIOUS
<1>1. TypeOK
  <2>1. cur_alloc \in 0 .. AddrMod - 1
    BY SizeAssumption, SMT DEF Init
  <2>2. image \in Nat /\ dll_base \in Nat /\ dangling \in BOOLEAN
    BY DEF Init
  <2>3. permission \in [Addr -> SUBSET {"READ", "WRITE", "EXEC"}] /\ DOMAIN memory = Addr
    BY DEF Init
  <2>4. /\ exe \in Exes /\ disk \in [DllNames -> Dlls \cup {Missing}]
        /\ phase = "imports" /\ loaded = {}
    BY DEF Init
  <2> QED
    BY <2>1, <2>2, <2>3, <2>4 DEF TypeOK
<1>2. BasesOK /\ ImagesOK /\ DllsDisjoint
  BY SizeAssumption, SMT DEF Init, BasesOK, ImagesOK, DllsDisjoint
<1> QED
  BY <1>1, <1>2 DEF Inv

(* A section that is mapped lies between its first address and the         *)
(* allocator, and no other section moves.                                  *)
LEMMA SectionMapped ==
  ASSUME Inv, NEW file, NEW base \in Nat, NEW section \in MappedSections, NEW content,
         MapSection(file, base, section, content)
  PROVE  \E first \in Nat, end \in Nat :
           /\ base <= first /\ end <= Size /\ end <= cur_alloc'
           /\ loaded' = loaded \cup
                {[image |-> image, file |-> file, base |-> base, first |-> first, end |-> end]}
           /\ cur_alloc' \in 0 .. AddrMod - 1 /\ cur_alloc <= cur_alloc'
           /\ permission' \in [Addr -> SUBSET {"READ", "WRITE", "EXEC"}]
           /\ DOMAIN memory' = Addr
<1> DEFINE first == base + section.virt_addr
           end == first + section.mem_size
<1>1. section.virt_addr \in Nat /\ section.mem_size \in Nat
      /\ section.permission \in SUBSET {"READ", "WRITE", "EXEC"}
  BY SectionsRead
<1>2. first \in Nat /\ end \in Nat /\ base <= first
  BY <1>1, SMT
<1>3. ~Throws(first, section, content)
  BY DEF MapSection
<1>4. end <= Size
  BY <1>1, <1>2, <1>3, SizeAssumption, SMT DEF Throws
<1>5. AlignUp(AddrMod, Granule, end) \in 0 .. AddrMod - 1 /\ end <= AlignUp(AddrMod, Granule, end)
  <2>1. end \in 0 .. Size
    BY <1>2, <1>4, SizeAssumption, SMT
  <2> QED
    BY <2>1, AlignUpAbove
<1>6. cur_alloc' = IF AlignUp(AddrMod, Granule, end) > cur_alloc
                   THEN AlignUp(AddrMod, Granule, end) ELSE cur_alloc
  BY DEF MapSection, PastSection
<1>7. cur_alloc \in 0 .. AddrMod - 1
  BY DEF Inv, TypeOK
<1>8. cur_alloc' \in 0 .. AddrMod - 1 /\ cur_alloc <= cur_alloc' /\ end <= cur_alloc'
  <2> HIDE DEF end
  <2> QED
    BY <1>2, <1>5, <1>6, <1>7, SizeAssumption, SMT
<1>9. loaded' = loaded \cup
        {[image |-> image, file |-> file, base |-> base, first |-> first, end |-> end]}
  BY DEF MapSection
<1>10. permission' \in [Addr -> SUBSET {"READ", "WRITE", "EXEC"}]
  <2>1. permission' = Protect(first, section)
    BY DEF MapSection
  <2>2. permission \in [Addr -> SUBSET {"READ", "WRITE", "EXEC"}]
    BY DEF Inv, TypeOK
  <2> HIDE DEF first
  <2> QED
    BY <1>1, <2>1, <2>2 DEF Protect
<1>11. DOMAIN memory' = Addr
  BY DEF MapSection
<1> HIDE DEF first, end
<1> QED
  BY <1>2, <1>4, <1>8, <1>9, <1>10, <1>11

(* Steps that map nothing and start no DLL. *)
LEMMA QuietStep ==
  ASSUME Inv, UNCHANGED <<inputs, guest, loaded, dll_base>>, dangling' = dangling,
         image' \in Nat, sections' \in Seq(MappedSections),
         phase' \in {"imports", "dlls", "exe_sections", "mapped", "rejected", "terminated"},
         phase' \in {"imports", "dlls"} => phase \in {"imports", "dlls", "dll_sections"} /\ image' = image,
         phase' = "exe_sections" => image' = 0
  PROVE  Inv'
<1>1. TypeOK'
  BY SMT DEF Inv, TypeOK, inputs, guest
<1>2. BasesOK' /\ DllsDisjoint'
  BY DEF Inv, BasesOK, DllsDisjoint, guest
<1>3. ImagesOK'
  BY DEF Inv, ImagesOK
<1> QED
  BY <1>1, <1>2, <1>3 DEF Inv

(* A DLL begins where the allocator is, past all sections. *)
LEMMA StartDllInv == Inv /\ StartDll => Inv'
<1> SUFFICES ASSUME Inv, StartDll PROVE Inv'
  OBVIOUS
<1> USE DEF FreshBase
<1>1. /\ UNCHANGED <<inputs, guest, loaded>>
      /\ phase = "dlls" /\ phase' = "dll_sections"
      /\ image' = image + 1 /\ dll_base' = cur_alloc
  BY DEF StartDll
<1>2. sections' \in Seq(MappedSections)
  <2>1. disk[Head(imported_dlls)] \in Images
    <3>1. Usable(Head(imported_dlls))
      BY DEF StartDll
    <3>2. Head(imported_dlls) \in DllNames
      BY <3>1 DEF Usable
    <3> QED
      BY <3>2 DEF Inv, TypeOK, Images
  <2> QED
    BY <2>1, SectionsRead DEF StartDll
<1>3. TypeOK'
  <2>1. dangling' \in BOOLEAN
    BY DEF StartDll, Inv, TypeOK
  <2>2. image' \in Nat /\ dll_base' \in Nat
    BY <1>1, SizeAssumption, SMT DEF Inv, TypeOK
  <2> QED
    BY <1>1, <2>1, <2>2 DEF Inv, TypeOK, inputs, guest
<1>4. BasesOK'
  BY <1>1, <1>2, SMT DEF Inv, TypeOK, BasesOK, guest
<1>5. ImagesOK'
  <2> SUFFICES ASSUME NEW s \in loaded
               PROVE  0 < s.image /\ s.image <= image + 1 /\ s.end <= cur_alloc
    BY <1>1, <1>3, SMT DEF ImagesOK, Inv, TypeOK
  <2> QED
    BY <1>1, SMT DEF Inv, TypeOK, BasesOK, ImagesOK
<1>6. DllsDisjoint'
  BY <1>1 DEF Inv, DllsDisjoint
<1> QED
  BY <1>3, <1>4, <1>5, <1>6 DEF Inv

(* A section of a DLL begins at or above dll_base, where the sections of   *)
(* the DLLs before end.                                                    *)
LEMMA MapDllSectionInv == Inv /\ MapDllSection => Inv'
<1> SUFFICES ASSUME Inv, MapDllSection PROVE Inv'
  OBVIOUS
<1>1. /\ phase = "dll_sections" /\ sections # <<>> /\ sections' = Tail(sections)
      /\ UNCHANGED <<inputs, phase, image, dll_base, dangling>>
      /\ MapSection(Head(imported_dlls), dll_base, Head(sections), Content(Head(imported_dlls)))
  BY DEF MapDllSection
<1>2. Head(sections) \in MappedSections /\ Tail(sections) \in Seq(MappedSections)
  BY <1>1, HeadTailProperties DEF Inv, BasesOK
<1>3. dll_base \in Nat
  BY DEF Inv, TypeOK
<1>4. PICK first \in Nat, end \in Nat :
        /\ dll_base <= first /\ end <= Size /\ end <= cur_alloc'
        /\ loaded' = loaded \cup
             {[image |-> image, file |-> Head(imported_dlls), base |-> dll_base,
               first |-> first, end |-> end]}
        /\ cur_alloc' \in 0 .. AddrMod - 1 /\ cur_alloc <= cur_alloc'
        /\ permission' \in [Addr -> SUBSET {"READ", "WRITE", "EXEC"}]
        /\ DOMAIN memory' = Addr
  BY <1>1, <1>2, <1>3, SectionMapped
<1> DEFINE new == [image |-> image, file |-> Head(imported_dlls), base |-> dll_base,
                   first |-> first, end |-> end]
<1>5. loaded' = loaded \cup {new} /\ new.image = image /\ new.first = first /\ new.end = end
  BY <1>4
<1> HIDE DEF new
<1>6. \A s \in loaded : /\ s.image \in Nat /\ s.first \in Nat /\ s.end \in Nat
                        /\ s.end <= Size /\ s.end <= cur_alloc
                        /\ 0 < s.image /\ s.image <= image
                        /\ s.image < image => s.end <= dll_base
  BY <1>1 DEF Inv, TypeOK, BasesOK, ImagesOK
<1>7. image \in Nat /\ cur_alloc \in Nat /\ AddrMod \in Nat /\ Size \in Nat
  BY SizeAssumption, SMT DEF Inv, TypeOK
<1>8. TypeOK'
  <2>1. \A s \in loaded' : s.image \in Nat /\ s.first \in Nat /\ s.end \in Nat /\ s.end <= Size
    BY <1>4, <1>5, <1>6, <1>7
  <2> QED
    BY <1>1, <1>4, <2>1 DEF Inv, TypeOK, inputs
<1>9. BasesOK'
  <2>1. dll_base' <= cur_alloc'
    BY <1>1, <1>3, <1>4, <1>7, SMT DEF Inv, BasesOK
  <2>2. \A s \in loaded' : s.end <= cur_alloc'
    BY <1>4, <1>5, <1>6, <1>7, SMT
  <2> QED
    BY <1>1, <1>2, <2>1, <2>2 DEF BasesOK
<1>10. ImagesOK'
  <2>1. 0 < image
    BY <1>1 DEF Inv, ImagesOK
  <2> QED
    BY <1>1, <1>5, <1>6, <1>7, <2>1, SMT DEF ImagesOK
<1>11. DllsDisjoint'
  <2> SUFFICES ASSUME NEW s \in loaded', NEW t \in loaded', 0 < s.image, s.image < t.image
               PROVE  s.end <= t.first
    BY DEF DllsDisjoint
  <2>1. CASE s \in loaded /\ t \in loaded
    BY <2>1 DEF Inv, DllsDisjoint
  <2>2. CASE s \in loaded /\ t = new
    BY <1>3, <1>4, <1>5, <1>6, <2>2, SMT
  <2>3. CASE s = new
    BY <1>5, <1>6, <1>7, <2>3, SMT
  <2> QED
    BY <1>5, <2>1, <2>2, <2>3
<1> QED
  BY <1>8, <1>9, <1>10, <1>11 DEF Inv

(* A section of the program has image 0, of which DllsDisjoint says nothing. *)
LEMMA MapExeSectionInv == Inv /\ MapExeSection => Inv'
<1> SUFFICES ASSUME Inv, MapExeSection PROVE Inv'
  OBVIOUS
<1>1. /\ phase = "exe_sections" /\ sections # <<>> /\ sections' = Tail(sections)
      /\ UNCHANGED <<inputs, phase, image, dll_base, dangling>>
      /\ MapSection(Exe, 0, Head(sections), binary)
  BY DEF MapExeSection
<1>2. Head(sections) \in MappedSections /\ Tail(sections) \in Seq(MappedSections)
  BY <1>1, HeadTailProperties DEF Inv, BasesOK
<1>3. PICK first \in Nat, end \in Nat :
        /\ 0 <= first /\ end <= Size /\ end <= cur_alloc'
        /\ loaded' = loaded \cup
             {[image |-> image, file |-> Exe, base |-> 0, first |-> first, end |-> end]}
        /\ cur_alloc' \in 0 .. AddrMod - 1 /\ cur_alloc <= cur_alloc'
        /\ permission' \in [Addr -> SUBSET {"READ", "WRITE", "EXEC"}]
        /\ DOMAIN memory' = Addr
  BY <1>1, <1>2, SectionMapped
<1> DEFINE new == [image |-> image, file |-> Exe, base |-> 0, first |-> first, end |-> end]
<1>4. loaded' = loaded \cup {new} /\ new.image = 0 /\ new.first = first /\ new.end = end
  BY <1>1, <1>3 DEF Inv, ImagesOK
<1> HIDE DEF new
<1>5. \A s \in loaded : /\ s.image \in Nat /\ s.first \in Nat /\ s.end \in Nat
                        /\ s.end <= Size /\ s.end <= cur_alloc
  BY DEF Inv, TypeOK, BasesOK
<1>6. dll_base \in Nat /\ cur_alloc \in Nat /\ AddrMod \in Nat /\ Size \in Nat
  BY SizeAssumption, SMT DEF Inv, TypeOK
<1>7. TypeOK'
  <2>1. \A s \in loaded' : s.image \in Nat /\ s.first \in Nat /\ s.end \in Nat /\ s.end <= Size
    BY <1>3, <1>4, <1>5
  <2> QED
    BY <1>1, <1>3, <2>1 DEF Inv, TypeOK, inputs
<1>8. BasesOK'
  <2>1. dll_base' <= cur_alloc'
    BY <1>1, <1>3, <1>6, SMT DEF Inv, BasesOK
  <2>2. \A s \in loaded' : s.end <= cur_alloc'
    BY <1>3, <1>4, <1>5, <1>6, SMT
  <2> QED
    BY <1>1, <1>2, <2>1, <2>2 DEF BasesOK
<1>9. ImagesOK'
  BY <1>1 DEF Inv, ImagesOK
<1>10. DllsDisjoint'
  <2> SUFFICES ASSUME NEW s \in loaded', NEW t \in loaded', 0 < s.image, s.image < t.image
               PROVE  s.end <= t.first
    BY DEF DllsDisjoint
  <2>1. CASE s \in loaded /\ t \in loaded
    BY <2>1 DEF Inv, DllsDisjoint
  <2>2. CASE t = new /\ s \in loaded
    BY <1>4, <1>5, <2>2, SMT
  <2>3. CASE s = new
    BY <1>4, <2>3, SMT
  <2> QED
    BY <1>4, <2>1, <2>2, <2>3
<1> QED
  BY <1>7, <1>8, <1>9, <1>10 DEF Inv

(* The program's own sections are read, and image becomes 0. *)
LEMMA LinkRuntimeInv == Inv /\ LinkRuntime => Inv'
<1> SUFFICES ASSUME Inv, LinkRuntime PROVE Inv'
  OBVIOUS
<1>1. sections' \in Seq(MappedSections)
  <2>1. exe \in Images
    BY DEF Inv, TypeOK, Images
  <2> QED
    BY <2>1, SectionsRead DEF LinkRuntime
<1>2. phase' = "exe_sections" /\ image' = 0
  BY DEF LinkRuntime
<1>3. UNCHANGED <<inputs, guest, loaded, dll_base>> /\ dangling' = dangling
  BY DEF LinkRuntime
<1> QED
  BY <1>1, <1>2, <1>3, QuietStep

LEMMA NextInv == Inv /\ [Next]_vars => Inv'
<1> SUFFICES ASSUME Inv, [Next]_vars PROVE Inv'
  OBVIOUS
<1>1. image \in Nat /\ sections \in Seq(MappedSections)
  BY DEF Inv, TypeOK, BasesOK
<1>2. CASE InvalidExe \/ NoSystemDirectory
  BY <1>1, <1>2, QuietStep DEF InvalidExe, NoSystemDirectory
<1>3. CASE ImportByOrdinal
  BY <1>1, <1>3, QuietStep DEF ImportByOrdinal
<1>4. CASE ReadImports
  BY <1>1, <1>4, QuietStep DEF ReadImports
<1>5. CASE SkipDll
  BY <1>1, <1>5, QuietStep DEF SkipDll
<1>6. CASE StartDll
  BY <1>6, StartDllInv
<1>7. CASE MapDllSection
  BY <1>7, MapDllSectionInv
<1>8. CASE EndDll
  BY <1>1, <1>8, QuietStep DEF EndDll
<1>9. CASE LinkRuntime
  BY <1>9, LinkRuntimeInv
<1>10. CASE MapExeSection
  BY <1>10, MapExeSectionInv
<1>11. CASE EndExe
  BY <1>1, <1>11, QuietStep DEF EndExe
<1>12. CASE SectionThrows
  BY <1>1, <1>12, QuietStep DEF SectionThrows
<1>13. CASE UNCHANGED vars
  BY <1>13 DEF vars, inputs, guest, Inv, TypeOK, BasesOK, ImagesOK, DllsDisjoint
<1> QED
  BY <1>2, <1>3, <1>4, <1>5, <1>6, <1>7, <1>8, <1>9, <1>10, <1>11, <1>12, <1>13 DEF Next

LEMMA Invariance == Spec => []Inv
  BY InitInv, NextInv, PTL DEF Spec

-----------------------------------------------------------------------------
(* Where a section is read from *)

(* the least of some positions *)
LEMMA LeastPosition ==
  ASSUME NEW S, S \subseteq Nat, S # {}
  PROVE  Min(S) \in S /\ \A y \in S : Min(S) <= y
BY Least DEF Min

LEMMA SectionTypes ==
  ASSUME NEW img \in Images
  PROVE  /\ img.sections \in Seq(Section) /\ img.size \in Nat
         /\ DOMAIN img.sections = 1 .. Len(img.sections) /\ Len(img.sections) \in Nat
         /\ \A i \in DOMAIN img.sections :
              /\ img.sections[i].va \in Nat /\ img.sections[i].raw \in Nat
              /\ img.sections[i].ptr \in Nat
         /\ \A i, j \in DOMAIN img.sections :
              i < j => img.sections[i].va + img.sections[i].raw <= img.sections[j].va
<1> DEFINE secs == img.sections
<1>1. Laid(img)
  BY ImageAssumption DEF Images
<1>2. secs \in Seq(Section) /\ img.size \in Nat
  BY <1>1 DEF Laid
<1>3. DOMAIN secs = 1 .. Len(secs) /\ Len(secs) \in Nat /\ \A i \in DOMAIN secs : secs[i] \in Section
  BY <1>2
<1>4. \A i \in DOMAIN secs : secs[i].va \in Nat /\ secs[i].raw \in Nat /\ secs[i].ptr \in Nat
  BY <1>3 DEF Section
<1> QED
  BY <1>1, <1>2, <1>3, <1>4 DEF Laid

(* An address of a section is found by the first section that covers it. *)
LEMMA AddressFound ==
  ASSUME NEW img \in Images, NEW i \in DOMAIN img.sections, NEW rva \in Nat,
         Covers(img.sections[i], rva)
  PROVE  \E j \in DOMAIN img.sections :
           /\ j <= i /\ Covers(img.sections[j], rva)
           /\ rva_to_foa(img, rva) = rva - img.sections[j].va + img.sections[j].ptr
<1> DEFINE secs == img.sections
           I == {j \in 1 .. Len(secs) : Covers(secs[j], rva)}
           j == Min(I)
<1>1. DOMAIN secs = 1 .. Len(secs) /\ Len(secs) \in Nat
  BY SectionTypes
<1>2. i \in I
  BY <1>1
<1>3. j \in I /\ j <= i
  <2>1. I \subseteq Nat
    BY <1>1, SMT
  <2> HIDE DEF I
  <2> QED
    BY <1>2, <2>1, LeastPosition
<1>4. rva_to_foa(img, rva) = rva - secs[j].va + secs[j].ptr
  <2>1. rva_to_foa(img, rva) =
          LET first == IF I # {} THEN j ELSE 0
          IN  IF first = 0 THEN -1 ELSE rva - secs[first].va + secs[first].ptr
    BY DEF rva_to_foa, SelectInSeq
  <2>2. j # 0
    BY <1>1, <1>3, SMT
  <2> HIDE DEF j, I
  <2> QED
    BY <1>2, <2>1, <2>2
<1>5. j \in DOMAIN secs /\ Covers(secs[j], rva)
  BY <1>1, <1>3
<1> QED
  BY <1>3, <1>4, <1>5

(* An address in a section is found at its place in the file, unless the   *)
(* section is read elsewhere.                                              *)
LEMMA AddressOffset ==
  ASSUME NEW img \in Images, NEW i \in DOMAIN img.sections, ~Misplaced(img, i), NEW rva \in Nat,
         img.sections[i].va <= rva, rva < img.sections[i].va + img.sections[i].raw
             \/ rva = img.sections[i].va
  PROVE  rva_to_foa(img, rva) = rva - img.sections[i].va + img.sections[i].ptr
<1> DEFINE secs == img.sections
           vi == secs[i].va
           ri == secs[i].raw
           qi == secs[i].ptr
<1>1. /\ DOMAIN secs = 1 .. Len(secs) /\ Len(secs) \in Nat
      /\ \A k \in DOMAIN secs : secs[k].va \in Nat /\ secs[k].raw \in Nat /\ secs[k].ptr \in Nat
      /\ \A k, l \in DOMAIN secs : k < l => secs[k].va + secs[k].raw <= secs[l].va
  BY SectionTypes
<1>2. vi \in Nat /\ ri \in Nat /\ qi \in Nat /\ vi <= rva /\ (rva < vi + ri \/ rva = vi)
  BY <1>1
<1>3. Covers(secs[i], rva)
  <2>1. rva >= vi /\ rva <= vi + ri
    <3> HIDE DEF vi, ri
    <3> QED
      BY <1>2, SMT
  <2> QED
    BY <2>1 DEF Covers
<1>4. PICK j \in DOMAIN secs :
        /\ j <= i /\ Covers(secs[j], rva)
        /\ rva_to_foa(img, rva) = rva - secs[j].va + secs[j].ptr
  BY <1>3, AddressFound
<1>5. CASE j = i
  BY <1>4, <1>5
<1>6. CASE j # i
  <2> DEFINE vj == secs[j].va
             rj == secs[j].raw
             pj == secs[j].ptr
  <2>1. j < i /\ j \in 1 .. i - 1
    BY <1>1, <1>4, <1>6, SMT
  <2>2. vj \in Nat /\ rj \in Nat /\ pj \in Nat /\ vj + rj <= vi
    BY <1>1, <2>1
  <2>3. rva <= vj + rj
    BY <1>4 DEF Covers
  <2>4. vj + rj = vi /\ rva = vi
    <3> HIDE DEF vj, rj, vi, ri
    <3> QED
      BY <1>2, <2>2, <2>3, SMT
  <2>5. pj + rj = qi
    BY <2>1, <2>4 DEF Misplaced
  <2>6. rva_to_foa(img, rva) = rva - vj + pj
    BY <1>4
  <2> HIDE DEF vj, rj, pj, vi, qi, secs
  <2>7. rva - vj + pj = rva - vi + qi
    BY <1>2, <2>2, <2>4, <2>5, SMT
  <2> QED
    BY <2>6, <2>7 DEF vi, qi, secs
<1> QED
  BY <1>5, <1>6

(* A section is found at its own offset unless it is read elsewhere: only  *)
(* one that ends where it begins could be found before it.                 *)
LEMMA SectionOffset ==
  ASSUME NEW img \in Images, NEW i \in DOMAIN img.sections, ~Misplaced(img, i)
  PROVE  get_pe_sections(img)[i].file_off = img.sections[i].ptr
<1> DEFINE v == img.sections[i].va
           p == img.sections[i].ptr
<1>1. v \in Nat /\ p \in Nat
  BY SectionTypes
<1>2. get_pe_sections(img)[i].file_off = rva_to_foa(img, v)
  BY DEF get_pe_sections
<1>3. rva_to_foa(img, v) = v - v + p
  <2>1. v <= v
    BY <1>1, SMT
  <2> QED
    BY <1>1, <2>1, AddressOffset
<1> HIDE DEF v, p
<1> QED
  BY <1>1, <1>2, <1>3, SMT DEF p

(* where the section is read from is a number, not always the right one *)
LEMMA OffsetType ==
  ASSUME NEW img \in Images, NEW i \in DOMAIN img.sections
  PROVE  get_pe_sections(img)[i].file_off \in Int
<1> DEFINE vi == img.sections[i].va
<1>1. vi \in Nat /\ Covers(img.sections[i], vi)
  BY SectionTypes, SMT DEF Covers
<1>2. PICK j \in DOMAIN img.sections :
        rva_to_foa(img, vi) = vi - img.sections[j].va + img.sections[j].ptr
  BY <1>1, AddressFound
<1>3. get_pe_sections(img)[i].file_off = rva_to_foa(img, vi)
  BY DEF get_pe_sections
<1> DEFINE vj == img.sections[j].va
           pj == img.sections[j].ptr
<1>4. vj \in Nat /\ pj \in Nat
  BY SectionTypes
<1> HIDE DEF vi, vj, pj
<1>5. vi - vj + pj \in Int
  BY <1>1, <1>4, SMT
<1> QED
  BY <1>2, <1>3, <1>5 DEF vi, vj, pj
-----------------------------------------------------------------------------
(***************************************************************************)
(* The second invariant.  While the sections of a file are mapped, those   *)
(* that remain are its own, in order, and above those that are mapped.     *)
(* Of the ones that are mapped every byte is held, and a byte has the      *)
(* permission of the one section it is in: a later section overlaps only   *)
(* if it is the program's and the earlier one a DLL's.                     *)
(***************************************************************************)

Mapping == phase \in {"dll_sections", "exe_sections"}
File == IF phase = "dll_sections" THEN Head(imported_dlls) ELSE Exe
Base == IF phase = "dll_sections" THEN dll_base ELSE 0

FilesOK ==
  /\ phase = "dll_sections" => imported_dlls # <<>> /\ Head(imported_dlls) \in DllNames
  /\ \A t \in loaded :
       /\ t.file \in DllNames \cup {Exe} /\ (t.file = Exe <=> t.image = 0)
       /\ t.base \in Nat
       /\ Mapping /\ t.image = image => t.file = File /\ t.base = Base

BinaryOK ==
  /\ DOMAIN binary = 0 .. exe.size - 1
  /\ \A o \in DOMAIN binary : binary[o] = FileByte(Exe, o) \/ InSlot(o)

Remains(i) == \E k \in DOMAIN sections : sections[k] = get_pe_sections(ImageOf(File))[i]
RemainingOK ==
  Mapping =>
    /\ \A k \in DOMAIN sections :
         \E i \in DOMAIN ImageOf(File).sections : sections[k] = get_pe_sections(ImageOf(File))[i]
    /\ \A j, k \in DOMAIN sections :
         j < k => sections[j].virt_addr + sections[j].mem_size <= sections[k].virt_addr
    /\ \A t \in loaded, k \in DOMAIN sections :
         t.image = image => t.end <= Base + sections[k].virt_addr

(* the section that a byte has its permission from *)
InSection(a, t, i) ==
  LET sec == ImageOf(t.file).sections[i]
  IN  a \in Span(t.base + sec.va, sec.raw) /\ permission[a] = sec.perm
Owns(t, a) == Within(a, t) /\ (OfExe(a) => t.image = 0)

PermissionsOK ==
  \A a \in Addr :
    /\ (\A t \in loaded : ~Within(a, t)) => permission[a] = {}
    /\ \A t \in loaded : Owns(t, a) => \E i \in DOMAIN ImageOf(t.file).sections : InSection(a, t, i)

ByteHeld(file, base, i, k) ==
  LET img == ImageOf(file)
      sec == img.sections[i]
      a == base + sec.va + k
  IN  \/ memory[a] = FileByte(file, sec.ptr + k)
      \/ sec.ptr + k >= img.size
      \/ Misplaced(img, i)
      \/ file # Exe /\ OfExe(a)
      \/ file = Exe /\ InSlot(sec.ptr + k)

EntryOf(t, file, base, i) ==
  LET sec == ImageOf(file).sections[i]
  IN  t.file = file /\ t.base = base /\ t.first = base + sec.va /\ t.end = t.first + sec.raw

Held(file, base, i) ==
  /\ \E t \in loaded : EntryOf(t, file, base, i)
  /\ \A k \in 0 .. ImageOf(file).sections[i].raw - 1 : ByteHeld(file, base, i, k)

HeldOK ==
  phase # "terminated" =>
    /\ \A t \in loaded : (Mapping => t.image # image) =>
         \A i \in DOMAIN ImageOf(t.file).sections : Held(t.file, t.base, i)
    /\ Mapping => \A i \in DOMAIN ImageOf(File).sections : Held(File, Base, i) \/ Remains(i)

BytesInv == FilesOK /\ BinaryOK /\ RemainingOK /\ PermissionsOK /\ HeldOK

LEMMA ImageType ==
  ASSUME TypeOK, NEW file \in DllNames \cup {Exe}
  PROVE  ImageOf(file) \in Images
BY DEF TypeOK, ImageOf, Images

(* what the loader keeps of a section *)
LEMMA SectionRead ==
  ASSUME NEW img \in Images
  PROVE  /\ DOMAIN get_pe_sections(img) = DOMAIN img.sections
         /\ \A i \in DOMAIN img.sections :
              LET s == get_pe_sections(img)[i]
              IN  /\ s.virt_addr = img.sections[i].va /\ s.mem_size = img.sections[i].raw
                  /\ s.permission = img.sections[i].perm
BY DEF get_pe_sections

LEMMA InitBytes == Init => BytesInv
<1> SUFFICES ASSUME Init PROVE BytesInv
  OBVIOUS
<1>1. phase = "imports" /\ loaded = {} /\ ~Mapping
  BY DEF Init, Mapping
<1>2. FilesOK /\ RemainingOK /\ HeldOK
  BY <1>1 DEF FilesOK, RemainingOK, HeldOK
<1>3. PermissionsOK
  BY <1>1 DEF Init, PermissionsOK
<1>4. BinaryOK
  BY DEF Init, BinaryOK
<1> QED
  BY <1>2, <1>3, <1>4 DEF BytesInv

-----------------------------------------------------------------------------
(* Steps that map nothing *)

LEMMA SameBytes ==
  ASSUME UNCHANGED <<inputs, guest, loaded>>
  PROVE  /\ \A file, base, i : Held(file, base, i)' <=> Held(file, base, i)
         /\ \A file : ImageOf(file)' = ImageOf(file)
         /\ PermissionsOK' <=> PermissionsOK
         /\ \A o : InSlot(o)' <=> InSlot(o)
<1> USE DEF inputs, guest
<1>1. \A file : ImageOf(file)' = ImageOf(file)
  BY DEF ImageOf
<1>2. \A o : InSlot(o)' <=> InSlot(o)
  BY DEF InSlot
<1>3. \A a : OfExe(a)' <=> OfExe(a)
  BY DEF OfExe, Within
<1>4. \A file, base, i, k : ByteHeld(file, base, i, k)' <=> ByteHeld(file, base, i, k)
  BY <1>1, <1>2, <1>3 DEF ByteHeld
<1>5. \A file, base, i : Held(file, base, i)' <=> Held(file, base, i)
  BY <1>1, <1>4 DEF Held, EntryOf
<1>6. PermissionsOK' <=> PermissionsOK
  BY <1>1, <1>3 DEF PermissionsOK, InSection, Owns, Within
<1> QED
  BY <1>1, <1>2, <1>5, <1>6

(* Steps after which no file is being mapped, and all are mapped entirely. *)
LEMMA QuietBytes ==
  ASSUME BytesInv, UNCHANGED <<inputs, guest, loaded, binary>>,
         phase' \notin {"dll_sections", "exe_sections"},
         phase' = "terminated" \/ (phase # "terminated" /\ (~Mapping \/ sections = <<>>))
  PROVE  BytesInv'
<1>1. /\ \A file, base, i : Held(file, base, i)' <=> Held(file, base, i)
      /\ \A file : ImageOf(file)' = ImageOf(file)
      /\ PermissionsOK' <=> PermissionsOK
      /\ \A o : InSlot(o)' <=> InSlot(o)
  BY SameBytes
<1>2. ~Mapping' /\ loaded' = loaded /\ binary' = binary /\ exe' = exe
  BY DEF Mapping, inputs
<1>3. FilesOK' /\ RemainingOK' /\ PermissionsOK' /\ BinaryOK'
  BY <1>1, <1>2 DEF BytesInv, FilesOK, RemainingOK, BinaryOK, Mapping
<1>4. HeldOK'
  <2> SUFFICES ASSUME phase' # "terminated", NEW t \in loaded, NEW i \in DOMAIN ImageOf(t.file).sections
               PROVE  Held(t.file, t.base, i)
    BY <1>1, <1>2 DEF HeldOK
  <2>1. CASE Mapping => t.image # image
    BY <2>1 DEF BytesInv, HeldOK
  <2>2. CASE Mapping /\ t.image = image
    <3>1. t.file = File /\ t.base = Base
      BY <2>2 DEF BytesInv, FilesOK
    <3>2. ~Remains(i)
      BY <2>2 DEF Remains
    <3> QED
      BY <2>2, <3>1, <3>2 DEF BytesInv, HeldOK
  <2> QED
    BY <2>1, <2>2
<1> QED
  BY <1>3, <1>4 DEF BytesInv

(* Steps after which the sections of another file are to be mapped. *)
LEMMA StartFile ==
  ASSUME BytesInv, UNCHANGED <<inputs, guest, loaded>>, ~Mapping, phase # "terminated",
         NEW img \in Images, sections' = get_pe_sections(img), ImageOf(File)' = img, BinaryOK',
         phase' = "dll_sections" => imported_dlls' # <<>> /\ Head(imported_dlls') \in DllNames,
         \A t \in loaded : t.image # image'
  PROVE  BytesInv'
<1>1. /\ \A file, base, i : Held(file, base, i)' <=> Held(file, base, i)
      /\ \A file : ImageOf(file)' = ImageOf(file)
      /\ PermissionsOK' <=> PermissionsOK
  BY SameBytes
<1>2. loaded' = loaded
  OBVIOUS
<1>3. FilesOK' /\ PermissionsOK'
  BY <1>1, <1>2 DEF BytesInv, FilesOK
<1>4. DOMAIN sections' = DOMAIN img.sections
  BY SectionRead
<1>5. RemainingOK'
  <2>1. \A j, k \in DOMAIN sections' :
          j < k => sections'[j].virt_addr + sections'[j].mem_size <= sections'[k].virt_addr
    BY <1>4, SectionRead, SectionTypes
  <2> QED
    BY <1>2, <1>4, <2>1 DEF RemainingOK
<1>6. HeldOK'
  <2>1. \A t \in loaded : \A i \in DOMAIN ImageOf(t.file).sections : Held(t.file, t.base, i)
    BY DEF BytesInv, HeldOK
  <2>2. \A i \in DOMAIN img.sections : Remains(i)'
    BY <1>4 DEF Remains
  <2> QED
    BY <1>1, <1>2, <2>1, <2>2 DEF HeldOK
<1> QED
  BY <1>3, <1>5, <1>6 DEF BytesInv

LEMMA StartDllBytes == Inv /\ BytesInv /\ StartDll => BytesInv'
<1> SUFFICES ASSUME Inv, BytesInv, StartDll PROVE BytesInv'
  OBVIOUS
<1> DEFINE dll == Head(imported_dlls)
<1>1. /\ phase = "dlls" /\ phase' = "dll_sections" /\ imported_dlls # <<>> /\ image' = image + 1
      /\ UNCHANGED <<inputs, guest, loaded, imported_dlls, binary>>
      /\ dll \in DllNames /\ sections' = get_pe_sections(disk[dll])
  BY DEF StartDll, Usable
<1>2. ~Mapping /\ phase # "terminated"
  BY <1>1 DEF Mapping
<1>3. dll # Exe
  BY <1>1, SizeAssumption
<1>4. ImageOf(dll) \in Images /\ ImageOf(dll) = disk[dll] /\ ImageOf(File)' = disk[dll]
  BY <1>1, <1>3, ImageType DEF ImageOf, File, Inv, inputs
<1>5. BinaryOK'
  BY <1>1 DEF BytesInv, BinaryOK, InSlot, inputs
<1>6. \A t \in loaded : t.image # image + 1
  BY <1>1, SMT DEF Inv, ImagesOK, TypeOK
<1> QED
  BY <1>1, <1>2, <1>4, <1>5, <1>6, StartFile

(* The linker writes over the slots of the program's file only. *)
LEMMA LinkRuntimeBytes == Inv /\ BytesInv /\ LinkRuntime => BytesInv'
<1> SUFFICES ASSUME Inv, BytesInv, LinkRuntime PROVE BytesInv'
  OBVIOUS
<1>1. /\ phase = "dlls" /\ phase' = "exe_sections" /\ image' = 0
      /\ UNCHANGED <<inputs, guest, loaded, imported_dlls>>
      /\ sections' = get_pe_sections(exe)
  BY DEF LinkRuntime
<1>2. ~Mapping /\ phase # "terminated"
  BY <1>1 DEF Mapping
<1>3. ImageOf(Exe) \in Images /\ ImageOf(Exe) = exe /\ ImageOf(File)' = exe
  BY <1>1, ImageType DEF ImageOf, File, Inv, inputs
<1>4. BinaryOK'
  <2>1. PICK resolved \in [Slots(exe) -> UNION {get_function_address(s.name) : s \in Slots(exe)}] :
          binary' = Patched(resolved)
    BY DEF LinkRuntime
  <2>2. DOMAIN resolved = Slots(exe)
    OBVIOUS
  <2>3. DOMAIN binary' = DOMAIN binary
    BY <2>1 DEF Patched
  <2>4. \A o \in DOMAIN binary : binary'[o] = binary[o] \/ InSlot(o)
    BY <2>1, <2>2, Zenon DEF Patched, InSlot
  <2> QED
    BY <1>1, <2>3, <2>4 DEF BytesInv, BinaryOK, InSlot, inputs
<1>5. \A t \in loaded : t.image # 0
  BY <1>1, SMT DEF Inv, ImagesOK, TypeOK
<1> QED
  BY <1>1, <1>2, <1>3, <1>4, <1>5, StartFile

-----------------------------------------------------------------------------
(* A section is mapped *)

(* the file whose bytes are copied: the program's as the linker left it *)
ContentOK(content) ==
  /\ DOMAIN content = 0 .. ImageOf(File).size - 1
  /\ \A o \in DOMAIN content : content[o] = FileByte(File, o) \/ (File = Exe /\ InSlot(o))

MapStep(content) ==
  /\ Inv /\ BytesInv /\ Mapping /\ sections # <<>>
  /\ MapSection(File, Base, Head(sections), content) /\ ContentOK(content)
  /\ sections' = Tail(sections)
  /\ UNCHANGED <<inputs, phase, imported_dlls, image, dll_base, binary>>

First == Base + Head(sections).virt_addr
NewEntry == [image |-> image, file |-> File, base |-> Base, first |-> First,
             end |-> First + Head(sections).mem_size]
NewBytes == Span(First, Head(sections).mem_size)

(* The new section is one of the file's, and overlaps only a DLL, if it is *)
(* the program's.                                                          *)
LEMMA NewSection ==
  ASSUME NEW content, MapStep(content)
  PROVE  /\ Base \in Nat /\ First \in Nat /\ Head(sections).mem_size \in Nat
         /\ ImageOf(File) \in Images /\ File \in DllNames \cup {Exe} /\ (File = Exe <=> image = 0)
         /\ loaded' = loaded \cup {NewEntry}
         /\ \E i \in DOMAIN ImageOf(File).sections : Head(sections) = get_pe_sections(ImageOf(File))[i]
         /\ \A a \in Nat : a \in NewBytes <=> Within(a, NewEntry)
         /\ \A t \in loaded, a \in NewBytes : Within(a, t) => File = Exe /\ t.image # 0
         /\ File' = File /\ Base' = Base /\ Mapping' /\ \A file : ImageOf(file)' = ImageOf(file)
         /\ \A o : InSlot(o)' <=> InSlot(o)
<1> DEFINE s == Head(sections)
<1> USE DEF MapStep
<1>1. Inv /\ BytesInv /\ TypeOK /\ FilesOK /\ RemainingOK /\ ImagesOK
  BY DEF Inv, BytesInv
<1>2. s \in MappedSections /\ 1 \in DOMAIN sections /\ sections[1] = s
  BY HeadTailProperties DEF Inv, BasesOK
<1>3. s.virt_addr \in Nat /\ s.mem_size \in Nat
  BY <1>2, SectionsRead
<1>4. Base \in Nat
  BY <1>1 DEF Base, TypeOK
<1>5. First \in Nat
  BY <1>3, <1>4, SMT DEF First
<1>6. File \in DllNames \cup {Exe} /\ (File = Exe <=> image = 0)
  BY <1>1, SizeAssumption, SMT DEF File, FilesOK, ImagesOK, Mapping
<1>7. ImageOf(File) \in Images
  BY <1>1, <1>6, ImageType
<1>8. loaded' = loaded \cup {NewEntry}
  BY DEF MapSection, NewEntry, First
<1>9. \E i \in DOMAIN ImageOf(File).sections : s = get_pe_sections(ImageOf(File))[i]
  BY <1>1, <1>2 DEF RemainingOK
<1>10. \A a \in Nat : a \in NewBytes <=> Within(a, NewEntry)
  <2> DEFINE f == First
             m == s.mem_size
  <2>1. NewEntry.first = f /\ NewEntry.end = f + m /\ NewBytes = f .. f + m - 1
    BY DEF NewEntry, NewBytes, Span
  <2>2. f \in Nat /\ m \in Nat
    BY <1>3, <1>5
  <2> HIDE DEF f, m
  <2> QED
    BY <2>1, <2>2, SMT DEF Within
<1>11. ASSUME NEW t \in loaded, NEW a \in NewBytes, Within(a, t)
       PROVE  File = Exe /\ t.image # 0
  <2>1. a \in Nat /\ First <= a
    BY <1>3, <1>5, SMT DEF NewBytes, Span
  <2>2. t.image \in Nat /\ t.end \in Nat /\ image \in Nat
    BY <1>1 DEF TypeOK
  <2>3. t.image # image
    <3> SUFFICES ASSUME t.image = image PROVE FALSE
      OBVIOUS
    <3>1. t.end <= First
      BY <1>1, <1>2 DEF RemainingOK, First
    <3> QED
      BY <1>5, <1>11, <2>1, <2>2, <3>1, SMT DEF Within
  <2>4. CASE phase = "dll_sections"
    <3>1. t.image < image
      BY <1>1, <2>2, <2>3, <2>4, SMT DEF ImagesOK
    <3>2. t.end <= dll_base /\ Base = dll_base
      BY <1>1, <2>4, <3>1 DEF ImagesOK, Base
    <3> DEFINE v == s.virt_addr
    <3>3. First = Base + v /\ v \in Nat
      BY <1>3 DEF First
    <3> HIDE DEF v
    <3> QED
      BY <1>4, <1>11, <2>1, <2>2, <3>2, <3>3, SMT DEF Within
  <2>5. CASE phase = "exe_sections"
    BY <1>1, <2>3, <2>5 DEF ImagesOK, File
  <2> QED
    BY <2>4, <2>5 DEF Mapping
<1>12. File' = File /\ Base' = Base /\ Mapping' /\ \A file : ImageOf(file)' = ImageOf(file)
  BY DEF File, Base, Mapping, ImageOf, inputs
<1>13. \A o : InSlot(o)' <=> InSlot(o)
  BY DEF InSlot, inputs
<1> QED
  BY <1>3, <1>4, <1>5, <1>6, <1>7, <1>8, <1>9, <1>10, <1>11, <1>12, <1>13

(* the bytes of the file from the section on *)
LEMMA DataLeft ==
  ASSUME NEW content, MapStep(content)
  PROVE  LET left == Cardinality(DOMAIN content) - Head(sections).file_off
         IN  left = ImageOf(File).size - Head(sections).file_off /\ left \in Int
<1> DEFINE size == ImageOf(File).size
           off == Head(sections).file_off
<1>1. /\ ImageOf(File) \in Images
      /\ \E i \in DOMAIN ImageOf(File).sections : Head(sections) = get_pe_sections(ImageOf(File))[i]
  BY NewSection
<1>2. size \in Nat /\ off \in Int
  BY <1>1, SectionTypes, OffsetType
<1>3. DOMAIN content = 0 .. size - 1
  BY DEF MapStep, ContentOK
<1> HIDE DEF size, off
<1>4. Cardinality(0 .. size - 1) = IF 0 > size - 1 THEN 0 ELSE size - 1 - 0 + 1
  <2>1. 0 \in Int /\ size - 1 \in Int
    BY <1>2, SMT
  <2> QED
    BY <2>1, FS_Interval
<1>5. Cardinality(DOMAIN content) = size
  BY <1>2, <1>3, <1>4, SMT
<1> QED
  BY <1>2, <1>5, SMT DEF size, off

(* A byte outside keeps its value and its permission; one inside has the   *)
(* permission of the section.                                              *)
LEMMA OtherBytes ==
  ASSUME NEW content, MapStep(content), NEW a \in Addr
  PROVE  /\ a \notin NewBytes => memory'[a] = memory[a] /\ permission'[a] = permission[a]
         /\ a \in NewBytes => permission'[a] = Head(sections).permission
         /\ OfExe(a)' <=> OfExe(a) \/ (File = Exe /\ a \in NewBytes)
<1> DEFINE s == Head(sections)
           data == Data(content, s)
<1>1. /\ First \in Nat /\ s.mem_size \in Nat /\ loaded' = loaded \cup {NewEntry}
      /\ (File = Exe <=> image = 0)
      /\ \A b \in Nat : b \in NewBytes <=> Within(b, NewEntry)
  BY NewSection
<1>2. /\ memory' = [b \in Addr |-> IF b - First \in DOMAIN data THEN data[b - First] ELSE memory[b]]
      /\ permission' = Protect(First, s)
  BY DEF MapStep, MapSection, First
<1>3. a \in Nat
  BY SizeAssumption, SMT DEF Addr
<1>4. ASSUME a \notin NewBytes PROVE a - First \notin DOMAIN data
  <2> DEFINE n == s.mem_size
             left == Cardinality(DOMAIN content) - s.file_off
             top == (IF n <= left THEN n ELSE left) - 1
  <2>1. DOMAIN data = 0 .. top
    BY DEF Data
  <2>2. a \notin First .. First + n - 1
    BY <1>4 DEF NewBytes, Span
  <2> HIDE DEF n, left
  <2>3. n \in Nat
    BY <1>1 DEF n
  <2> SUFFICES ASSUME a - First \in 0 .. top PROVE FALSE
    BY <2>1
  <2>4. CASE n <= left
    BY <1>1, <1>3, <2>2, <2>3, <2>4, SMT
  <2>5. CASE ~(n <= left)
    <3>1. left \in Int
      BY DataLeft DEF left
    <3> QED
      BY <1>1, <1>3, <2>2, <2>3, <2>5, <3>1, SMT
  <2> QED
    BY <2>4, <2>5
<1>5. a \notin NewBytes => memory'[a] = memory[a] /\ permission'[a] = permission[a]
  BY <1>2, <1>4 DEF Protect, NewBytes
<1>6. a \in NewBytes => permission'[a] = s.permission
  BY <1>2 DEF Protect, NewBytes
<1>7. OfExe(a)' <=> OfExe(a) \/ (File = Exe /\ a \in NewBytes)
  <2>1. NewEntry.image = image
    BY DEF NewEntry
  <2> HIDE DEF NewEntry, NewBytes
  <2>2. \A t : Within(a, t)' <=> Within(a, t)
    BY DEF Within
  <2>3. OfExe(a)' <=> \E t \in loaded' : t.image = 0 /\ Within(a, t)
    BY DEF OfExe, Within
  <2> QED
    BY <1>1, <1>3, <2>1, <2>3 DEF OfExe
<1> QED
  BY <1>5, <1>6, <1>7

LEMMA MapStepPermissions ==
  ASSUME NEW content, MapStep(content)
  PROVE  PermissionsOK'
<1> DEFINE s == Head(sections)
<1>1. /\ First \in Nat /\ s.mem_size \in Nat /\ loaded' = loaded \cup {NewEntry}
      /\ (File = Exe <=> image = 0) /\ ImageOf(File) \in Images
      /\ \A t \in loaded, a \in NewBytes : Within(a, t) => File = Exe /\ t.image # 0
      /\ \A b \in Nat : b \in NewBytes <=> Within(b, NewEntry)
      /\ \A file : ImageOf(file)' = ImageOf(file)
  BY NewSection
<1>2. PICK i \in DOMAIN ImageOf(File).sections : s = get_pe_sections(ImageOf(File))[i]
  BY NewSection
<1>3. NewEntry.image = image /\ NewEntry.file = File /\ NewEntry.base = Base
  BY DEF NewEntry
<1> SUFFICES ASSUME NEW a \in Addr
             PROVE  /\ (\A t \in loaded' : ~Within(a, t)) => permission'[a] = {}
                    /\ \A t \in loaded' : Owns(t, a)' =>
                         \E j \in DOMAIN ImageOf(t.file).sections : InSection(a, t, j)'
  BY <1>1 DEF PermissionsOK, Within
<1>4. /\ a \notin NewBytes => permission'[a] = permission[a]
      /\ a \in NewBytes => permission'[a] = s.permission
      /\ OfExe(a)' <=> OfExe(a) \/ (File = Exe /\ a \in NewBytes)
  BY OtherBytes
<1>5. a \in Nat
  BY SizeAssumption, SMT DEF Addr
<1>6. PermissionsOK
  BY DEF MapStep, BytesInv
<1> HIDE DEF NewEntry, NewBytes
<1>7. ASSUME \A t \in loaded' : ~Within(a, t) PROVE permission'[a] = {}
  <2>1. a \notin NewBytes
    BY <1>1, <1>5, <1>7
  <2> QED
    BY <1>1, <1>4, <1>6, <1>7, <2>1 DEF PermissionsOK
<1>8. ASSUME NEW t \in loaded', Owns(t, a)'
      PROVE  \E j \in DOMAIN ImageOf(t.file).sections : InSection(a, t, j)'
  <2>1. Within(a, t) /\ (OfExe(a)' => t.image = 0)
    BY <1>8 DEF Owns, Within
  <2>2. CASE t = NewEntry
    <3>1. a \in NewBytes
      BY <1>1, <1>5, <2>1, <2>2
    <3> DEFINE sec == ImageOf(File).sections[i]
    <3>2. s.virt_addr = sec.va /\ s.mem_size = sec.raw /\ s.permission = sec.perm
      BY <1>1, <1>2, SectionRead
    <3>3. NewBytes = Span(Base + sec.va, sec.raw)
      BY <3>2 DEF NewBytes, First
    <3>4. permission'[a] = sec.perm
      BY <1>4, <3>1, <3>2
    <3> HIDE DEF sec
    <3>5. InSection(a, t, i)'
      BY <1>1, <1>3, <2>2, <3>1, <3>3, <3>4 DEF InSection, sec
    <3> QED
      BY <1>3, <2>2, <3>5
  <2>3. CASE t \in loaded
    <3>1. a \notin NewBytes
      BY <1>1, <1>4, <2>1, <2>3
    <3>2. Owns(t, a)
      BY <1>4, <2>1 DEF Owns
    <3>3. PICK j \in DOMAIN ImageOf(t.file).sections : InSection(a, t, j)
      BY <1>6, <2>3, <3>2 DEF PermissionsOK
    <3>4. InSection(a, t, j)'
      BY <1>1, <1>4, <3>1, <3>3 DEF InSection
    <3> QED
      BY <3>4
  <2> QED
    BY <1>1, <2>2, <2>3
<1> QED
  BY <1>7, <1>8

(* What is held stays held, unless the program is mapped over it. *)
LEMMA StaysHeld ==
  ASSUME NEW content, MapStep(content), NEW file \in DllNames \cup {Exe}, NEW base \in Nat,
         NEW i \in DOMAIN ImageOf(file).sections, Held(file, base, i)
  PROVE  Held(file, base, i)'
<1> DEFINE img == ImageOf(file)
           sec == img.sections[i]
<1>1. /\ loaded' = loaded \cup {NewEntry}
      /\ \A t \in loaded, a \in NewBytes : Within(a, t) => File = Exe /\ t.image # 0
      /\ \A f : ImageOf(f)' = ImageOf(f)
      /\ \A o : InSlot(o)' <=> InSlot(o)
  BY NewSection
<1>2. img \in Images
  BY ImageType DEF MapStep, Inv
<1>3. sec.va \in Nat /\ sec.raw \in Nat
  BY <1>2, SectionTypes
<1>4. PICK t \in loaded : EntryOf(t, file, base, i)
  BY DEF Held
<1>5. EntryOf(t, file, base, i)'
  BY <1>1, <1>4 DEF EntryOf
<1>6. ASSUME NEW k \in 0 .. sec.raw - 1 PROVE ByteHeld(file, base, i, k)'
  <2>0. PICK a : a = base + sec.va + k
    OBVIOUS
  <2>1. ByteHeld(file, base, i, k)
    BY <1>6 DEF Held
  <2>2. Within(a, t)
    <3>1. t.first = base + sec.va /\ t.end = t.first + sec.raw
      BY <1>4 DEF EntryOf
    <3> DEFINE v == sec.va
               r == sec.raw
    <3>2. t.first = base + v /\ t.end = base + v + r /\ v \in Nat /\ r \in Nat /\ k \in 0 .. r - 1
          /\ a = base + v + k
      BY <1>3, <2>0, <3>1
    <3> HIDE DEF v, r
    <3> QED
      BY <3>2, SMT DEF Within
  <2>3. a \in Addr
    <3>1. t.first \in Nat /\ t.end \in Nat /\ t.end <= Size
      BY DEF MapStep, Inv, TypeOK
    <3>2. a \in Nat
      BY <1>3, <2>0, SMT
    <3> QED
      BY <2>2, <3>1, <3>2, SizeAssumption, SMT DEF Within, Addr
  <2>4. /\ a \notin NewBytes => memory'[a] = memory[a]
        /\ OfExe(a)' <=> OfExe(a) \/ (File = Exe /\ a \in NewBytes)
    BY <2>3, OtherBytes
  <2>5. t.file = file /\ (t.file = Exe <=> t.image = 0)
    BY <1>4 DEF EntryOf, MapStep, BytesInv, FilesOK
  <2>6. ByteHeld(file, base, i, k) <=>
          \/ memory[a] = FileByte(file, sec.ptr + k)
          \/ sec.ptr + k >= img.size
          \/ Misplaced(img, i)
          \/ file # Exe /\ OfExe(a)
          \/ file = Exe /\ InSlot(sec.ptr + k)
    BY <2>0 DEF ByteHeld
  <2>7. ByteHeld(file, base, i, k)' <=>
          \/ memory'[a] = FileByte(file, sec.ptr + k)
          \/ sec.ptr + k >= img.size
          \/ Misplaced(img, i)
          \/ file # Exe /\ OfExe(a)'
          \/ file = Exe /\ InSlot(sec.ptr + k)
    BY <1>1, <2>0 DEF ByteHeld
  <2>8. CASE a \in NewBytes
    <3>1. File = Exe /\ t.image # 0
      BY <1>1, <2>2, <2>8
    <3> QED
      BY <2>4, <2>5, <2>7, <2>8, <3>1
  <2>9. CASE a \notin NewBytes
    BY <2>1, <2>4, <2>6, <2>7, <2>9
  <2> QED
    BY <2>8, <2>9
<1> QED
  BY <1>1, <1>4, <1>5, <1>6 DEF Held

(* A byte of the new section is the byte of the file at its place, as far  *)
(* as the file goes.                                                       *)
LEMMA NewByte ==
  ASSUME NEW content, MapStep(content), NEW i \in DOMAIN ImageOf(File).sections,
         Head(sections) = get_pe_sections(ImageOf(File))[i]
  PROVE  LET img == ImageOf(File)
             sec == img.sections[i]
         IN  /\ First = Base + sec.va /\ Head(sections).mem_size = sec.raw
             /\ First + sec.raw <= Size
             /\ ~Misplaced(img, i) =>
                  \A k \in 0 .. sec.raw - 1 : sec.ptr + k < img.size =>
                    /\ sec.ptr + k \in DOMAIN content
                    /\ memory'[First + k] = content[sec.ptr + k]
<1> DEFINE img == ImageOf(File)
           sec == img.sections[i]
           s == Head(sections)
           data == Data(content, s)
           n == s.mem_size
           off == s.file_off
           left == Cardinality(DOMAIN content) - off
           r == sec.raw
           p == sec.ptr
           size == img.size
<1>1. First \in Nat /\ img \in Images
  BY NewSection
<1>2. s.virt_addr = sec.va /\ n = r
  BY <1>1, SectionRead
<1>3. r \in Nat /\ p \in Nat /\ size \in Nat
  BY <1>1, SectionTypes
<1>4. First = Base + sec.va
  BY <1>2 DEF First
<1>5. First + r <= Size
  <2>1. ~(First + n > Size)
    BY DEF MapStep, MapSection, Throws, First
  <2> HIDE DEF n, r
  <2> QED
    BY <1>1, <1>2, <1>3, <2>1, SizeAssumption, SMT
<1>6. ASSUME ~Misplaced(img, i), NEW k \in 0 .. r - 1, p + k < size
      PROVE  p + k \in DOMAIN content /\ memory'[First + k] = content[p + k]
  <2>1. off = p /\ left = size - p
    BY <1>1, <1>6, SectionOffset, DataLeft
  <2>2. DOMAIN data = 0 .. (IF n <= left THEN n ELSE left) - 1 /\ \A j \in DOMAIN data : data[j] = content[off + j]
    BY DEF Data
  <2> HIDE DEF n, left, r, p, size, data, off
  <2>3. k \in DOMAIN data /\ (First + k) - First = k /\ p + k \in 0 .. size - 1
    BY <1>1, <1>2, <1>3, <1>6, <2>1, <2>2, SMT
  <2>4. First + k \in Addr
    BY <1>1, <1>3, <1>5, SizeAssumption, SMT DEF Addr
  <2>5. memory' = [b \in Addr |-> IF b - First \in DOMAIN data THEN data[b - First] ELSE memory[b]]
    BY DEF MapStep, MapSection, First, data
  <2>6. memory'[First + k] = data[k]
    BY <2>3, <2>4, <2>5
  <2>7. DOMAIN content = 0 .. size - 1
    BY DEF MapStep, ContentOK, size
  <2> QED
    BY <2>1, <2>2, <2>3, <2>6, <2>7
<1> QED
  BY <1>2, <1>4, <1>5, <1>6

(* The new section holds its data. *)
LEMMA NewHeld ==
  ASSUME NEW content, MapStep(content), NEW i \in DOMAIN ImageOf(File).sections,
         Head(sections) = get_pe_sections(ImageOf(File))[i]
  PROVE  Held(File, Base, i)'
<1> DEFINE img == ImageOf(File)
           sec == img.sections[i]
<1>1. /\ loaded' = loaded \cup {NewEntry} /\ img \in Images
      /\ File' = File /\ Base' = Base
      /\ \A f : ImageOf(f)' = ImageOf(f)
      /\ \A o : InSlot(o)' <=> InSlot(o)
  BY NewSection
<1>2. First = Base + sec.va /\ Head(sections).mem_size = sec.raw
  BY NewByte
<1>3. sec.raw \in Nat /\ sec.ptr \in Nat /\ img.size \in Nat
  BY <1>1, SectionTypes
<1>5. (\E t \in loaded : EntryOf(t, File, Base, i))'
  <2>1. /\ NewEntry.file = File /\ NewEntry.base = Base /\ NewEntry.first = Base + sec.va
        /\ NewEntry.end = NewEntry.first + sec.raw
    BY <1>2 DEF NewEntry
  <2> HIDE DEF NewEntry
  <2>2. \E t \in loaded' : /\ t.file = File /\ t.base = Base /\ t.first = Base + sec.va
                          /\ t.end = t.first + sec.raw
    BY <1>1, <2>1
  <2> QED
    BY <1>1, <2>2 DEF EntryOf
<1>7. ASSUME NEW k \in 0 .. sec.raw - 1, ~Misplaced(img, i), sec.ptr + k < img.size
      PROVE  \/ memory'[Base + sec.va + k] = FileByte(File, sec.ptr + k)
             \/ File = Exe /\ InSlot(sec.ptr + k)
  <2>1. sec.ptr + k \in DOMAIN content /\ memory'[First + k] = content[sec.ptr + k]
    BY <1>7, NewByte
  <2> QED
    BY <1>2, <2>1 DEF MapStep, ContentOK
<1>8. ASSUME NEW k \in 0 .. sec.raw - 1 PROVE ByteHeld(File, Base, i, k)'
  <2>1. ByteHeld(File, Base, i, k)' <=>
          \/ memory'[Base + sec.va + k] = FileByte(File, sec.ptr + k)
          \/ sec.ptr + k >= img.size
          \/ Misplaced(img, i)
          \/ File # Exe /\ OfExe(Base + sec.va + k)'
          \/ File = Exe /\ InSlot(sec.ptr + k)
    BY <1>1 DEF ByteHeld
  <2>2. sec.ptr + k >= img.size \/ sec.ptr + k < img.size
    BY <1>3, SMT
  <2> QED
    BY <1>7, <2>1, <2>2
<1> QED
  BY <1>1, <1>5, <1>8 DEF Held

LEMMA MapStepRemaining ==
  ASSUME NEW content, MapStep(content)
  PROVE  RemainingOK'
<1> DEFINE s == Head(sections)
<1>1. /\ Base \in Nat /\ s.mem_size \in Nat /\ loaded' = loaded \cup {NewEntry}
      /\ File' = File /\ Base' = Base /\ \A file : ImageOf(file)' = ImageOf(file)
  BY NewSection
<1>2. RemainingOK /\ Mapping /\ sections \in Seq(MappedSections) /\ sections # <<>>
      /\ sections' = Tail(sections) /\ image' = image
  BY DEF MapStep, BytesInv, Inv, BasesOK
<1>3. /\ 1 \in DOMAIN sections /\ sections[1] = s
      /\ \A k \in DOMAIN sections' :
           k + 1 \in DOMAIN sections /\ k + 1 > 1 /\ sections'[k] = sections[k + 1]
      /\ \A j, k \in DOMAIN sections' : j < k => j + 1 < k + 1
  BY <1>2, HeadTailProperties, SMT
<1>4. \A k \in DOMAIN sections : sections[k].virt_addr \in Nat /\ sections[k].mem_size \in Nat
  BY <1>2, SectionsRead
<1>5. \A k \in DOMAIN sections' :
        \E i \in DOMAIN ImageOf(File).sections : sections'[k] = get_pe_sections(ImageOf(File))[i]
  BY <1>2, <1>3 DEF RemainingOK
<1>6. \A j, k \in DOMAIN sections' :
        j < k => sections'[j].virt_addr + sections'[j].mem_size <= sections'[k].virt_addr
  BY <1>2, <1>3 DEF RemainingOK
<1>7. ASSUME NEW t \in loaded', NEW k \in DOMAIN sections', t.image = image
      PROVE  t.end <= Base + sections'[k].virt_addr
  <2>1. CASE t \in loaded
    BY <1>2, <1>3, <1>7, <2>1 DEF RemainingOK
  <2>2. CASE t = NewEntry
    <3>1. s.virt_addr + s.mem_size <= sections'[k].virt_addr /\ sections'[k].virt_addr \in Nat
          /\ s.virt_addr \in Nat
      BY <1>2, <1>3, <1>4 DEF RemainingOK
    <3>2. t.end = Base + s.virt_addr + s.mem_size
      BY <2>2 DEF NewEntry, First
    <3> DEFINE v == s.virt_addr
               m == s.mem_size
               w == sections'[k].virt_addr
               e == t.end
    <3>3. v + m <= w /\ v \in Nat /\ m \in Nat /\ w \in Nat /\ e = Base + v + m
      BY <1>1, <3>1, <3>2
    <3> HIDE DEF v, m, w, e
    <3>4. e <= Base + w
      BY <1>1, <3>3, SMT
    <3> QED
      BY <3>4 DEF e, w
  <2> QED
    BY <1>1, <2>1, <2>2
<1> QED
  BY <1>1, <1>2, <1>5, <1>6, <1>7 DEF RemainingOK

LEMMA MapStepHeld ==
  ASSUME NEW content, MapStep(content)
  PROVE  HeldOK'
<1>1. /\ loaded' = loaded \cup {NewEntry} /\ Mapping' /\ Mapping
      /\ File' = File /\ Base' = Base /\ \A file : ImageOf(file)' = ImageOf(file)
      /\ Base \in Nat /\ File \in DllNames \cup {Exe}
  BY NewSection DEF MapStep
<1>2. /\ FilesOK /\ HeldOK /\ image' = image /\ phase # "terminated" /\ NewEntry.image = image
      /\ sections \in Seq(MappedSections) /\ sections # <<>> /\ sections' = Tail(sections)
  BY DEF MapStep, BytesInv, Mapping, NewEntry, Inv, BasesOK
<1>3. ASSUME NEW t \in loaded', t.image # image, NEW i \in DOMAIN ImageOf(t.file).sections
      PROVE  Held(t.file, t.base, i)'
  <2>1. t \in loaded
    BY <1>1, <1>2, <1>3
  <2>2. t.file \in DllNames \cup {Exe} /\ t.base \in Nat /\ Held(t.file, t.base, i)
    BY <1>2, <1>3, <2>1 DEF FilesOK, HeldOK
  <2> QED
    BY <2>2, StaysHeld
<1>4. ASSUME NEW i \in DOMAIN ImageOf(File).sections
      PROVE  Held(File, Base, i)' \/ Remains(i)'
  <2>1. CASE Held(File, Base, i)
    BY <1>1, <2>1, StaysHeld
  <2>2. ASSUME NEW k \in DOMAIN sections, sections[k] = get_pe_sections(ImageOf(File))[i]
        PROVE  Held(File, Base, i)' \/ Remains(i)'
    <3>1. CASE k = 1
      <4>1. Head(sections) = get_pe_sections(ImageOf(File))[i]
        BY <1>2, <2>2, <3>1
      <4> QED
        BY <4>1, NewHeld
    <3>2. CASE k # 1
      <4>1. k - 1 \in DOMAIN sections' /\ sections'[k - 1] = sections[k]
        BY <1>2, <3>2, HeadTailProperties, SMT
      <4> QED
        BY <1>1, <2>2, <4>1 DEF Remains
    <3> QED
      BY <3>1, <3>2
  <2> QED
    BY <1>1, <1>2, <2>1, <2>2 DEF HeldOK, Remains
<1> QED
  BY <1>1, <1>2, <1>3, <1>4 DEF HeldOK

LEMMA MapStepBytes ==
  ASSUME NEW content, MapStep(content)
  PROVE  BytesInv'
<1>1. /\ loaded' = loaded \cup {NewEntry} /\ File' = File /\ Base' = Base
      /\ Base \in Nat /\ File \in DllNames \cup {Exe} /\ (File = Exe <=> image = 0)
      /\ \A o : InSlot(o)' <=> InSlot(o)
  BY NewSection
<1>2. /\ NewEntry.file = File /\ NewEntry.base = Base /\ NewEntry.image = image
      /\ FilesOK /\ BinaryOK /\ exe' = exe /\ Mapping' /\ Mapping
      /\ UNCHANGED <<phase, imported_dlls, image, binary>>
  BY NewSection DEF NewEntry, MapStep, BytesInv, inputs
<1> HIDE DEF NewEntry
<1>3. \A t \in loaded' :
        /\ t.file \in DllNames \cup {Exe} /\ (t.file = Exe <=> t.image = 0)
        /\ t.base \in Nat
        /\ t.image = image => t.file = File /\ t.base = Base
  BY <1>1, <1>2 DEF FilesOK
<1>4. FilesOK'
  BY <1>1, <1>2, <1>3 DEF FilesOK
<1>5. BinaryOK'
  BY <1>1, <1>2 DEF BinaryOK
<1> QED
  BY <1>4, <1>5, MapStepRemaining, MapStepPermissions, MapStepHeld DEF BytesInv

LEMMA MapDllSectionBytes == Inv /\ BytesInv /\ MapDllSection => BytesInv'
<1> SUFFICES ASSUME Inv, BytesInv, MapDllSection PROVE BytesInv'
  OBVIOUS
<1> DEFINE dll == Head(imported_dlls)
<1>1. phase = "dll_sections" /\ dll \in DllNames
  BY DEF MapDllSection, BytesInv, FilesOK
<1>2. Mapping /\ File = dll /\ Base = dll_base
  BY <1>1 DEF Mapping, File, Base
<1>3. ImageOf(dll) = disk[dll]
  BY <1>1, SizeAssumption DEF ImageOf
<1>4. ContentOK(Content(dll))
  BY <1>2, <1>3 DEF ContentOK, Content
<1>5. MapStep(Content(dll))
  BY <1>2, <1>4 DEF MapStep, MapDllSection
<1> QED
  BY <1>5, MapStepBytes

LEMMA ExeStep ==
  ASSUME Inv, BytesInv, MapExeSection
  PROVE  MapStep(binary) /\ File = Exe /\ Base = 0 /\ ImageOf(File) = exe
<1>1. Mapping /\ File = Exe /\ Base = 0 /\ ImageOf(File) = exe
  BY DEF MapExeSection, Mapping, File, Base, ImageOf
<1>2. ContentOK(binary)
  BY <1>1 DEF ContentOK, BytesInv, BinaryOK
<1> QED
  BY <1>1, <1>2 DEF MapStep, MapExeSection

LEMMA MapExeSectionBytes == Inv /\ BytesInv /\ MapExeSection => BytesInv'
BY ExeStep, MapStepBytes

LEMMA NextBytes == Inv /\ BytesInv /\ [Next]_vars => BytesInv'
<1> SUFFICES ASSUME Inv, BytesInv, [Next]_vars PROVE BytesInv'
  OBVIOUS
<1>1. CASE InvalidExe \/ NoSystemDirectory
  BY <1>1, QuietBytes DEF InvalidExe, NoSystemDirectory, Mapping
<1>2. CASE ImportByOrdinal
  BY <1>2, QuietBytes DEF ImportByOrdinal, Mapping
<1>3. CASE ReadImports
  BY <1>3, QuietBytes DEF ReadImports, Mapping
<1>4. CASE SkipDll
  BY <1>4, QuietBytes DEF SkipDll, Mapping
<1>5. CASE StartDll
  BY <1>5, StartDllBytes
<1>6. CASE MapDllSection
  BY <1>6, MapDllSectionBytes
<1>7. CASE EndDll
  BY <1>7, QuietBytes DEF EndDll, Mapping
<1>8. CASE LinkRuntime
  BY <1>8, LinkRuntimeBytes
<1>9. CASE MapExeSection
  BY <1>9, MapExeSectionBytes
<1>10. CASE EndExe
  BY <1>10, QuietBytes DEF EndExe, Mapping
<1>11. CASE SectionThrows
  BY <1>11, QuietBytes DEF SectionThrows, Mapping
<1>12. CASE UNCHANGED vars
  <2>1. UNCHANGED <<inputs, guest, loaded, phase, imported_dlls, image, dll_base, sections, binary>>
    BY <1>12 DEF vars, inputs, guest
  <2>2. /\ \A file, base, i : Held(file, base, i)' <=> Held(file, base, i)
        /\ \A file : ImageOf(file)' = ImageOf(file)
        /\ PermissionsOK' <=> PermissionsOK
        /\ \A o : InSlot(o)' <=> InSlot(o)
    BY <2>1, SameBytes
  <2>3. (Mapping' <=> Mapping) /\ File' = File /\ Base' = Base /\ exe' = exe
    BY <2>1 DEF Mapping, File, Base, inputs
  <2>4. FilesOK' /\ BinaryOK'
    BY <2>1, <2>2, <2>3 DEF BytesInv, FilesOK, BinaryOK
  <2>5. RemainingOK'
    BY <2>1, <2>2, <2>3 DEF BytesInv, RemainingOK
  <2>6. \A i : Remains(i)' <=> Remains(i)
    BY <2>1, <2>2, <2>3 DEF Remains
  <2>7. HeldOK'
    BY <2>1, <2>2, <2>3, <2>6 DEF BytesInv, HeldOK
  <2> QED
    BY <2>2, <2>4, <2>5, <2>7 DEF BytesInv
<1> QED
  BY <1>1, <1>2, <1>3, <1>4, <1>5, <1>6, <1>7, <1>8, <1>9, <1>10, <1>11, <1>12 DEF Next

LEMMA BytesInvariance == Spec => [](Inv /\ BytesInv)
<1>1. Init => BytesInv
  BY InitBytes
<1>2. Inv /\ BytesInv /\ [Next]_vars => BytesInv'
  BY NextBytes
<1> QED
  BY <1>1, <1>2, Invariance, PTL DEF Spec

(* The sections of a file are disjoint. *)
LEMMA OneSection ==
  ASSUME NEW img \in Images, NEW i \in DOMAIN img.sections, NEW j \in DOMAIN img.sections,
         NEW base \in Nat, NEW a \in Nat,
         a \in Span(base + img.sections[i].va, img.sections[i].raw),
         a \in Span(base + img.sections[j].va, img.sections[j].raw)
  PROVE  i = j
<1> DEFINE secs == img.sections
<1>1. /\ i \in Nat /\ j \in Nat
      /\ \A k \in DOMAIN secs : secs[k].va \in Nat /\ secs[k].raw \in Nat
      /\ \A k, l \in DOMAIN secs : k < l => secs[k].va + secs[k].raw <= secs[l].va
  BY SectionTypes
<1>2. ASSUME NEW k \in DOMAIN secs, NEW l \in DOMAIN secs, k < l,
             a \in Span(base + secs[k].va, secs[k].raw), a \in Span(base + secs[l].va, secs[l].raw)
      PROVE  FALSE
  <2> DEFINE v == secs[k].va
             r == secs[k].raw
             w == secs[l].va
             q == secs[l].raw
  <2>1. /\ v \in Nat /\ r \in Nat /\ w \in Nat /\ q \in Nat /\ v + r <= w
        /\ a \in Span(base + v, r) /\ a \in Span(base + w, q)
    BY <1>1, <1>2
  <2> HIDE DEF v, r, w, q
  <2> QED
    BY <2>1, SMT DEF Span
<1>3. i < j \/ j < i \/ i = j
  BY <1>1, SMT
<1> QED
  BY <1>2, <1>3

LEMMA PermissionsFollow == Inv /\ BytesInv => PermissionsOfSections
<1> SUFFICES ASSUME Inv, BytesInv, NEW a \in Addr
             PROVE  LET Perms(file, base) ==
                          {img \in ToSet(ImageOf(file).sections) : a \in Span(base + img.va, img.raw)}
                        Owners == {s \in loaded : Within(a, s) /\ (OfExe(a) => s.image = 0)}
                    IN permission[a] =
                         UNION {UNION {sec.perm : sec \in Perms(s.file, s.base)} : s \in Owners}
  BY DEF PermissionsOfSections
<1> DEFINE Perms(file, base) ==
             {img \in ToSet(ImageOf(file).sections) : a \in Span(base + img.va, img.raw)}
           Owners == {s \in loaded : Within(a, s) /\ (OfExe(a) => s.image = 0)}
           Allowed(s) == UNION {sec.perm : sec \in Perms(s.file, s.base)}
<1>1. PermissionsOK /\ FilesOK /\ TypeOK /\ a \in Nat
  BY SizeAssumption, SMT DEF Inv, BytesInv, Addr
<1>2. ASSUME NEW t \in Owners PROVE Allowed(t) = permission[a]
  <2> DEFINE img == ImageOf(t.file)
  <2>1. t \in loaded /\ Owns(t, a)
    BY DEF Owns
  <2>2. PICK i \in DOMAIN img.sections : InSection(a, t, i)
    BY <1>1, <2>1 DEF PermissionsOK
  <2>3. img \in Images /\ t.base \in Nat
    BY <1>1, <2>1, ImageType DEF FilesOK
  <2> HIDE DEF img
  <2>4. ToSet(img.sections) = {img.sections[j] : j \in DOMAIN img.sections}
    BY DEF ToSet
  <2>5. a \in Span(t.base + img.sections[i].va, img.sections[i].raw)
        /\ permission[a] = img.sections[i].perm
    BY <2>2 DEF InSection, img
  <2>6. \A j \in DOMAIN img.sections :
          a \in Span(t.base + img.sections[j].va, img.sections[j].raw) => j = i
    BY <1>1, <2>3, <2>5, OneSection
  <2>7. Perms(t.file, t.base) = {img.sections[i]}
    BY <2>4, <2>5, <2>6 DEF img
  <2> QED
    BY <2>5, <2>7
<1>3. CASE Owners = {}
  <2>1. \A t \in loaded : ~Within(a, t)
    BY <1>3 DEF OfExe
  <2>2. permission[a] = {}
    BY <1>1, <2>1 DEF PermissionsOK
  <2> QED
    BY <1>3, <2>2
<1>4. CASE Owners # {}
  <2>1. PICK t : t \in Owners
    BY <1>4
  <2> HIDE DEF Owners, Allowed
  <2>2. UNION {Allowed(s) : s \in Owners} = permission[a]
    BY <1>2, <2>1
  <2> QED
    BY <2>2 DEF Owners, Allowed
<1> QED
  BY <1>3, <1>4

LEMMA DataFollows == Inv /\ BytesInv => SectionsHoldTheirData
<1> SUFFICES ASSUME BytesInv, phase = "mapped", NEW t \in loaded,
                    NEW i \in DOMAIN ImageOf(t.file).sections,
                    NEW k \in 0 .. ImageOf(t.file).sections[i].raw - 1
             PROVE  ByteHeld(t.file, t.base, i, k)
  BY DEF SectionsHoldTheirData, ByteHeld
<1>1. Held(t.file, t.base, i)
  BY DEF BytesInv, HeldOK, Mapping
<1> QED
  BY <1>1 DEF Held

-----------------------------------------------------------------------------
(* Sequences and last places *)

LEMMA SequenceParts ==
  ASSUME NEW S, NEW s \in Seq(S)
  PROVE  /\ Len(s) \in Nat /\ DOMAIN s = 1 .. Len(s)
         /\ \A i \in DOMAIN s : s[i] \in S
         /\ s \in Seq(ToSet(s)) /\ ToSet(s) \subseteq S
<1>1. Len(s) \in Nat /\ DOMAIN s = 1 .. Len(s) /\ \A i \in DOMAIN s : s[i] \in S
  OBVIOUS
<1>2. s \in [1 .. Len(s) -> ToSet(s)]
  BY <1>1 DEF ToSet
<1>3. s \in Seq(ToSet(s))
  BY <1>1, <1>2
<1> QED
  BY <1>1, <1>3 DEF ToSet

LEMMA GreatestPlace ==
  ASSUME NEW S, NEW n \in Nat, S \subseteq 0 .. n, S # {}
  PROVE  Max(S) \in S /\ \A y \in S : y <= Max(S)
<1> DEFINE R == {n - x : x \in S}
<1>0. \A x \in S : x \in Nat /\ n - x \in Nat
  BY SMT
<1>1. R \subseteq Nat /\ R # {}
  BY <1>0
<1>2. PICK r \in R : \A y \in R : r <= y
  BY <1>1, Least
<1>3. PICK x \in S : r = n - x
  OBVIOUS
<1>4. \A y \in S : y <= x
  <2> SUFFICES ASSUME NEW y \in S PROVE y <= x
    OBVIOUS
  <2>1. n - y \in R
    OBVIOUS
  <2>2. n - x <= n - y
    BY <1>2, <1>3, <2>1
  <2>3. x \in Nat /\ y \in Nat
    BY <1>0, <1>3
  <2> HIDE DEF R
  <2> QED
    BY <2>2, <2>3, SMT
<1>5. \E z \in S : \A y \in S : z >= y
  BY <1>4, SMT
<1>6. Max(S) \in S /\ \A y \in S : Max(S) >= y
  BY <1>5 DEF Max
<1>7. \A y \in S : y \in Int
  BY SMT
<1> QED
  BY <1>6, <1>7, SMT

LEMMA GreatestUnique ==
  ASSUME NEW S, S \subseteq Nat, NEW x \in S, \A y \in S : y <= x
  PROVE  Max(S) = x
<1>1. \A y \in S : x >= y
  BY SMT
<1>2. Max(S) \in S /\ \A y \in S : Max(S) >= y
  BY <1>1 DEF Max
<1>3. Max(S) >= x /\ x >= Max(S) /\ Max(S) \in Nat
  BY <1>1, <1>2
<1> QED
  BY <1>3, SMT

(* The DLLs a program imports from are each named once. *)
LEMMA OrderDistinct ==
  ASSUME NEW img \in Exes
  PROVE  LET dlls == ImportedDlls(img) IN
         dlls \in Seq(ToSet(dlls)) /\ \A i, j \in DOMAIN dlls : dlls[i] = dlls[j] => i = j
<1> DEFINE D == {img.imports[n].dll : n \in Nat}
           T == {s \in Seq(D) : \A i, j \in DOMAIN s : s[i] = s[j] => i = j}
           Grown(n, s) == LET d == img.imports[n] IN
                          IF d.funcs = <<>> \/ d.dll \in ToSet(s) THEN s ELSE Append(s, d.dll)
           h == [n \in Nat |-> [s \in T |-> Grown(n + 1, s)]]
           Body(f) == [n \in Nat |-> IF n = 0 THEN <<>> ELSE Grown(n, f[n - 1])]
<1>1. ASSUME NEW n \in Nat, NEW s \in T PROVE Grown(n, s) \in T
  <2> DEFINE d == img.imports[n]
  <2>1. d.dll \in D
    OBVIOUS
  <2> HIDE DEF d, D
  <2>2. CASE d.dll \in ToSet(s)
    BY <2>2 DEF d
  <2>3. CASE d.dll \notin ToSet(s)
    <3>1. s \in Seq(D) /\ \A i \in DOMAIN s : s[i] # d.dll
      BY <2>3 DEF ToSet
    <3>2. Append(s, d.dll) \in Seq(D)
      BY <2>1, <3>1
    <3>3. \A i, j \in DOMAIN Append(s, d.dll) : Append(s, d.dll)[i] = Append(s, d.dll)[j] => i = j
      BY <2>1, <3>1, SMT
    <3> QED
      BY <3>2, <3>3 DEF d
  <2> QED
    BY <2>2, <2>3
<1>2. <<>> \in T
  OBVIOUS
<1>3. PICK f : Recurs(f, T, <<>>, h)
  <2>1. h \in [Nat -> [T -> T]]
    BY <1>1
  <2> HIDE DEF h, T
  <2> QED
    BY <1>2, <2>1, Recursion
<1> HIDE DEF D, T, Grown
<1>4. f \in [Nat -> T] /\ f[0] = <<>> /\ \A n \in Nat : f[n + 1] = Grown(n + 1, f[n])
  BY <1>3 DEF Recurs
<1>5. f = Body(f)
  <2>1. ASSUME NEW n \in Nat, n # 0 PROVE f[n] = Grown(n, f[n - 1])
    <3>1. n - 1 \in Nat /\ (n - 1) + 1 = n
      BY <2>1, SMT
    <3> QED
      BY <1>4, <3>1
  <2> QED
    BY <1>4, <2>1
<1>6. ImportedDlls(img) = (CHOOSE g : g = Body(g))[Len(img.imports)]
  BY DEF ImportedDlls, Grown
<1> DEFINE g == CHOOSE g : g = Body(g)
<1>7. g = Body(g)
  BY <1>5
<1> HIDE DEF g
<1>8. \A n \in Nat : g[n] = IF n = 0 THEN <<>> ELSE Grown(n, g[n - 1])
  BY <1>7
<1> DEFINE K == {n \in Nat : g[n] \in T}
<1>9. 0 \in K
  BY <1>2, <1>8
<1>10. ASSUME NEW n \in K PROVE n + 1 \in K
  <2>1. n \in Nat /\ n + 1 \in Nat /\ n + 1 # 0 /\ (n + 1) - 1 = n /\ g[n] \in T
    BY SMT
  <2>2. g[n + 1] = Grown(n + 1, g[n])
    BY <1>8, <2>1
  <2> QED
    BY <1>1, <2>1, <2>2
<1> HIDE DEF K
<1>11. \A n \in Nat : n \in K
  BY <1>9, <1>10, Induction DEF K
<1>12. Len(img.imports) \in Nat
  BY ImageAssumption, SequenceParts DEF Laid
<1>13. ImportedDlls(img) \in T
  BY <1>6, <1>11, <1>12 DEF K, g
<1> QED
  BY <1>13, SequenceParts DEF T
-----------------------------------------------------------------------------
(***************************************************************************)
(* The third invariant: what the linker knows.  The table of exports has   *)
(* those of the DLLs that were started, so that the last entry of a name   *)
(* is of the last of them that exports it.  A slot of the program's file   *)
(* is patched with what the table says, and copied with its section.       *)
(***************************************************************************)

Linking == phase \in {"dlls", "dll_sections", "exe_sections", "mapped"}
Linked == phase \in {"exe_sections", "mapped"}
Done == Len(Order) - Len(imported_dlls)
Begun == IF phase = "dll_sections" THEN Done + 1 ELSE Done

OrderOK ==
  Linking =>
    /\ Len(imported_dlls) <= Len(Order) /\ imported_dlls \in Seq(ToSet(Order))
    /\ \A k \in DOMAIN imported_dlls : imported_dlls[k] = Order[Done + k]
    /\ phase = "dll_sections" => imported_dlls # <<>>
    /\ Linked => imported_dlls = <<>>

Listed(e, m) ==
  /\ Usable(Order[m])
  /\ \E j \in DOMAIN ExportsOf(m) : ExportsOf(m)[j].name = e.name /\ e.address \in AddressesAt(m, j)
BegunProviders(name) == {m \in 1 .. Begun : Usable(Order[m]) /\ Places(ExportsOf(m), name) # {}}
LastListed(name) ==
  LET m == Max(BegunProviders(name)) IN
    /\ Places(exported, name) # {}
    /\ exported[Max(Places(exported, name))].address \in AddressesAt(m, Max(Places(ExportsOf(m), name)))

TableOK ==
  /\ exported \in Seq(ToSet(exported))
  /\ phase = "imports" => exported = <<>> /\ ~dangling
  /\ Linking =>
       /\ \A i \in DOMAIN exported : \E m \in 1 .. Begun : Listed(exported[i], m)
       /\ \A name : BegunProviders(name) # {} => LastListed(name)
       /\ dangling => \E m, n \in 1 .. Begun : m # n /\ Exporting(m) /\ Exporting(n)

Offset(s) == rva_to_foa(exe, s.rva)
SlotHolds(s, a) ==
  \A k \in 0 .. ThunkSize - 1 :
    binary[Offset(s) + k] = IF a = 0 THEN FileByte(Exe, Offset(s) + k) ELSE <<"import", a, k>>
SlotsOK ==
  /\ phase \in {"imports", "dlls", "dll_sections"} => \A o \in DOMAIN binary : binary[o] = FileByte(Exe, o)
  /\ Linked => \A s \in Slots(exe) : \E a \in get_function_address(s.name) : SlotHolds(s, a)

Copied(i) ==
  LET sec == exe.sections[i] IN
    /\ sec.va + sec.raw <= Size
    /\ \A k \in 0 .. sec.raw - 1 :
         sec.ptr + k < exe.size => memory[sec.va + k] = binary[sec.ptr + k]
CopiedOK ==
  Linked => \A i \in DOMAIN exe.sections :
    Misplaced(exe, i) \/ Copied(i) \/ (phase = "exe_sections" /\ Remains(i))

LinkInv == OrderOK /\ TableOK /\ SlotsOK /\ CopiedOK

(* the exports of an image are a sequence *)
LEMMA ExportTableTyped ==
  ASSUME NEW img \in Exes \cup Dlls \cup {Missing}
  PROVE  ExportTable(img) \in Seq(ToSet(ExportTable(img)))
<1> DEFINE list == ExportTable(img)
<1>1. img.exports \in Seq(Nat)
  BY ImageAssumption DEF Laid
<1>2. Len(img.exports) \in Nat /\ DOMAIN img.exports = 1 .. Len(img.exports)
  BY <1>1
<1>3. list = [i \in 1 .. Len(img.exports) |-> list[i]]
  BY <1>2 DEF ExportTable
<1>4. \A i \in 1 .. Len(img.exports) : list[i] \in ToSet(list)
  BY <1>3 DEF ToSet
<1> HIDE DEF list
<1>5. list \in [1 .. Len(img.exports) -> ToSet(list)]
  BY <1>3, <1>4
<1>6. list \in Seq(ToSet(list))
  BY <1>2, <1>5
<1> QED
  BY <1>6 DEF list

(* what the inputs say stays *)
LEMMA SameInputs ==
  ASSUME UNCHANGED inputs
  PROVE  /\ Order' = Order /\ exe' = exe /\ disk' = disk
         /\ \A d : Usable(d)' <=> Usable(d)
         /\ \A m : ExportsOf(m)' = ExportsOf(m) /\ (Exporting(m)' <=> Exporting(m))
         /\ \A m, j : AddressesAt(m, j)' = AddressesAt(m, j)
         /\ \A e, m : Listed(e, m)' <=> Listed(e, m)
<1>1. exe' = exe /\ disk' = disk
  BY DEF inputs
<1>2. Order' = Order
  BY <1>1 DEF Order
<1>3. \A d : Usable(d)' <=> Usable(d)
  BY <1>1 DEF Usable
<1>4. \A m : ExportsOf(m)' = ExportsOf(m)
  BY <1>1, <1>2 DEF ExportsOf
<1>5. \A m : Exporting(m)' <=> Exporting(m)
  BY <1>2, <1>3, <1>4 DEF Exporting
<1>6. \A m, j : AddressesAt(m, j)' = AddressesAt(m, j)
  BY <1>4 DEF AddressesAt, AddressesOf
<1>7. \A e, m : Listed(e, m)' <=> Listed(e, m)
  BY <1>2, <1>3, <1>4, <1>6 DEF Listed
<1> QED
  BY <1>1, <1>2, <1>3, <1>4, <1>5, <1>6, <1>7

LEMMA OrderTyped ==
  ASSUME TypeOK
  PROVE  /\ Order \in Seq(ToSet(Order)) /\ Len(Order) \in Nat /\ DOMAIN Order = 1 .. Len(Order)
         /\ \A m, n \in DOMAIN Order : Order[m] = Order[n] => m = n
<1>1. exe \in Exes
  BY DEF TypeOK
<1>2. Order \in Seq(ToSet(Order)) /\ \A m, n \in DOMAIN Order : Order[m] = Order[n] => m = n
  BY <1>1, OrderDistinct DEF Order
<1> QED
  BY <1>2

(* The next DLL is the one behind those that were begun. *)
LEMMA NextDll ==
  ASSUME TypeOK, OrderOK, phase \in {"dlls", "dll_sections"}, imported_dlls # <<>>
  PROVE  /\ Done \in Nat /\ Done + 1 \in DOMAIN Order /\ Head(imported_dlls) = Order[Done + 1]
         /\ Len(Tail(imported_dlls)) = Len(imported_dlls) - 1
         /\ Len(Order) - Len(Tail(imported_dlls)) = Done + 1
         /\ Tail(imported_dlls) \in Seq(ToSet(Order))
         /\ \A k \in DOMAIN Tail(imported_dlls) : Tail(imported_dlls)[k] = Order[Done + 1 + k]
<1> DEFINE l == imported_dlls
           n == Len(l)
           o == Len(Order)
<1>1. Linking
  BY DEF Linking
<1>2. l \in Seq(ToSet(Order)) /\ n <= o /\ \A k \in DOMAIN l : l[k] = Order[Done + k]
  BY <1>1 DEF OrderOK
<1>3. o \in Nat /\ DOMAIN Order = 1 .. o
  BY OrderTyped
<1>4. n \in Nat \ {0} /\ DOMAIN l = 1 .. n /\ Head(l) = l[1]
  BY <1>2
<1>5. Done = o - n
  BY DEF Done
<1>6. Len(Tail(l)) = n - 1 /\ Tail(l) \in Seq(ToSet(Order)) /\ DOMAIN Tail(l) = 1 .. n - 1
      /\ \A k \in 1 .. n - 1 : Tail(l)[k] = l[k + 1]
  BY <1>2, <1>4
<1> HIDE DEF l, n, o
<1>7. Done \in Nat /\ Done + 1 \in 1 .. o /\ 1 \in 1 .. n /\ o - (n - 1) = Done + 1
  BY <1>2, <1>3, <1>4, <1>5, SMT
<1>8. \A k \in 1 .. n - 1 : Tail(l)[k] = Order[Done + 1 + k]
  <2> SUFFICES ASSUME NEW k \in 1 .. n - 1 PROVE Tail(l)[k] = Order[Done + 1 + k]
    OBVIOUS
  <2>1. k + 1 \in 1 .. n /\ Done + (k + 1) = Done + 1 + k
    BY <1>4, <1>7, SMT
  <2>2. l[k + 1] = Order[Done + (k + 1)]
    BY <1>2, <1>4, <2>1
  <2> QED
    BY <1>6, <2>1, <2>2
<1>9. Head(l) = Order[Done + 1]
  BY <1>2, <1>4, <1>7
<1> QED
  BY <1>3, <1>6, <1>7, <1>8, <1>9 DEF l, n, o

LEMMA OrderStep ==
  ASSUME TypeOK, LinkInv, Next
  PROVE  OrderOK'
<1>1. Order' = Order /\ OrderOK /\ UNCHANGED inputs
  <2>1. UNCHANGED inputs
    BY DEF Next, InvalidExe, ImportByOrdinal, NoSystemDirectory, ReadImports, SkipDll, StartDll, MapDllSection, EndDll,
           LinkRuntime, MapExeSection, EndExe, SectionThrows
  <2> QED
    BY <2>1, SameInputs DEF LinkInv
<1>2. CASE imported_dlls' = imported_dlls /\ (Linking' => Linking /\ (phase' = phase \/ StartDll \/ LinkRuntime \/ EndExe))
  <2>1. Done' = Done
    BY <1>1, <1>2 DEF Done
  <2>2. StartDll => imported_dlls # <<>> /\ phase' = "dll_sections"
    BY DEF StartDll
  <2>3. LinkRuntime => imported_dlls = <<>> /\ phase' = "exe_sections"
    BY DEF LinkRuntime
  <2>4. EndExe => Linked /\ phase' = "mapped"
    BY DEF EndExe, Linked
  <2> QED
    BY <1>1, <1>2, <2>1, <2>2, <2>3, <2>4 DEF OrderOK, Linked
<1>3. CASE ReadImports
  <2>1. imported_dlls' = Order /\ phase' = "dlls"
    BY <1>3 DEF ReadImports, Order
  <2>2. Order \in Seq(ToSet(Order)) /\ Len(Order) \in Nat
    BY OrderTyped
  <2>3. Done' = 0
    BY <1>1, <2>1, <2>2, SMT DEF Done
  <2>4. \A k \in DOMAIN Order : 0 + k = k
    BY OrderTyped, SMT
  <2> QED
    BY <1>1, <2>1, <2>2, <2>3, <2>4 DEF OrderOK, Linked
<1>4. CASE SkipDll \/ EndDll
  <2>1. imported_dlls' = Tail(imported_dlls) /\ phase' = "dlls" /\ phase \in {"dlls", "dll_sections"}
        /\ imported_dlls # <<>>
    BY <1>1, <1>4 DEF SkipDll, EndDll, OrderOK, Linking
  <2>2. /\ Len(Tail(imported_dlls)) = Len(imported_dlls) - 1
        /\ Len(Order) - Len(Tail(imported_dlls)) = Done + 1
        /\ Tail(imported_dlls) \in Seq(ToSet(Order))
        /\ \A k \in DOMAIN Tail(imported_dlls) : Tail(imported_dlls)[k] = Order[Done + 1 + k]
    BY <1>1, <2>1, NextDll
  <2>3. Len(Tail(imported_dlls)) <= Len(Order)
    <3>1. Linking
      BY <2>1 DEF Linking
    <3>2. Len(imported_dlls) \in Nat /\ Len(imported_dlls) <= Len(Order)
      BY <1>1, <3>1 DEF OrderOK
    <3> QED
      BY <2>2, <3>2, OrderTyped, SMT
  <2>4. Done' = Done + 1
    BY <1>1, <2>1, <2>2 DEF Done
  <2> QED
    BY <1>1, <2>1, <2>2, <2>3, <2>4 DEF OrderOK, Linked
<1> QED
  BY <1>2, <1>3, <1>4 DEF Next, Linking, InvalidExe, ImportByOrdinal, NoSystemDirectory, StartDll, MapDllSection,
           LinkRuntime, MapExeSection, EndExe, SectionThrows

(* Where no DLL joins the table, it stays as it is. *)
LEMMA SameTable ==
  ASSUME TypeOK, TableOK, UNCHANGED <<inputs, exported, dangling>>, Linking, phase' # "imports",
         Linking' => Begun' \in Nat /\ Begun \in Nat /\ Begun <= Begun'
           /\ \A m \in Begun + 1 .. Begun' : ~Usable(Order[m])
  PROVE  TableOK'
<1>1. /\ Order' = Order /\ \A d : Usable(d)' <=> Usable(d)
      /\ \A m : ExportsOf(m)' = ExportsOf(m) /\ (Exporting(m)' <=> Exporting(m))
      /\ \A m, j : AddressesAt(m, j)' = AddressesAt(m, j)
      /\ \A e, m : Listed(e, m)' <=> Listed(e, m)
  BY SameInputs
<1>2. exported' = exported /\ (dangling' <=> dangling)
  OBVIOUS
<1> SUFFICES ASSUME Linking'
             PROVE  /\ \A i \in DOMAIN exported : \E m \in 1 .. Begun' : Listed(exported[i], m)
                    /\ \A name : BegunProviders(name)' # {} => LastListed(name)'
                    /\ dangling => \E m, n \in 1 .. Begun' : m # n /\ Exporting(m) /\ Exporting(n)
  BY <1>1, <1>2 DEF TableOK
<1>3. 1 .. Begun \subseteq 1 .. Begun'
  BY SMT
<1>4. \A m \in 1 .. Begun' : Usable(Order[m]) => m \in 1 .. Begun
  <2>1. \A m \in 1 .. Begun' : m \in 1 .. Begun \/ m \in Begun + 1 .. Begun'
    BY SMT
  <2> QED
    BY <2>1
<1>5. \A name : BegunProviders(name)' = BegunProviders(name)
  BY <1>1, <1>3, <1>4 DEF BegunProviders, Places
<1>6. \A name : LastListed(name)' <=> LastListed(name)
  BY <1>1, <1>2, <1>5 DEF LastListed, Places
<1> QED
  BY <1>3, <1>5, <1>6 DEF TableOK

(* A DLL joins: its names are found at its own last entries, the others    *)
(* where they were.                                                        *)
Joined(new, old, added) ==
  /\ Len(old) \in Nat /\ Len(added) \in Nat
  /\ DOMAIN old = 1 .. Len(old) /\ DOMAIN added = 1 .. Len(added)
  /\ DOMAIN new = 1 .. Len(old) + Len(added)
  /\ \A i \in 1 .. Len(old) : new[i] = old[i]
  /\ \A i \in 1 .. Len(old) + Len(added) : i > Len(old) => new[i] = added[i - Len(old)]

LEMMA JoinsTable ==
  ASSUME NEW new, NEW old, NEW added, Joined(new, old, added), NEW name
  PROVE  /\ Places(added, name) = {} =>
              /\ Places(new, name) = Places(old, name)
              /\ \A i \in Places(old, name) : new[i] = old[i]
         /\ Places(added, name) # {} =>
              /\ Places(new, name) # {}
              /\ Max(Places(added, name)) \in DOMAIN added
              /\ new[Max(Places(new, name))] = added[Max(Places(added, name))]
<1> DEFINE p == Len(old)
           q == Len(added)
<1>1. /\ p \in Nat /\ q \in Nat /\ DOMAIN old = 1 .. p /\ DOMAIN added = 1 .. q
      /\ DOMAIN new = 1 .. p + q
      /\ \A i \in 1 .. p : new[i] = old[i]
      /\ \A i \in 1 .. p + q : i > p => new[i] = added[i - p]
  BY DEF Joined
<1> HIDE DEF p, q
<1>2. \A i \in 1 .. p : i \in 1 .. p + q
  BY <1>1, SMT
<1>3. \A j \in 1 .. q : p + j \in 1 .. p + q /\ p + j > p /\ (p + j) - p = j
  BY <1>1, SMT
<1>4. \A i \in 1 .. p + q : i \notin 1 .. p => i > p /\ i - p \in 1 .. q /\ p + (i - p) = i
  BY <1>1, SMT
<1>5. \A j \in 1 .. q : new[p + j] = added[j]
  BY <1>1, <1>3
<1>6. CASE Places(added, name) = {}
  <2>1. \A j \in 1 .. q : added[j].name # name
    BY <1>1, <1>6 DEF Places
  <2>2. Places(new, name) = Places(old, name)
    BY <1>1, <1>2, <1>4, <1>5, <2>1 DEF Places
  <2> QED
    BY <1>1, <1>6, <2>2 DEF Places
<1>7. CASE Places(added, name) # {}
  <2> DEFINE j == Max(Places(added, name))
  <2>1. Places(added, name) \subseteq 0 .. q
    BY <1>1, SMT DEF Places
  <2>2. j \in Places(added, name) /\ \A k \in Places(added, name) : k <= j
    BY <1>1, <1>7, <2>1, GreatestPlace
  <2> HIDE DEF j
  <2>3. j \in 1 .. q /\ added[j].name = name
    BY <1>1, <2>2 DEF Places
  <2>4. p + j \in Places(new, name)
    BY <1>1, <1>3, <1>5, <2>3 DEF Places
  <2>5. ASSUME NEW i \in Places(new, name) PROVE i <= p + j
    <3>1. i \in 1 .. p + q /\ new[i].name = name
      BY <1>1, <2>5 DEF Places
    <3>2. CASE i \in 1 .. p
      BY <1>1, <2>3, <3>2, SMT
    <3>3. CASE i \notin 1 .. p
      <4>1. i - p \in 1 .. q /\ p + (i - p) = i
        BY <1>4, <3>1, <3>3
      <4>2. i - p \in Places(added, name)
        BY <1>1, <1>5, <3>1, <4>1 DEF Places
      <4>3. i - p <= j
        BY <2>2, <4>2
      <4> QED
        BY <1>1, <2>3, <3>1, <4>3, SMT
    <3> QED
      BY <3>2, <3>3
  <2>6. Places(new, name) \subseteq Nat
    BY <1>1, SMT DEF Places
  <2>7. Max(Places(new, name)) = p + j
    BY <2>4, <2>5, <2>6, GreatestUnique
  <2> QED
    BY <1>1, <1>5, <1>7, <2>3, <2>4, <2>7 DEF j
<1> QED
  BY <1>6, <1>7

LEMMA StartDllTable ==
  ASSUME TypeOK, OrderOK, TableOK, StartDll
  PROVE  TableOK'
<1> DEFINE n == Done + 1
           list == ExportsOf(n)
<1>1. /\ phase = "dlls" /\ imported_dlls # <<>> /\ phase' = "dll_sections" /\ UNCHANGED <<inputs, imported_dlls>>
      /\ Usable(Head(imported_dlls))
  BY DEF StartDll
<1>2. Done \in Nat /\ n \in DOMAIN Order /\ Head(imported_dlls) = Order[n]
  BY <1>1, NextDll
<1>3. PICK added \in Exports(disk[Head(imported_dlls)]) :
        exported' = exported \o added /\ dangling' = (dangling \/ Moves(exported, exported'))
  BY DEF StartDll
<1>4. /\ Order' = Order /\ \A d : Usable(d)' <=> Usable(d)
      /\ \A m : ExportsOf(m)' = ExportsOf(m) /\ (Exporting(m)' <=> Exporting(m))
      /\ \A m, j : AddressesAt(m, j)' = AddressesAt(m, j)
      /\ \A e, m : Listed(e, m)' <=> Listed(e, m)
  BY <1>1, SameInputs
<1>5. Begun = Done /\ Begun' = n /\ Usable(Order[n]) /\ Linking /\ Linking'
  BY <1>1, <1>2, <1>4 DEF Begun, Done, Linking
<1>6. list = ExportTable(disk[Head(imported_dlls)]) /\ list \in Seq(ToSet(list))
  <2>1. disk[Head(imported_dlls)] \in Dlls \cup {Missing}
    BY <1>1 DEF Usable, TypeOK
  <2> QED
    BY <1>2, <2>1, ExportTableTyped DEF ExportsOf
<1>7. /\ DOMAIN added = DOMAIN list
      /\ \A j \in DOMAIN list : added[j].name = list[j].name /\ added[j].address \in AddressesAt(n, j)
  <2>1. PICK unset \in Garbage :
          added = [i \in DOMAIN list |->
                     [name |-> list[i].name,
                      address |-> IF list[i].rva = 0 THEN unset ELSE list[i].rva]]
    BY <1>3, <1>6 DEF Exports
  <2> HIDE DEF list
  <2>2. DOMAIN added = DOMAIN list
        /\ \A j \in DOMAIN list : added[j].name = list[j].name
             /\ added[j].address \in IF list[j].rva = 0 THEN Garbage ELSE {list[j].rva}
    BY <2>1
  <2> QED
    BY <2>2 DEF AddressesAt, AddressesOf, list
<1> DEFINE S == ToSet(exported) \cup {added[j] : j \in DOMAIN list}
<1>8. exported \in Seq(S) /\ added \in Seq(S)
  <2>1. exported \in Seq(ToSet(exported))
    BY DEF TableOK
  <2>2. Len(list) \in Nat /\ DOMAIN list = 1 .. Len(list)
    BY <1>6, SequenceParts
  <2>3. \A i \in DOMAIN exported : exported[i] \in S
    BY DEF ToSet
  <2> HIDE DEF S, list
  <2>4. exported \in Seq(S)
    BY <2>1, <2>3, SequenceParts
  <2>5. added \in [1 .. Len(list) -> S]
    <3>1. \A j \in DOMAIN list : added[j] \in S
      BY DEF S
    <3>2. added = [j \in DOMAIN added |-> added[j]]
      BY <1>3 DEF Exports
    <3> QED
      BY <1>7, <2>2, <3>1, <3>2
  <2> QED
    BY <2>2, <2>4, <2>5
<1> HIDE DEF S
<1>9. exported' \in Seq(ToSet(exported'))
  <2>1. exported \o added \in Seq(S)
    BY <1>8
  <2> DEFINE new == exported \o added
  <2>2. new \in Seq(ToSet(new))
    <3> HIDE DEF new
    <3>1. new \in Seq(S)
      BY <2>1 DEF new
    <3> QED
      BY <3>1, SequenceParts
  <2> QED
    BY <1>3, <2>2
<1>10. \A m \in 1 .. Begun : m \in 1 .. n
  BY <1>2, <1>5, SMT
<1>11. n \in 1 .. n
  BY <1>2, SMT
<1>12. /\ \A i \in DOMAIN exported : \E m \in 1 .. Begun : Listed(exported[i], m)
       /\ \A name : BegunProviders(name) # {} => LastListed(name)
       /\ dangling => \E m, k \in 1 .. Begun : m # k /\ Exporting(m) /\ Exporting(k)
  BY <1>5 DEF TableOK
<1>13. \A j \in DOMAIN added : Listed(added[j], n)
  BY <1>5, <1>7 DEF Listed
<1>14. ASSUME NEW i \in DOMAIN exported' PROVE \E m \in 1 .. n : Listed(exported'[i], m)
  <2>1. \/ i \in DOMAIN exported /\ exported'[i] = exported[i]
        \/ i - Len(exported) \in DOMAIN added /\ exported'[i] = added[i - Len(exported)]
    BY <1>3, <1>8, <1>14
  <2> QED
    BY <1>10, <1>11, <1>12, <1>13, <2>1
<1>15. ASSUME dangling' PROVE \E m, k \in 1 .. n : m # k /\ Exporting(m) /\ Exporting(k)
  <2>1. CASE dangling
    BY <1>10, <1>12, <2>1
  <2>2. CASE ~dangling
    <3>1. Capacity[Len(exported)] # Capacity[Len(exported')] /\ DOMAIN exported # {}
      BY <1>3, <1>15, <2>2 DEF Moves
    <3>2. Len(exported) # Len(exported')
      BY <3>1
    <3>3. DOMAIN added # {}
      <4>1. Len(exported') = Len(exported) + Len(added) /\ Len(exported) \in Nat /\ Len(added) \in Nat
            /\ DOMAIN added = 1 .. Len(added)
        BY <1>3, <1>8
      <4>2. Len(added) # 0
        BY <3>2, <4>1, SMT
      <4>3. 1 \in 1 .. Len(added)
        BY <4>1, <4>2, SMT
      <4> QED
        BY <4>1, <4>3
    <3>4. Exporting(n)
      BY <1>5, <1>7, <3>3 DEF Exporting
    <3>5. PICK m \in 1 .. Begun : \E e : Listed(e, m)
      BY <1>12, <3>1
    <3>6. Exporting(m)
      BY <3>5 DEF Exporting, Listed
    <3>7. m # n /\ m \in 1 .. n
      BY <1>2, <1>5, SMT
    <3> QED
      BY <1>11, <3>4, <3>6, <3>7
  <2> QED
    BY <2>1, <2>2
<1>16. \A name : Places(added, name) = Places(list, name)
  BY <1>7 DEF Places
<1>19. Joined(exported', exported, added)
  BY <1>3, <1>8 DEF Joined
<1>17. ASSUME NEW name, BegunProviders(name)' # {} PROVE LastListed(name)'
  <2>1. BegunProviders(name)' = {m \in 1 .. n : Usable(Order[m]) /\ Places(ExportsOf(m), name) # {}}
    BY <1>4, <1>5 DEF BegunProviders, Places
  <2>2. LastListed(name)' <=>
          LET m == Max(BegunProviders(name)') IN
            /\ Places(exported', name) # {}
            /\ exported'[Max(Places(exported', name))].address
                 \in AddressesAt(m, Max(Places(ExportsOf(m), name)))
    BY <1>4 DEF LastListed, Places
  <2>3. CASE Places(list, name) = {}
    <3>1. Places(exported', name) = Places(exported, name)
          /\ \A i \in Places(exported, name) : exported'[i] = exported[i]
      BY <1>16, <1>19, <2>3, JoinsTable
    <3>2. BegunProviders(name)' = BegunProviders(name)
      <4>1. \A m \in 1 .. n : m \in 1 .. Begun \/ m = n
        BY <1>2, <1>5, SMT
      <4> QED
        BY <1>10, <2>1, <2>3, <4>1 DEF BegunProviders
    <3>3. LastListed(name)
      BY <1>12, <1>17, <3>2
    <3>4. Max(Places(exported, name)) \in Places(exported, name)
      <4>1. Places(exported, name) \subseteq 0 .. Len(exported) /\ Len(exported) \in Nat
        BY <1>8, SMT DEF Places
      <4> QED
        BY <3>3, <4>1, GreatestPlace DEF LastListed
    <3> QED
      BY <2>2, <3>1, <3>2, <3>3, <3>4 DEF LastListed
  <2>4. CASE Places(list, name) # {}
    <3>1. Max(BegunProviders(name)') = n
      <4>1. n \in BegunProviders(name)'
        BY <1>5, <1>11, <2>1, <2>4
      <4>2. BegunProviders(name)' \subseteq Nat /\ \A m \in BegunProviders(name)' : m <= n
        BY <1>2, <2>1, SMT
      <4> HIDE DEF n
      <4> QED
        BY <4>1, <4>2, GreatestUnique
    <3>2. /\ Places(exported', name) # {}
          /\ Max(Places(added, name)) \in DOMAIN added
          /\ exported'[Max(Places(exported', name))] = added[Max(Places(added, name))]
      BY <1>16, <1>19, <2>4, JoinsTable
    <3>3. added[Max(Places(added, name))].address \in AddressesAt(n, Max(Places(list, name)))
      BY <1>7, <1>16, <3>2
    <3> QED
      BY <2>2, <3>1, <3>2, <3>3
  <2> QED
    BY <2>3, <2>4
<1>18. phase' # "imports"
  BY <1>1
<1> QED
  BY <1>4, <1>5, <1>9, <1>14, <1>15, <1>17, <1>18 DEF TableOK

LEMMA TableStep ==
  ASSUME TypeOK, LinkInv, Next
  PROVE  TableOK'
<1>1. OrderOK /\ TableOK
  BY DEF LinkInv
<1>2. CASE InvalidExe \/ ImportByOrdinal \/ NoSystemDirectory
  <2>1. exported' = exported /\ phase' \notin {"imports", "dlls", "dll_sections", "exe_sections", "mapped"}
    BY <1>2 DEF InvalidExe, ImportByOrdinal, NoSystemDirectory
  <2> QED
    BY <1>1, <2>1 DEF TableOK, Linking
<1>3. CASE ReadImports
  <2>1. /\ phase' = "dlls" /\ imported_dlls' = Order /\ UNCHANGED <<inputs, exported, dangling>>
        /\ exported = <<>> /\ ~dangling
    BY <1>1, <1>3 DEF ReadImports, Order, TableOK
  <2>2. Order' = Order /\ Len(Order) \in Nat
    BY <2>1, SameInputs, OrderTyped
  <2>3. Begun' = 0
    BY <2>1, <2>2, SMT DEF Begun, Done
  <2>4. 1 .. Begun' = {}
    BY <2>3, SMT
  <2>5. \A name : BegunProviders(name)' = {}
    BY <2>4 DEF BegunProviders
  <2> QED
    BY <1>1, <2>1, <2>5 DEF TableOK
<1>4. CASE StartDll
  BY <1>1, <1>4, StartDllTable
<1>5. CASE SkipDll
  <2>1. /\ phase = "dlls" /\ phase' = "dlls" /\ imported_dlls # <<>> /\ ~Usable(Head(imported_dlls))
        /\ imported_dlls' = Tail(imported_dlls) /\ UNCHANGED <<inputs, exported, dangling>>
    BY <1>5 DEF SkipDll
  <2>2. Begun = Done /\ Begun' = Done + 1 /\ Done \in Nat /\ ~Usable(Order[Done + 1])
    BY <1>1, <2>1, NextDll, SameInputs DEF Begun, Done
  <2>3. /\ Begun' \in Nat /\ Begun <= Begun'
        /\ \A m \in Begun + 1 .. Begun' : m = Done + 1
    BY <2>2, SMT
  <2> QED
    BY <1>1, <2>1, <2>2, <2>3, SameTable DEF Linking
<1>6. CASE MapDllSection \/ EndDll \/ LinkRuntime \/ MapExeSection \/ EndExe \/ SectionThrows
  <2>1. UNCHANGED <<inputs, exported, dangling>> /\ phase' # "imports"
    BY <1>6 DEF MapDllSection, EndDll, LinkRuntime, MapExeSection, EndExe, SectionThrows
  <2>2. Linking
    BY <1>6 DEF Linking, MapDllSection, EndDll, LinkRuntime, MapExeSection, EndExe, SectionThrows
  <2>3. Order' = Order
    BY <2>1, SameInputs
  <2>4. Begun \in Nat
    <3>1. Len(imported_dlls) <= Len(Order) /\ Len(imported_dlls) \in Nat /\ Len(Order) \in Nat
      BY <1>1, <2>2, OrderTyped DEF OrderOK
    <3> QED
      BY <3>1, SMT DEF Begun, Done
  <2>5. Linking' => Begun' = Begun
    <3>1. CASE EndDll
      <4>1. phase = "dll_sections" /\ phase' = "dlls" /\ imported_dlls' = Tail(imported_dlls)
        BY <3>1 DEF EndDll
      <4> QED
        BY <1>1, <2>2, <2>3, <4>1, NextDll DEF Begun, Done, OrderOK
    <3>2. CASE imported_dlls' = imported_dlls /\ (Linking' => (phase = "dll_sections" <=> phase' = "dll_sections"))
      BY <2>3, <3>2 DEF Begun, Done
    <3> QED
      BY <1>6, <3>1, <3>2
        DEF Linking, MapDllSection, LinkRuntime, MapExeSection, EndExe, SectionThrows
  <2>6. \A m \in Begun + 1 .. Begun : FALSE
    BY <2>4, SMT
  <2>7. Begun <= Begun
    BY <2>4, SMT
  <2> QED
    BY <1>1, <2>1, <2>2, <2>4, <2>5, <2>6, <2>7, SameTable
<1> QED
  BY <1>2, <1>3, <1>4, <1>5, <1>6 DEF Next

-----------------------------------------------------------------------------
(* Slots in the file *)

LEMMA SlotPlace ==
  ASSUME TypeOK, NEW s \in Slots(exe)
  PROVE  s.rva \in Nat /\ Offset(s) \in Nat /\ Offset(s) + ThunkSize <= exe.size
<1> DEFINE size == exe.size
<1>1. exe \in Exes /\ size \in Nat /\ ThunkSize \in Nat
  BY SectionTypes, SizeAssumption DEF TypeOK, Images
<1>2. s.rva \in Nat /\ Offset(s) \in 0 .. size - ThunkSize
  BY <1>1, SlotsAssumption DEF Offset
<1> HIDE DEF size
<1>3. Offset(s) \in Nat /\ Offset(s) + ThunkSize <= size
  BY <1>1, <1>2, SMT
<1> QED
  BY <1>2, <1>3 DEF size

(* where the slot lies in the section that it is copied with *)
LEMMA SlotSection ==
  ASSUME TypeOK, NEW s \in Slots(exe), ~Elsewhere(s)
  PROVE  \E i \in DOMAIN exe.sections :
           /\ ~Misplaced(exe, i) /\ Offset(s) = s.rva - exe.sections[i].va + exe.sections[i].ptr
           /\ exe.sections[i].va <= s.rva
           /\ s.rva + ThunkSize <= exe.sections[i].va + exe.sections[i].raw
<1>1. exe \in Exes /\ exe \in Images /\ s.rva \in Nat
  BY SlotPlace DEF TypeOK, Images
<1>2. PICK i \in DOMAIN exe.sections : SlotIn(exe, s, i)
  BY <1>1, SlotsAssumption
<1>3. ~Misplaced(exe, i)
  BY <1>2 DEF Elsewhere
<1> DEFINE v == exe.sections[i].va
           r == exe.sections[i].raw
           p == exe.sections[i].ptr
           a == s.rva
<1>4. v \in Nat /\ r \in Nat /\ p \in Nat /\ ThunkSize \in Nat \ {0} /\ v <= a /\ a + ThunkSize <= v + r
  BY <1>1, <1>2, SectionTypes, SizeAssumption DEF SlotIn
<1>5. a < v + r
  <2> HIDE DEF v, r, a
  <2>1. a \in Nat
    BY <1>1 DEF a
  <2> QED
    BY <1>4, <2>1, SMT
<1>6. Offset(s) = a - v + p
  BY <1>1, <1>3, <1>4, <1>5, AddressOffset DEF Offset
<1> QED
  BY <1>3, <1>4, <1>6

-----------------------------------------------------------------------------
(* The linker patches each slot with its own address: no other slot has a  *)
(* byte of it.                                                             *)
LEMMA PatchedByte ==
  ASSUME Inv, BytesInv, NEW resolved, DOMAIN resolved = Slots(exe), NEW s \in Slots(exe),
         NEW k \in 0 .. ThunkSize - 1
  PROVE  /\ Offset(s) + k \in DOMAIN binary
         /\ Patched(resolved)[Offset(s) + k] =
              IF resolved[s] = 0 THEN binary[Offset(s) + k] ELSE <<"import", resolved[s], k>>
<1> DEFINE o == Offset(s) + k
           Hit(t) == resolved[t] # 0 /\ o \in Span(rva_to_foa(exe, t.rva), ThunkSize)
<1>1. exe \in Exes /\ TypeOK /\ ThunkSize \in Nat \ {0} /\ exe.size \in Nat
  <2>1. exe \in Images
    BY DEF Inv, TypeOK, Images
  <2> QED
    BY <2>1, SectionTypes, SizeAssumption DEF Inv, TypeOK
<1>2. Offset(s) \in Nat /\ Offset(s) + ThunkSize <= exe.size
  BY <1>1, SlotPlace
<1>3. o \in 0 .. exe.size - 1 /\ o \in Offset(s) .. Offset(s) + ThunkSize - 1 /\ o - Offset(s) = k
  BY <1>1, <1>2, SMT
<1>4. o \in DOMAIN binary /\ o \in Span(Offset(s), ThunkSize)
  BY <1>3 DEF BytesInv, BinaryOK, Span
<1>5. \A t \in Slots(exe) : Hit(t) => t = s
  <2> SUFFICES ASSUME NEW t \in Slots(exe), Hit(t), t # s PROVE FALSE
    OBVIOUS
  <2>1. Span(rva_to_foa(exe, s.rva), ThunkSize) \cap Span(rva_to_foa(exe, t.rva), ThunkSize) = {}
    BY <1>1, SlotsAssumption
  <2> HIDE DEF o
  <2> QED
    BY <1>4, <2>1 DEF Offset
<1>6. Patched(resolved)[o] =
        IF \E t \in Slots(exe) : Hit(t)
        THEN LET t == CHOOSE t \in Slots(exe) : Hit(t)
             IN <<"import", resolved[t], o - rva_to_foa(exe, t.rva)>>
        ELSE binary[o]
  <2> HIDE DEF o
  <2> QED
    BY <1>4 DEF Patched
<1>7. CASE resolved[s] = 0
  <2>1. ~ \E t \in Slots(exe) : Hit(t)
    BY <1>5, <1>7
  <2> HIDE DEF Hit
  <2> QED
    BY <1>4, <1>6, <1>7, <2>1
<1>8. CASE resolved[s] # 0
  <2>1. Hit(s)
    BY <1>4, <1>8 DEF Offset
  <2> HIDE DEF Hit
  <2>2. (CHOOSE t \in Slots(exe) : Hit(t)) = s
    BY <1>5, <2>1
  <2>3. Patched(resolved)[o] = <<"import", resolved[s], o - rva_to_foa(exe, s.rva)>>
    BY <1>6, <2>1, <2>2
  <2> QED
    BY <1>3, <1>4, <1>8, <2>3 DEF Offset
<1> QED
  BY <1>7, <1>8

LEMMA SameAddresses ==
  ASSUME UNCHANGED <<exported, dangling>>, NEW name
  PROVE  get_function_address(name)' = get_function_address(name)
BY DEF get_function_address, SelectLastInSeq

LEMMA SlotsStep ==
  ASSUME Inv, BytesInv, LinkInv, Next
  PROVE  SlotsOK'
<1>1. SlotsOK
  BY DEF LinkInv
<1>2. CASE LinkRuntime
  <2>1. /\ phase = "dlls" /\ phase' = "exe_sections" /\ UNCHANGED <<inputs, exported, dangling>>
    BY <1>2 DEF LinkRuntime
  <2>2. PICK resolved \in [Slots(exe) -> UNION {get_function_address(s.name) : s \in Slots(exe)}] :
          /\ \A s \in Slots(exe) : resolved[s] \in get_function_address(s.name)
          /\ binary' = Patched(resolved)
    BY <1>2 DEF LinkRuntime
  <2>3. exe' = exe /\ \A name : get_function_address(name)' = get_function_address(name)
    BY <2>1, SameAddresses DEF inputs
  <2>4. \A o \in DOMAIN binary : binary[o] = FileByte(Exe, o)
    BY <1>1, <2>1 DEF SlotsOK
  <2>5. ASSUME NEW s \in Slots(exe), NEW k \in 0 .. ThunkSize - 1
        PROVE  binary'[Offset(s) + k] =
                 IF resolved[s] = 0 THEN FileByte(Exe, Offset(s) + k) ELSE <<"import", resolved[s], k>>
    <3>1. DOMAIN resolved = Slots(exe)
      BY <2>2
    <3> QED
      BY <2>2, <2>4, <3>1, PatchedByte
  <2>6. \A s : Offset(s)' = Offset(s)
    BY <2>3 DEF Offset
  <2>7. \A s \in Slots(exe) : SlotHolds(s, resolved[s])'
    BY <2>5, <2>6 DEF SlotHolds
  <2> QED
    BY <2>1, <2>2, <2>3, <2>7 DEF SlotsOK
<1>3. CASE ~LinkRuntime
  <2>1. UNCHANGED <<inputs, binary>>
    BY <1>3 DEF Next, InvalidExe, ImportByOrdinal, NoSystemDirectory, ReadImports, SkipDll, StartDll, MapDllSection, EndDll,
           MapExeSection, EndExe, SectionThrows
  <2>2. /\ phase' \in {"imports", "dlls", "dll_sections"} => phase \in {"imports", "dlls", "dll_sections"}
        /\ Linked' => Linked /\ UNCHANGED <<exported, dangling>>
    BY <1>3 DEF Next, InvalidExe, ImportByOrdinal, NoSystemDirectory, ReadImports, SkipDll, StartDll, MapDllSection, EndDll,
           MapExeSection, EndExe, SectionThrows, Linked
  <2>3. exe' = exe /\ binary' = binary /\ (Linked' => \A name : get_function_address(name)' = get_function_address(name))
    BY <2>1, <2>2, SameAddresses DEF inputs
  <2>4. \A s, a : SlotHolds(s, a)' <=> SlotHolds(s, a)
    BY <2>3 DEF SlotHolds, Offset
  <2> QED
    BY <1>1, <2>2, <2>3, <2>4 DEF SlotsOK
<1> QED
  BY <1>2, <1>3
-----------------------------------------------------------------------------
(* A section of the program is copied as the linker left it, and stays.    *)
LEMMA MapExeSectionCopied ==
  ASSUME Inv, BytesInv, CopiedOK, MapExeSection, NEW i \in DOMAIN exe.sections, ~Misplaced(exe, i)
  PROVE  Copied(i)' \/ Remains(i)'
<1> DEFINE sec == exe.sections[i]
<1>1. /\ MapStep(binary) /\ File = Exe /\ Base = 0 /\ ImageOf(File) = exe
      /\ phase = "exe_sections" /\ UNCHANGED <<inputs, binary>>
      /\ sections # <<>> /\ sections' = Tail(sections)
  BY ExeStep DEF MapExeSection
<1>2. /\ exe \in Images /\ sections \in Seq(MappedSections)
      /\ File' = File /\ \A file : ImageOf(file)' = ImageOf(file)
  BY <1>1, NewSection DEF Inv, BasesOK
<1>3. sec.va \in Nat /\ sec.raw \in Nat /\ sec.ptr \in Nat
  BY <1>2, SectionTypes
<1>4. Copied(i)' <=>
        /\ sec.va + sec.raw <= Size
        /\ \A k \in 0 .. sec.raw - 1 :
             sec.ptr + k < exe.size => memory'[sec.va + k] = binary[sec.ptr + k]
  BY <1>1 DEF Copied, inputs
<1>5. ASSUME Head(sections) = get_pe_sections(exe)[i] PROVE Copied(i)'
  <2>1. /\ First = Base + sec.va /\ First + sec.raw <= Size
        /\ \A k \in 0 .. sec.raw - 1 :
             sec.ptr + k < exe.size => memory'[First + k] = binary[sec.ptr + k]
    BY <1>1, <1>5, NewByte
  <2>2. First = sec.va
    BY <1>1, <1>3, <2>1, SMT
  <2> QED
    BY <1>4, <2>1, <2>2
<1>6. ASSUME Copied(i), Head(sections) # get_pe_sections(exe)[i] PROVE Copied(i)'
  <2> SUFFICES ASSUME NEW k \in 0 .. sec.raw - 1, sec.ptr + k < exe.size
               PROVE  memory'[sec.va + k] = memory[sec.va + k]
    BY <1>4, <1>6 DEF Copied
  <2> DEFINE v == sec.va
             r == sec.raw
             a == v + k
  <2>1. a \in Nat /\ a \in Addr /\ a \in Span(v, r)
    <3>1. v \in Nat /\ r \in Nat /\ v + r <= Size /\ k \in 0 .. r - 1
      BY <1>3, <1>6 DEF Copied
    <3> HIDE DEF v, r
    <3> QED
      BY <3>1, SizeAssumption, SMT DEF Addr, Span
  <2>2. PICK j \in DOMAIN exe.sections : Head(sections) = get_pe_sections(exe)[j]
    BY <1>1, NewSection
  <2> DEFINE w == exe.sections[j].va
             q == exe.sections[j].raw
  <2>3. NewBytes = Span(w, q) /\ w \in Nat
    <3>1. First = Base + w /\ Head(sections).mem_size = q
      BY <1>1, <2>2, NewByte
    <3>2. w \in Nat
      BY <1>2, SectionTypes
    <3> HIDE DEF w, q
    <3>3. First = w
      BY <1>1, <3>1, <3>2, SMT
    <3> QED
      BY <3>1, <3>2, <3>3 DEF NewBytes
  <2>4. a \notin NewBytes
    <3> SUFFICES ASSUME a \in Span(w, q) PROVE FALSE
      BY <2>3
    <3>1. 0 + v = v /\ 0 + w = w
      BY <1>3, <2>3, SMT
    <3>2. a \in Span(0 + v, r) /\ a \in Span(0 + w, q)
      BY <2>1, <3>1
    <3>3. i = j
      <4> HIDE DEF a
      <4> QED
        BY <1>2, <2>1, <3>2, OneSection
    <3> QED
      BY <1>6, <2>2, <3>3
  <2> QED
    BY <1>1, <2>1, <2>4, OtherBytes
<1>7. ASSUME Remains(i), Head(sections) # get_pe_sections(exe)[i] PROVE Remains(i)'
  <2>1. PICK k \in DOMAIN sections : sections[k] = get_pe_sections(exe)[i]
    BY <1>1, <1>7 DEF Remains
  <2>2. k # 1
    BY <1>2, <1>7, <2>1, HeadTailProperties
  <2>3. k - 1 \in DOMAIN sections' /\ sections'[k - 1] = sections[k]
    BY <1>1, <1>2, <2>2, HeadTailProperties, SMT
  <2> QED
    BY <1>1, <1>2, <2>1, <2>3 DEF Remains
<1>8. Copied(i) \/ Remains(i)
  BY <1>1 DEF CopiedOK, Linked
<1> QED
  BY <1>5, <1>6, <1>7, <1>8

LEMMA CopiedStep ==
  ASSUME Inv, BytesInv, LinkInv, Next
  PROVE  CopiedOK'
<1>1. CopiedOK
  BY DEF LinkInv
<1>2. UNCHANGED inputs
  BY DEF Next, InvalidExe, ImportByOrdinal, NoSystemDirectory, ReadImports, SkipDll, StartDll, MapDllSection, EndDll,
         LinkRuntime, MapExeSection, EndExe, SectionThrows
<1>3. exe' = exe /\ \A i : Misplaced(exe, i)' <=> Misplaced(exe, i)
  BY <1>2 DEF inputs
<1>4. CASE LinkRuntime
  <2>1. phase' = "exe_sections" /\ sections' = get_pe_sections(exe)
    BY <1>4 DEF LinkRuntime
  <2>2. File' = Exe /\ ImageOf(File)' = exe
    BY <1>3, <2>1 DEF File, ImageOf
  <2>3. DOMAIN sections' = DOMAIN exe.sections
    BY <2>1 DEF get_pe_sections
  <2>4. \A i \in DOMAIN exe.sections : Remains(i)'
    BY <2>1, <2>2, <2>3 DEF Remains
  <2> QED
    BY <1>3, <2>1, <2>4 DEF CopiedOK
<1>5. CASE MapExeSection
  <2>1. phase' = "exe_sections"
    BY <1>5 DEF MapExeSection
  <2>2. \A i \in DOMAIN exe.sections : ~Misplaced(exe, i) => Copied(i)' \/ Remains(i)'
    BY <1>1, <1>5, MapExeSectionCopied
  <2> QED
    BY <1>3, <2>1, <2>2 DEF CopiedOK
<1>6. CASE EndExe
  <2>1. /\ phase = "exe_sections" /\ sections = <<>> /\ UNCHANGED <<inputs, memory, binary>>
    BY <1>6 DEF EndExe, guest
  <2>2. \A i : ~Remains(i)
    BY <2>1 DEF Remains
  <2>3. \A i : Copied(i)' <=> Copied(i)
    BY <1>3, <2>1 DEF Copied
  <2> QED
    BY <1>1, <1>3, <2>1, <2>2, <2>3 DEF CopiedOK, Linked
<1>7. CASE ~(LinkRuntime \/ MapExeSection \/ EndExe)
  <2>1. ~Linked'
    BY <1>7 DEF Next, InvalidExe, ImportByOrdinal, NoSystemDirectory, ReadImports, SkipDll, StartDll, MapDllSection, EndDll,
           SectionThrows, Linked
  <2> QED
    BY <2>1 DEF CopiedOK
<1> QED
  BY <1>4, <1>5, <1>6, <1>7

LEMMA SameLinks ==
  ASSUME LinkInv, UNCHANGED vars
  PROVE  LinkInv'
<1>1. UNCHANGED <<inputs, phase, imported_dlls, sections, exported, dangling, binary, memory>>
  BY DEF vars, guest
<1>2. /\ Order' = Order /\ exe' = exe /\ disk' = disk
      /\ \A d : Usable(d)' <=> Usable(d)
      /\ \A m : ExportsOf(m)' = ExportsOf(m) /\ (Exporting(m)' <=> Exporting(m))
      /\ \A m, j : AddressesAt(m, j)' = AddressesAt(m, j)
      /\ \A e, m : Listed(e, m)' <=> Listed(e, m)
  BY <1>1, SameInputs
<1>3. (Linking' <=> Linking) /\ (Linked' <=> Linked) /\ Done' = Done /\ Begun' = Begun
  BY <1>1, <1>2 DEF Linking, Linked, Done, Begun
<1>4. OrderOK'
  BY <1>1, <1>2, <1>3 DEF LinkInv, OrderOK
<1>5. TableOK'
  <2>1. \A name : BegunProviders(name)' = BegunProviders(name)
    BY <1>2, <1>3 DEF BegunProviders, Places
  <2>2. \A name : LastListed(name)' <=> LastListed(name)
    BY <1>1, <1>2, <2>1 DEF LastListed, Places
  <2> QED
    BY <1>1, <1>2, <1>3, <2>1, <2>2 DEF LinkInv, TableOK
<1>6. SlotsOK'
  <2>1. \A s, a : SlotHolds(s, a)' <=> SlotHolds(s, a)
    BY <1>1, <1>2 DEF SlotHolds, Offset
  <2> QED
    BY <1>1, <1>2, <1>3, <2>1, SameAddresses DEF LinkInv, SlotsOK
<1>7. CopiedOK'
  <2>1. \A i : Copied(i)' <=> Copied(i)
    BY <1>1, <1>2 DEF Copied
  <2>2. File' = File /\ ImageOf(File)' = ImageOf(File)
    BY <1>1, <1>2 DEF File, ImageOf
  <2>3. \A i : Remains(i)' <=> Remains(i)
    BY <1>1, <2>2 DEF Remains
  <2> QED
    BY <1>1, <1>2, <1>3, <2>1, <2>3 DEF LinkInv, CopiedOK
<1> QED
  BY <1>4, <1>5, <1>6, <1>7 DEF LinkInv

LEMMA InitLink == Init => LinkInv
<1> SUFFICES ASSUME Init PROVE LinkInv
  OBVIOUS
<1>1. phase = "imports" /\ ~Linking /\ ~Linked
  BY DEF Init, Linking, Linked
<1>2. exported = <<>> /\ ~dangling /\ binary = [o \in 0 .. exe.size - 1 |-> FileByte(Exe, o)]
  BY DEF Init
<1>3. OrderOK /\ CopiedOK
  BY <1>1 DEF OrderOK, CopiedOK
<1>4. TableOK
  BY <1>1, <1>2 DEF TableOK
<1>5. SlotsOK
  BY <1>1, <1>2 DEF SlotsOK
<1> QED
  BY <1>3, <1>4, <1>5 DEF LinkInv

LEMMA LinkInvariance == Spec => [](Inv /\ BytesInv /\ LinkInv)
<1>1. Init => LinkInv
  BY InitLink
<1>2. Inv /\ BytesInv /\ LinkInv /\ [Next]_vars => LinkInv'
  <2> SUFFICES ASSUME Inv, BytesInv, LinkInv, [Next]_vars PROVE LinkInv'
    OBVIOUS
  <2>1. CASE Next
    BY <2>1, OrderStep, TableStep, SlotsStep, CopiedStep DEF LinkInv, Inv
  <2>2. CASE UNCHANGED vars
    BY <2>2, SameLinks
  <2> QED
    BY <2>1, <2>2
<1> QED
  BY <1>1, <1>2, BytesInvariance, PTL DEF Spec
-----------------------------------------------------------------------------
(* What the table says is what the last DLL says. *)
LEMMA TableLookup ==
  ASSUME TableOK, NEW name
  PROVE  get_function_address(name) =
           IF dangling /\ name \notin LongNames
           THEN {0} \cup {exported[i].address :
                            i \in {j \in DOMAIN exported : exported[j].name \notin LongNames}}
           ELSE {IF Places(exported, name) = {} THEN 0 ELSE exported[Max(Places(exported, name))].address}
<1> DEFINE I == {i \in 1 .. Len(exported) : exported[i].name = name}
<1>1. DOMAIN exported = 1 .. Len(exported) /\ Len(exported) \in Nat
  BY SequenceParts DEF TableOK
<1>2. I = Places(exported, name)
  BY <1>1 DEF Places
<1>3. Places(exported, name) # {} => Max(Places(exported, name)) # 0
  <2> SUFFICES ASSUME Places(exported, name) # {} PROVE Max(Places(exported, name)) # 0
    OBVIOUS
  <2>1. Places(exported, name) \subseteq 0 .. Len(exported)
    BY <1>1, SMT DEF Places
  <2>2. Max(Places(exported, name)) \in 1 .. Len(exported)
    BY <1>1, <2>1, GreatestPlace DEF Places
  <2> QED
    BY <1>1, <2>2, SMT
<1>4. get_function_address(name) =
        IF dangling /\ name \notin LongNames
        THEN {0} \cup {exported[i].address :
                         i \in {j \in DOMAIN exported : exported[j].name \notin LongNames}}
        ELSE LET last == IF I # {} THEN Max(I) ELSE 0
             IN  {IF last = 0 THEN 0 ELSE exported[last].address}
  BY DEF get_function_address, SelectLastInSeq
<1> HIDE DEF I
<1> QED
  BY <1>2, <1>3, <1>4

LEMMA AddressesResolve ==
  ASSUME Inv, LinkInv, Linked, NEW name, NEW a \in get_function_address(name)
  PROVE  a \in Resolutions(name)
<1>1. TypeOK /\ OrderOK /\ TableOK /\ Linking
  BY DEF Inv, LinkInv, Linked, Linking
<1>2. DOMAIN Order = 1 .. Begun /\ Begun \in Nat
  <2>1. Begun = Len(Order) - 0
    BY <1>1 DEF Begun, Done, OrderOK, Linked
  <2> QED
    BY <1>1, <2>1, OrderTyped, SMT
<1>3. /\ \A i \in DOMAIN exported : \E m \in DOMAIN Order : Listed(exported[i], m)
      /\ BegunProviders(name) # {} => LastListed(name)
      /\ dangling => \E m, n \in DOMAIN Order : m # n /\ Exporting(m) /\ Exporting(n)
      /\ BegunProviders(name) = Providers(name)
  BY <1>1, <1>2 DEF TableOK, BegunProviders, Providers
<1>4. ASSUME NEW m \in DOMAIN Order, Usable(Order[m]), NEW j \in DOMAIN ExportsOf(m), a \in AddressesAt(m, j),
             ~Reliable(name)
      PROVE  a \in Resolutions(name)
  BY <1>4 DEF Resolutions
<1>5. CASE dangling /\ name \notin LongNames
  <2>1. ~Reliable(name)
    BY <1>3, <1>5 DEF Reliable
  <2>2. CASE a = 0
    BY <2>1, <2>2 DEF Resolutions
  <2>3. CASE a # 0
    <3>1. PICK i \in DOMAIN exported : a = exported[i].address
      BY <1>1, <1>5, <2>3, TableLookup
    <3> QED
      BY <1>3, <1>4, <2>1, <3>1 DEF Listed
  <2> QED
    BY <2>2, <2>3
<1>6. CASE ~(dangling /\ name \notin LongNames)
  <2>1. a = IF Places(exported, name) = {} THEN 0 ELSE exported[Max(Places(exported, name))].address
    BY <1>1, <1>6, TableLookup
  <2>2. CASE Providers(name) = {}
    <3>1. Places(exported, name) = {}
      BY <1>3, <2>2 DEF Providers, Places, Listed
    <3> QED
      BY <2>1, <2>2, <3>1 DEF Resolutions
  <2>3. CASE Providers(name) # {}
    <3> DEFINE m == Max(Providers(name))
               j == Max(Places(ExportsOf(m), name))
    <3>1. a \in AddressesAt(m, j)
      BY <1>3, <2>1, <2>3 DEF LastListed
    <3>2. m \in Providers(name)
      <4>1. Providers(name) \subseteq 0 .. Begun
        BY <1>2, SMT DEF Providers
      <4> QED
        BY <1>2, <2>3, <4>1, GreatestPlace
    <3> HIDE DEF m
    <3>3. m \in DOMAIN Order /\ Usable(Order[m]) /\ Places(ExportsOf(m), name) # {}
      BY <3>2 DEF Providers
    <3>4. j \in DOMAIN ExportsOf(m)
      <4>1. disk[Order[m]] \in Dlls \cup {Missing}
        BY <1>1, <3>3 DEF Usable, TypeOK
      <4>2. ExportsOf(m) \in Seq(ToSet(ExportsOf(m)))
        BY <4>1, ExportTableTyped DEF ExportsOf
      <4>3. DOMAIN ExportsOf(m) = 1 .. Len(ExportsOf(m)) /\ Len(ExportsOf(m)) \in Nat
        BY <4>2, SequenceParts
      <4>4. Places(ExportsOf(m), name) \subseteq 0 .. Len(ExportsOf(m))
        BY <4>3, SMT DEF Places
      <4>5. j \in Places(ExportsOf(m), name)
        BY <3>3, <4>3, <4>4, GreatestPlace
      <4> QED
        BY <4>5 DEF Places
    <3>5. CASE Reliable(name)
      BY <2>3, <3>1, <3>5 DEF Resolutions, m
    <3>6. CASE ~Reliable(name)
      BY <1>4, <3>1, <3>3, <3>4, <3>6
    <3> QED
      BY <3>5, <3>6
  <2> QED
    BY <2>2, <2>3
<1> QED
  BY <1>5, <1>6

(* A slot is copied with its section. *)
LEMMA SlotCopied ==
  ASSUME Inv, LinkInv, phase = "mapped", NEW s \in Slots(exe), ~Elsewhere(s), NEW k \in 0 .. ThunkSize - 1
  PROVE  memory[s.rva + k] = binary[Offset(s) + k]
<1>1. PICK i \in DOMAIN exe.sections :
        /\ ~Misplaced(exe, i) /\ Offset(s) = s.rva - exe.sections[i].va + exe.sections[i].ptr
        /\ exe.sections[i].va <= s.rva
        /\ s.rva + ThunkSize <= exe.sections[i].va + exe.sections[i].raw
  BY SlotSection DEF Inv
<1> DEFINE v == exe.sections[i].va
           r == exe.sections[i].raw
           p == exe.sections[i].ptr
           x == s.rva
           o == Offset(s)
           size == exe.size
           q == x - v + k
<1>2. \A n \in 0 .. r - 1 : p + n < size => memory[v + n] = binary[p + n]
  BY <1>1 DEF LinkInv, CopiedOK, Copied, Linked
<1>3. /\ v \in Nat /\ r \in Nat /\ p \in Nat /\ size \in Nat /\ ThunkSize \in Nat
      /\ x \in Nat /\ o \in Nat /\ o + ThunkSize <= size
      /\ o = x - v + p /\ v <= x /\ x + ThunkSize <= v + r
  <2>1. exe \in Images
    BY DEF Inv, TypeOK, Images
  <2> QED
    BY <1>1, <2>1, SectionTypes, SlotPlace, SizeAssumption DEF Inv
<1> HIDE DEF v, r, p, x, o, size
<1>4. q \in 0 .. r - 1 /\ p + q < size /\ v + q = x + k /\ p + q = o + k
  BY <1>3, SMT
<1> HIDE DEF q
<1>5. memory[v + q] = binary[p + q]
  BY <1>2, <1>4
<1> QED
  BY <1>4, <1>5 DEF x, o

LEMMA SlotsFollow == Inv /\ BytesInv /\ LinkInv => SlotsHoldLastExport
<1> SUFFICES ASSUME Inv, LinkInv, phase = "mapped", NEW s \in Slots(exe), ~Elsewhere(s)
             PROVE  \E a \in Resolutions(s.name) : \A k \in 0 .. ThunkSize - 1 :
                      memory[s.rva + k] = IF a = 0 THEN FileByte(Exe, Offset(s) + k)
                                          ELSE <<"import", a, k>>
  BY DEF SlotsHoldLastExport, Offset
<1>1. Linked
  BY DEF Linked
<1>2. PICK a \in get_function_address(s.name) : SlotHolds(s, a)
  BY <1>1 DEF LinkInv, SlotsOK
<1>3. a \in Resolutions(s.name)
  BY <1>1, <1>2, AddressesResolve
<1>4. \A k \in 0 .. ThunkSize - 1 : memory[s.rva + k] = binary[Offset(s) + k]
  BY SlotCopied
<1> QED
  BY <1>2, <1>3, <1>4 DEF SlotHolds

-----------------------------------------------------------------------------
(* Theorems *)

(* Every variable keeps its type: no section ends above the memory, and    *)
(* cur_alloc stays an address, for every set of images (Mapper.cpp:146-167). *)
THEOREM MapperTypeCorrect == Spec => []TypeOK
<1>1. Inv => TypeOK
  BY DEF Inv
<1> QED
  BY <1>1, Invariance, PTL

(* Two DLLs never share a byte, whatever their headers say and in whichever *)
(* order they are imported (Mapper.cpp:83, 131-135).                       *)
THEOREM DllsNeverOverlap == Spec => []DllsDisjoint
<1>1. Inv => DllsDisjoint
  BY DEF Inv
<1> QED
  BY <1>1, Invariance, PTL

(* The allocator ends above all sections, so that the stack of main is     *)
(* never laid over one (Mapper.cpp:131-135, 162-166).                      *)
THEOREM AllocatorSoundAfterLoad == Spec => []AllocatorPastSections
<1>1. Inv => AllocatorPastSections
  BY DEF Inv, BasesOK, AllocatorPastSections
<1> QED
  BY <1>1, Invariance, PTL

(* A byte of a loaded section has the section's permission, a byte of the  *)
(* program's over a DLL's the program's, and every other byte has none, so *)
(* that nothing stays writable from the copy (Mapper.cpp:117, 129, 148,    *)
(* 160).                                                                   *)
THEOREM PermissionsSound == Spec => []PermissionsOfSections
  BY BytesInvariance, PermissionsFollow, PTL

(* After a load every section holds the bytes of the file that its header  *)
(* names, with the exceptions the code has: import slots, what the program *)
(* is mapped over, sections read from elsewhere (Mapper.cpp:115-127,       *)
(* 146-157; Address.cpp:12-14).                                            *)
THEOREM DataSound == Spec => []SectionsHoldTheirData
  BY BytesInvariance, DataFollows, PTL

(* After a load an import slot in memory holds, byte for byte, the address *)
(* that the last DLL to be mapped exports under the name, and the bytes of *)
(* the file if none does, for every program and every set of DLLs.  Where  *)
(* the keys of the table may dangle it is the address of some export or    *)
(* none; a slot in a section that is read from elsewhere is not covered    *)
(* (ExportHandler.cpp:26-28, 59-64; Mapper.cpp:106-110, 142;               *)
(* Linker.cpp:44-56).                                                      *)
THEOREM SlotsSound == Spec => []SlotsHoldLastExport
  BY LinkInvariance, SlotsFollow, PTL
=============================================================================
