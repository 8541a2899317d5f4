------------------------------- MODULE MC_Elf -------------------------------
(***************************************************************************)
(* Byte buffers for model checking ElfParser.  Record sizes are scaled     *)
(* down (every record 2 bytes, Elf64Sym 4, alignment 2) so that a buffer   *)
(* of a few dozen bytes holds both header tables and several sections;     *)
(* size and alignment stay distinct (an Elf64Sym table of 2 bytes is       *)
(* aligned but InvalidSize), and usize::MAX is small enough that a         *)
(* section range can overflow.                                             *)
(***************************************************************************)
EXTENDS ElfParser, ElfImages

SeqsUpTo2(S) == {<<>>} \cup {<<a>> : a \in S} \cup {<<a, b>> : a, b \in S}

(***************************************************************************)
(* Layout: 18 bytes.  File header [0,2), program headers at e_phoff,       *)
(* section name table [6,10), data [10,12), section headers at e_shoff.    *)
(* The variants misplace, misalign, overlap, disorder and overflow the     *)
(* tables, segments and sections; e_phoff 30 overflows the table end.      *)
(***************************************************************************)
LayoutStr == (7 :> [s |-> ".text", nul |-> 1]) @@ (9 :> [s |-> ".symtab", nul |-> 1])
LayoutPhdrs == {PH("PT_LOAD", 10, 2, 8, 4), PH("PT_LOAD", 6, 4, 4, 4),
                PH("PT_LOAD", 16, 4, 12, 4), PH("PT_NULL", 0, 0, 0, 0)}
LayoutThird == {SH("SHT_PROGBITS", 1, 10, 2, 0), SH("SHT_NOBITS", 1, 4, 20, 0),
                SH("SHT_PROGBITS", 1, 8, 4, 0), SH("SHT_PROGBITS", 1, 1, 2, 0),
                SH("SHT_PROGBITS", 1, 10, 4, 0), SH("SHT_PROGBITS", 1, 10, 30, 0),
                SH("SHT_PROGBITS", 3, 4, 2, 0)}
LayoutShdrs ==
  LET first == {SH("SHT_NULL", 0, 0, 0, 0), SH("SHT_PROGBITS", 0, 10, 2, 0)}
      names == SH("SHT_STRTAB", 1, 6, 4, 0)
  IN  {<<f, names>> : f \in first} \cup {<<f, names, t>> : f \in first, t \in LayoutThird}
LayoutImages ==
  {Img(base, 18, ok, phoff, phs, shoff, shs, shstrndx, LayoutStr, <<>>) :
     base \in {0, 1}, ok \in BOOLEAN, phoff \in {0, 2, 3, 30}, phs \in SeqsUpTo2(LayoutPhdrs),
     shoff \in {11, 12, 14}, shs \in LayoutShdrs, shstrndx \in {0, 1, 2}}

(***************************************************************************)
(* Names: 20 bytes.  Section name table [6,12) holds "" at 6, ".symtab" at *)
(* 7, ".strtab" at 9 and ".dynstr" at 11, whose zero byte lies past the    *)
(* table's end; sh_name 7 points past the table.  Four sections whose      *)
(* names, and the name table's index and type, vary.                       *)
(***************************************************************************)
NamesStr == (7 :> [s |-> ".symtab", nul |-> 1]) @@ (9 :> [s |-> ".strtab", nul |-> 1])
            @@ (11 :> [s |-> ".dynstr", nul |-> 1])
NamesImages ==
  {Img(0, 20, TRUE, 2, <<>>, 14, <<SH("SHT_NULL", n1, 0, 0, 0), SH(t, n2, 6, 6, 0),
                                  SH("SHT_PROGBITS", n3, 12, 2, 0)>>,
       shstrndx, NamesStr, <<>>) :
     n1, n2, n3 \in {0, 1, 3, 5, 7}, t \in {"SHT_STRTAB", "SHT_PROGBITS"},
     shstrndx \in {0, 1, 2, 3}}

(***************************************************************************)
(* Dynamic: 36 bytes.  File header, program headers [2,6), name table      *)
(* [6,10), dynamic table [10,18) (four Elf64Dyn), relocations [18,22),     *)
(* dynamic symbols [22,26), section headers [26,36).  The four dynamic     *)
(* entries vary over DT_REL (mapped by the PT_LOAD or only by a section),  *)
(* DT_RELSZ, DT_RELENT, DT_SYMTAB, DT_NULL and a tag beyond DT_NUM; the    *)
(* program headers over no PT_DYNAMIC, a good one, a misaligned one and    *)
(* one whose vm range covers DT_REL, and a PT_NOTE before the PT_LOAD     *)
(* whose vm range ends at UsizeMax or one past it; the dynamic symbol      *)
(* section over its type and size.                                         *)
(***************************************************************************)
DynLoad   == PH("PT_LOAD", 18, 8, 40, 8)
DynPhdrs  == {<<DynLoad>>, <<PH("PT_DYNAMIC", 10, 8, 30, 8), DynLoad>>,
              <<PH("PT_DYNAMIC", 11, 8, 30, 8), DynLoad>>,
              <<PH("PT_DYNAMIC", 10, 8, 38, 8), DynLoad>>,
              <<PH("PT_NOTE", 0, 0, 55, 8), DynLoad>>,
              <<PH("PT_NOTE", 0, 0, 56, 8), DynLoad>>}
\* Per slot: DT_REL twice (last write wins), DT_NULL early, a tag past DT_NUM.
DynSlots == <<{DYN(DT_REL, 40), DYN(DT_REL, 60), DYN(DT_NULL, 0), DYN(40, 7)},
              {DYN(DT_RELSZ, 4), DYN(DT_REL, 40), DYN(DT_NULL, 0)},
              {DYN(DT_RELENT, 2), DYN(DT_SYMTAB, 50), DYN(40, 7)},
              {DYN(DT_SYMTAB, 50), DYN(DT_NULL, 0), DYN(DT_REL, 60)}>>
DynSyms   == {SH("SHT_DYNSYM", 0, 22, 4, 50), SH("SHT_PROGBITS", 0, 22, 4, 50),
              SH("SHT_DYNSYM", 0, 22, 2, 50)}
DynamicImages ==
  {Img(0, 36, TRUE, 2, phs, 26,
       <<SH("SHT_NULL", 0, 0, 0, 0), SH("SHT_STRTAB", 0, 6, 4, 0),
         SH("SHT_DYNAMIC", 0, 10, 8, 30), SH("SHT_PROGBITS", 0, 18, 4, 60), sym>>,
       1, <<>>, (10 :> e1) @@ (12 :> e2) @@ (14 :> e3) @@ (16 :> e4)) :
     phs \in DynPhdrs, sym \in DynSyms, e1 \in DynSlots[1], e2 \in DynSlots[2],
     e3 \in DynSlots[3], e4 \in DynSlots[4]}

(***************************************************************************)
(* Empty regions: no program headers, e_phoff at the file header's start,  *)
(* inside it or at its end; an empty third section before the section      *)
(* header table or inside it.  Every region holds its bytes apart.         *)
(***************************************************************************)
OverlapImages ==
  {Img(0, 18, TRUE, phoff, <<>>, 12,
       <<SH("SHT_NULL", 0, 0, 0, 0), SH("SHT_STRTAB", 0, 6, 4, 0),
         SH("SHT_PROGBITS", 0, off, 0, 0)>>, 1, LayoutStr, <<>>) :
     phoff \in {0, 1, 2}, off \in {10, 14}}

(***************************************************************************)
(* Spec scenario 1: valid identification, e_phnum = 0, one SHT_NULL        *)
(* section, e_shstrndx = 0.                                                *)
(***************************************************************************)
MinimalImages == {Img(0, 4, TRUE, 0, <<>>, 2, <<SH("SHT_NULL", 0, 0, 0, 0)>>, 0, <<>>, <<>>)}

(***************************************************************************)
(* A PT_DYNAMIC header whose vm range covers DT_REL, ahead of the PT_LOAD  *)
(* segment that maps it.                                                   *)
(***************************************************************************)
RelocImages ==
  {Img(0, 36, TRUE, 2, <<PH("PT_DYNAMIC", 10, 8, 38, 8), DynLoad>>, 26,
       <<SH("SHT_NULL", 0, 0, 0, 0), SH("SHT_STRTAB", 0, 6, 4, 0),
         SH("SHT_DYNAMIC", 0, 10, 8, 30), SH("SHT_PROGBITS", 0, 18, 4, 60),
         SH("SHT_DYNSYM", 0, 22, 4, 50)>>,
       1, <<>>, (10 :> DYN(DT_REL, 40)) @@ (12 :> DYN(DT_RELSZ, 4))
                @@ (14 :> DYN(DT_RELENT, 2)))}
====
