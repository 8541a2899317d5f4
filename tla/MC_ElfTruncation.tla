-------------------------- MODULE MC_ElfTruncation --------------------------
(***************************************************************************)
(* Buffers that parse Ok, each with a different region last in the file,  *)
(* for ElfTruncation.  Record sizes as in MC_Elf.                          *)
(***************************************************************************)
EXTENDS ElfTruncation, ElfImages


\* The section header table last: a dynamic file whose relocations the
\* PT_LOAD segment maps and whose dynamic symbols a DYNSYM section holds.
TablesLast ==
  Img(0, 36, TRUE, 2, <<PH("PT_DYNAMIC", 10, 8, 30, 8), PH("PT_LOAD", 18, 8, 40, 8)>>, 26,
      <<SH("SHT_NULL", 0, 0, 0, 0), SH("SHT_STRTAB", 0, 6, 4, 0),
        SH("SHT_DYNAMIC", 0, 10, 8, 30), SH("SHT_PROGBITS", 0, 18, 4, 60),
        SH("SHT_DYNSYM", 0, 22, 4, 50)>>,
      1, <<>>, (10 :> DYN(DT_REL, 40)) @@ (12 :> DYN(DT_RELSZ, 4))
               @@ (14 :> DYN(DT_RELENT, 2)) @@ (16 :> DYN(DT_SYMTAB, 50)))

\* A section last, after the section header table.
SectionLast ==
  Img(0, 20, TRUE, 2, <<>>, 2,
      <<SH("SHT_NULL", 0, 0, 0, 0), SH("SHT_STRTAB", 0, 8, 4, 0),
        SH("SHT_PROGBITS", 0, 12, 8, 0)>>, 1, <<>>, <<>>)

\* A PT_LOAD segment last, outside every section.
LoadLast ==
  Img(0, 20, TRUE, 2, <<PH("PT_LOAD", 16, 4, 0, 4)>>, 4,
      <<SH("SHT_NULL", 0, 0, 0, 0), SH("SHT_STRTAB", 0, 8, 4, 0)>>, 1, <<>>, <<>>)

\* Relocations last: DT_REL resolved through the section at its address,
\* the table sized by DT_RELSZ past that section's end.
RelocationsLast ==
  Img(0, 26, TRUE, 2, <<>>, 2,
      <<SH("SHT_NULL", 0, 0, 0, 0), SH("SHT_STRTAB", 0, 10, 4, 0),
        SH("SHT_DYNAMIC", 0, 14, 8, 0), SH("SHT_PROGBITS", 0, 22, 2, 70)>>,
      1, <<>>, (14 :> DYN(DT_REL, 70)) @@ (16 :> DYN(DT_RELSZ, 4)) @@ (18 :> DYN(DT_RELENT, 2)))

\* The PT_DYNAMIC table last, inside the file range of a PT_LOAD segment.
DynamicInLoadLast ==
  Img(0, 16, TRUE, 2, <<PH("PT_LOAD", 12, 4, 0, 4), PH("PT_DYNAMIC", 12, 4, 0, 4)>>, 6,
      <<SH("SHT_NULL", 0, 0, 0, 0), SH("SHT_STRTAB", 0, 10, 2, 0)>>,
      1, <<>>, (12 :> DYN(40, 7)))

TruncImages == {TablesLast, SectionLast, LoadLast, RelocationsLast, DynamicInLoadLast}

\* The PT_DYNAMIC table last, covered by no PT_LOAD segment and no
\* SHT_DYNAMIC section; its relocations are found through a section.
DynamicLast ==
  Img(0, 26, TRUE, 2, <<PH("PT_DYNAMIC", 18, 8, 0, 8)>>, 4,
      <<SH("SHT_NULL", 0, 0, 0, 0), SH("SHT_STRTAB", 0, 10, 4, 0),
        SH("SHT_PROGBITS", 0, 14, 4, 70)>>,
      1, <<>>, (18 :> DYN(DT_REL, 70)) @@ (20 :> DYN(DT_RELSZ, 4)) @@ (22 :> DYN(DT_RELENT, 2)))

TruncGapImages == {DynamicLast}

\* The buffers a run parses: the whole ones and every truncation of them.
TruncAll    == TruncImages \cup Truncations(TruncImages)
TruncGapAll == TruncGapImages \cup Truncations(TruncGapImages)
====
