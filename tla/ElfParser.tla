------------------------------ MODULE ElfParser ------------------------------
(***************************************************************************)
(* Elf64::parse of src/src/elf_parser/mod.rs as a sequential state machine:*)
(* one action per step of the parse (file header, the two header tables,   *)
(* the first section, the PT_LOAD sweep, the section sweep, section-name   *)
(* discovery, dynamic-table assembly, dynamic relocations, dynamic         *)
(* symbols).  A step either short-circuits with the first error the code   *)
(* returns, or moves on.                                                   *)
(*                                                                         *)
(* The byte buffer is abstracted to what the parse reads of it: the file   *)
(* header fields, the records its two header tables hold, the string that  *)
(* starts at a byte offset (and how far away its zero byte is), and the    *)
(* Elf64Dyn record stored at a byte offset.  Offsets and sizes keep their  *)
(* checked arithmetic: a sum above UsizeMax is ArithmeticOverflow, which   *)
(* the code turns into OutOfBounds.                                        *)
(***************************************************************************)
EXTENDS Integers, Sequences, SequencesExt

CONSTANTS
  Images,         \* the byte buffers a run parses (records, see ImageOK)
  UsizeMax,       \* usize::MAX
  Align,          \* mem::align_of of every record type (8 for all of them)
  EhdrSize, PhdrSize, ShdrSize, DynSize, RelSize, SymSize, \* mem::size_of
  SectionNameMax, \* SECTION_NAME_LENGTH_MAXIMUM
  DT_NUM          \* number of dense dynamic tags kept by the parser

\* ELF constants of consts.rs that the parse compares against.
DT_NULL   == 0
DT_SYMTAB == 6
DT_REL    == 17
DT_RELSZ  == 18
DT_RELENT == 19

Errors == {"InvalidFileHeader", "InvalidProgramHeader", "InvalidSectionHeader",
           "StringTooLong", "OutOfBounds", "InvalidSize", "Overlap",
           "SectionNotInOrder", "NoSectionNameStringTable",
           "InvalidDynamicSectionTable", "InvalidAlignment"}
NoError == "none"

(***************************************************************************)
(* An image: base is the buffer's address modulo Align, ident_ok that the  *)
(* identification block, e_version and the three entry sizes are right;  *)
(* phdrs and shdrs are the records the two header tables hold; str[p] is   *)
(* the string starting at byte p (s) and the distance to its zero byte     *)
(* (nul); dyn[p] is the Elf64Dyn record stored at byte p.                  *)
(***************************************************************************)
ImageOK(img) ==
  /\ Len(img.phdrs) = img.e_phnum
  /\ Len(img.shdrs) = img.e_shnum
  /\ DOMAIN img.str = 0 .. img.len - 1
  /\ DOMAIN img.dyn = 0 .. img.len - 1
ASSUME \A img \in Images : ImageOK(img)

Rng(a, b) == [start |-> a, end |-> b]     \* a Range<usize>, a..b

VARIABLES
  image,   \* elf_bytes
  pc,      \* the step of Elf64::parse about to run
  result,  \* "pending", "ok", or the error parse returned
  loc,     \* parse's locals: header ranges, loop index and accumulators
  elf      \* the fields of the Elf64 being built
vars == <<image, pc, result, loc, elf>>

Steps == {"parse_file_header", "parse_program_header_table",
          "parse_section_header_table", "first_section", "program_headers",
          "sections", "section_names", "parse_sections", "section_name",
          "parse_dynamic", "dynamic_entry", "dynamic_relocations",
          "dynamic_symbol_table", "done"}

(***************************************************************************)
(* Helpers of the module.                                                  *)
(***************************************************************************)

\* The error of the first failing check of a sequence of <<failed, error>>
\* pairs, in the order the code makes them; NoError when all pass.
FirstError(checks) ==
  LET k == SelectInSeq(checks, LAMBDA c : c[1])
  IN  IF k = 0 THEN NoError ELSE checks[k][2]

\* check_that_there_is_no_overlap
NoOverlap(a, b) == a.end <= b.start \/ b.end <= a.start

\* Mutation: slice_from_bytes without its alignment check.
SliceChecksNoAlign(img, r, size) ==
  LET len == IF r.start <= r.end THEN r.end - r.start ELSE 0
  IN  << <<len % size # 0, "InvalidSize">>,
         <<r.start > r.end \/ r.end > img.len, "OutOfBounds">> >>

\* Mutation: slice_from_bytes without its size check.
SliceChecksNoSize(img, r, size) ==
  << <<r.start > r.end \/ r.end > img.len, "OutOfBounds">>,
     <<(img.base + r.start) % Align # 0, "InvalidAlignment">> >>

\* Mutation: slice_from_bytes checking the range against usize only, not
\* against the length of the buffer.
SliceChecksNoBounds(img, r, size) ==
  LET len == IF r.start <= r.end THEN r.end - r.start ELSE 0
  IN  << <<len % size # 0, "InvalidSize">>,
         <<r.start > r.end, "OutOfBounds">>,
         <<(img.base + r.start) % Align # 0, "InvalidAlignment">> >>

\* The checks of slice_from_bytes::<T>(bytes, range), with size_of::<T>() = size.
\* Range::len() of a range whose start is above its end is 0.
SliceChecks(img, r, size) ==
  LET len == IF r.start <= r.end THEN r.end - r.start ELSE 0
  IN  << <<len % size # 0, "InvalidSize">>,
         <<r.start > r.end \/ r.end > img.len, "OutOfBounds">>,
         <<(img.base + r.start) % Align # 0, "InvalidAlignment">> >>

\* The range of slice_from_program_header / slice_from_section_header, whose
\* end is a checked add (an overflowing one fails with OutOfBounds).
PhdrRange(ph) == Rng(ph.p_offset, ph.p_offset + ph.p_filesz)
ShdrRange(sh) == Rng(sh.sh_offset, sh.sh_offset + sh.sh_size)
RangeChecks(img, r, size) ==
  << <<r.end > UsizeMax, "OutOfBounds">> >> \o SliceChecks(img, r, size)

\* Mutation: get_string_in_section reading to the zero byte wherever it is.
StringChecksUnbounded(img, k, off, max) ==
  LET sh     == img.shdrs[k]
      start  == sh.sh_offset + off
      secEnd == sh.sh_offset + sh.sh_size
      winEnd == Min({secEnd, start + max})
  IN  << <<sh.sh_type # "SHT_STRTAB", "InvalidSectionHeader">>,
         <<start > UsizeMax \/ secEnd > UsizeMax \/ start + max > UsizeMax,
           "OutOfBounds">>,
         <<start > winEnd \/ winEnd > img.len, "OutOfBounds">>,
         <<start \notin DOMAIN img.str, "StringTooLong">> >>

\* Mutation: get_string_in_section searching to the section's end, ignoring
\* maximum_length.
StringChecksNoCap(img, k, off, max) ==
  LET sh     == img.shdrs[k]
      start  == sh.sh_offset + off
      secEnd == sh.sh_offset + sh.sh_size
  IN  << <<sh.sh_type # "SHT_STRTAB", "InvalidSectionHeader">>,
         <<start > UsizeMax \/ secEnd > UsizeMax \/ start + max > UsizeMax,
           "OutOfBounds">>,
         <<start > secEnd \/ secEnd > img.len, "OutOfBounds">>,
         <<start \notin DOMAIN img.str \/ start + img.str[start].nul >= secEnd,
           "StringTooLong">> >>

\* get_string_in_section(elf_bytes, shdrs[k], off, max): its checks, and the
\* string it returns when they pass.
StringChecks(img, k, off, max) ==
  LET sh     == img.shdrs[k]
      start  == sh.sh_offset + off
      secEnd == sh.sh_offset + sh.sh_size
      winEnd == Min({secEnd, start + max})
  IN  << <<sh.sh_type # "SHT_STRTAB", "InvalidSectionHeader">>,
         <<start > UsizeMax \/ secEnd > UsizeMax \/ start + max > UsizeMax,
           "OutOfBounds">>,
         <<start > winEnd \/ winEnd > img.len, "OutOfBounds">>,
         <<start \notin DOMAIN img.str \/ start + img.str[start].nul >= winEnd,
           "StringTooLong">> >>
StringAt(img, k, off) ==
  LET p == img.shdrs[k].sh_offset + off
  IN  IF p \in DOMAIN img.str THEN img.str[p].s ELSE ""

\* Mutation: program_header_for_vaddr treating an end equal to usize::MAX
\* as an overflow.
RECURSIVE PhdrForVaddrAtMax(_, _, _)
PhdrForVaddrAtMax(ph, vaddr, k) ==
  IF k > Len(ph) THEN 0
  ELSE IF ph[k].p_vaddr + ph[k].p_memsz >= UsizeMax THEN -1
  ELSE IF ph[k].p_vaddr <= vaddr /\ vaddr < ph[k].p_vaddr + ph[k].p_memsz
       THEN k
       ELSE PhdrForVaddrAtMax(ph, vaddr, k + 1)

\* program_header_for_vaddr: the index of the first program header whose
\* vm range holds vaddr, 0 when none does, -1 when p_vaddr + p_memsz
\* overflows for a header met before a match.
RECURSIVE PhdrForVaddr(_, _, _)
PhdrForVaddr(ph, vaddr, k) ==
  IF k > Len(ph) THEN 0
  ELSE IF ph[k].p_vaddr + ph[k].p_memsz > UsizeMax THEN -1
  ELSE IF ph[k].p_vaddr <= vaddr /\ vaddr < ph[k].p_vaddr + ph[k].p_memsz
       THEN k
       ELSE PhdrForVaddr(ph, vaddr, k + 1)

\* usize::saturating_add
SatAdd(a, b) == IF a + b > UsizeMax THEN UsizeMax ELSE a + b

\* Elf64Phdr::file_range: Some(offset..offset + filesz) for PT_LOAD only.
PhdrFileRange(ph) ==
  IF ph.p_type = "PT_LOAD" THEN {Rng(ph.p_offset, SatAdd(ph.p_offset, ph.p_filesz))}
  ELSE {}

\* Mutation: Elf64Shdr::file_range without its SHT_NOBITS test.
ShdrFileRangeAnyType(sh) == {Rng(sh.sh_offset, SatAdd(sh.sh_offset, sh.sh_size))}

\* Elf64Shdr::file_range: Some(offset..offset + size) unless SHT_NOBITS.
ShdrFileRange(sh) ==
  IF sh.sh_type # "SHT_NOBITS" THEN {Rng(sh.sh_offset, SatAdd(sh.sh_offset, sh.sh_size))}
  ELSE {}

\* Elf64Phdr::vm_range and Elf64Shdr::vm_range: the address range, its end
\* a saturating add on u64 (whose top is UsizeMax here as well).
PhdrVmRange(ph) == Rng(ph.p_vaddr, SatAdd(ph.p_vaddr, ph.p_memsz))
ShdrVmRange(sh) == Rng(sh.sh_addr, SatAdd(sh.sh_addr, sh.sh_size))

\* The first section header whose sh_addr is vaddr (iter().find), 0 if none.
SectionAtAddr(img, vaddr) == SelectInSeq(img.shdrs, LAMBDA s : s.sh_addr = vaddr)

\* The Elf64Dyn records of the dynamic table held by range r.
DynEntries(img, r) ==
  [j \in 1 .. (r.end - r.start) \div DynSize |-> img.dyn[r.start + (j - 1) * DynSize]]

EmptyTable == [t \in 0 .. DT_NUM - 1 |-> 0]
(***************************************************************************)
(* The steps of the parse.                                                 *)
(***************************************************************************)

\* The accumulators of parse's sweeps before their first iteration.
StartLoc == [fhr |-> Rng(0, 0), phr |-> Rng(0, 0), shr |-> Rng(0, 0),
             i |-> 1, vaddr |-> 0, offset |-> 0, dyn |-> {}]

\* The fields of the Elf64 that parse fills in after building it.
StartElf == [section_names_section_header        |-> {},
             symbol_section_header               |-> {},
             symbol_names_section_header         |-> {},
             dynamic_symbol_names_section_header |-> {},
             dynamic_table                       |-> EmptyTable,
             dynamic_relocations_table           |-> {},
             dynamic_symbol_table                |-> {}]

Init ==
  /\ image \in Images
  /\ pc = "parse_file_header"
  /\ result = "pending"
  /\ loc = StartLoc
  /\ elf = StartElf

\* The parse returns the error e: `?` short-circuits everything after it.
Fail(e) ==
  /\ result' = e
  /\ pc' = "done"
  /\ UNCHANGED <<image, loc, elf>>

\* Run the checks in order: fail with the first that fails, else do `step`.
Step(checks, step) ==
  IF FirstError(checks) = NoError
  THEN step /\ UNCHANGED <<image, result>>
  ELSE Fail(FirstError(checks))

\* Elf64::parse returns Ok(parser).
Finish(e) ==
  /\ result' = "ok"
  /\ pc' = "done"
  /\ elf' = e
  /\ UNCHANGED <<image, loc>>

\* parse_file_header, then the identification checks of parse.
ParseFileHeader ==
  /\ pc = "parse_file_header"
  /\ Step(<< <<image.len < EhdrSize, "OutOfBounds">>,
             <<image.base % Align # 0, "InvalidAlignment">>,
             <<~image.ident_ok \/ image.e_shstrndx >= image.e_shnum,
               "InvalidFileHeader">> >>,
          /\ pc' = "parse_program_header_table"
          /\ loc' = [loc EXCEPT !.fhr = Rng(0, EhdrSize)]
          /\ UNCHANGED elf)

\* parse_program_header_table: the table must not overlap the file header.
ParseProgramHeaderTable ==
  LET r == Rng(image.e_phoff, PhdrSize * image.e_phnum + image.e_phoff)
  IN  /\ pc = "parse_program_header_table"
      /\ Step(<< <<PhdrSize * image.e_phnum > UsizeMax \/ r.end > UsizeMax,
                   "OutOfBounds">>,
                 <<~NoOverlap(loc.fhr, r), "Overlap">> >>
              \o SliceChecks(image, r, PhdrSize),
              /\ pc' = "parse_section_header_table"
              /\ loc' = [loc EXCEPT !.phr = r]
              /\ UNCHANGED elf)

\* parse_section_header_table: no overlap with the file header or the
\* program header table.
ParseSectionHeaderTable ==
  LET r == Rng(image.e_shoff, ShdrSize * image.e_shnum + image.e_shoff)
  IN  /\ pc = "parse_section_header_table"
      /\ Step(<< <<ShdrSize * image.e_shnum > UsizeMax \/ r.end > UsizeMax,
                   "OutOfBounds">>,
                 <<~NoOverlap(loc.fhr, r), "Overlap">>,
                 <<~NoOverlap(loc.phr, r), "Overlap">> >>
              \o SliceChecks(image, r, ShdrSize),
              /\ pc' = "first_section"
              /\ loc' = [loc EXCEPT !.shr = r]
              /\ UNCHANGED elf)

\* The first section header must exist and be SHT_NULL.
CheckFirstSection ==
  /\ pc = "first_section"
  /\ Step(<< <<image.shdrs = <<>> \/ image.shdrs[1].sh_type # "SHT_NULL",
              "InvalidSectionHeader">> >>,
          /\ pc' = "program_headers"
          /\ UNCHANGED <<loc, elf>>)

\* One iteration of the PT_LOAD sweep: ascending p_vaddr, in-bounds file
\* range; the loop's end resets the index for the section sweep.
CheckProgramHeader ==
  /\ pc = "program_headers"
  /\ \/ /\ loc.i > Len(image.phdrs)
        /\ pc' = "sections"
        /\ loc' = [loc EXCEPT !.i = 1]
        /\ UNCHANGED <<image, result, elf>>
     \/ /\ loc.i <= Len(image.phdrs)
        /\ image.phdrs[loc.i].p_type # "PT_LOAD"
        /\ loc' = [loc EXCEPT !.i = @ + 1]
        /\ UNCHANGED <<image, pc, result, elf>>
     \/ LET ph  == image.phdrs[loc.i]
            end == ph.p_offset + ph.p_filesz
        IN  /\ loc.i <= Len(image.phdrs)
            /\ ph.p_type = "PT_LOAD"
            /\ Step(<< <<ph.p_vaddr < loc.vaddr, "InvalidProgramHeader">>,
                       <<end > UsizeMax \/ end > image.len, "OutOfBounds">> >>,
                    /\ loc' = [loc EXCEPT !.i = @ + 1, !.vaddr = ph.p_vaddr]
                    /\ UNCHANGED <<pc, elf>>)

\* One iteration of the section sweep over the non-SHT_NOBITS sections.
CheckSection ==
  /\ pc = "sections"
  /\ \/ /\ loc.i > Len(image.shdrs)
        /\ pc' = "section_names"
        /\ loc' = [loc EXCEPT !.i = 1]
        /\ UNCHANGED <<image, result, elf>>
     \/ /\ loc.i <= Len(image.shdrs)
        /\ image.shdrs[loc.i].sh_type = "SHT_NOBITS"
        /\ loc' = [loc EXCEPT !.i = @ + 1]
        /\ UNCHANGED <<image, pc, result, elf>>
     \/ LET r == ShdrRange(image.shdrs[loc.i])
        IN  /\ loc.i <= Len(image.shdrs)
            /\ image.shdrs[loc.i].sh_type # "SHT_NOBITS"
            /\ Step(<< <<r.end > UsizeMax, "OutOfBounds">>,
                       <<~NoOverlap(r, loc.fhr), "Overlap">>,
                       <<~NoOverlap(r, loc.phr), "Overlap">>,
                       <<~NoOverlap(r, loc.shr), "Overlap">>,
                       <<r.start < loc.offset, "SectionNotInOrder">>,
                       <<r.end > image.len, "OutOfBounds">> >>,
                    /\ loc' = [loc EXCEPT !.i = @ + 1, !.offset = r.end]
                    /\ UNCHANGED <<pc, elf>>)

\* section_names_section_header: the e_shstrndx header unless it is
\* SHN_UNDEF (0); then the Elf64 is built and parse_sections called.
FindSectionNames ==
  /\ pc = "section_names"
  /\ Step(<< <<image.e_shstrndx + 1 > Len(image.shdrs), "OutOfBounds">> >>,
          /\ pc' = "parse_sections"
          /\ elf' = [elf EXCEPT !.section_names_section_header =
                       IF image.e_shstrndx # 0 THEN {image.e_shstrndx + 1} ELSE {}]
          /\ UNCHANGED loc)

\* parse_sections needs the section name string table.
ParseSections ==
  /\ pc = "parse_sections"
  /\ Step(<< <<elf.section_names_section_header = {},
              "NoSectionNameStringTable">> >>,
          /\ pc' = "section_name"
          /\ UNCHANGED <<loc, elf>>)

\* The section headers recorded by name in parse_sections.
NamedFields == [n \in {".symtab", ".strtab", ".dynstr"} |->
                  CASE n = ".symtab" -> "symbol_section_header"
                    [] n = ".strtab" -> "symbol_names_section_header"
                    [] n = ".dynstr" -> "dynamic_symbol_names_section_header"]

\* Mutation: the named section recorded one position past the current one.
ParseSectionNameOffByOne ==
  /\ pc = "section_name"
  /\ \/ /\ loc.i > Len(image.shdrs)
        /\ pc' = "parse_dynamic"
        /\ loc' = [loc EXCEPT !.i = 1]
        /\ UNCHANGED <<image, result, elf>>
     \/ LET names == CHOOSE k \in elf.section_names_section_header : TRUE
            off   == image.shdrs[loc.i].sh_name
            name  == StringAt(image, names, off)
            field == IF name \in DOMAIN NamedFields THEN NamedFields[name] ELSE "none"
        IN  /\ loc.i <= Len(image.shdrs)
            /\ Step(StringChecks(image, names, off, SectionNameMax)
                    \o << <<field # "none" /\ elf[field] # {},
                           "InvalidSectionHeader">> >>,
                    /\ loc' = [loc EXCEPT !.i = @ + 1]
                    /\ elf' = IF field = "none" THEN elf
                              ELSE [elf EXCEPT ![field] = {loc.i + 1}]
                    /\ UNCHANGED pc)

\* One iteration of parse_sections: resolve the section's name in the
\* section name string table and record .symtab, .strtab and .dynstr, each
\* at most once.
ParseSectionName ==
  /\ pc = "section_name"
  /\ \/ /\ loc.i > Len(image.shdrs)
        /\ pc' = "parse_dynamic"
        /\ loc' = [loc EXCEPT !.i = 1]
        /\ UNCHANGED <<image, result, elf>>
     \/ LET names == CHOOSE k \in elf.section_names_section_header : TRUE
            off   == image.shdrs[loc.i].sh_name
            name  == StringAt(image, names, off)
            field == IF name \in DOMAIN NamedFields THEN NamedFields[name] ELSE "none"
        IN  /\ loc.i <= Len(image.shdrs)
            /\ Step(StringChecks(image, names, off, SectionNameMax)
                    \o << <<field # "none" /\ elf[field] # {},
                           "InvalidSectionHeader">> >>,
                    /\ loc' = [loc EXCEPT !.i = @ + 1]
                    /\ elf' = IF field = "none" THEN elf
                              ELSE [elf EXCEPT ![field] = {loc.i}]
                    /\ UNCHANGED pc)

\* parse_dynamic: the PT_DYNAMIC table if it materialises (any error is
\* dropped by .ok()), else the first SHT_DYNAMIC section, which must
\* materialise; with neither the file is static and parse returns Ok.
ParseDynamic ==
  LET p   == SelectInSeq(image.phdrs, LAMBDA ph : ph.p_type = "PT_DYNAMIC")
      pr  == IF p = 0 THEN Rng(0, 0) ELSE PhdrRange(image.phdrs[p])
      s   == SelectInSeq(image.shdrs, LAMBDA sh : sh.sh_type = "SHT_DYNAMIC")
      sr  == IF s = 0 THEN Rng(0, 0) ELSE ShdrRange(image.shdrs[s])
      fromPhdr == p # 0 /\ FirstError(RangeChecks(image, pr, DynSize)) = NoError
  IN  /\ pc = "parse_dynamic"
      /\ \/ /\ fromPhdr
            /\ pc' = "dynamic_entry"
            /\ loc' = [loc EXCEPT !.dyn = {pr}, !.i = 1]
            /\ UNCHANGED <<image, result, elf>>
         \/ /\ ~fromPhdr
            /\ s # 0
            /\ Step(<< <<FirstError(RangeChecks(image, sr, DynSize)) # NoError,
                        "InvalidDynamicSectionTable">> >>,
                    /\ pc' = "dynamic_entry"
                    /\ loc' = [loc EXCEPT !.dyn = {sr}, !.i = 1]
                    /\ UNCHANGED elf)
         \/ /\ ~fromPhdr
            /\ s = 0
            /\ Finish(elf)

\* Mutation: a tag already set keeps its first value.
AbsorbFirstWins(table, d) ==
  IF d.d_tag < DT_NUM /\ table[d.d_tag] = 0
  THEN [table EXCEPT ![d.d_tag] = d.d_val] ELSE table

\* The body of the loop for an entry other than DT_NULL: a tag at or above
\* DT_NUM is skipped, any other is written, the last write winning.
Absorb(table, d) ==
  IF d.d_tag < DT_NUM THEN [table EXCEPT ![d.d_tag] = d.d_val] ELSE table

\* One iteration of the loop that expands the Elf64Dyn entries into
\* dynamic_table; it breaks at DT_NULL.
AbsorbDynamicEntry ==
  LET entries == DynEntries(image, CHOOSE r \in loc.dyn : TRUE)
      d       == entries[loc.i]
  IN  /\ pc = "dynamic_entry"
      /\ UNCHANGED <<image, result>>
      /\ \/ /\ loc.i > Len(entries)
            /\ pc' = "dynamic_relocations"
            /\ UNCHANGED <<loc, elf>>
         \/ /\ loc.i <= Len(entries)
            /\ d.d_tag = DT_NULL
            /\ pc' = "dynamic_relocations"
            /\ UNCHANGED <<loc, elf>>
         \/ /\ loc.i <= Len(entries)
            /\ d.d_tag # DT_NULL
            /\ loc' = [loc EXCEPT !.i = @ + 1]
            /\ elf' = [elf EXCEPT !.dynamic_table = Absorb(@, d)]
            /\ UNCHANGED pc

\* parse_dynamic_relocations: DT_REL's vaddr is turned into a file offset
\* through the first program header whose vm range holds it, else through
\* the first section header at that address; the table is a &[Elf64Rel].
ParseDynamicRelocations ==
  LET dt     == elf.dynamic_table
      vaddr  == dt[DT_REL]
      size   == dt[DT_RELSZ]
      k      == PhdrForVaddr(image.phdrs, vaddr, 1)
      s      == SectionAtAddr(image, vaddr)
      offset == IF k > 0 THEN vaddr - image.phdrs[k].p_vaddr + image.phdrs[k].p_offset
                ELSE IF s > 0 THEN image.shdrs[s].sh_offset ELSE 0
      r      == Rng(offset, offset + size)
  IN  /\ pc = "dynamic_relocations"
      /\ \/ /\ vaddr = 0
            /\ pc' = "dynamic_symbol_table"
            /\ elf' = [elf EXCEPT !.dynamic_relocations_table = {}]
            /\ UNCHANGED <<image, result, loc>>
         \/ /\ vaddr # 0
            /\ Step(<< <<dt[DT_RELENT] # RelSize, "InvalidDynamicSectionTable">>,
                       <<size = 0, "InvalidDynamicSectionTable">>,
                       <<k = -1, "OutOfBounds">>,
                       <<k > 0 /\ offset > UsizeMax, "OutOfBounds">>,
                       <<k = 0 /\ s = 0, "InvalidDynamicSectionTable">>,
                       <<r.end > UsizeMax, "OutOfBounds">>,
                       <<FirstError(SliceChecks(image, r, RelSize)) # NoError,
                         "InvalidDynamicSectionTable">> >>,
                    /\ pc' = "dynamic_symbol_table"
                    /\ elf' = [elf EXCEPT !.dynamic_relocations_table = {r}]
                    /\ UNCHANGED loc)

\* parse_dynamic_symbol_table and get_symbol_table_of_section: the section
\* at DT_SYMTAB's address must be SHT_SYMTAB or SHT_DYNSYM and hold a
\* &[Elf64Sym]; then parse returns Ok.
ParseDynamicSymbolTable ==
  LET vaddr  == elf.dynamic_table[DT_SYMTAB]
      s      == SectionAtAddr(image, vaddr)
      r      == IF s = 0 THEN Rng(0, 0) ELSE ShdrRange(image.shdrs[s])
      checks == << <<s = 0, "InvalidDynamicSectionTable">>,
                   <<s # 0 /\ image.shdrs[s].sh_type \notin {"SHT_SYMTAB", "SHT_DYNSYM"},
                     "InvalidSectionHeader">> >>
                \o RangeChecks(image, r, SymSize)
  IN  /\ pc = "dynamic_symbol_table"
      /\ \/ /\ vaddr = 0
            /\ Finish([elf EXCEPT !.dynamic_symbol_table = {}])
         \/ /\ vaddr # 0
            /\ FirstError(checks) = NoError
            /\ Finish([elf EXCEPT !.dynamic_symbol_table = {r}])
         \/ /\ vaddr # 0
            /\ FirstError(checks) # NoError
            /\ Fail(FirstError(checks))

\* parse has returned.
Done ==
  /\ pc = "done"
  /\ UNCHANGED vars

Next ==
  \/ ParseFileHeader
  \/ ParseProgramHeaderTable
  \/ ParseSectionHeaderTable
  \/ CheckFirstSection
  \/ CheckProgramHeader
  \/ CheckSection
  \/ FindSectionNames
  \/ ParseSections
  \/ ParseSectionName
  \/ ParseDynamic
  \/ AbsorbDynamicEntry
  \/ ParseDynamicRelocations
  \/ ParseDynamicSymbolTable
  \/ Done

\* Elf64::parse is a plain function call: it runs to its end.
Spec == Init /\ [][Next]_vars /\ WF_vars(Next)
-----------------------------------------------------------------------------
(***************************************************************************)
(* Properties.                                                             *)
(***************************************************************************)

\* Every variable holds a value of its type; in particular the section
\* indices parse records (the name table from e_shstrndx, the named
\* sections) are indices of the section header table.
TypeOK ==
  /\ ImageOK(image)
  /\ pc \in Steps
  /\ result \in {"pending", "ok"} \cup Errors
  /\ loc.i \in Nat /\ loc.vaddr \in Nat /\ loc.offset \in Nat
  /\ elf.dynamic_table \in [0 .. DT_NUM - 1 -> Nat]
  /\ elf.section_names_section_header \subseteq 1 .. Len(image.shdrs)
  /\ \A f \in DOMAIN NamedFields : elf[NamedFields[f]] \subseteq 1 .. Len(image.shdrs)

\* The view an Ok parse returns, in the terms of ElfParseSpec.
View == [phr    |-> loc.phr,
         shr    |-> loc.shr,
         named  |-> [n \in DOMAIN NamedFields |-> elf[NamedFields[n]]],
         dt     |-> elf.dynamic_table,
         relocs |-> elf.dynamic_relocations_table,
         dynsym |-> elf.dynamic_symbol_table]

NoView == [phr |-> Rng(0, 0), shr |-> Rng(0, 0),
           named |-> [n \in DOMAIN NamedFields |-> {}],
           dt |-> EmptyTable, relocs |-> {}, dynsym |-> {}]

ParseSpec == INSTANCE ElfParseSpec WITH
  outcome <- IF pc = "done" THEN result ELSE "pending",
  view    <- IF pc = "done" /\ result = "ok" THEN View ELSE NoView

\* Elf64::parse implements its specification: whatever image it is given,
\* it terminates, and when it returns Ok the headers, PT_LOAD segments and
\* sections obey every layout invariant of the spec, the named sections are
\* unique, and the typed slices (both header tables, the relocations, the
\* dynamic symbols) lie inside the buffer, aligned and of a whole number of
\* records.  It takes the sweeps' accumulators (vaddr, offset), the
\* duplicate checks of parse_sections and the checked sums all being right.
ParseRefinesSpec == ParseSpec!Spec

\* The dense dynamic table that parse_dynamic builds, by its definition in
\* the spec: for each tag below DT_NUM, the value of the last entry with
\* that tag before the first DT_NULL, 0 when there is none.
DenseTable(entries) ==
  LET n   == SelectInSeq(entries, LAMBDA e : e.d_tag = DT_NULL)
      pre == IF n = 0 THEN entries ELSE SubSeq(entries, 1, n - 1)
  IN  [t \in 0 .. DT_NUM - 1 |->
         LET j == SelectLastInSeq(pre, LAMBDA e : e.d_tag = t)
         IN  IF j = 0 THEN 0 ELSE pre[j].d_val]

\* When parse returns Ok with a dynamic table, its dense dynamic_table is the
\* last write of every tag before DT_NULL; entries past DT_NULL and tags at
\* or above DT_NUM leave no trace (the loop of parse_dynamic).
DynamicTableAbsorbed ==
  (pc = "done" /\ result = "ok" /\ loc.dyn # {})
    => elf.dynamic_table = DenseTable(DynEntries(image, CHOOSE r \in loc.dyn : TRUE))

\* The spec's rule for DT_REL: the relocation table starts at
\* vaddr - p_vaddr + p_offset of a PT_LOAD segment whose vm range holds
\* vaddr.  When parse returns Ok with relocations and such a segment
\* exists, the table starts where the first one says.
LoadSegmentFor(img, vaddr) ==
  SelectInSeq(img.phdrs, LAMBDA ph : /\ ph.p_type = "PT_LOAD"
                                     /\ ph.p_vaddr <= vaddr
                                     /\ vaddr < ph.p_vaddr + ph.p_memsz)
RelocationsFromLoadSegment ==
  LET vaddr == elf.dynamic_table[DT_REL]
      k     == LoadSegmentFor(image, vaddr)
  IN  (pc = "done" /\ result = "ok" /\ elf.dynamic_relocations_table # {} /\ k # 0)
        => \A r \in elf.dynamic_relocations_table :
              r.start = vaddr - image.phdrs[k].p_vaddr + image.phdrs[k].p_offset

\* A loader slices bytes[file_range()] of the headers of an Ok parse.  The
\* accessors saturate where the sweeps of parse use checked sums, and select
\* PT_LOAD and non-SHT_NOBITS headers as the sweeps do: every file range
\* they return of an Ok parse lies inside the buffer.
FileRangesInBuffer ==
  (pc = "done" /\ result = "ok")
    => /\ \A k \in 1 .. Len(image.phdrs) :
             \A r \in PhdrFileRange(image.phdrs[k]) : r.end <= image.len
       /\ \A k \in 1 .. Len(image.shdrs) :
             \A r \in ShdrFileRange(image.shdrs[k]) : r.end <= image.len

\* The regions parse keeps apart: the file header, the two header tables and
\* the file range of every section that is not SHT_NOBITS, in that order.
Regions(img) ==
  <<Rng(0, EhdrSize), Rng(img.e_phoff, img.e_phoff + PhdrSize * img.e_phnum),
    Rng(img.e_shoff, img.e_shoff + ShdrSize * img.e_shnum)>>
  \o [k \in 1 .. Len(img.shdrs) |-> ShdrRange(img.shdrs[k])]
Kept(img, j) == j <= 3 \/ img.shdrs[j - 3].sh_type # "SHT_NOBITS"
SharesByte(a, b) == a.start < b.end /\ b.start < a.end /\ a.start < a.end /\ b.start < b.end

\* The spec's table of errors: Overlap means that two ranges among the file
\* header, the two header tables and the section data overlap.  When parse
\* returns Overlap, two of these regions share a byte (the check of
\* check_that_there_is_no_overlap, made in three steps of the parse).
OverlapMeansSharedByte ==
  (pc = "done" /\ result = "Overlap")
    => \E i, j \in 1 .. Len(Regions(image)) :
          /\ i < j /\ Kept(image, i) /\ Kept(image, j)
          /\ SharesByte(Regions(image)[i], Regions(image)[j])

\* Spec scenario 1: a buffer with a valid identification, no program
\* headers, one SHT_NULL section and e_shstrndx = 0 is parsed successfully.
MinimalElfAccepted == pc = "done" => result = "ok"

\* A range that leaves the buffer or whose end overflows usize.
Escapes(img, r) == r.start > r.end \/ r.end > UsizeMax \/ r.end > img.len

\* The window get_string_in_section searches for the name at offset off of
\* section k: it escapes when the name starts past the section's end too.
NameWindowEscapes(img, k, off) ==
  LET start  == img.shdrs[k].sh_offset + off
      secEnd == img.shdrs[k].sh_offset + img.shdrs[k].sh_size
  IN  start + SectionNameMax > UsizeMax \/ Escapes(img, Rng(start, Min({secEnd, start + SectionNameMax})))

\* A table of size bytes that DT_REL's vaddr may be turned into: through
\* any header whose vm range holds it, or any section at that address.
RelocationsEscape(img, vaddr, size) ==
  \/ \E ph \in Range(img.phdrs) :
        /\ ph.p_vaddr <= vaddr /\ vaddr < ph.p_vaddr + ph.p_memsz
        /\ vaddr - ph.p_vaddr + ph.p_offset + size > UsizeMax
  \/ \E sh \in Range(img.shdrs) : sh.sh_addr = vaddr /\ sh.sh_offset + size > UsizeMax

\* The spec's table of errors: OutOfBounds means that a range exceeds the
\* buffer or that arithmetic on offsets, sizes or addresses overflows.
\* When parse returns OutOfBounds, the file header, a header table, the
\* file range of a header, a vm range, the section name index, the window
\* of a section's name in the section name table, or the relocation table
\* really escapes.  This covers the
\* overflow check of program_header_for_vaddr (mod.rs 623), which fails
\* the parse for a header met before the one that holds DT_REL.
OutOfBoundsJustified ==
  (pc = "done" /\ result = "OutOfBounds")
    => \/ Escapes(image, Rng(0, EhdrSize))
       \/ Escapes(image, Rng(image.e_phoff, image.e_phoff + PhdrSize * image.e_phnum))
       \/ Escapes(image, Rng(image.e_shoff, image.e_shoff + ShdrSize * image.e_shnum))
       \/ \E ph \in Range(image.phdrs) :
             \/ Escapes(image, PhdrRange(ph))
             \/ ph.p_vaddr + ph.p_memsz > UsizeMax
       \/ \E sh \in Range(image.shdrs) : Escapes(image, ShdrRange(sh))
       \/ image.e_shstrndx >= Len(image.shdrs)
       \/ /\ image.e_shstrndx < Len(image.shdrs)
          /\ \E sh \in Range(image.shdrs) :
                NameWindowEscapes(image, image.e_shstrndx + 1, sh.sh_name)
       \/ RelocationsEscape(image, elf.dynamic_table[DT_REL], elf.dynamic_table[DT_RELSZ])
====
