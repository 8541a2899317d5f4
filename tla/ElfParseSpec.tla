---------------------------- MODULE ElfParseSpec ----------------------------
(***************************************************************************)
(* What Elf64::parse promises (spec.md section 3 and properties 8.1-8.2),  *)
(* as one atomic step: parse either rejects the buffer with an error, or   *)
(* returns a view of which every parsed-view invariant holds and none of   *)
(* whose typed slices leaves the buffer.  The order the checks are made    *)
(* in, and which error is returned, are left open.                         *)
(***************************************************************************)
EXTENDS Integers, Sequences, FiniteSets

CONSTANTS Align, EhdrSize, PhdrSize, ShdrSize, RelSize, SymSize,
          SectionNameMax, DT_NUM, Errors

DT_SYMTAB == 6
DT_REL    == 17
DT_RELENT == 19
NAMES     == {".symtab", ".strtab", ".dynstr"}

VARIABLES
  image,    \* the byte buffer, never changed by parse
  outcome,  \* "pending", "ok" or an error
  view      \* the parsed view parse returned
vars == <<image, outcome, view>>

R(a, b) == [start |-> a, end |-> b]
Bytes(r) == r.start .. r.end - 1
Disjoint(a, b) == Bytes(a) \cap Bytes(b) = {}
Within(img, r) == r.start <= r.end /\ r.end <= img.len
\* A region that may be reinterpreted as a slice of records of this size.
Typed(img, r, size) ==
  /\ Within(img, r)
  /\ (r.end - r.start) % size = 0
  /\ (img.base + r.start) % Align = 0

FileHeader      == R(0, EhdrSize)
PhTable(img)    == R(img.e_phoff, img.e_phoff + PhdrSize * img.e_phnum)
ShTable(img)    == R(img.e_shoff, img.e_shoff + ShdrSize * img.e_shnum)
Headers(img)    == {FileHeader, PhTable(img), ShTable(img)}
Loads(img)      == {k \in 1 .. Len(img.phdrs) : img.phdrs[k].p_type = "PT_LOAD"}
Data(img)       == {k \in 1 .. Len(img.shdrs) : img.shdrs[k].sh_type # "SHT_NOBITS"}
SecRange(img, k) == R(img.shdrs[k].sh_offset,
                      img.shdrs[k].sh_offset + img.shdrs[k].sh_size)

\* The name of section k: the string at sh_name in the section name table,
\* when a zero byte ends it inside min(table end, start + 16 bytes).
SectionName(img, k) ==
  LET t      == img.shdrs[img.e_shstrndx + 1]
      start  == t.sh_offset + img.shdrs[k].sh_name
      winEnd == IF t.sh_offset + t.sh_size < start + SectionNameMax
                THEN t.sh_offset + t.sh_size ELSE start + SectionNameMax
  IN  IF /\ t.sh_type = "SHT_STRTAB"
         /\ start <= winEnd /\ winEnd <= img.len
         /\ start \in DOMAIN img.str
         /\ start + img.str[start].nul < winEnd
      THEN img.str[start].s ELSE "no name"

WellFormed(img, v) ==
  /\ img.ident_ok /\ img.e_shstrndx < img.e_shnum
  /\ img.shdrs # <<>> /\ img.shdrs[1].sh_type = "SHT_NULL"
  /\ v.phr = PhTable(img) /\ v.shr = ShTable(img)
  /\ Typed(img, FileHeader, EhdrSize)
  /\ Typed(img, v.phr, PhdrSize) /\ Typed(img, v.shr, ShdrSize)
  /\ \A a, b \in Headers(img) : a # b => Disjoint(a, b)
  \* PT_LOAD segments: ascending p_vaddr, file range inside the buffer
  /\ \A j, k \in Loads(img) : j < k => img.phdrs[j].p_vaddr <= img.phdrs[k].p_vaddr
  /\ \A k \in Loads(img) : img.phdrs[k].p_offset + img.phdrs[k].p_filesz <= img.len
  \* section data: inside the buffer, off the headers, in file order
  /\ \A k \in Data(img) :
        /\ Within(img, SecRange(img, k))
        /\ \A h \in Headers(img) : Disjoint(SecRange(img, k), h)
  /\ \A j, k \in Data(img) : j < k => SecRange(img, j).end <= SecRange(img, k).start
  \* .symtab, .strtab and .dynstr: each at most once, and the one recorded
  /\ \A n \in NAMES :
        LET named == IF img.e_shstrndx = 0 THEN {}
                     ELSE {k \in 1 .. Len(img.shdrs) : SectionName(img, k) = n}
        IN  Cardinality(named) <= 1 /\ v.named[n] = named
  \* dynamic relocations: present iff DT_REL is set, a non-empty Elf64Rel slice
  /\ v.relocs = {} <=> v.dt[DT_REL] = 0
  /\ \A r \in v.relocs :
        Typed(img, r, RelSize) /\ r.start < r.end /\ v.dt[DT_RELENT] = RelSize
  \* dynamic symbols: present iff DT_SYMTAB is set, a symbol-table section
  /\ v.dynsym = {} <=> v.dt[DT_SYMTAB] = 0
  /\ \A r \in v.dynsym :
        /\ Typed(img, r, SymSize)
        /\ \E k \in 1 .. Len(img.shdrs) :
              /\ img.shdrs[k].sh_addr = v.dt[DT_SYMTAB]
              /\ img.shdrs[k].sh_type \in {"SHT_SYMTAB", "SHT_DYNSYM"}
              /\ SecRange(img, k) = r

EmptyView == [phr |-> R(0, 0), shr |-> R(0, 0), named |-> [n \in NAMES |-> {}],
              dt |-> [t \in 0 .. DT_NUM - 1 |-> 0], relocs |-> {}, dynsym |-> {}]

\* Any buffer may be parsed: the image is left free.
Init ==
  /\ outcome = "pending"
  /\ view = EmptyView

Parse ==
  /\ outcome = "pending"
  /\ UNCHANGED image
  /\ \/ outcome' \in Errors /\ view' = EmptyView
     \/ outcome' = "ok" /\ WellFormed(image, view')

Spec == Init /\ [][Parse]_vars /\ WF_vars(Parse)
====
