----------------------------- MODULE ElfImages -----------------------------
(***************************************************************************)
(* Builders of the byte buffers the ELF models parse: program and section *)
(* header records, Elf64Dyn records, the string at each byte offset and    *)
(* the image record itself (see ElfParser!ImageOK).                        *)
(***************************************************************************)
EXTENDS Integers, Sequences

PH(t, off, sz, va, ms) ==
  [p_type |-> t, p_offset |-> off, p_filesz |-> sz, p_vaddr |-> va, p_memsz |-> ms]
SH(t, name, off, sz, addr) ==
  [sh_type |-> t, sh_name |-> name, sh_offset |-> off, sh_size |-> sz, sh_addr |-> addr]
DYN(tag, val) == [d_tag |-> tag, d_val |-> val]

\* Every byte zero unless overridden: empty strings, DT_NULL entries.
Str(len, over) ==
  [p \in 0 .. len - 1 |-> IF p \in DOMAIN over THEN over[p] ELSE [s |-> "", nul |-> 0]]
Dyn(len, over) ==
  [p \in 0 .. len - 1 |-> IF p \in DOMAIN over THEN over[p] ELSE DYN(0, 0)]

Img(base, len, ok, phoff, phs, shoff, shs, shstrndx, str, dyn) ==
  [base |-> base, len |-> len, ident_ok |-> ok,
   e_phoff |-> phoff, e_phnum |-> Len(phs), phdrs |-> phs,
   e_shoff |-> shoff, e_shnum |-> Len(shs), shdrs |-> shs,
   e_shstrndx |-> shstrndx, str |-> Str(len, str), dyn |-> Dyn(len, dyn),
   sym |-> [p \in 0 .. len - 1 |-> 0]]
====
