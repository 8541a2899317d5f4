------------------------------ MODULE ElfRecords ------------------------------
(***************************************************************************)
(* The bit-field accessors of the ELF records (mod.rs 82-119): whether a  *)
(* section is writable, whether a symbol is a function, and the two       *)
(* halves of a relocation's r_info.  r_info and sh_flags are u64 and      *)
(* Elf64Word is u32; both are scaled to WordBits bits for the word and    *)
(* twice that for the u64, keeping the split of r_info in two halves.     *)
(* st_info is a u8 at its real width.                                      *)
(***************************************************************************)
EXTENDS Integers, Bitwise

CONSTANTS
  WordBits,           \* bits of Elf64Word (32)
  SHF_WRITE, SHF_ALLOC, STT_FUNC

ASSUME WordBits \in Nat \ {0}

Word == 2 ^ WordBits  \* the values of an Elf64Word
U64  == Word * Word   \* the values of a u64

\* Elf64Shdr::is_writable
IsWritable(sh_flags) ==
  (sh_flags & (SHF_ALLOC | SHF_WRITE)) = (SHF_ALLOC | SHF_WRITE)

\* Elf64Sym::is_function
IsFunction(st_info) == (st_info & 15) = STT_FUNC

\* Elf64Rel::r_type: the low half of r_info, `as Elf64Word`.
RType(r_info) == (r_info & (Word - 1)) % Word

\* Elf64Rel::r_sym: checked_shr(32), which cannot fail for a shift below
\* 64, so its unwrap_or(0) is never taken; then `as Elf64Word`.
RSym(r_info) == shiftR(r_info, WordBits) % Word
====
