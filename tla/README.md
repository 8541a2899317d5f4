# TLA+ models of the sBPF ELF parser and disassembler

This directory holds TLA+ models of the two source files of this repository:

- `src/src/elf_parser/mod.rs`: `Elf64::parse`, a zero-copy validator for untrusted ELF64 images.
- `src/src/disassembler.rs`: `disassemble_instruction`, which prints one sBPF instruction.

It also holds the TLC configurations that check the models.

## 1. The system

### Parts and how they interact

| Part | Source | What it does |
|---|---|---|
| `Elf64::parse` | mod.rs 149-245 | Runs the steps below in order. The first failing check returns its error (the `?` operator). |
| `parse_file_header` and the identification checks | 150-163, 273-290 | Header inside the buffer, buffer aligned, identification fields valid, `e_shstrndx < e_shnum`. |
| `parse_program_header_table` / `parse_section_header_table` | 293-324 | Checked `size * num + off`, no overlap with earlier tables, `slice_from_bytes`. |
| First-section check | 175-178 | Section 0 exists and is `SHT_NULL`. |
| PT_LOAD sweep | 180-197 | `p_vaddr` ascending across PT_LOAD headers, tracked by the `vaddr` accumulator. Each file range lies inside the buffer. |
| Section sweep | 199-217 | Every non-`SHT_NOBITS` section is off the three header regions, in file order (the `offset` accumulator) and inside the buffer. |
| Section-name discovery | 219-225, 326-360 | Finds the `e_shstrndx` table, reads each `sh_name` through `get_string_in_section`, and records `.symtab`, `.strtab` and `.dynstr` at most once each. |
| `parse_dynamic` | 362-414 | Takes the PT_DYNAMIC table if it slices, else the SHT_DYNAMIC section, else the file is static. Expands the entries into the dense `dynamic_table`. |
| `parse_dynamic_relocations` | 416-450 | Translates DT_REL through `program_header_for_vaddr`, falling back to a section at that address. Checks DT_RELENT and DT_RELSZ and slices `&[Elf64Rel]`. |
| `parse_dynamic_symbol_table` | 452-466, 540-549 | The section at DT_SYMTAB must be SYMTAB or DYNSYM, and it is sliced as `&[Elf64Sym]`. |
| Slice and string helpers | 121-130, 469-497, 553-628 | Size, bounds and alignment of typed slices. The bounded-string window. The vaddr lookup. |
| Queries and `Debug` | 248-272, 500-549, 631-670 | Read the parsed `Elf64` after the parse. `section_name`, `symbol_name` and `dynamic_symbol_name` go through `get_string_in_section`. `symbol_table` slices `.symtab`. `Debug` unwraps all of these. |
| Record accessors | 66-119 | `file_range` and `vm_range` of the header records, flag and `r_info` bit masks. |
| `disassemble_instruction` | disassembler.rs 115-288 | One `match` on the opcode. Each arm has a dialect guard, and the first arm that matches wins. The rendering helpers (21-111) format operands and resolve labels. Call immediates are resolved through two registries. |

The parser and the disassembler share no state. Both are pure functions of their inputs, called by the loader and by tooling. There is no concurrency.

The hard behaviour is sequential:

- long check sequences whose order decides the error;
- accumulators carried across loop iterations;
- checked arithmetic at the top of `usize`;
- first-match semantics over overlapping cases: `find`, the first PT_DYNAMIC, and the match arms.

PROJECT.json lists each hazard at its line.

## 2. Modules

| Module | Models | Notes |
|---|---|---|
| `ElfParser` | `Elf64::parse` and its helpers | See the correspondence below. |
| `ElfParseSpec` | What parse promises (spec.md §3, invariants 1-2) | One atomic step. It either returns an error, or returns Ok with a view that satisfies every layout invariant and whose typed slices lie inside the buffer, aligned, with a whole number of records. |
| `ElfRecords` | The bit-field accessors `is_writable`, `is_function`, `r_type` and `r_sym` | Operators over the community module Bitwise, at a scaled word width. |
| `ElfImages` | Builders of header records, `Elf64Dyn` records and images | Shared by every MC module of the parser. |
| `MC_Elf` | Buffers for ElfParser | Six image families, one per cfg. |
| `ElfQueries` | The query methods and `Debug for Elf64` | Extends ElfParser with the variable `answer`. Once parse has returned Ok, any query may be asked, any number of times. |
| `MC_ElfQueries` | Buffers with a `.symtab` candidate, symbols and a string table | — |
| `ElfTruncation` | Two calls of parse in sequence: a whole buffer, then the same buffer cut short | Extends ElfParser with `cut` and `whole`. |
| `MC_ElfTruncation` | Accepted buffers, each with a different region last | — |
| `Disassembler` | `disassemble_instruction` | The arms table in source order. First-match decoding. The rendering of every form. |
| `MC_Disassembler` | Dialects, instructions, registries and CFG labels | — |

### ElfParser correspondence

**State.**

- `image`: the buffer.
- `pc`: the step about to run.
- `result`: pending, ok, or the error returned.
- `loc`: parse's locals. These are the three header ranges, the loop index `i`, the `vaddr` and `offset` accumulators, and the chosen dynamic table.
- `elf`: the `Elf64` fields being built. These are the four optional section headers, `dynamic_table`, and the two optional slices.

**The buffer.** Bytes are abstracted to what the parse reads:

- the header fields;
- the records in the two tables;
- for each byte offset, the string starting there and the distance to its zero byte;
- the `Elf64Dyn` record at each offset.

Record sizes are constants, scaled down in the MC.

**Checks.** Each step is an action. Its checks are a sequence of `<<failed, error>>` pairs in code order, and `FirstError` returns the first one that fails. This models `?` and the `return Err` statements exactly, including which error wins.

**Arithmetic.** Checked additions compare against `UsizeMax`, and overflow becomes `OutOfBounds` (`From<ArithmeticOverflow>`). A `Range` whose start is above its end has length 0, as in Rust.

**Loops.** Each loop is one action per iteration. Each iteration has a disjunct for the loop's end, for `continue`, and for the checked body.

**Accessors.** `PhdrFileRange` and `ShdrFileRange` are `file_range` of the two header records, and `PhdrVmRange` and `ShdrVmRange` are their `vm_range`. All four use `saturating_add` as `SatAdd`.

### ElfQueries correspondence

**State.** The five variables of ElfParser, plus `answer`: the operation, its argument, the error or `NoError`, and the value returned.

**Queries.** `SectionName`, `SymbolName` and `DynamicSymbolName` take their offset from `QueryOffsets`. `SymbolTable` has no argument. Each is enabled once parse has returned Ok (`Parsed`), and it changes only `answer`.

**Helpers.** `Lookup` is `get_string_in_section` behind the `ok_or` of the header's Option. `SymbolTableOfSection` is `get_symbol_table_of_section`.

**The buffer.** Images carry one more field, `sym[p]`: the `st_name` of the `Elf64Sym` at byte `p`. Strings in `NonUtf8` stand for bytes that `from_utf8` rejects.

**Record accessors.** `SectionIsWritable`, `SymbolIsFunction`, `RelocationInfo` and `SectionVmRange` apply the accessors to records of the parsed tables. parse never reads `sh_flags`, `st_info` or `r_info`, so those fields take any value of a small domain. `r_info` is a u64 of `2 * WordBits` bits and `Elf64Word` has `WordBits` bits, so `r_sym`'s shift by 32 is a shift by `WordBits`.

**Debug.** `DebugFmt` returns `panic` when any unwrap of `fmt` fails (`DebugPanics`). Otherwise it returns Ok. In both cases it may instead return `fmt::Error`, since any `writeln!` can fail first and return before the later unwraps. The text written is left out.

### ElfTruncation correspondence

**State.** The five variables of ElfParser, plus `cut`, the length the buffer is cut to, and `whole`: what the parse of the whole buffer returned and `Extent`, one past the last byte its regions reach.

**Actions.** `ParseStep` is a step of either parse. `ParseTruncated` starts the second call once the first has returned. It replaces the buffer by `Truncate(image, cut)` and resets the other variables to parse's initial state (`StartLoc`, `StartElf`).

**The truncated buffer.** It keeps the header fields, which sit in the first bytes, and loses every string, `Elf64Dyn` record and symbol at or past `cut`. Every later range check compares against the new length.

### Disassembler correspondence

**State.**

- `version`, `insn`, `pc`: the inputs.
- `text`: the returned line, or `NoText` before the call returns.

**The match.** `Arms` lists the match arms in source order as opcode, guard, mnemonic and form. `FirstArm` is the first arm that matches under `ArmEnabled`.

**Output.** `Render` prints an arm. A line is kept as its mnemonic, its operands and the warning flag. The operands are register numbers, immediates, hex, memory operands with a sign and magnitude offset, labels and function names.

**Conversions.** Each is modelled by what it does at a scaled width:

- `insn.imm as u32`
- `as u8`
- the `{:#x}` of an `i64`
- `(ptr as isize + off + 1) as usize`

The opcode table, `SBPFVersion`, the registries and `calculate_call_imm_target_pc` live outside this repository, so they are constants. The opcode values are those of the upstream ebpf constant table. The MC defines the call-key function as PC-relative under static syscalls and as `imm as u32` otherwise.

## 3. Runs

| Run | Cfg | Expect | What it shows |
|---|---|---|---|
| elf_layout | MC_ElfLayout.cfg | pass, 115k states | See below. |
| elf_names | MC_ElfNames.cfg | pass, 9.6k states | `.symtab`, `.strtab` and `.dynstr` are recorded as the spec names them, each at most once. The recorded indices lie inside the section table (TypeOK). |
| elf_dynamic | MC_ElfDynamic.cfg | pass, 53k states | `dynamic_table` equals the reference `DenseTable` (`DynamicTableAbsorbed`). Relocation and dynamic-symbol slices are typed and in bounds. Every `OutOfBounds` is justified (`OutOfBoundsJustified`): a range parse computes leaves the buffer or overflows, including one from the vm range of a PT_NOTE that ends at `UsizeMax` or one past it. |
| elf_minimal | MC_ElfMinimal.cfg | violation | Spec scenario 1 (`e_shstrndx = 0`) is rejected with `NoSectionNameStringTable`. |
| elf_reloc | MC_ElfReloc.cfg | violation | DT_REL is translated through a PT_DYNAMIC header that precedes the PT_LOAD segment. |
| elf_queries | MC_ElfQueries.cfg | pass, 56k states | Name queries return strings whose zero byte lies inside both the section and `maximum_length` (`NameQueryBounded`, spec 8.3). One name has its zero byte inside the string table but past the cap, so a search that ignored the cap would return it. |
| elf_symtab | MC_ElfSymtab.cfg | violation | `symbol_table()` fails on a file that parse accepted. |
| elf_overlap | MC_ElfOverlap.cfg | violation | A zero-length program header table inside the file header is reported as `Overlap`. |
| elf_truncation | MC_ElfTruncation.cfg | pass, 3.4k states | Every cut of an accepted buffer into a region the parse relied on is rejected (`TruncationDetected`, spec 8.5). |
| elf_truncation_gap | MC_ElfTruncDynamic.cfg | violation | A cut inside a PT_DYNAMIC table that nothing else covers is accepted as a static file. |
| disasm | MC_Disassembler.cfg | pass, 23.6k states | See below. |
| disasm_flags | MC_DisassemblerFlags.cfg | violation | With the five predicates independent, legacy mul/div/mod arms shadow moved memory encodings. |

**elf_layout.** The buffers have misplaced, misaligned, overlapping, disordered and overflowing tables, segments and sections. Over these, `ParseRefinesSpec` shows that every Ok parse satisfies the spec's layout invariants and that parse always returns. `FileRangesInBuffer` shows that `file_range` of every header of an Ok parse lies inside the buffer, although the accessors saturate where the sweeps use checked sums.

**disasm.** In every dialect where the moved memory classes imply PQR and `disable_neg`:

- each opcode prints its one active encoding (`DialectGating`, checked against the spec §6.3 reference `SpecText`);
- branch labels and call names resolve per spec §4.2 and invariants 8-9 (`TargetsResolved`);
- callx prints a u8 register (TypeOK).

### Refinement

`ParseRefinesSpec` is `ElfParseSpec!Spec` under this mapping:

- `outcome` is `result` once `pc = "done"`;
- `view` is the parsed ranges, named sections, dense table and slices.

It is checked as a temporal PROPERTY, so it also checks termination: the abstract spec has `WF_vars(Parse)`.

### Mutants

Each property of a passing run has a mutant in PROJECT.json, a plausible slip in the mapped code that TLC catches:

- alignment check dropped;
- size check dropped;
- section index recorded off by one;
- `file_range` without its `SHT_NOBITS` test;
- `get_string_in_section` ignoring `maximum_length`;
- first write wins in the dynamic table;
- legacy arms ungated under PQR;
- `+ 1` dropped from the jump target;
- `as u8` dropped;
- `program_header_for_vaddr` treating an end equal to `usize::MAX` as an overflow;
- `slice_from_bytes` checking the range against `usize` only, not against the buffer;

### Findings

1. **mod.rs:341.** The minimal image of spec scenario 1 fails: parse_sections requires a section-name table.
2. **mod.rs:618.** `program_header_for_vaddr` ignores `p_type`. The spec's PT_LOAD rule gives offset 18, and the code gives 12.
3. **disassembler.rs:185.** The spec presents the dialect predicates as independent. The code is correct only for correlated dialects: moved classes ⇒ PQR ∧ `disable_neg`.
4. **mod.rs:523.** `symbol_table` returns a `Result` and fails with `InvalidSectionHeader` or `InvalidSize` on a file parse accepted. parse records `.symtab` by name only. Spec 4.1 gives `symbol_table() -> Option`. `Debug` unwraps the same call and panics on such a file.
5. **mod.rs:125.** `check_that_there_is_no_overlap` reports an empty range strictly inside another as overlapping. `e_phnum = 0` with `e_phoff = 1` is rejected with `Overlap`, although the spec's table of errors defines Overlap as two ranges that overlap.
6. **mod.rs:371.** `parse_dynamic` drops a PT_DYNAMIC whose slice fails (`.ok()`). A file whose dynamic table is last and covered by no PT_LOAD segment or SHT_DYNAMIC section, cut inside that table, parses Ok as a static file, and its relocations are lost. Spec 8.5 says every truncation of a valid ELF is a parse error, while spec 4.1 step 9 prescribes the silent fallback. The two rules contradict each other on this file.

## 4. Bounds and why they suffice

**Scaled record sizes.** Every record is 2 bytes, `Elf64Sym` is 4, the alignment is 2, and `SECTION_NAME_LENGTH_MAXIMUM` is 3. Sizes keep their ratios where a check distinguishes them: a 2-byte symbol table is aligned but has an invalid size. `UsizeMax` is 31, or 63 for the dynamic images, so that offsets such as `e_phoff = 30` and sections like `[10, 40)` overflow.

**What each image family reaches.**

- **Layout (18 bytes).** Every error kind of the layout checks, plus Ok. This covers both alignment sources (buffer base, table offset), each overlap pair, a NOBITS section inside a header, and sections out of order or past the end. Each action disjunct fires. Two program headers and three sections are enough for one ordering violation, one skip, and one check against an earlier accumulator.
- **Names (20 bytes).** Names found, duplicated, unterminated within the window, and starting past the table, with the table's type and index varied. Index 3 is equal to `e_shnum`.
- **Dynamic (36 bytes).** Four entry slots with per-slot choices. These give a repeated DT_REL (last write wins), DT_NULL early, a tag past `DT_NUM`, DT_REL mapped by the PT_LOAD or only by a section, missing DT_RELENT or DT_RELSZ, and DT_SYMTAB at a good, mistyped or mis-sized section. There are four PT_DYNAMIC variants: none, good, misaligned (falls back to SHT_DYNAMIC), and covering DT_REL. Two more program header tables put a PT_NOTE before the PT_LOAD, with a vm range ending at 63 (no overflow) or 64 (overflow).
- **Queries (36 bytes).** The `.symtab` candidate is SYMTAB or PROGBITS, with a size of 8 (two records) or 6 (not a whole number of records). Each of its two symbols names nothing, `main`, a non-UTF-8 name, or a name that runs past the string table. The section's own name is `.symtab` or a non-UTF-8 name. The string table is named `.strtab`, `.dynstr` or neither. Query offsets cover every string of both tables, including one longer than the section-name cap. This gives 384 images: every Debug outcome, and every error of the queries. The string table at [22,28) has its one zero byte at 27: the name at 22 ends past the cap of 4 but inside the table, the name at 23 ends exactly at the cap, and the one at 27 is empty. `WordBits` is 3, `sh_flags` takes the 8 values of 3 bits and `st_info` every type nibble with the LOCAL and GLOBAL bindings, so every accessor action fires.
- **Overlap (18 bytes).** `e_phoff` at 0, 1 and 2, with no program headers. An empty third section before the section header table or inside it.
- **Truncation (16-36 bytes).** Five accepted buffers, each ending in a different region: the section header table, a section, a PT_LOAD segment, relocations found through the section fallback, and a PT_DYNAMIC table inside a PT_LOAD segment. Every cut length from 0 to the length minus one is checked, so each region is cut at its start, inside it and at its last byte. The gap run has one buffer whose PT_DYNAMIC table is last.
- **Disassembler.** Every opcode of the match plus two unknown ones. Three jumps at targets that wrap below 0, land on labels, or miss. Calls with negative, in-range and wider-than-u32 immediates. All 20 consistent dialects. `usize` is 3 bits, the immediate 10, u32 6 and u8 5, which keeps u8 < u32 < i64 and lets each narrowing cast change a value.

## 5. Fairness

Both specifications are plain function calls that run to their end, with nothing to wait for and no other actor. `WF_vars(Next)` states exactly that. The abstract parse has `WF_vars(Parse)`. `ElfTruncation` has weak fairness on `TNext`: a caller that was handed the cut buffer calls parse on it.

`Done` stutters once a call has returned, so the deadlock check stays on and a state with no next step would be reported.

## 6. Not modelled, and the plan

Not modelled:

- The plain getters (`file_header`, the two header tables, `dynamic_symbol_table`, `dynamic_relocations_table`). They return fields that `View` already exposes.
- The decoding of UTF-8: a string is valid or not by membership in `NonUtf8`. The text that `Debug` and the disassembler lay out.

- The opcode table, `SBPFVersion`, the function registries and the CFG builder. They live outside this repository, so the disassembler model takes them as constants.

Not yet checked:

1. **Completeness.** A property that the buffers the spec calls well-formed parse Ok. Its known exception is the empty-range Overlap (finding 5).
2. **Section-fallback relocations that run past their section** (mod.rs:444). Spec §9 asks for this behaviour to be kept and flagged. ParseRefinesSpec shows only that the table stays inside the buffer.

A round trip (re-parsing an accepted buffer yields the same view) is not planned. parse is a function of the buffer and the model is deterministic, so such a property would hold by the shape of the model.
