----------------------------- MODULE ElfQueries -----------------------------
(***************************************************************************)
(* The queries a caller makes of the Elf64 that parse returned             *)
(* (section_name, symbol_name, dynamic_symbol_name, symbol_table) and its  *)
(* Debug formatter, composed with the parse of ElfParser: once parse has   *)
(* returned Ok the view is immutable and any query may be asked of it, any *)
(* number of times.  answer holds what the last query returned.            *)
(*                                                                         *)
(* An image of this module also holds sym[p]: the st_name of the Elf64Sym *)
(* record stored at byte p.  A string of NonUtf8 stands for bytes that     *)
(* core::str::from_utf8 rejects.                                           *)
(***************************************************************************)
EXTENDS ElfParser, ElfRecords

CONSTANTS
  SymbolNameMax,  \* SYMBOL_NAME_LENGTH_MAXIMUM
  QueryOffsets,   \* the sh_name / st_name arguments a caller passes
  NonUtf8         \* the strings whose bytes are not valid UTF-8

ASSUME \A img \in Images : DOMAIN img.sym = 0 .. img.len - 1

VARIABLE answer   \* [op, arg, err, val] of the last query
qvars == <<vars, answer>>

NoAnswer == [op |-> "none", arg |-> 0, err |-> NoError, val |-> {}]

\* What a query returns: Ok(val) when err is NoError, else Err(err).
Ret(err, val) == [err |-> err, val |-> val]

\* get_string_in_section on the section header held by hdr (an Option,
\* `missing` being the error of its ok_or), at offset off, bounded by max;
\* the string is returned with its length.
Lookup(hdr, missing, off, max) ==
  IF hdr = {} THEN Ret(missing, {})
  ELSE LET k == CHOOSE x \in hdr : TRUE
           p == image.shdrs[k].sh_offset + off
           e == FirstError(StringChecks(image, k, off, max))
       IN  IF e = NoError THEN Ret(NoError, {<<image.str[p].s, image.str[p].nul>>})
           ELSE Ret(e, {})

\* section_name(sh_name)
SectionNameOf(off) ==
  Lookup(elf.section_names_section_header, "NoSectionNameStringTable", off,
         SectionNameMax)

\* symbol_name(st_name)
SymbolNameOf(off) ==
  Lookup(elf.symbol_names_section_header, "NoStringTable", off, SymbolNameMax)

\* dynamic_symbol_name(st_name)
DynamicSymbolNameOf(off) ==
  Lookup(elf.dynamic_symbol_names_section_header, "NoDynamicStringTable", off,
         SymbolNameMax)

\* get_symbol_table_of_section(shdrs[k]): a SYMTAB or DYNSYM section sliced
\* as &[Elf64Sym] by slice_from_section_header.
SymbolTableOfSection(k) ==
  LET r == ShdrRange(image.shdrs[k])
      e == IF image.shdrs[k].sh_type \notin {"SHT_SYMTAB", "SHT_DYNSYM"}
           THEN "InvalidSectionHeader" ELSE FirstError(RangeChecks(image, r, SymSize))
  IN  IF e = NoError THEN Ret(NoError, {r}) ELSE Ret(e, {})

\* symbol_table(): None without .symtab, else the table of that section.
SymbolTableOf ==
  IF elf.symbol_section_header = {} THEN Ret(NoError, {})
  ELSE SymbolTableOfSection(CHOOSE k \in elf.symbol_section_header : TRUE)

\* The st_name of each Elf64Sym of the table held by range r.
SymbolNames(r) ==
  {image.sym[r.start + (j - 1) * SymSize] : j \in 1 .. (r.end - r.start) \div SymSize}

\* A name the formatter unwraps: the lookup failed or from_utf8 rejects it.
Unprintable(a) == a.err # NoError \/ \E v \in a.val : v[1] \in NonUtf8

\* Whether Debug for Elf64 reaches a failing unwrap: the section name
\* table, the name of every section header, and with .symtab its table,
\* the string table and the name of every symbol whose st_name is not 0.
DebugPanics ==
  \/ elf.section_names_section_header = {}
  \/ \E k \in 1 .. Len(image.shdrs) : Unprintable(SectionNameOf(image.shdrs[k].sh_name))
  \/ /\ elf.symbol_section_header # {}
     /\ \/ SymbolTableOf.err # NoError
        \/ \E r \in SymbolTableOf.val :
              \E n \in SymbolNames(r) : n # 0 /\ Unprintable(SymbolNameOf(n))

Parsed == pc = "done" /\ result = "ok"

-----------------------------------------------------------------------------
QInit == Init /\ answer = NoAnswer

\* A step of parse; answers come only after it has returned.
ParseStep == Next /\ UNCHANGED answer

Answer(op, arg, r) == answer' = [op |-> op, arg |-> arg] @@ r

SectionName ==
  /\ Parsed
  /\ \E off \in QueryOffsets : Answer("section_name", off, SectionNameOf(off))
  /\ UNCHANGED vars

SymbolName ==
  /\ Parsed
  /\ \E off \in QueryOffsets : Answer("symbol_name", off, SymbolNameOf(off))
  /\ UNCHANGED vars

DynamicSymbolName ==
  /\ Parsed
  /\ \E off \in QueryOffsets :
        Answer("dynamic_symbol_name", off, DynamicSymbolNameOf(off))
  /\ UNCHANGED vars

SymbolTable ==
  /\ Parsed
  /\ Answer("symbol_table", 0, SymbolTableOf)
  /\ UNCHANGED vars

\* {:?} of the Elf64.  Each writeln! may fail and return fmt::Error before
\* the rest runs; when no write fails the call panics or returns Ok.
DebugFmt ==
  /\ Parsed
  /\ \E out \in {"fmt::Error", IF DebugPanics THEN "panic" ELSE NoError} :
        Answer("fmt", 0, Ret(out, {}))
  /\ UNCHANGED vars

\* The accessors a caller applies to the records of the parsed tables.
\* parse never reads sh_flags, st_info or r_info, so a record may hold any
\* value there (st_info: the LOCAL and GLOBAL bindings with every type);
\* vm_range is asked of the section headers of the buffer.
SectionIsWritable ==
  /\ Parsed
  /\ \E f \in 0 .. Word - 1 : Answer("is_writable", f, Ret(NoError, {IsWritable(f)}))
  /\ UNCHANGED vars

SymbolIsFunction ==
  /\ Parsed
  /\ \E st \in {bind * 16 + type : bind \in {0, 1}, type \in 0 .. 15} :
        Answer("is_function", st, Ret(NoError, {IsFunction(st)}))
  /\ UNCHANGED vars

RelocationInfo ==
  /\ Parsed
  /\ \E info \in 0 .. U64 - 1 :
        Answer("r_info", info, Ret(NoError, {<<RSym(info), RType(info)>>}))
  /\ UNCHANGED vars

SectionVmRange ==
  /\ Parsed
  /\ \E k \in 1 .. Len(image.shdrs) :
        Answer("vm_range", k, Ret(NoError, {ShdrVmRange(image.shdrs[k])}))
  /\ UNCHANGED vars

QNext ==
  \/ ParseStep
  \/ SectionName
  \/ SymbolName
  \/ DynamicSymbolName
  \/ SymbolTable
  \/ DebugFmt
  \/ SectionIsWritable
  \/ SymbolIsFunction
  \/ RelocationInfo
  \/ SectionVmRange

QSpec == QInit /\ [][QNext]_qvars /\ WF_qvars(ParseStep)
-----------------------------------------------------------------------------
(***************************************************************************)
(* Properties.                                                             *)
(***************************************************************************)

NameOps == [section_name |-> SectionNameMax, symbol_name |-> SymbolNameMax,
            dynamic_symbol_name |-> SymbolNameMax]

\* Spec 8.3: a string returned by section_name, symbol_name or
\* dynamic_symbol_name is at most the query's cap long.  It takes the
\* window of get_string_in_section, min(section end, offset + max), being
\* the one the zero byte is searched in.
NameQueryBounded ==
  (answer.op \in DOMAIN NameOps /\ answer.err = NoError)
    => \A v \in answer.val : v[2] <= NameOps[answer.op]

\* Spec 4.1: symbol_table() returns an Option, the .symtab table if the
\* file has one: once parse has returned Ok it does not fail.
SymbolTableAvailable ==
  answer.op = "symbol_table" => answer.err = NoError
====
