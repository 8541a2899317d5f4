---------------------------- MODULE Disassembler ----------------------------
(***************************************************************************)
(* disassemble_instruction (src/src/disassembler.rs): one decoded          *)
(* instruction, the program counter, the CFG labels, the two function      *)
(* registries and the dialect are turned into one line of text.  The text  *)
(* is kept as what it says: a mnemonic, its operands (registers, signed    *)
(* offsets, immediates, labels, function names) and whether the byte-swap  *)
(* warning went to the diagnostics channel.  The match is a sequence of    *)
(* arms tried in source order; the first arm whose opcode matches and      *)
(* whose dialect guard holds wins.                                         *)
(***************************************************************************)
EXTENDS Integers, Sequences, SequencesExt

CONSTANTS
  Versions,           \* dialect records (the SBPFVersion predicates)
  Insns,              \* decoded instructions [opc, dst, src, off, imm, ptr]
  Pcs,                \* program counters
  CfgLabels,          \* cfg_nodes: instruction index -> label
  FunctionRegistry,   \* function_registry: key -> function name
  LoaderRegistry,     \* loader.get_function_registry(): u32 key -> name
  CallImmTargetPc(_, _, _),  \* sbpf_version.calculate_call_imm_target_pc
  UsizeBits,          \* width of usize / isize
  ImmBits,            \* width of insn.imm (an i64)
  U32Bits,            \* width of u32
  U8Bits              \* width of u8

VARIABLES version, insn, pc, text
vars == <<version, insn, pc, text>>

Usize == 2 ^ UsizeBits
Imm   == 2 ^ ImmBits
U32   == 2 ^ U32Bits
U8    == 2 ^ U8Bits

(***************************************************************************)
(* The match arms of disassemble_instruction, in source order.  Opcode     *)
(* values are those of the ebpf module's constant table: class ALU32 0x04, *)
(* ALU64 0x07, PQR 0x06, JMP 0x05, +0x08 for the register form.  A guard   *)
(* names the dialect predicate the arm's `if` tests.                       *)
(***************************************************************************)
A(opc, guard, name, form) == [opc |-> opc, guard |-> guard, name |-> name, form |-> form]
\* An immediate arm and its register twin.
AluPair(opc, guard, name) ==
  << A(opc, guard, name, "alu_imm"), A(opc + 8, guard, name, "alu_reg") >>
JmpPair(opc, name) == << A(opc, "none", name, "jmp_imm"), A(opc + 8, "none", name, "jmp_reg") >>
PqrPair(opc, name) == AluPair(opc, "pqr", name)

Arms ==
  << A(24, "none", "lddw", "lddw"),
     A(113, "!move", "ldxb", "ld_reg"), A(105, "!move", "ldxh", "ld_reg"),
     A(97, "!move", "ldxw", "ld_reg"), A(121, "!move", "ldxdw", "ld_reg"),
     A(114, "!move", "stb", "ld_st_imm"), A(106, "!move", "sth", "ld_st_imm"),
     A(98, "!move", "stw", "ld_st_imm"), A(122, "!move", "stdw", "ld_st_imm"),
     A(115, "!move", "stxb", "st_reg"), A(107, "!move", "stxh", "st_reg"),
     A(99, "!move", "stxw", "st_reg"), A(123, "!move", "stxdw", "st_reg") >>
  \o AluPair(4, "none", "add32") \o AluPair(20, "none", "sub32")
  \o AluPair(36, "!pqr", "mul32") \o << A(44, "move", "ldxb", "ld_reg") >>
  \o AluPair(52, "!pqr", "div32") \o << A(60, "move", "ldxh", "ld_reg") >>
  \o AluPair(68, "none", "or32") \o AluPair(84, "none", "and32")
  \o AluPair(100, "none", "lsh32") \o AluPair(116, "none", "rsh32")
  \o << A(132, "!neg", "neg32", "neg"), A(140, "move", "ldxw", "ld_reg") >>
  \o AluPair(148, "!pqr", "mod32") \o << A(156, "move", "ldxdw", "ld_reg") >>
  \o AluPair(164, "none", "xor32") \o AluPair(180, "none", "mov32")
  \o AluPair(196, "none", "arsh32")
  \o << A(212, "none", "le", "byteswap"), A(220, "none", "be", "byteswap") >>
  \o AluPair(7, "none", "add64") \o AluPair(23, "none", "sub64")
  \o << A(39, "!pqr", "mul64", "alu_imm"), A(39, "move", "stb", "ld_st_imm"),
        A(47, "!pqr", "mul64", "alu_reg"), A(47, "move", "stxb", "st_reg"),
        A(55, "!pqr", "div64", "alu_imm"), A(55, "move", "sth", "ld_st_imm"),
        A(63, "!pqr", "div64", "alu_reg"), A(63, "move", "stxh", "st_reg") >>
  \o AluPair(71, "none", "or64") \o AluPair(87, "none", "and64")
  \o AluPair(103, "none", "lsh64") \o AluPair(119, "none", "rsh64")
  \o << A(135, "move", "stw", "ld_st_imm"), A(135, "!neg", "neg64", "neg"),
        A(143, "move", "stxw", "st_reg"),
        A(151, "!pqr", "mod64", "alu_imm"), A(151, "move", "stdw", "ld_st_imm"),
        A(159, "!pqr", "mod64", "alu_reg"), A(159, "move", "stxdw", "st_reg") >>
  \o AluPair(167, "none", "xor64") \o AluPair(183, "none", "mov64")
  \o AluPair(199, "none", "arsh64") \o << A(247, "none", "hor64", "alu_imm") >>
  \o PqrPair(134, "lmul32") \o PqrPair(150, "lmul64") \o PqrPair(54, "uhmul64")
  \o PqrPair(182, "shmul64") \o PqrPair(70, "udiv32") \o PqrPair(86, "udiv64")
  \o PqrPair(102, "urem32") \o PqrPair(118, "urem64") \o PqrPair(198, "sdiv32")
  \o PqrPair(214, "sdiv64") \o PqrPair(230, "srem32") \o PqrPair(246, "srem64")
  \o << A(5, "none", "ja", "ja") >>
  \o JmpPair(21, "jeq") \o JmpPair(37, "jgt") \o JmpPair(53, "jge")
  \o JmpPair(165, "jlt") \o JmpPair(181, "jle") \o JmpPair(69, "jset")
  \o JmpPair(85, "jne") \o JmpPair(101, "jsgt") \o JmpPair(117, "jsge")
  \o JmpPair(197, "jslt") \o JmpPair(213, "jsle")
  \o << A(133, "none", "call", "call_imm"), A(141, "none", "callx", "call_reg"),
        A(149, "!static", "exit", "exit"), A(157, "static", "return", "exit"),
        A(149, "static", "syscall", "syscall") >>

\* Mutation: the legacy mul/div/mod arms without their `!enable_pqr` guard.
ArmEnabledPqrUngated(guard, d) ==
  CASE guard = "!pqr" -> TRUE
    [] OTHER          -> IF guard = "none" THEN TRUE
                         ELSE IF guard = "move" THEN d.move_memory_instruction_classes
                         ELSE IF guard = "!move" THEN ~d.move_memory_instruction_classes
                         ELSE IF guard = "pqr" THEN d.enable_pqr
                         ELSE IF guard = "!neg" THEN ~d.disable_neg
                         ELSE IF guard = "static" THEN d.static_syscalls
                         ELSE ~d.static_syscalls

\* The `if` guard of an arm under dialect d.
ArmEnabled(guard, d) ==
  CASE guard = "none"    -> TRUE
    [] guard = "move"    -> d.move_memory_instruction_classes
    [] guard = "!move"   -> ~d.move_memory_instruction_classes
    [] guard = "pqr"     -> d.enable_pqr
    [] guard = "!pqr"    -> ~d.enable_pqr
    [] guard = "!neg"    -> ~d.disable_neg
    [] guard = "static"  -> d.static_syscalls
    [] guard = "!static" -> ~d.static_syscalls

\* The arm `match insn.opc` takes: the first that matches, 0 for `_`.
FirstArm(d, opc) ==
  SelectInSeq(Arms, LAMBDA a : a.opc = opc /\ ArmEnabled(a.guard, d))

\* Operands as printed.
RegOp(r)    == [k |-> "reg", v |-> r]
IntOp(i)    == [k |-> "int", v |-> i]
HexOp(x)    == [k |-> "hex", v |-> x]
SymOp(s)    == [k |-> "sym", v |-> s]
\* signed_off_str: "-0x.." of -(value as isize) below zero, "+0x.." else.
SignedOff(off) == IF off < 0 THEN <<"-", -off>> ELSE <<"+", off>>
MemOp(r, off) == [k |-> "mem", v |-> <<r>> \o SignedOff(off)]

\* Mutation: the target without the `+ 1`.
JumpTargetNoIncrement(i) == (i.ptr + i.off) % Usize

\* resolve_label of (insn.ptr as isize + insn.off as isize + 1) as usize.
JumpTarget(i) == (i.ptr + i.off + 1) % Usize
ResolveLabel(t) == IF t \in DOMAIN CfgLabels THEN CfgLabels[t] ELSE "[invalid]"

\* The CALL_IMM arm: the function registry by the computed key, then, for
\* dynamic syscalls only, the loader's registry by insn.imm as u32.
CallImm(d, i, p) ==
  LET key == CallImmTargetPc(d, p, i.imm)
      u32 == i.imm % U32
      dyn == ~d.static_syscalls /\ key \notin DOMAIN FunctionRegistry
  IN  IF ~dyn
      THEN [name |-> "call", warn |-> FALSE,
            args |-> << SymOp(IF key \in DOMAIN FunctionRegistry
                            THEN FunctionRegistry[key] ELSE "[invalid]") >>]
      ELSE [name |-> "syscall", warn |-> FALSE,
            args |-> << SymOp(IF u32 \in DOMAIN LoaderRegistry
                            THEN LoaderRegistry[u32] ELSE "[invalid]") >>]

\* Mutation: `insn.imm` printed without the `as u8` narrowing.
CallxRegUnmasked(d, i) == IF d.callx_uses_src_reg THEN i.src ELSE i.imm

\* The register callx prints: insn.src, or insn.imm as u8.
CallxReg(d, i) == IF d.callx_uses_src_reg THEN i.src ELSE i.imm % U8

\* The text an arm produces for instruction i.
Render(a, d, i, p) ==
  LET line(args) == [name |-> a.name, args |-> args, warn |-> FALSE]
  IN  CASE a.form = "lddw"      -> line(<< RegOp(i.dst), HexOp(i.imm % Imm) >>)
        [] a.form = "ld_reg"    -> line(<< RegOp(i.dst), MemOp(i.src, i.off) >>)
        [] a.form = "ld_st_imm" -> line(<< MemOp(i.dst, i.off), IntOp(i.imm) >>)
        [] a.form = "st_reg"    -> line(<< MemOp(i.dst, i.off), RegOp(i.src) >>)
        [] a.form = "alu_imm"   -> line(<< RegOp(i.dst), IntOp(i.imm) >>)
        [] a.form = "alu_reg"   -> line(<< RegOp(i.dst), RegOp(i.src) >>)
        [] a.form = "neg"       -> line(<< RegOp(i.dst) >>)
        [] a.form = "byteswap"  -> [line(<< IntOp(i.imm), RegOp(i.dst) >>)
                                      EXCEPT !.warn = i.imm \notin {16, 32, 64}]
        [] a.form = "ja"        -> line(<< SymOp(ResolveLabel(JumpTarget(i))) >>)
        [] a.form = "jmp_imm"   ->
             line(<< RegOp(i.dst), IntOp(i.imm), SymOp(ResolveLabel(JumpTarget(i))) >>)
        [] a.form = "jmp_reg"   ->
             line(<< RegOp(i.dst), RegOp(i.src), SymOp(ResolveLabel(JumpTarget(i))) >>)
        [] a.form = "call_imm"  -> CallImm(d, i, p)
        [] a.form = "call_reg"  -> line(<< RegOp(CallxReg(d, i)) >>)
        [] a.form = "exit"      -> line(<< >>)
        [] a.form = "syscall"   -> line(<< IntOp(i.imm) >>)

Unknown(i) == [name |-> "unknown", args |-> << HexOp(i.opc) >>, warn |-> FALSE]

DisassembleText(d, i, p) ==
  LET k == FirstArm(d, i.opc)
  IN  IF k = 0 THEN Unknown(i) ELSE Render(Arms[k], d, i, p)

\* Before the call returns.
NoText == [name |-> "none", args |-> << >>, warn |-> FALSE]

Init ==
  /\ version \in Versions
  /\ insn \in Insns
  /\ pc \in Pcs
  /\ text = NoText

\* disassemble_instruction: the whole match, including the diagnostic.
DisassembleInstruction ==
  /\ text = NoText
  /\ text' = DisassembleText(version, insn, pc)
  /\ UNCHANGED <<version, insn, pc>>

\* It has returned.
Done ==
  /\ text # NoText
  /\ UNCHANGED vars

Next == DisassembleInstruction \/ Done

\* A plain function call: it returns.
Spec == Init /\ [][Next]_vars /\ WF_vars(Next)
-----------------------------------------------------------------------------
(***************************************************************************)
(* Properties.                                                             *)
(***************************************************************************)

Operand == [k : {"reg"}, v : 0 .. U8 - 1] \cup [k : {"int", "hex"}, v : Int]
           \cup [k : {"sym"}, v : STRING]
           \cup [k : {"mem"}, v : (0 .. U8 - 1) \X {"-", "+"} \X (0 .. 2 ^ 15)]
Text == [name : STRING, args : Seq(Operand), warn : BOOLEAN]

\* Every line is a mnemonic and operands of their printed kinds: register
\* numbers are u8 (callx prints insn.imm as u8), offsets are sign and
\* magnitude of an i16.
TypeOK ==
  /\ version \in Versions /\ insn \in Insns /\ pc \in Pcs
  /\ text \in Text

\* The encodings spec.md section 6.3 makes active under dialect d: one of
\* the two memory families, legacy mul/div/mod or PQR, neg unless disabled,
\* exit or return/syscall.
ActiveGuards(d) ==
  {"none"}
  \cup (IF d.move_memory_instruction_classes THEN {"move"} ELSE {"!move"})
  \cup (IF d.enable_pqr THEN {"pqr"} ELSE {"!pqr"})
  \cup (IF d.disable_neg THEN {} ELSE {"!neg"})
  \cup (IF d.static_syscalls THEN {"static"} ELSE {"!static"})

\* The spec's decoding: the one active encoding of the opcode, `unknown`
\* when none is active, no answer when two are.
SpecText(d, i, p) ==
  LET active == {k \in DOMAIN Arms : Arms[k].opc = i.opc /\ Arms[k].guard \in ActiveGuards(d)}
  IN  IF active = {} THEN Unknown(i)
      ELSE IF \A j, k \in active : j = k
           THEN Render(Arms[CHOOSE k \in active : TRUE], d, i, p)
           ELSE [NoText EXCEPT !.name = "ambiguous"]

\* The match of disassemble_instruction decodes every opcode as the
\* dialect's one active encoding of it: the first-match order of the arms
\* never lets a deactivated family (legacy mul/div/mod under PQR, the
\* legacy memory encodings under moved classes, neg64 when disabled)
\* shadow the active one, and an inactive opcode falls to `unknown`.
DialectGating == text # NoText => text = SpecText(version, insn, pc)

\* spec.md 4.2: branch targets are insn.ptr + off + 1 in signed arithmetic,
\* cast to an unsigned index; call-immediate resolution tries the function
\* registry by the dialect's key, then, for dynamic syscalls only, the
\* loader's registry by insn.imm as u32.
BranchOpcodes == {Arms[k].opc : k \in {k \in DOMAIN Arms : Arms[k].form \in {"ja", "jmp_imm", "jmp_reg"}}}
SpecTarget(i) == LET t == i.ptr + i.off + 1 IN IF t < 0 THEN t + Usize ELSE t
SpecLabel(i) == IF SpecTarget(i) \in DOMAIN CfgLabels THEN CfgLabels[SpecTarget(i)] ELSE "[invalid]"
SpecCall(d, i, p) ==
  LET key == CallImmTargetPc(d, p, i.imm)
      sys == i.imm % U32
  IN  CASE key \in DOMAIN FunctionRegistry -> <<"call", FunctionRegistry[key]>>
        [] d.static_syscalls               -> <<"call", "[invalid]">>
        [] sys \in DOMAIN LoaderRegistry   -> <<"syscall", LoaderRegistry[sys]>>
        [] OTHER                           -> <<"syscall", "[invalid]">>

\* Every branch prints the label of the CFG node at its target (spec
\* invariants 8 and 9), whichever of the three jump renderings prints it,
\* and every call immediate prints the mnemonic and function the spec's
\* resolution order yields (scenario 6 among them).
TargetsResolved ==
  text # NoText =>
    /\ insn.opc \in BranchOpcodes
         => text.args[Len(text.args)] = SymOp(SpecLabel(insn))
    /\ insn.opc = 133 => <<text.name, text.args[1].v>> = SpecCall(version, insn, pc)
====
