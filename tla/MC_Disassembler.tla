-------------------------- MODULE MC_Disassembler --------------------------
(***************************************************************************)
(* Inputs for model checking Disassembler.  Widths are scaled down with    *)
(* their order kept (u8 < u32 < i64): an immediate can be negative, wider  *)
(* than a u32 and wider than a u8, and a branch target can leave usize.    *)
(***************************************************************************)
EXTENDS Disassembler, FiniteSets

Flags == {"move_memory_instruction_classes", "enable_pqr", "disable_neg",
          "static_syscalls", "callx_uses_src_reg"}
Dialect(on) == [f \in Flags |-> f \in on]

\* Every combination of the five predicates.
AllDialects == {Dialect(on) : on \in SUBSET Flags}

\* The combinations the SBPF versions take: the moved memory classes come
\* with PQR and without neg (they reuse mul/div/mod and neg64 encodings).
VersionDialects ==
  {d \in AllDialects : d.move_memory_instruction_classes => d.enable_pqr /\ d.disable_neg}

Ins(opc, dst, src, off, imm, ptr) ==
  [opc |-> opc, dst |-> dst, src |-> src, off |-> off, imm |-> imm, ptr |-> ptr]

\* Every opcode of the match, and two that no arm has.
Opcodes == {Arms[k].opc : k \in DOMAIN Arms} \cup {0, 255}
DecodeInsns == {Ins(o, 1, 2, -3, imm, 0) : o \in Opcodes, imm \in {16, -20}}

\* ja, jeq imm and jeq reg: backward past index 0 (the cast wraps to the
\* top of usize), backward, forward.  insn.ptr is an instruction index,
\* below isize::MAX.
BranchInsns == {Ins(o, 1, 2, off, 7, ptr) :
                  o \in {5, 21, 29}, off \in {-3, -2, -1, 0, 1}, ptr \in {0, 2, 3}}

\* call imm and callx: negative, in range and wider than u32 / u8.
CallInsns == {Ins(o, 0, 3, 0, imm, 4) : o \in {133, 141}, imm \in {-1, 3, 67, 40}}

MCInsns == DecodeInsns \cup BranchInsns \cup CallInsns

MCCfgLabels == (0 :> "entry") @@ (3 :> "loop") @@ (7 :> "tail")
MCFunctionRegistry == (3 :> "helper") @@ (8 :> "entrypoint")
MCLoaderRegistry == (3 :> "sol_log") @@ (63 :> "abort")

\* A PC-relative key under static syscalls, the immediate as u32 otherwise.
MCCallImmTargetPc(d, p, imm) ==
  IF d.static_syscalls THEN (p + imm + 1) % U32 ELSE imm % U32
====
