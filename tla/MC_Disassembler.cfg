\* disassemble_instruction over every opcode, branch and call, in every
\* dialect an SBPF version has.
CONSTANTS
  Versions <- VersionDialects
  Insns <- MCInsns
  Pcs = {0, 4}
  CfgLabels <- MCCfgLabels
  FunctionRegistry <- MCFunctionRegistry
  LoaderRegistry <- MCLoaderRegistry
  CallImmTargetPc <- MCCallImmTargetPc
  UsizeBits = 3
  ImmBits = 10
  U32Bits = 6
  U8Bits = 5
SPECIFICATION Spec
INVARIANT TypeOK
INVARIANT DialectGating
INVARIANT TargetsResolved
