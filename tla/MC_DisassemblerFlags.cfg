\* disassemble_instruction with the five dialect predicates independent.
CONSTANTS
  Versions <- AllDialects
  Insns <- MCInsns
  Pcs = {0, 4}
  CfgLabels <- MCCfgLabels
  FunctionRegistry <- MCFunctionRegistry
  LoaderRegistry <- MCLoaderRegistry
  CallImmTargetPc <- MCCallImmTargetPc
  UsizeBits = 3
  ImmBits = 10
  U32Bits = 6
  U8Bits = 5
SPECIFICATION Spec
INVARIANT DialectGating
