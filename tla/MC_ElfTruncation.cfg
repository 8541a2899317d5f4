\* Truncations of accepted buffers whose last region is the section header
\* table, a section, a PT_LOAD segment, relocations, or a PT_DYNAMIC table
\* inside a PT_LOAD segment.
CONSTANTS
  Images <- TruncAll
  Wholes <- TruncImages
  UsizeMax = 63
  Align = 2
  EhdrSize = 2
  PhdrSize = 2
  ShdrSize = 2
  DynSize = 2
  RelSize = 2
  SymSize = 4
  SectionNameMax = 3
  DT_NUM = 35
SPECIFICATION TSpec
INVARIANT TruncationDetected
