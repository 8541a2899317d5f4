\* DT_REL resolved through a non-PT_LOAD program header.
CONSTANTS
  Images <- RelocImages
  UsizeMax = 63
  Align = 2
  EhdrSize = 2
  PhdrSize = 2
  ShdrSize = 2
  DynSize = 2
  RelSize = 2
  SymSize = 4
  SectionNameMax = 3
  DT_NUM = 35
SPECIFICATION Spec
INVARIANT RelocationsFromLoadSegment
