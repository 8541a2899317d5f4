\* Elf64::parse over misplaced, overlapping and disordered layouts.
CONSTANTS
  Images <- LayoutImages
  UsizeMax = 31
  Align = 2
  EhdrSize = 2
  PhdrSize = 2
  ShdrSize = 2
  DynSize = 2
  RelSize = 2
  SymSize = 4
  SectionNameMax = 3
  DT_NUM = 35
SPECIFICATION Spec
PROPERTY ParseRefinesSpec
INVARIANT FileRangesInBuffer
