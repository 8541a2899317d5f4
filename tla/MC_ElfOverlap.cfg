\* Zero-length tables and sections placed inside another region.
CONSTANTS
  Images <- OverlapImages
  UsizeMax = 31
  Align = 2
  EhdrSize = 2
  PhdrSize = 2
  ShdrSize = 2
  DynSize = 2
  RelSize = 2
  SymSize = 4
  SectionNameMax = 3
  DT_NUM = 35
SPECIFICATION Spec
INVARIANT OverlapMeansSharedByte
