\* Dynamic table, dynamic relocations and dynamic symbols.
CONSTANTS
  Images <- DynamicImages
  UsizeMax = 63
  Align = 2
  EhdrSize = 2
  PhdrSize = 2
  ShdrSize = 2
  DynSize = 2
  RelSize = 2
  SymSize = 4
  SectionNameMax = 3
  DT_NUM = 35
SPECIFICATION Spec
INVARIANT DynamicTableAbsorbed
INVARIANT OutOfBoundsJustified
PROPERTY ParseRefinesSpec
