\* symbol_table() asked of every Ok parse of the query images.
CONSTANTS
  Images <- QueryImages
  UsizeMax = 63
  Align = 2
  EhdrSize = 2
  PhdrSize = 2
  ShdrSize = 2
  DynSize = 2
  RelSize = 2
  SymSize = 4
  SectionNameMax = 3
  SymbolNameMax = 4
  DT_NUM = 35
  QueryOffsets = {0, 1, 3, 5, 9}
  NonUtf8 = {"<0xff>"}
  WordBits = 3
  SHF_WRITE = 1
  SHF_ALLOC = 2
  STT_FUNC = 2
SPECIFICATION QSpec
INVARIANT SymbolTableAvailable
