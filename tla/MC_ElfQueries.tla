--------------------------- MODULE MC_ElfQueries ---------------------------
(***************************************************************************)
(* Buffers for model checking ElfQueries: 36 bytes, record sizes as in     *)
(* MC_Elf, SYMBOL_NAME_LENGTH_MAXIMUM scaled to 4.                         *)
(*   [0,2) file header, no program headers                                 *)
(*   [4,14)  section name table: ".symtab" at 5, ".strtab" at 7, a name    *)
(*           that is not UTF-8 at 9, ".dynstr" at 11, and at 13 a string   *)
(*           whose zero byte lies past the table                           *)
(*   [14,22) the .symtab candidate: two Elf64Sym at 14 and 18, or a size  *)
(*           that is not a whole number of records                         *)
(*   [22,28) the string table, its one zero byte at 27: "entry" at 22,  *)
(*           longer than the cap; its suffix "ntry" at 23, as long as the  *)
(*           cap; a name that is not UTF-8 at 25; the empty name at 27     *)
(*   [28,36) four section headers                                          *)
(* The variants change the symbol section's type and size, the st_name of *)
(* its two symbols, its own name, and the name of the string table         *)
(* (.strtab, .dynstr or neither).                                          *)
(***************************************************************************)
EXTENDS ElfQueries, MC_Elf

QueryStr ==
  (5 :> [s |-> ".symtab", nul |-> 1]) @@ (7 :> [s |-> ".strtab", nul |-> 1])
  @@ (9 :> [s |-> "<0xff>", nul |-> 1]) @@ (11 :> [s |-> ".dynstr", nul |-> 1])
  @@ (13 :> [s |-> "tail", nul |-> 4])
  @@ (22 :> [s |-> "entry", nul |-> 5]) @@ (23 :> [s |-> "ntry", nul |-> 4])
  @@ (25 :> [s |-> "<0xff>", nul |-> 2]) @@ (27 :> [s |-> "", nul |-> 0])

QImg(symType, symSize, n1, n2, symName, strName) ==
  [Img(0, 36, TRUE, 2, <<>>, 28,
       <<SH("SHT_NULL", 0, 0, 0, 0), SH("SHT_STRTAB", 0, 4, 10, 0),
         SH(symType, symName, 14, symSize, 0), SH("SHT_STRTAB", strName, 22, 6, 0)>>,
       1, QueryStr, <<>>)
   EXCEPT !.sym = [@ EXCEPT ![14] = n1, ![18] = n2]]

QueryImages ==
  {QImg(t, size, n1, n2, symName, strName) :
     t \in {"SHT_SYMTAB", "SHT_PROGBITS"}, size \in {8, 6},
     n1, n2 \in {0, 1, 3, 5}, symName \in {1, 5}, strName \in {3, 7, 0}}
====
