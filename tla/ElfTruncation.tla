---------------------------- MODULE ElfTruncation ----------------------------
(***************************************************************************)
(* Two calls of Elf64::parse in sequence: the first parses a whole buffer, *)
(* and then a caller handed the same buffer cut short at byte `cut` parses *)
(* that.  The truncated buffer keeps the header fields of its first bytes *)
(* and loses every string and Elf64Dyn record at or past `cut`.  whole     *)
(* holds what the first call returned and how far its regions reach.       *)
(***************************************************************************)
EXTENDS ElfParser

CONSTANT Wholes   \* the buffers parsed whole; Images also holds their truncations

VARIABLES cut,    \* the length the buffer is cut to
          whole   \* [result, extent] of the parse of the whole buffer

tvars == <<vars, cut, whole>>

\* The first n bytes of img.
Truncate(img, n) ==
  [img EXCEPT !.len = n,
              !.str = [p \in 0 .. n - 1 |-> @[p]],
              !.dyn = [p \in 0 .. n - 1 |-> @[p]],
              !.sym = [p \in 0 .. n - 1 |-> @[p]]]
Truncations(S) == UNION {{Truncate(img, n) : n \in 0 .. img.len - 1} : img \in S}

ASSUME Wholes \cup Truncations(Wholes) \subseteq Images

\* One past the last byte the parse relied on: the file header, both header
\* tables, the file range of each PT_LOAD segment and of each section that
\* is not SHT_NOBITS, the dynamic table, the relocations and the dynamic
\* symbols.
Extent ==
  Max({EhdrSize, loc.phr.end, loc.shr.end}
      \cup {PhdrRange(ph).end : ph \in {ph \in Range(image.phdrs) : ph.p_type = "PT_LOAD"}}
      \cup {ShdrRange(sh).end : sh \in {sh \in Range(image.shdrs) : sh.sh_type # "SHT_NOBITS"}}
      \cup {r.end : r \in loc.dyn \cup elf.dynamic_relocations_table
                          \cup elf.dynamic_symbol_table})

NoWhole == [result |-> "pending", extent |-> 0]

TInit ==
  /\ Init
  /\ image \in Wholes
  /\ cut \in 0 .. image.len - 1
  /\ whole = NoWhole

ParseStep == Next /\ UNCHANGED <<cut, whole>>

\* Once the whole buffer is parsed, the truncated one is.
ParseTruncated ==
  /\ pc = "done"
  /\ whole = NoWhole
  /\ whole' = [result |-> result, extent |-> Extent]
  /\ image' = Truncate(image, cut)
  /\ pc' = "parse_file_header"
  /\ result' = "pending"
  /\ loc' = StartLoc
  /\ elf' = StartElf
  /\ UNCHANGED cut

TNext == ParseStep \/ ParseTruncated

TSpec == TInit /\ [][TNext]_tvars /\ WF_tvars(TNext)
-----------------------------------------------------------------------------
(***************************************************************************)
(* Properties.                                                             *)
(***************************************************************************)

\* Spec 8.5: truncating a valid ELF before its end yields a parse error.
\* When parse accepts a buffer, it rejects every truncation that cuts into
\* a region the accepted parse relied on: each of them is bounds-checked
\* against the buffer's length by one of the steps of parse.
TruncationDetected ==
  (whole.result = "ok" /\ pc = "done" /\ cut < whole.extent) => result # "ok"
====
