--------------------------- MODULE MCEmbedLoadable ---------------------------
(***************************************************************************)
(* Pages of 4 and 8 bytes: data segments that end anywhere in them, in the *)
(* file and, with the .bss, in memory; files to embed with all tables and  *)
(* without section headers.                                                *)
(***************************************************************************)
EXTENDS EmbedLoadable

Segment_(start, filesz, bss, tips) ==
  [offset |-> start, filesz |-> filesz, vaddr |-> start + 2 * MaxPageSize,
   memsz |-> filesz + bss, tips |-> tips]

MCLayouts ==
  {Segment_(0, 8, 0, FALSE), Segment_(5, 3, 2, FALSE), Segment_(5, 2, 0, FALSE),
   Segment_(5, 3, 0, TRUE)}

MCLibraries == {<<4, 9, 0, 6, 4>>, <<4, 0, 4>>}
=============================================================================
