---------------------------- MODULE EmbedLoadable ----------------------------
(***************************************************************************)
(* embed-loadable: make puts one ELF file inside another.  A first link of *)
(* the program tells predict-meta-offset.sh where the embedded file will   *)
(* be, shift-elf moves a copy of that file by as much, and a second link   *)
(* places it; the program finds it by the offset in its program header.    *)
(* The sources are edited and made again, and any step may fail.           *)
(*                                                                         *)
(* An ELF file to embed is the sequence of its file offsets: e_phoff,      *)
(* e_shoff, and those in its section and program headers.  Of a linked     *)
(* program only the data segment counts.  The compiler and the linker are  *)
(* external.                                                               *)
(***************************************************************************)
EXTENDS Naturals, Sequences, FiniteSets, FiniteSetsExt

CONSTANTS
  Layouts,         \* data segments of the program, see LayoutsAssumption
  Libraries,       \* the files to embed
  CommonPageSize, MaxPageSize,
  MaxEdits,        \* bound on the editing
  Absent           \* a file that does not exist

Segment == [offset : Nat, filesz : Nat, vaddr : Nat, memsz : Nat, tips : BOOLEAN]

ASSUME PagesAssumption ==
  /\ CommonPageSize \in Nat \ {0} /\ MaxPageSize \in Nat \ {0}
  /\ MaxPageSize % CommonPageSize = 0
ASSUME LayoutsAssumption ==
  \A l \in Layouts :
    /\ l \in Segment /\ l.filesz <= l.memsz
    /\ l.offset % MaxPageSize = l.vaddr % MaxPageSize
ASSUME LibrariesAssumption ==
  \A f \in Libraries : f \in Seq(Nat) /\ Len(f) >= 2
ASSUME EditsAssumption == MaxEdits \in Nat

\* What a target holds: an ELF file with its offsets shifted, so far or for good,
\* and the library it was copied from; a program with such a file in it.
ShiftedLibrary == [of : Libraries, offsets : Seq(Nat)]
Program == [meta_offset : Nat, embedded : ShiftedLibrary]

ASSUME AbsentAssumption ==
  /\ Absent \notin Layouts /\ Absent \notin Libraries
  /\ Absent \notin ShiftedLibrary /\ Absent \notin Program

VARIABLES
  main, lib,  \* the sources: the layout they link to, the file to embed
  files,      \* target -> its contents, or Absent
  older,      \* targets that are older than one of their prerequisites
  at,         \* what make is doing, or "idle"
  offset,     \* shell variable of the rule for %-shifted.so, 0 outside it
  cursor,     \* the offset shift-elf is to shift next
  finished,   \* the last make came to its end, and nothing was edited since
  edits,
  killed, mispredicted  \* (history) make was killed; a prediction failed

vars == <<main, lib, files, older, at, offset, cursor, finished, edits, killed, mispredicted>>
sources == <<main, lib, edits>>
faults == <<killed, mispredicted>>
rule == <<offset, cursor>>

\* test-load, libfoo.so, libfoo-shifted.so, meta.o and test-load.with-meta-phdr.
Targets == {"obj", "so", "shifted", "meta", "exe"}

Prerequisites ==
  [obj |-> {}, so |-> {}, shifted |-> {"so", "obj"}, meta |-> {"shifted"}, exe |-> {"meta", "obj"}]

Init ==
  /\ main \in Layouts /\ lib \in Libraries
  /\ files = [t \in Targets |-> Absent] /\ older = {}
  /\ at = "idle" /\ offset = 0 /\ cursor = 1
  /\ finished = FALSE /\ edits = 0
  /\ killed = FALSE /\ mispredicted = FALSE

----------------------------------------------------------------------------
\* Definitions marked (slip) are plausible mistakes in the one that follows;
\* they serve to show that the properties can fail, and nothing uses them.

RoundUp(a) ==
  IF a % CommonPageSize = 0 THEN a ELSE CommonPageSize * (1 + a \div CommonPageSize)

\* predict-meta-offset.sh: from the end of the data segment in the file, search
\* for the offset that is congruent to the address after its end in memory.
\* (slip: after its end in the file)
PredictedByFilesz(seg) ==
  LET end == seg.offset + seg.filesz
  IN  Min({o \in end .. end + MaxPageSize - 1 :
             o % MaxPageSize = RoundUp(seg.vaddr + seg.filesz) % MaxPageSize})
Predicted(seg) ==
  LET end == seg.offset + seg.filesz
  IN  Min({o \in end .. end + MaxPageSize - 1 :
             o % MaxPageSize = RoundUp(seg.vaddr + seg.memsz) % MaxPageSize})

\* The second link.  One more program header may tip the data segment over to
\* the next page; .meta goes at the next page after it, and what separates
\* offsets is what separates addresses, modulo the maximum page size.
Relinked(seg) ==
  IF seg.tips
  THEN [seg EXCEPT !.offset = @ + CommonPageSize, !.vaddr = @ + CommonPageSize] ELSE seg
Placed(seg) ==
  LET end == seg.offset + seg.filesz
      address == RoundUp(seg.vaddr + seg.memsz)
  IN  end + ((address + MaxPageSize - (end % MaxPageSize)) % MaxPageSize)

\* An offset in the ELF header is 0 if there is no such table.
Shifted(f, k, by) == IF k <= 2 /\ f[k] = 0 THEN 0 ELSE f[k] + by

Dependents(t) == {u \in Targets : t \in Prerequisites[u]}
OutOfDate(t) == files[t] = Absent \/ t \in older

\* A target is written to: it is now newer than what it was made from.
Write(t, contents) ==
  /\ files' = [files EXCEPT ![t] = contents]
  /\ older' = (older \ {t}) \cup Dependents(t)
Remove(t) ==
  /\ files' = [files EXCEPT ![t] = Absent]
  /\ UNCHANGED older

\* The variables of a recipe, and of the program it runs, end with it.
RecipeEnds == offset' = 0 /\ cursor' = 1
----------------------------------------------------------------------------
\* The sources change between two runs of make.
Edit ==
  /\ at = "idle" /\ edits < MaxEdits
  /\ \/ main' \in Layouts \ {main} /\ older' = older \cup {"obj"} /\ UNCHANGED lib
     \/ lib' \in Libraries \ {lib} /\ older' = older \cup {"so"} /\ UNCHANGED main
  /\ edits' = edits + 1 /\ finished' = FALSE
  /\ UNCHANGED <<files, at, rule, faults>>

Make ==
  /\ at = "idle" /\ ~finished
  /\ at' = "obj"
  /\ UNCHANGED <<sources, files, older, rule, finished, faults>>

Following(t) ==
  CASE t = "obj" -> "so" [] t = "so" -> "shifted" [] t = "shifted" -> "meta"
    [] t = "meta" -> "exe" [] t = "exe" -> "idle"

UpToDate ==
  /\ at \in Targets /\ ~OutOfDate(at)
  /\ at' = Following(at)
  /\ finished' = (at = "exe")
  /\ UNCHANGED <<sources, files, older, rule, faults>>

Contents(t) ==
  CASE t = "obj" -> main
    [] t = "so" -> lib
    [] t = "meta" -> files.shifted
    [] t = "exe" -> [meta_offset |-> Placed(Relinked(files.obj)), embedded |-> files.meta]

\* A rule that calls the compiler, the linker or objcopy.
Build ==
  /\ at \in Targets \ {"shifted"} /\ OutOfDate(at)
  /\ Write(at, Contents(at))
  /\ at' = Following(at)
  /\ finished' = (at = "exe")
  /\ UNCHANGED <<sources, rule, faults>>

BuildFails ==
  /\ at \in Targets \ {"shifted"} /\ OutOfDate(at)
  /\ Remove(at)
  /\ at' = "idle"
  /\ UNCHANGED <<sources, rule, finished, faults>>

\* The rule for %-shifted.so.
Predict ==
  /\ at = "shifted" /\ OutOfDate(at)
  /\ offset' = Predicted(files.obj)
  /\ at' = "cp"
  /\ UNCHANGED <<sources, files, older, cursor, finished, faults>>

\* The script prints nothing, printf makes 0 of it, and the rule goes on.
PredictFails ==
  /\ at = "shifted" /\ OutOfDate(at)
  /\ offset' = 0 /\ mispredicted' = TRUE
  /\ at' = "cp"
  /\ UNCHANGED <<sources, files, older, cursor, finished, killed>>

Cp ==
  /\ at = "cp"
  /\ Write("shifted", [of |-> files.so, offsets |-> files.so])
  /\ at' = "shift-elf" /\ cursor' = 1
  /\ UNCHANGED <<sources, offset, finished, faults>>

\* shift-elf writes one offset after another in place.
ShiftElf ==
  /\ at = "shift-elf"
  /\ IF cursor <= Len(files.shifted.offsets)
     THEN /\ Write("shifted", [files.shifted EXCEPT
                                 !.offsets[cursor] = Shifted(files.shifted.offsets, cursor, offset)])
          /\ cursor' = cursor + 1
          /\ UNCHANGED <<at, offset>>
     ELSE /\ at' = "meta" /\ RecipeEnds
          /\ UNCHANGED <<files, older>>
  /\ UNCHANGED <<sources, finished, faults>>

\* cp or shift-elf fails, at any point: "|| (rm -f "$@"; false)".
\* (slip: what there is of the target stays)
ShiftFailsKeeping ==
  /\ at \in {"cp", "shift-elf"}
  /\ at' = "idle"
  /\ RecipeEnds
  /\ UNCHANGED <<sources, files, older, finished, faults>>

ShiftFails ==
  /\ at \in {"cp", "shift-elf"}
  /\ Remove("shifted")
  /\ at' = "idle"
  /\ RecipeEnds
  /\ UNCHANGED <<sources, finished, faults>>

\* The machine stops, or everything is killed at once: what there is stays.
Kill ==
  /\ at # "idle"
  /\ at' = "idle" /\ killed' = TRUE
  /\ RecipeEnds
  /\ UNCHANGED <<sources, files, older, finished, mispredicted>>

Next ==
  \/ Edit \/ Make \/ UpToDate \/ Build \/ Predict \/ Cp \/ ShiftElf
  \/ BuildFails \/ PredictFails \/ ShiftFails \/ Kill

Spec == Init /\ [][Next]_vars
----------------------------------------------------------------------------
TypeOK ==
  /\ main \in Layouts /\ lib \in Libraries
  /\ DOMAIN files = Targets
  /\ files.obj \in Layouts \cup {Absent} /\ files.so \in Libraries \cup {Absent}
  /\ \A t \in {"shifted", "meta"} : files[t] \in ShiftedLibrary \cup {Absent}
  /\ files.exe \in Program \cup {Absent}
  /\ older \subseteq Targets
  /\ at \in Targets \cup {"idle", "cp", "shift-elf"}
  /\ offset \in Nat
  /\ cursor \in 1 .. (IF at = "shift-elf" THEN Len(files.shifted.offsets) + 1 ELSE 1)
  /\ edits \in 0 .. MaxEdits
  /\ finished \in BOOLEAN /\ killed \in BOOLEAN /\ mispredicted \in BOOLEAN

\* When make has come to its end, however often it failed and the sources were
\* edited before, the program holds the current library at the offset in its
\* program header, and every offset in the library's headers is the place in the
\* program of what it points to in the library ("relative to the loaded file",
\* README; rules.mk:17-22).  It takes that the prediction script ran, that the new
\* header did not move the data segment ("Hope it doesn't",
\* predict-meta-offset.sh:8), and that nothing was killed.
EmbeddedWhereItSays ==
  finished /\ ~killed /\ ~mispredicted /\ ~main.tips =>
    LET e == files.exe.embedded
    IN  /\ e.of = lib
        /\ \A k \in DOMAIN lib :
             k > 2 \/ lib[k] # 0 => e.offsets[k] = files.exe.meta_offset + lib[k]

\* Whatever fails, make never leaves a file that is shifted in part, which the
\* next make would take for up to date; nor one that is shifted twice
\* (rules.mk:17-19).
ShiftedOnceOrAbsent ==
  at = "idle" /\ ~killed /\ files.shifted # Absent =>
    \E by \in {0} \cup {Predicted(l) : l \in Layouts} :
      LET f == files.shifted
      IN  f.offsets = [k \in DOMAIN f.of |-> Shifted(f.of, k, by)]

\* The files that make has left are well formed, shifted or not there.
FilesSound == TypeOK /\ ShiftedOnceOrAbsent
=============================================================================
