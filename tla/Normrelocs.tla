----------------------------- MODULE Normrelocs -----------------------------
(***************************************************************************)
(* normrelocs.c on the temporary copy of one object, run once for each     *)
(* symbol to wrap (or once for all symbols, when it is given no name):     *)
(* relocations that reach a symbol through its section's symbol are made   *)
(* to name the symbol, except that debugging sections are made to use the  *)
(* section symbol.                                                         *)
(*                                                                         *)
(* A relocation is the section it is applied to and the symbol it uses;    *)
(* its offset, type and addend are never written, and the addend is left   *)
(* out: what a relocation refers to is its symbol's place.  The file is    *)
(* mapped shared, so every state is also what a crash would leave on disk. *)
(***************************************************************************)
EXTENDS Naturals, Sequences, SequencesExt

CONSTANTS
  Objects,          \* the object files, see ObjectsAssumption
  Debugging,        \* the section numbers that are debugging sections
  Invocations,      \* what is asked for: sequences of names, or NoName
  NoName,           \* the tool was given no symbol
  InitialListSize,  \* entries a list is first allocated for
  EntrySize         \* sizeof (struct remembered_symbol)

Types_ == {"NOTYPE", "OBJECT", "FUNC", "COMMON", "SECTION", "FILE"}
UNDEF == 0
ABS == 65521        \* SHN_ABS
LORESERVE == 65280  \* SHN_LORESERVE

Symbol == [name : STRING, type : Types_, shndx : Nat, value : Nat]
Reloc == [site : Nat, sym : Nat]

\* In a relocatable file a section symbol stands for its section's start.
ASSUME ObjectsAssumption ==
  \A o \in Objects :
    /\ o.symtab \in Seq(Symbol) /\ o.relocs \in Seq(Reloc)
    /\ \A i \in DOMAIN o.symtab :
         o.symtab[i].type = "SECTION" => o.symtab[i].value = 0
    /\ \A k \in DOMAIN o.relocs : o.relocs[k].sym \in DOMAIN o.symtab
ASSUME InvocationsAssumption == Invocations \subseteq Seq(STRING)
ASSUME SizesAssumption == InitialListSize \in Nat \ {0} /\ EntrySize \in Nat \ {0}

VARIABLES
  symtab,    \* the symbols of the object, never written
  relocs0,   \* (history) its relocations to begin with
  relocs,    \* its relocations
  asked0,    \* (history) what the tool is asked for
  asked,     \* what remains to be asked for
  pc,        \* "start", "sections", "zeros", "relocs"; "done", "failed"
  cursor,    \* symbol or relocation to look at next
  sections,  \* section_sym_list: symbols of type SECTION
  zeros,     \* zero_offset_list
  associated,\* section symbol -> the zero-offset symbol that replaces it
  sizes      \* list_size of both lists, as REALLOC_IF_FULL keeps it

file == <<symtab, relocs0, asked0>>
lists == <<sections, zeros, associated, sizes>>
vars == <<symtab, relocs0, relocs, asked0, asked, pc, cursor,
          sections, zeros, associated, sizes>>

EmptyLists ==
  /\ sections = <<>> /\ zeros = <<>> /\ associated = <<>>
  /\ sizes = [sections |-> 0, zeros |-> 0]

Init ==
  /\ \E o \in Objects : symtab = o.symtab /\ relocs = o.relocs /\ relocs0 = relocs
  /\ asked0 \in Invocations /\ asked = asked0
  /\ pc = "start" /\ cursor = 0
  /\ EmptyLists

----------------------------------------------------------------------------
\* Definitions marked (slip) are plausible mistakes in the one that follows;
\* they serve to show that the properties can fail, and nothing uses them.

\* open, fstat, mmap and the check for ELF; each can fail before any write.
Open ==
  /\ pc = "start" /\ asked # <<>>
  /\ pc' = "sections" /\ cursor' = 1
  /\ UNCHANGED <<file, relocs, asked, lists>>

OpenFails ==
  /\ pc = "start" /\ asked # <<>>
  /\ pc' = "failed"
  /\ UNCHANGED <<file, relocs, asked, cursor, lists>>

\* REALLOC_IF_FULL: the size starts out, and grows, in bytes, and is compared
\* with a number of entries.
Grown(list, size) ==
  IF Len(list) + 1 > size
  THEN IF size = 0 THEN InitialListSize * EntrySize ELSE 2 * size
  ELSE size

InSymtab(phase) == pc = phase /\ cursor <= Len(symtab)

CollectSection ==
  /\ InSymtab("sections")
  /\ IF symtab[cursor].type = "SECTION"
     THEN /\ sizes' = [sizes EXCEPT !.sections = Grown(sections, @)]
          /\ sections' = Append(sections, cursor)
     ELSE UNCHANGED <<sizes, sections>>
  /\ cursor' = cursor + 1
  /\ UNCHANGED <<file, relocs, asked, pc, zeros, associated>>

\* A symbol that may stand in for a section symbol: at the section's start,
\* and of the name asked for, if a name was.
\* (slips: at any offset; of any name; functions and objects only)
IsAtAnyOffset(i) ==
  LET s == symtab[i]
  IN  /\ s.name # "" /\ s.type # "SECTION" /\ Head(asked) \in {NoName, s.name}
      /\ s.shndx # UNDEF /\ s.shndx <= LORESERVE
IsOfAnyName(i) ==
  LET s == symtab[i]
  IN  /\ s.name # "" /\ s.type # "SECTION"
      /\ s.shndx # UNDEF /\ s.shndx <= LORESERVE /\ s.value = 0
IsTypedZeroOffset(i) ==
  LET s == symtab[i]
  IN  /\ s.name # "" /\ s.type \in {"FUNC", "OBJECT"}
      /\ Head(asked) \in {NoName, s.name}
      /\ s.shndx # UNDEF /\ s.shndx <= LORESERVE /\ s.value = 0

IsZeroOffset(i) ==
  LET s == symtab[i]
  IN  /\ s.name # "" /\ s.type # "SECTION"
      /\ Head(asked) \in {NoName, s.name}
      /\ s.shndx # UNDEF /\ s.shndx <= LORESERVE
      /\ s.value = 0

\* The first symbol found for a section is the one associated with it.
CollectZeroOffset ==
  /\ InSymtab("zeros")
  /\ IF IsZeroOffset(cursor)
     THEN /\ sizes' = [sizes EXCEPT !.zeros = Grown(zeros, @)]
          /\ zeros' = Append(zeros, cursor)
          /\ LET new == {i \in ToSet(sections) : symtab[i].shndx = symtab[cursor].shndx}
             IN  associated' = [i \in DOMAIN associated \cup new |->
                                  IF i \in DOMAIN associated THEN associated[i] ELSE cursor]
     ELSE UNCHANGED <<sizes, zeros, associated>>
  /\ cursor' = cursor + 1
  /\ UNCHANGED <<file, relocs, asked, pc, sections>>

NextPass ==
  /\ pc \in {"sections", "zeros"} /\ cursor = Len(symtab) + 1
  /\ pc' = IF pc = "sections" THEN "zeros" ELSE "relocs"
  /\ cursor' = 1
  /\ UNCHANGED <<file, relocs, asked, lists>>

----------------------------------------------------------------------------
\* What becomes of a relocation.  From a debugging section, against an ordinary symbol at offset 0: the
\* section symbol of that symbol's section, if there is one (the first in the
\* list, which is in symbol table order).
\* (slip: from whatever section)
IsOrdinaryReference(r) ==
  /\ symtab[r.sym].type \in {"NOTYPE", "OBJECT", "FUNC", "COMMON"}
  /\ symtab[r.sym].value = 0

IsMetaReference(r) ==
  /\ r.site \in Debugging
  /\ symtab[r.sym].type \in {"NOTYPE", "OBJECT", "FUNC", "COMMON"}
  /\ symtab[r.sym].value = 0

SectionRelative(r) ==
  LET found == {i \in ToSet(sections) : symtab[i].shndx = symtab[r.sym].shndx}
  IN  IF found = {} THEN r ELSE [r EXCEPT !.sym = Min(found)]

\* From other sections, against a section symbol: the associated symbol, if
\* there is one, but not within the section itself.
IsSectionReference(r) ==
  /\ r.site \notin Debugging
  /\ symtab[r.sym].type = "SECTION"
  /\ symtab[r.sym].shndx # r.site

Named(r) ==
  IF r.sym \in DOMAIN associated THEN [r EXCEPT !.sym = associated[r.sym]] ELSE r

RewriteReloc ==
  /\ pc = "relocs" /\ cursor <= Len(relocs)
  /\ relocs' = [relocs EXCEPT ![cursor] =
                  IF IsMetaReference(@) THEN SectionRelative(@)
                  ELSE IF IsSectionReference(@) THEN Named(@) ELSE @]
  /\ cursor' = cursor + 1
  /\ UNCHANGED <<file, asked, pc, lists>>

\* The lists are freed and the file closed; the plugin asks for the next name.
Close ==
  /\ pc = "relocs" /\ cursor = Len(relocs) + 1
  /\ asked' = Tail(asked)
  /\ pc' = "start" /\ cursor' = 0
  /\ sections' = <<>> /\ zeros' = <<>> /\ associated' = <<>>
  /\ sizes' = [sections |-> 0, zeros |-> 0]
  /\ UNCHANGED <<file, relocs>>

Finish ==
  /\ pc = "start" /\ asked = <<>>
  /\ pc' = "done"
  /\ UNCHANGED <<file, relocs, asked, cursor, lists>>

Next ==
  \/ Open \/ OpenFails \/ CollectSection \/ CollectZeroOffset \/ NextPass
  \/ RewriteReloc \/ Close \/ Finish

Spec == Init /\ [][Next]_vars

----------------------------------------------------------------------------
TypeOK ==
  /\ symtab \in Seq(Symbol)
  /\ relocs \in Seq(Reloc) /\ relocs0 \in Seq(Reloc)
  /\ \A k \in DOMAIN relocs : relocs[k].sym \in DOMAIN symtab
  /\ pc \in {"start", "sections", "zeros", "relocs", "done", "failed"}
  /\ cursor \in Nat
  /\ ToSet(sections) \cup ToSet(zeros) \subseteq DOMAIN symtab
  /\ DOMAIN associated \subseteq ToSet(sections)
  /\ \A i \in DOMAIN associated : associated[i] \in ToSet(zeros)
  /\ sizes \in [sections : Nat, zeros : Nat]

Place(r) == <<symtab[r.sym].shndx, symtab[r.sym].value>>
Changed(k) == relocs[k] # relocs0[k]

\* Whatever is rewritten, a relocation still refers to the same place, at
\* every moment: the file is written in place, and a crash or a failure on a
\* later symbol leaves an object that means what it meant.
TargetsPreserved ==
  /\ DOMAIN relocs = DOMAIN relocs0
  /\ \A k \in DOMAIN relocs : /\ relocs[k].site = relocs0[k].site
                              /\ Place(relocs[k]) = Place(relocs0[k])

\* Code is redirected to a symbol only if that symbol was asked for, and
\* never within a section (305-310).
OnlyAskedInCode ==
  \A k \in DOMAIN relocs :
    Changed(k) /\ relocs[k].site \notin Debugging =>
      /\ symtab[relocs[k].sym].name \in ToSet(asked0) \/ NoName \in ToSet(asked0)
      /\ symtab[relocs[k].sym].shndx # relocs[k].site

\* When all is done, no section of code reaches another one whose first
\* symbol was asked for through the section symbol, though a later run for
\* another name went over the same relocations; and no debugging section
\* names a symbol at the start of a section that has a section symbol.
CrossReferencesNamed ==
  pc = "done" =>
    \A k \in DOMAIN relocs :
      LET s == symtab[relocs[k].sym]
          asked_for(i) == symtab[i].name \in ToSet(asked0) \/ NoName \in ToSet(asked0)
      IN  /\ relocs[k].site \notin Debugging /\ s.type = "SECTION"
               /\ s.shndx # relocs[k].site
             => ~\E i \in DOMAIN symtab :
                   /\ symtab[i].name # "" /\ symtab[i].type # "SECTION"
                   /\ symtab[i].shndx = s.shndx /\ symtab[i].value = 0
                   /\ asked_for(i)
          /\ relocs[k].site \in Debugging /\ asked0 # <<>> /\ IsMetaReference(relocs[k])
             => ~\E i \in DOMAIN symtab :
                   symtab[i].type = "SECTION" /\ symtab[i].shndx = s.shndx

\* Runs for further names leave alone what a run has named: in code, a
\* relocation moves from a section symbol to an ordinary one, never back, and
\* never from one ordinary symbol to another.
NamedOnce ==
  [][\A k \in DOMAIN relocs :
       relocs'[k] # relocs[k] /\ relocs[k].site \notin Debugging =>
         symtab[relocs[k].sym].type = "SECTION" /\ symtab[relocs'[k].sym].type # "SECTION"]_vars

----------------------------------------------------------------------------
\* What REALLOC_IF_FULL (131-138) is for, and does not do: an entry is only
\* stored where there is room.
ListsInBounds ==
  /\ Len(sections) * EntrySize <= sizes.sections
  /\ Len(zeros) * EntrySize <= sizes.zeros
=============================================================================
