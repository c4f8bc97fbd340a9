------------------------------ MODULE SymTools ------------------------------
(***************************************************************************)
(* The tools that rewrite a file's section headers and static symbols in   *)
(* place: sym2und, abs2und, abs2sectsym, undprot, rel2data and pie2rel,    *)
(* run one after another on one file, as the recipes built from them do.   *)
(* All share a shape: open, map shared, check for ELF, one pass or two,    *)
(* unmap.  Offsets, alignment and contents are left out, and there is one  *)
(* symbol table.  A symbol's name stands for the string st_name points to, *)
(* "" for st_name 0; symbol table indices start from 1 instead of 0.       *)
(*                                                                         *)
(* The file is mapped shared, so an interrupted tool leaves what it wrote, *)
(* in the middle of a symbol or of the header; the user then runs it again.*)
(***************************************************************************)
EXTENDS Naturals, Sequences, SequencesExt, FiniteSetsExt

CONSTANTS
  Files,    \* the files to begin with, see FilesAssumption
  Recipes,  \* sequences of invocations: what the tools are asked for
  NoName,   \* abs2und was given no symbol
  Word      \* number of values of an address

UNDEF == 0
ABS == 65521        \* SHN_ABS
LORESERVE == 65280  \* SHN_LORESERVE
Visibilities == {"DEFAULT", "INTERNAL", "HIDDEN", "PROTECTED"}
Tools == {"sym2und", "abs2und", "abs2sectsym", "undprot", "rel2data", "pie2rel"}

\* What the tools do not tell apart is among the others.
SymbolTypes == {"NOTYPE", "OBJECT", "FUNC", "SECTION", "FILE", "(other)"}
SectionTypes == {"NULL", "PROGBITS", "RELA", "REL", "SYMTAB", "STRTAB", "(other)"}

Info == [bind : {"LOCAL", "GLOBAL", "WEAK"}, type : SymbolTypes]
Symbol == [name : STRING, shndx : Nat, value : 0 .. Word - 1, size : Nat,
           info : Info, vis : Visibilities]
Shdr == [name : STRING, type : SectionTypes, alloc : BOOLEAN, addr : 0 .. Word - 1]
Invocation == [tool : Tools, sym : STRING]

\* A file of the sections 0 .. n.
File(n) ==
  [type : {"REL", "DYN"}, phnum : Nat, shdrs : [0 .. n -> Shdr], symtab : Seq(Symbol)]

ASSUME WordAssumption == Word \in Nat \ {0}
\* As the ELF specification has it: the first section header is null, and a
\* section that is not loaded has no address.
ASSUME FilesAssumption ==
  \A f \in Files : \E n \in 0 .. LORESERVE - 1 :
    /\ f \in File(n)
    /\ f.shdrs[0].name = ""
    /\ \A i \in 0 .. n : ~f.shdrs[i].alloc => f.shdrs[i].addr = 0
ASSUME RecipesAssumption == Recipes \subseteq Seq(Invocation) /\ NoName \in STRING

VARIABLES
  file,     \* e_type, e_phnum, section headers (from 0) and symbols
  recipe,   \* what remains to be run, the running tool first
  pc,       \* "start", "symbols", "sections", "header"; "done", "failed"
  cursor,   \* the symbol or section header to look at next
  file0, recipe0,  \* (history) both to begin with
  spoilt    \* (history) an interruption that running again does not make good

history == <<file0, recipe0>>
vars == <<file, recipe, pc, cursor, file0, recipe0, spoilt>>

Init ==
  /\ file0 \in Files /\ file = file0
  /\ recipe0 \in Recipes /\ recipe = recipe0
  /\ pc = "start" /\ cursor = 0
  /\ spoilt = FALSE

Running == Head(recipe)
----------------------------------------------------------------------------
\* Definitions marked (slip) are plausible mistakes in the one that follows;
\* they serve to show that the properties can fail, and nothing uses them.

\* What sym2und and abs2und make of a symbol.
Undefined(s) ==
  [s EXCEPT !.shndx = UNDEF, !.size = 0, !.value = 0,
            !.info = [bind |-> "GLOBAL", type |-> "NOTYPE"]]

\* (slip: passes over what is undefined already)
Sym2undOnce(s, sym) ==
  IF s.name # "" /\ s.name = sym /\ s.shndx # UNDEF THEN Undefined(s) ELSE s
Sym2und(s, sym) == IF s.name # "" /\ s.name = sym THEN Undefined(s) ELSE s

\* (slip: whatever symbol was asked for)
Abs2undAny(s, sym) == IF s.name # "" /\ s.shndx = ABS THEN Undefined(s) ELSE s
Abs2und(s, sym) ==
  IF s.name # "" /\ sym \in {NoName, s.name} /\ s.shndx = ABS THEN Undefined(s) ELSE s

\* The sections of a symbol's name.  (slip: of symbols of any value)
NamesakesOfAny(f, s) ==
  IF s.shndx = ABS THEN {i \in DOMAIN f.shdrs : f.shdrs[i].name = s.name} ELSE {}
Namesakes(f, s) ==
  IF s.shndx = ABS /\ s.value = 0
  THEN {i \in DOMAIN f.shdrs : f.shdrs[i].name # "" /\ f.shdrs[i].name = s.name}
  ELSE {}

\* The loop goes on after a match; the optional argument is not looked at.
Abs2sectsym(f, s) ==
  IF Namesakes(f, s) = {} THEN s ELSE [s EXCEPT !.shndx = Max(Namesakes(f, s))]

\* (slip: leaves the symbols with the default visibility)
UndprotInternal(s) ==
  IF s.shndx = UNDEF /\ s.vis = "INTERNAL" THEN [s EXCEPT !.vis = "PROTECTED"] ELSE s
Undprot(s) ==
  IF s.shndx = UNDEF /\ s.vis \notin {"HIDDEN", "PROTECTED"}
  THEN [s EXCEPT !.vis = "PROTECTED"] ELSE s

InSection(s) == s.shndx # UNDEF /\ s.shndx <= LORESERVE

\* (slip: by the first section's address)
RebasedOnImage(f, s) ==
  IF InSection(s) THEN [s EXCEPT !.value = (@ + Word - f.shdrs[1].addr) % Word] ELSE s
Rebased(f, s) ==
  IF InSection(s) THEN [s EXCEPT !.value = (@ + Word - f.shdrs[s.shndx].addr) % Word]
  ELSE s

RewrittenSymbol(i, f, s) ==
  CASE i.tool = "sym2und" -> Sym2und(s, i.sym)
    [] i.tool = "abs2und" -> Abs2und(s, i.sym)
    [] i.tool = "abs2sectsym" -> Abs2sectsym(f, s)
    [] i.tool = "undprot" -> Undprot(s)
    [] i.tool = "pie2rel" -> Rebased(f, s)

\* rel2data, and the second pass of pie2rel.
RewrittenShdr(i, sh) ==
  CASE i.tool = "rel2data" /\ sh.type \in {"REL", "RELA"} -> [sh EXCEPT !.type = "PROGBITS"]
    [] i.tool = "pie2rel" /\ sh.alloc -> [sh EXCEPT !.addr = 0]
    [] OTHER -> sh

RewrittenHeader(f) == [f EXCEPT !.type = "REL", !.phnum = 0]

\* The header while it is rewritten, the type and the count stored one by one.
PartlyDoctored(f) ==
  {[f EXCEPT !.type = t, !.phnum = n] : t \in {f.type, "REL"}, n \in {f.phnum, 0}}

\* pie2rel asserts that a symbol's section exists.
AssertionHolds(i, f, s) ==
  i.tool = "pie2rel" /\ InSection(s) => s.shndx \in DOMAIN f.shdrs

\* What a symbol may be found to be while it is rewritten: its fields are
\* stored one by one, and abs2sectsym stores each section that matches.
PartlyWritten(i, f, s) ==
  LET t == RewrittenSymbol(i, f, s)
  IN  [name : {s.name},
       shndx : {s.shndx, t.shndx}
                 \cup (IF i.tool = "abs2sectsym" THEN Namesakes(f, s) ELSE {}),
       value : {s.value, t.value}, size : {s.size, t.size},
       info : {s.info, t.info}, vis : {s.vis, t.vis}]
----------------------------------------------------------------------------
AtSymbol == pc = "symbols" /\ cursor <= Len(file.symtab)
AtSection == pc = "sections" /\ cursor \in DOMAIN file.shdrs

\* open, fstat, mmap and the check for ELF; nothing has been written when one
\* of them fails, and the recipe stops there.
Open ==
  /\ pc = "start" /\ recipe # <<>>
  /\ IF Running.tool = "rel2data"
     THEN pc' = "sections" /\ cursor' = 0
     ELSE pc' = "symbols" /\ cursor' = 1
  /\ UNCHANGED <<file, recipe, history, spoilt>>

OpenFails ==
  /\ pc = "start" /\ recipe # <<>>
  /\ pc' = "failed"
  /\ UNCHANGED <<file, recipe, cursor, history, spoilt>>

RewriteSymbol ==
  /\ AtSymbol
  /\ AssertionHolds(Running, file, file.symtab[cursor])
  /\ file' = [file EXCEPT !.symtab[cursor] = RewrittenSymbol(Running, file, @)]
  /\ cursor' = cursor + 1
  /\ UNCHANGED <<recipe, pc, history, spoilt>>

AssertionFails ==
  /\ AtSymbol
  /\ ~AssertionHolds(Running, file, file.symtab[cursor])
  /\ pc' = "failed"
  /\ UNCHANGED <<file, recipe, cursor, history, spoilt>>

RewriteSection ==
  /\ AtSection
  /\ file' = [file EXCEPT !.shdrs[cursor] = RewrittenShdr(Running, @)]
  /\ cursor' = cursor + 1
  /\ UNCHANGED <<recipe, pc, history, spoilt>>

\* Only pie2rel has more than one pass.
NextPass ==
  /\ \/ pc = "symbols" /\ ~AtSymbol /\ pc' = "sections" /\ cursor' = 0
     \/ pc = "sections" /\ ~AtSection /\ pc' = "header" /\ cursor' = cursor
  /\ Running.tool = "pie2rel"
  /\ UNCHANGED <<file, recipe, history, spoilt>>

\* munmap and close; the next tool of the recipe.
Close ==
  /\ CASE pc = "symbols" -> ~AtSymbol /\ Running.tool # "pie2rel" /\ file' = file
       [] pc = "sections" -> ~AtSection /\ Running.tool # "pie2rel" /\ file' = file
       [] pc = "header" -> file' = RewrittenHeader(file)
       [] OTHER -> FALSE
  /\ recipe' = Tail(recipe)
  /\ pc' = "start"
  /\ UNCHANGED <<cursor, history, spoilt>>

Finish ==
  /\ pc = "start" /\ recipe = <<>>
  /\ pc' = "done"
  /\ UNCHANGED <<file, recipe, cursor, history, spoilt>>

\* Running a tool again makes good what an interruption left, except where the
\* tool has overwritten what it decides by: abs2und and abs2sectsym in the
\* middle of a symbol, once st_shndx is written; pie2rel from the first symbol
\* it has moved until it has dropped the last address.
Spoils(f) ==
  \/ /\ Running.tool \in {"abs2und", "abs2sectsym"} /\ AtSymbol
     /\ f.symtab[cursor].shndx # file.symtab[cursor].shndx
     /\ f.symtab[cursor] # RewrittenSymbol(Running, file, file.symtab[cursor])
  \/ /\ Running.tool = "pie2rel"
     /\ \E k \in DOMAIN f.symtab :
          /\ f.symtab[k].shndx \in DOMAIN f.shdrs \ {UNDEF}
          /\ f.shdrs[f.symtab[k].shndx].addr # 0
          /\ pc = "symbols" => k <= cursor

\* Killed between two stores; the user runs the tool again.
Interrupt ==
  /\ pc \in {"symbols", "sections", "header"}
  /\ IF AtSymbol /\ AssertionHolds(Running, file, file.symtab[cursor])
     THEN \E s \in PartlyWritten(Running, file, file.symtab[cursor]) :
            file' = [file EXCEPT !.symtab[cursor] = s]
     ELSE file' \in IF pc = "header" THEN PartlyDoctored(file) ELSE {file}
  /\ spoilt' = (spoilt \/ Spoils(file'))
  /\ pc' = "start"
  /\ UNCHANGED <<recipe, cursor, history>>

Next ==
  \/ Open \/ OpenFails \/ RewriteSymbol \/ AssertionFails \/ RewriteSection
  \/ NextPass \/ Close \/ Finish \/ Interrupt

Spec == Init /\ [][Next]_vars
----------------------------------------------------------------------------
TypeOK ==
  /\ file.type \in {"REL", "DYN"} /\ file.phnum \in Nat
  /\ file.shdrs \in [DOMAIN file0.shdrs -> Shdr]
  /\ file.symtab \in [DOMAIN file0.symtab -> Symbol]
  /\ IsSuffix(recipe, recipe0)
  /\ pc \in {"start", "symbols", "sections", "header", "done", "failed"}
  /\ cursor \in Nat /\ spoilt \in BOOLEAN

Asked(tool) == {recipe0[k].sym : k \in {j \in DOMAIN recipe0 : recipe0[j].tool = tool}}
Ran(tool) == \E k \in DOMAIN recipe0 : recipe0[k].tool = tool

\* No run of tool t comes after one of tool u.
Before(t, u) ==
  \A j, k \in DOMAIN recipe0 : recipe0[j].tool = t /\ recipe0[k].tool = u => j < k

\* What a tool is for: its work on a whole file, from its own comments.
Work(i, f) ==
  LET g == IF i.tool = "rel2data" THEN f
           ELSE [f EXCEPT !.symtab = [k \in DOMAIN @ |-> RewrittenSymbol(i, f, @[k])]]
      h == IF i.tool \in {"rel2data", "pie2rel"}
           THEN [g EXCEPT !.shdrs = [k \in DOMAIN @ |-> RewrittenShdr(i, @[k])]] ELSE g
  IN  IF i.tool = "pie2rel" THEN RewrittenHeader(h) ELSE h

\* What each number of tools of the recipe leaves when nothing interrupts them.
Uninterrupted ==
  LET after[n \in 0 .. Len(recipe0)] ==
        IF n = 0 THEN file0 ELSE Work(recipe0[n], after[n - 1])
  IN  after

\* However often the tools were interrupted, in the middle of a symbol or
\* between two, and run again, a finished recipe leaves the file that it leaves
\* when nothing interrupts it (the in-place loops of all six tools; where that
\* cannot be promised is said at Spoils).
RerunCompletes == pc = "done" /\ ~spoilt => file = Uninterrupted[Len(recipe0)]

\* At every moment, half-written symbols included, a definition is only lost
\* if sym2und was asked for its name, or abs2und for its name or for all and it
\* was absolute (sym2und.c:93-101, abs2und.c:86-94).
DefinitionsKept ==
  \A k \in DOMAIN file.symtab :
    LET s == file0.symtab[k]
    IN  s.shndx # UNDEF /\ file.symtab[k].shndx = UNDEF =>
          \/ s.name # "" /\ s.name \in Asked("sym2und")
          \/ /\ s.name # "" /\ s.shndx = ABS
             /\ {NoName, s.name} \cap Asked("abs2und") # {}

\* The file is well formed at every moment, and no definition is lost in it.
SymtabSound == TypeOK /\ DefinitionsKept

\* pie2rel moves no symbol: the address its section had and its new value add up
\* to the address it was at, also when the tool is run twice
\* ("for each defined symbol in symtab, subtract its section load addr - THEN
\* for each section, delete the address", pie2rel.c:23-25).
PlacesKept ==
  pc = "done" /\ ~spoilt /\ Ran("pie2rel") =>
    \A k \in DOMAIN file.symtab :
      LET s == file0.symtab[k]  t == file.symtab[k]
      IN  InSection(s) /\ InSection(t) =>
            (t.value + file0.shdrs[s.shndx].addr) % Word = s.value

\* What abs2sectsym is for: in a relocatable file, where a value is an offset, an
\* absolute symbol of value 0 that has a section's name stands for that section's
\* start when all has finished, for the last such section if there are several,
\* and no other absolute symbol is tied to a section; provided no pie2rel comes
\* after ("any ABS symbol of value 0 whose name matches a section name is made
\* relative to that section", abs2sectsym.c:15-17, and the loop at 94-101).
SectionNamesLabelSections ==
  pc = "done" /\ file.type = "REL" /\ Before("pie2rel", "abs2sectsym") =>
    \A k \in DOMAIN file.symtab :
      LET s == file0.symtab[k]  t == file.symtab[k]
          homes == {i \in DOMAIN file.shdrs : /\ file.shdrs[i].name # ""
                                              /\ file.shdrs[i].name = s.name}
      IN  s.shndx = ABS =>
            /\ t.shndx \notin {UNDEF, ABS} =>
                 /\ s.value = 0 /\ t.value = 0 /\ t.shndx \in homes
                 /\ ~spoilt => t.shndx = Max(homes)
            /\ Ran("abs2sectsym") /\ s.value = 0 /\ homes # {} => t.shndx # ABS

\* What is undefined in the finished file is a reference the linker resolves, not
\* a local symbol, wherever an interrupted run that was run again had stopped; and
\* when undprot is the last to run of the tools that concern undefined symbols, it
\* cannot be bound to another object's definition ("make sure any UNDs are given
\* protected visibility", undprot.c:68-69; sym2und.c:97, abs2und.c:91).
UndefinedAreReferences ==
  pc = "done" =>
    \A k \in DOMAIN file.symtab :
      LET t == file.symtab[k]
      IN  t.shndx = UNDEF =>
            /\ ~spoilt /\ t.name # "" => t.info.bind # "LOCAL"
            /\ /\ Ran("undprot")
               /\ Before("sym2und", "undprot") /\ Before("abs2und", "undprot")
               => t.vis \in {"HIDDEN", "PROTECTED"}
=============================================================================
