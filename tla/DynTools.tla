------------------------------ MODULE DynTools ------------------------------
(***************************************************************************)
(* The tools that rewrite the dynamic sections of a file in place: sym2dyn *)
(* brings .dynsym into line with a .symtab edited by objcopy, dynappend    *)
(* turns a spare entry of .dynamic into one of a given tag.  They are run  *)
(* one after another on one file, mapped shared: what an interrupted tool  *)
(* wrote stays, and the user runs it again.                                *)
(*                                                                         *)
(* A symbol's name stands for the string that its st_name points to, ""    *)
(* for st_name 0.  A hash table is what each symbol is filed under, and a  *)
(* zeroed one, whose sizes are gone, is one of no symbols.  The four       *)
(* hsearch tables of sym2dyn are functions of .symtab, which it never      *)
(* writes.                                                                 *)
(***************************************************************************)
EXTENDS Naturals, Sequences, SequencesExt, FiniteSetsExt

CONSTANTS
  Jobs,        \* a file to begin with and the recipe, a sequence of
               \* invocations, that is run on it; see JobsAssumption
  Tails,       \* string -> the strings to be read from positions in it, in order
  StartsWith,  \* pairs of strings, the second of which begins the first
  None         \* no string found; filed under nothing

UNDEF == 0
ABS == 65521   \* SHN_ABS
DT_NULL == 0

Symbol == [name : STRING, shndx : Nat, value : Nat]
Dyn == [tag : Nat, val : Nat]
Invocation ==
  [tool : {"sym2dyn"}] \cup [tool : {"dynappend"}, tag : Nat \ {DT_NULL}, maybe_tagval : SUBSET Nat]

Names(table) == {table[k].name : k \in DOMAIN table} \ {""}
FiledByName(dynsym) == [k \in DOMAIN dynsym |-> dynsym[k].name]

ElfFile == [symtab : Seq(Symbol), dynsym : Seq(Symbol), dynstr : Seq(DOMAIN Tails),
            filed : Seq(STRING), gnu : BOOLEAN, dynamic : Seq(Dyn), after : Dyn]

\* A linked file: its names are in .dynstr, its hash table in order (a GNU one,
\* or only a SysV one), its .dynamic ends with a null entry and is followed by
\* something.
IsFile(f) ==
  /\ f \in ElfFile
  /\ Names(f.dynsym) \subseteq UNION {Range(Tails[s]) : s \in Range(f.dynstr)}
  /\ f.filed = FiledByName(f.dynsym)
  /\ f.dynamic # <<>> /\ Last(f.dynamic).tag = DT_NULL
IsRecipe(r) ==
  /\ r \in Seq(Invocation)
  /\ \A k \in DOMAIN r : r[k].tool = "dynappend" => Cardinality(r[k].maybe_tagval) <= 1
ASSUME TailsAssumption == \A s \in DOMAIN Tails : Tails[s] \in Seq(STRING \ {None})
ASSUME NoneAssumption == None \in STRING
ASSUME JobsAssumption == \A j \in Jobs : IsFile(j.file) /\ IsRecipe(j.recipe)

VARIABLES
  file,    \* the two symbol tables, .dynstr, what each dynamic symbol is filed
           \* under and whether there is a GNU table, .dynamic and what follows it
  recipe,  \* what remains to be run, the running tool first
  pc,      \* "start", "dynsym", "refill", "append"; "done", "failed"
  cursor,  \* the dynamic symbol to look at next
  must_recompute_hash_tables,
  file0, recipe0,  \* (history) both to begin with
  interrupted      \* (history) a tool was interrupted

history == <<file0, recipe0, interrupted>>
vars == <<file, recipe, pc, cursor, must_recompute_hash_tables,
          file0, recipe0, interrupted>>

Init ==
  /\ \E j \in Jobs : file = j.file /\ recipe = j.recipe
  /\ file0 = file /\ recipe0 = recipe
  /\ pc = "start" /\ cursor = 1
  /\ must_recompute_hash_tables = FALSE /\ interrupted = FALSE

Running == Head(recipe)
----------------------------------------------------------------------------
\* Definitions marked (slip) are plausible mistakes in the one that follows;
\* they serve to show that the properties can fail, and nothing uses them.

\* The tables of sym2dyn.  hsearch keeps the first entry of a key; a key met
\* again is blacklisted.
ByName(f, n) == {k \in DOMAIN f.symtab : f.symtab[k].name # "" /\ f.symtab[k].name = n}
ByAddr(f, a) == {k \in DOMAIN f.symtab : f.symtab[k].name # "" /\ f.symtab[k].value = a}
Blacklisted(entries) == Cardinality(entries) > 1

\* strstr: where a name is to be found in a string, anywhere in it.
Hits(string, n) == {j \in DOMAIN Tails[string] : <<Tails[string][j], n>> \in StartsWith}

\* strtab_find: what is read from the first place in the first string that holds
\* the name is that string's tail.  (slip: in the first string only)
StrtabFindFirst(f, n) ==
  LET string == f.dynstr[1]
  IN  IF Hits(string, n) = {} THEN None ELSE Tails[string][Min(Hits(string, n))]
StrtabFind(f, n) ==
  LET holding == {i \in DOMAIN f.dynstr : Hits(f.dynstr[i], n) # {}}
      string == f.dynstr[Min(holding)]
  IN  IF holding = {} THEN None ELSE Tails[string][Min(Hits(string, n))]

\* The name that alone marks the symbol's address, if it is another: the symbol
\* was renamed.  What is found of it in .dynstr, which may be a longer name.
Rename(f, d) ==
  LET there == ByAddr(f, d.value)
      name == f.symtab[Min(there)].name
  IN  IF there = {} \/ Blacklisted(there) THEN None
      ELSE IF name = d.name THEN None ELSE StrtabFind(f, name)

\* Definedness and absness.
SameSort(d, s) == \A special \in {UNDEF, ABS} : d.shndx = special <=> s.shndx = special

\* (slips: only the section is copied; the value is compared first)
RedefinedInSection(d, s) ==
  IF ~SameSort(d, s) THEN [d EXCEPT !.shndx = s.shndx] ELSE [d EXCEPT !.value = s.value]
RedefinedByValue(d, s) ==
  IF d.value # s.value THEN [d EXCEPT !.value = s.value] ELSE [d EXCEPT !.shndx = s.shndx]

\* After a symbol of the same name.
Redefined(d, s) ==
  IF ~SameSort(d, s) THEN [d EXCEPT !.shndx = s.shndx, !.value = s.value]
  ELSE [d EXCEPT !.value = s.value]

\* The symbol of the same name, if it is the only one and was defined otherwise.
Redefinition(f, d) ==
  LET same == ByName(f, d.name)
  IN  {k \in same : ~Blacklisted(same) /\ Redefined(d, f.symtab[k]) # d}

IsRenamed(f, d) ==
  /\ d.name # "" /\ ~Blacklisted(ByName(f, d.name)) /\ Redefinition(f, d) = {}
  /\ Rename(f, d) # None

Patched(f, d) ==
  IF IsRenamed(f, d) THEN [d EXCEPT !.name = Rename(f, d)]
  ELSE IF Redefinition(f, d) = {} THEN d
  ELSE Redefined(d, f.symtab[Min(Redefinition(f, d))])

\* What an interruption may leave of a symbol: its fields are stored one by one.
PartlyPatched(f, d) ==
  LET e == Patched(f, d)
  IN  [name : {d.name, e.name}, shndx : {d.shndx, e.shndx}, value : {d.value, e.value}]

\* The first null entry of .dynamic, the last included; the search also reads
\* the entry after the section, which it cannot choose.  (slip: the last one)
SpareLast(f) == {k \in {Len(f.dynamic)} : f.dynamic[k].tag = DT_NULL}
Spare(f) ==
  LET null == {k \in DOMAIN f.dynamic : f.dynamic[k].tag = DT_NULL}
  IN  IF null = {} THEN {} ELSE {Min(null)}

\* The entry, and the one that follows it, which may lie past the section.
WithEntry(f, k, d) == [f EXCEPT !.dynamic[k] = d]
WithEnd(f, k) ==
  IF k < Len(f.dynamic) THEN [f EXCEPT !.dynamic[k + 1] = [tag |-> DT_NULL, val |-> 0]]
  ELSE [f EXCEPT !.after = [tag |-> DT_NULL, val |-> 0]]

Entry(i) ==
  [tag |-> i.tag,
   val |-> IF i.maybe_tagval = {} THEN 0 ELSE CHOOSE v \in i.maybe_tagval : TRUE]

\* What an interruption may leave of an entry: its tag and its value are stored
\* one by one, the value as 0 before the one asked for.
PartlyStored(d, e) == [tag : {d.tag, e.tag}, val : {d.val, 0, e.val}]

\* What an interruption may leave of the table: some symbols are filed.
PartlyFiled(dynsym) ==
  {[k \in DOMAIN dynsym |-> IF k \in S THEN dynsym[k].name ELSE None] : S \in SUBSET DOMAIN dynsym}
----------------------------------------------------------------------------
\* open, fstat, mmap and the check for ELF; for sym2dyn also its first pass,
\* over .symtab.  Nothing has been written when any of these fails.
Open ==
  /\ pc = "start" /\ recipe # <<>>
  /\ pc' = IF Running.tool = "sym2dyn" THEN "dynsym" ELSE "append"
  /\ cursor' = 1 /\ must_recompute_hash_tables' = FALSE
  /\ UNCHANGED <<file, recipe, history>>

OpenFails ==
  /\ pc = "start" /\ recipe # <<>>
  /\ pc' = "failed"
  /\ UNCHANGED <<file, recipe, cursor, must_recompute_hash_tables, history>>

AtDynsym == pc = "dynsym" /\ cursor <= Len(file.dynsym)

\* (slip: a rename is not noted)
PatchUnnoted ==
  /\ AtDynsym
  /\ file' = [file EXCEPT !.dynsym[cursor] = Patched(file, @)]
  /\ cursor' = cursor + 1
  /\ UNCHANGED <<recipe, pc, must_recompute_hash_tables, history>>

Patch ==
  /\ AtDynsym
  /\ file' = [file EXCEPT !.dynsym[cursor] = Patched(file, @)]
  /\ must_recompute_hash_tables' =
       (must_recompute_hash_tables \/ IsRenamed(file, file.dynsym[cursor]))
  /\ cursor' = cursor + 1
  /\ UNCHANGED <<recipe, pc, history>>

Exit(status) ==
  /\ pc' = IF status = 0 THEN "start" ELSE "failed"
  /\ recipe' = IF status = 0 THEN Tail(recipe) ELSE recipe

\* No name has changed.
KeepHash ==
  /\ pc = "dynsym" /\ ~AtDynsym /\ ~must_recompute_hash_tables
  /\ Exit(0)
  /\ UNCHANGED <<file, cursor, must_recompute_hash_tables, history>>

\* "Unimplemented: rewriting GNU hash table".
CannotRehash ==
  /\ pc = "dynsym" /\ ~AtDynsym /\ must_recompute_hash_tables /\ file.gnu
  /\ Exit(99)
  /\ UNCHANGED <<file, cursor, must_recompute_hash_tables, history>>

\* The sizes of the table are read, it is zeroed, then filled from the names.
ZeroHash ==
  /\ pc = "dynsym" /\ ~AtDynsym /\ must_recompute_hash_tables /\ ~file.gnu
  /\ file.filed # <<>>
  /\ file' = [file EXCEPT !.filed = <<>>]
  /\ pc' = "refill"
  /\ UNCHANGED <<recipe, cursor, must_recompute_hash_tables, history>>

Refill ==
  /\ pc = "refill"
  /\ file' = [file EXCEPT !.filed = FiledByName(file.dynsym)]
  /\ Exit(0)
  /\ UNCHANGED <<cursor, must_recompute_hash_tables, history>>

\* The sizes are read as 0 from a table that an interrupted run has zeroed, and
\* nothing is filed in it.
RefillNothing ==
  /\ pc = "dynsym" /\ ~AtDynsym /\ must_recompute_hash_tables /\ ~file.gnu
  /\ file.filed = <<>>
  /\ Exit(0)
  /\ UNCHANGED <<file, cursor, must_recompute_hash_tables, history>>

\* dynappend: one entry or none; it exits with 1 if there was none to claim.
ClaimEntry ==
  /\ pc = "append"
  /\ \/ Spare(file) = {} /\ Exit(1) /\ UNCHANGED file
     \/ \E k \in Spare(file) :
          /\ file' = WithEnd(WithEntry(file, k, Entry(Running)), k)
          /\ Exit(0)
  /\ UNCHANGED <<cursor, must_recompute_hash_tables, history>>

Finish ==
  /\ pc = "start" /\ recipe = <<>>
  /\ pc' = "done"
  /\ UNCHANGED <<file, recipe, cursor, must_recompute_hash_tables, history>>

\* Killed between two stores; the user runs the tool again.
Interrupt ==
  /\ \/ pc = "dynsym"
        /\ \/ file' = file
           \/ /\ AtDynsym
              /\ \E d \in PartlyPatched(file, file.dynsym[cursor]) :
                   file' = [file EXCEPT !.dynsym[cursor] = d]
     \/ pc = "refill"
        /\ \/ file' = file
           \/ \E h \in PartlyFiled(file.dynsym) : file' = [file EXCEPT !.filed = h]
     \/ pc = "append"
        /\ \/ file' = file
           \/ \E k \in Spare(file) :
                \E d \in PartlyStored(file.dynamic[k], Entry(Running)) :
                  LET f == WithEntry(file, k, d) IN file' \in {f, WithEnd(f, k)}
  /\ pc' = "start" /\ interrupted' = TRUE
  /\ UNCHANGED <<recipe, cursor, must_recompute_hash_tables, file0, recipe0>>

Next ==
  \/ Open \/ OpenFails \/ Patch \/ KeepHash \/ CannotRehash \/ ZeroHash \/ Refill
  \/ RefillNothing \/ ClaimEntry \/ Finish \/ Interrupt

Spec == Init /\ [][Next]_vars
----------------------------------------------------------------------------
TypeOK ==
  /\ file.symtab = file0.symtab /\ file.dynstr = file0.dynstr
  /\ file.gnu = file0.gnu
  /\ file.dynsym \in [DOMAIN file0.dynsym -> Symbol]
  /\ file.filed \in {<<>>} \cup [DOMAIN file0.dynsym -> STRING]
  /\ file.dynamic \in [DOMAIN file0.dynamic -> Dyn] /\ file.after \in Dyn
  /\ IsSuffix(recipe, recipe0)
  /\ pc \in {"start", "dynsym", "refill", "append", "done", "failed"}
  /\ cursor \in 1 .. Len(file.dynsym) + 1
  /\ must_recompute_hash_tables \in BOOLEAN /\ interrupted \in BOOLEAN

\* The invocations of dynappend, by their places in the recipe.
Appends == {j \in DOMAIN recipe0 : recipe0[j].tool = "dynappend"}
Sym2dynDone == pc = "done" /\ Appends # DOMAIN recipe0

\* The strings that begin with a name, among those that can be read in .dynstr.
Beginning(f, n) ==
  {t \in UNION {Range(Tails[s]) : s \in Range(f.dynstr)} : <<t, n>> \in StartsWith}

\* A symbol that .symtab has once by its name ends up undefined, absolute or
\* defined as it is there, with its value, and keeps its name; whatever was
\* interrupted and run again in between (sym2dyn.c:24-26).
RedefinitionsPropagate ==
  Sym2dynDone =>
    \A k \in DOMAIN file.dynsym :
      LET d == file.dynsym[k]
          same == ByName(file, file0.dynsym[k].name)
          s == file.symtab[Min(same)]
      IN  Cardinality(same) = 1 =>
            /\ d.name = s.name /\ d.value = s.value
            /\ SameSort(d, s)

\* A symbol whose name is gone from .symtab takes the name that alone marks its
\* address there, if .dynstr has that name and no longer one that begins with it
\* (sym2dyn.c:28-31, 269-272).
RenamesPropagate ==
  Sym2dynDone =>
    \A k \in DOMAIN file.dynsym :
      LET d == file0.dynsym[k]
          there == ByAddr(file, d.value)
          name == file.symtab[Min(there)].name
      IN  /\ d.name # "" /\ ByName(file, d.name) = {} /\ Cardinality(there) = 1
          /\ Beginning(file, name) = {name}
          => file.dynsym[k].name = name

\* The tool settles: running it again, after an interruption or to the end,
\* gives what one run gives; where no name begins another, and the symbol
\* that gives its name to an address is of the sort of the one that takes it
\* ("to resolve inconsistencies between the .symtab and the .dynsym, in the
\* .symtab's favour", sym2dyn.c:19-20).
RerunSettles ==
  /\ Sym2dynDone
  /\ \A n \in Names(file.symtab) : Beginning(file, n) \subseteq {n}
  /\ \A k \in DOMAIN file.dynsym, i \in DOMAIN file.symtab :
       LET d == file0.dynsym[k]  s == file.symtab[i]
       IN  ByName(file, d.name) = {} /\ ByAddr(file, d.value) = {i} => SameSort(d, s)
  => \A k \in DOMAIN file.dynsym :
       file.dynsym[k] = Patched(file, file0.dynsym[k])

\* A finished recipe that nothing has interrupted leaves a hash table by which
\* every dynamic symbol is found under the name it now has (sym2dyn.c:289-299).
FoundByName ==
  pc = "done" /\ ~interrupted => file.filed = FiledByName(file.dynsym)

\* What the loader reads: the entries before the first null one, past the end
\* of the section if there is none in it.
LoaderView(f) ==
  LET memory == Append(f.dynamic, f.after)
      null == {k \in DOMAIN memory : memory[k].tag = DT_NULL}
  IN  IF null = {} THEN memory ELSE SubSeq(memory, 1, Min(null) - 1)

\* The loader never loses an entry, even to an interrupted tool, and finds the
\* appended ones behind them in the order of the invocations (dynappend.c:93-109).
EntriesInOrder ==
  /\ IsPrefix(LoaderView(file0), LoaderView(file))
  /\ pc = "done" /\ ~interrupted =>
       LET old == Len(LoaderView(file0))
       IN  /\ Len(LoaderView(file)) = old + Cardinality(Appends)
           /\ \A j \in Appends :
                LoaderView(file)[old + Cardinality({i \in Appends : i <= j})] = Entry(recipe0[j])

\* What follows .dynamic stays as it is as long as there is an entry to spare
\* besides the terminator ("a spare ELF dynamic section tag", dynappend.c:16).
NeighbourKept ==
  ~interrupted
  /\ Cardinality(Appends) < Cardinality({k \in DOMAIN file0.dynamic : file0.dynamic[k].tag = DT_NULL})
    => file.after = file0.after

\* .dynamic is well formed at every moment: all that is true of it.
DynamicSound == TypeOK /\ EntriesInOrder /\ NeighbourKept
=============================================================================
