--------------------------- MODULE DynTools_proofs ---------------------------
(***************************************************************************)
(* sym2dyn brings every dynamic symbol into line with .symtab and settles, *)
(* the hash table of an uninterrupted recipe finds every name, and         *)
(* dynappend never hides an entry from the loader: whatever the file and   *)
(* the recipe, and for all but the hash table wherever the tools are       *)
(* interrupted.                                                            *)
(***************************************************************************)
EXTENDS DynTools, Integers, SequenceTheorems, FiniteSetTheorems, WellFoundedInduction, TLAPS

----------------------------------------------------------------------------
\* The inductive invariant, in parts.

DynSymbols == DOMAIN file0.dynsym

\* The place of the running tool in the recipe.
Position == Len(recipe0) - Len(recipe) + 1

\* sym2dyn has been run to the end, or has come past this symbol.
Finished == \E j \in DOMAIN recipe0 : j < Position /\ recipe0[j].tool = "sym2dyn"
Passed(k) == Finished \/ (pc \in {"dynsym", "refill"} /\ k < cursor)

\* The recipe is run in order, each tool in its own passes.
ControlOK ==
  /\ recipe0 \in Seq(Invocation) /\ recipe \in Seq(Invocation)
  /\ Len(recipe) <= Len(recipe0)
  /\ \A k \in 1 .. Len(recipe) : recipe[k] = recipe0[Len(recipe0) - Len(recipe) + k]
  /\ pc \in {"start", "dynsym", "refill", "append", "done", "failed"}
  /\ cursor \in 1 .. Len(file0.dynsym) + 1
  /\ must_recompute_hash_tables \in BOOLEAN /\ interrupted \in BOOLEAN
  /\ pc \in {"dynsym", "refill"} => recipe # <<>> /\ Running.tool = "sym2dyn"
  /\ pc = "append" => recipe # <<>> /\ Running.tool = "dynappend"
  /\ pc = "refill" => cursor = Len(file0.dynsym) + 1
  /\ pc = "done" => recipe = <<>>

\* Nothing grows or shrinks, and .symtab and .dynstr are only read.
FileOK ==
  /\ IsFile(file0) /\ file \in ElfFile
  /\ file.symtab = file0.symtab /\ file.dynstr = file0.dynstr /\ file.gnu = file0.gnu
  /\ Len(file.dynsym) = Len(file0.dynsym)
  /\ Len(file.filed) \in {0, Len(file0.dynsym)}
  /\ Len(file.dynamic) = Len(file0.dynamic)

\* A symbol that .symtab has once by its name keeps it, and is as it is there
\* once sym2dyn has passed.
Agrees(d, s) == d.value = s.value /\ SameSort(d, s)
RedefinedOK ==
  \A k \in DynSymbols, i \in DOMAIN file0.symtab :
    ByName(file0, file0.dynsym[k].name) = {i} =>
      /\ file.dynsym[k].name = file0.dynsym[k].name
      /\ Passed(k) => Agrees(file.dynsym[k], file0.symtab[i])

\* This symbol has lost its name, and that of entry i is to be found for it.
Renamable(d, i) ==
  /\ d.name # "" /\ ByName(file0, d.name) = {} /\ ByAddr(file0, d.value) = {i}
  /\ Beginning(file0, file0.symtab[i].name) = {file0.symtab[i].name}

\* Such a symbol stays where it is, and has the new name once sym2dyn has passed.
RenamedOK ==
  \A k \in DynSymbols, i \in DOMAIN file0.symtab :
    Renamable(file0.dynsym[k], i) =>
      /\ file.dynsym[k].value = file0.dynsym[k].value
      /\ file.dynsym[k].name \in {file0.dynsym[k].name, file0.symtab[i].name}
      /\ Passed(k) => file.dynsym[k].name = file0.symtab[i].name

\* No name begins another, and a name is given to a symbol of the same sort.
Clear ==
  /\ \A n \in Names(file0.symtab) : Beginning(file0, n) \subseteq {n}
  /\ \A k \in DynSymbols, i \in DOMAIN file0.symtab :
       ByName(file0, file0.dynsym[k].name) = {} /\ ByAddr(file0, file0.dynsym[k].value) = {i}
         => SameSort(file0.dynsym[k], file0.symtab[i])

\* Every symbol is on its way from what it was to what one run makes of it.
SettledOK ==
  Clear =>
    \A k \in DynSymbols :
      /\ file.dynsym[k] \in PartlyPatched(file0, file0.dynsym[k])
      /\ Passed(k) => file.dynsym[k] = Patched(file0, file0.dynsym[k])

\* No name has changed since the hash table was in order, or it is noted and the
\* sizes of the table are still there.
HashOK ==
  ~interrupted =>
    \/ pc \in {"refill", "failed"}
    \/ pc = "dynsym" /\ must_recompute_hash_tables /\ Len(file.filed) = Len(file0.dynsym)
    \/ file.filed = FiledByName(file.dynsym)

\* The entries that the loader sees to begin with, and those appended so far.
Nulls(f) == {k \in DOMAIN f.dynamic : f.dynamic[k].tag = DT_NULL}
Old == Min(Nulls(file0)) - 1
Before(n) == {j \in Appends : j < n}
Used == Old + Cardinality(Before(Position))

\* The loader still sees what it saw to begin with.
EntriesKept == \A k \in 1 .. Old : file.dynamic[k] = file0.dynamic[k]

\* What has been appended follows, and a null entry is next, maybe the neighbour.
AppendedOK ==
  ~interrupted /\ pc # "failed" =>
    /\ Used <= Len(file.dynamic)
    /\ \A k \in 1 .. Used : file.dynamic[k].tag # DT_NULL
    /\ \A j \in Before(Position) :
         file.dynamic[Old + Cardinality(Before(j)) + 1] = Entry(recipe0[j])
    /\ IF Used < Len(file.dynamic) THEN file.dynamic[Used + 1].tag = DT_NULL
       ELSE file.after.tag = DT_NULL

SymbolsOK == RedefinedOK /\ RenamedOK /\ SettledOK
EntriesOK == EntriesKept /\ AppendedOK /\ NeighbourKept
IInv == ControlOK /\ FileOK /\ SymbolsOK /\ HashOK /\ EntriesOK
----------------------------------------------------------------------------
\* Numbers and sets of them.

\* The least of some natural numbers is one of them.
LEMMA MinIsMember ==
  ASSUME NEW S, S \subseteq Nat, S # {}
  PROVE  Min(S) \in S /\ \A y \in S : Min(S) =< y
<1>1. PICK x \in S : \A y \in S : ~(<<y, x>> \in OpToRel(<, Nat))
  BY NatLessThanWellFounded, WFMin
<1>2. \A y \in S : x =< y
  <2> SUFFICES ASSUME NEW y \in S PROVE ~(y < x)
    OBVIOUS
  <2>1. y < x => <<y, x>> \in OpToRel(<, Nat)
    BY DEF OpToRel
  <2> QED
    BY <1>1, <2>1
<1>3. \E m \in S : \A y \in S : m =< y
  BY <1>2
<1> QED
  BY <1>3, Zenon DEF Min

\* Of a singleton it is the element, and there is no other singleton.
LEMMA MinOfOne ==
  ASSUME NEW n \in Nat
  PROVE  Min({n}) = n
BY MinIsMember

\* What is found by name or by address are entries of .symtab, finitely many.
LEMMA FoundInSymtab ==
  ASSUME NEW f \in ElfFile, NEW x
  PROVE  /\ ByName(f, x) \subseteq DOMAIN f.symtab /\ IsFiniteSet(ByName(f, x))
         /\ ByAddr(f, x) \subseteq DOMAIN f.symtab /\ IsFiniteSet(ByAddr(f, x))
         /\ DOMAIN f.symtab \subseteq Nat
<1>1. f.symtab \in Seq(Symbol)
  BY DEF ElfFile
<1>2. DOMAIN f.symtab = 1 .. Len(f.symtab) /\ Len(f.symtab) \in Nat
  BY <1>1
<1>3. IsFiniteSet(DOMAIN f.symtab)
  <2>1. 1 \in Int /\ Len(f.symtab) \in Int
    BY <1>2
  <2> QED
    BY <1>2, <2>1, FS_Interval, Zenon
<1>4. ByName(f, x) \subseteq DOMAIN f.symtab /\ ByAddr(f, x) \subseteq DOMAIN f.symtab
  BY DEF ByName, ByAddr
<1> QED
  BY <1>2, <1>3, <1>4, FS_Subset

\* The entries of the tables are symbols.
LEMMA EntriesAreSymbols ==
  ASSUME NEW f \in ElfFile
  PROVE  /\ \A i \in DOMAIN f.symtab : f.symtab[i] \in Symbol
         /\ \A k \in DOMAIN f.dynsym : f.dynsym[k] \in Symbol
         /\ DOMAIN f.dynsym = 1 .. Len(f.dynsym) /\ Len(f.dynsym) \in Nat
<1>1. f.symtab \in Seq(Symbol) /\ f.dynsym \in Seq(Symbol)
  BY DEF ElfFile
<1> HIDE DEF Symbol
<1> QED
  BY <1>1

\* Finitely many entries are none, one, or blacklisted.
LEMMA Counted ==
  ASSUME NEW S, IsFiniteSet(S), S \subseteq Nat
  PROVE  /\ Cardinality(S) = 1 => S = {Min(S)}
         /\ ~Blacklisted(S) => S = {} \/ S = {Min(S)}
         /\ \A i : S = {i} => Cardinality(S) = 1 /\ ~Blacklisted(S) /\ Min(S) = i
         /\ S = {} => ~Blacklisted(S)
<1>1. ASSUME Cardinality(S) = 1 PROVE S = {Min(S)}
  <2>1. PICK i : S = {i}
    BY <1>1, FS_Singleton
  <2> QED
    BY <2>1, MinOfOne
<1>2. Cardinality(S) \in Nat /\ (Cardinality(S) = 0 <=> S = {})
  BY FS_CardinalityType, FS_EmptySet
<1>3. ASSUME NEW i, S = {i} PROVE Cardinality(S) = 1 /\ Min(S) = i
  BY <1>3, MinOfOne, FS_Singleton
<1> QED
  BY <1>1, <1>2, <1>3 DEF Blacklisted
----------------------------------------------------------------------------
\* What sym2dyn makes of a symbol.

\* strtab_find finds a string that begins with the name, if there is any.
LEMMA StrtabFindIs ==
  ASSUME NEW f \in ElfFile, NEW n
  PROVE  /\ StrtabFind(f, n) # None => StrtabFind(f, n) \in Beginning(f, n)
         /\ Beginning(f, n) # {} => StrtabFind(f, n) # None
         /\ StrtabFind(f, n) \in STRING
<1> DEFINE holding == {i \in DOMAIN f.dynstr : Hits(f.dynstr[i], n) # {}}
           string == f.dynstr[Min(holding)]
<1>1. f.dynstr \in Seq(DOMAIN Tails)
  BY DEF ElfFile
<1>2. ASSUME NEW s \in DOMAIN Tails
      PROVE  /\ Hits(s, n) \subseteq Nat
             /\ \A j \in DOMAIN Tails[s] : Tails[s][j] \in STRING \ {None}
  <2>1. Tails[s] \in Seq(STRING \ {None})
    BY TailsAssumption
  <2> QED
    BY <2>1 DEF Hits
<1>3. CASE holding = {}
  <2>1. StrtabFind(f, n) = None
    BY <1>3 DEF StrtabFind
  <2>2. Beginning(f, n) = {}
    BY <1>3 DEF Beginning, Hits, Range
  <2> QED
    BY <2>1, <2>2, NoneAssumption
<1>4. CASE holding # {}
  <2>1. holding \subseteq Nat
    BY <1>1
  <2>2. Min(holding) \in holding
    BY <1>4, <2>1, MinIsMember
  <2> DEFINE first == Min(holding)
  <2>3. string \in DOMAIN Tails /\ string \in Range(f.dynstr) /\ Hits(string, n) # {}
    <3>1. first \in DOMAIN f.dynstr /\ Hits(f.dynstr[first], n) # {}
      BY <2>2
    <3>2. string = f.dynstr[first]
      OBVIOUS
    <3> HIDE DEF first, string
    <3>3. f.dynstr[first] \in DOMAIN Tails
      BY <1>1, <3>1
    <3> QED
      BY <3>1, <3>2, <3>3 DEF Range
  <2> DEFINE place == Min(Hits(string, n))
  <2>4. StrtabFind(f, n) = Tails[string][place]
    BY <1>4 DEF StrtabFind
  <2> HIDE DEF string
  <2>5. place \in Hits(string, n)
    BY <1>2, <2>3, MinIsMember
  <2> HIDE DEF place
  <2>6. place \in DOMAIN Tails[string] /\ <<Tails[string][place], n>> \in StartsWith
    BY <2>5 DEF Hits
  <2>7. Tails[string][place] \in STRING \ {None}
    BY <1>2, <2>3, <2>6
  <2>8. Tails[string][place] \in Beginning(f, n)
    BY <2>3, <2>6 DEF Beginning, Range
  <2> QED
    BY <2>4, <2>7, <2>8
<1> QED
  BY <1>3, <1>4

\* What is found by address gives the new name.
LEMMA RenameIs ==
  ASSUME NEW f \in ElfFile, NEW d, Rename(f, d) # None
  PROVE  \E i \in DOMAIN f.symtab :
           /\ ByAddr(f, d.value) = {i} /\ f.symtab[i].name # d.name
           /\ Rename(f, d) = StrtabFind(f, f.symtab[i].name)
<1> DEFINE there == ByAddr(f, d.value)
<1>1. there # {} /\ ~Blacklisted(there)
  BY DEF Rename
<1>2. there = {Min(there)} /\ Min(there) \in DOMAIN f.symtab
  <2>1. there \subseteq Nat /\ IsFiniteSet(there) /\ there \subseteq DOMAIN f.symtab
    BY FoundInSymtab
  <2> HIDE DEF there
  <2>2. there = {Min(there)}
    BY <1>1, <2>1, Counted
  <2> QED
    BY <2>1, <2>2
<1> QED
  BY <1>1, <1>2 DEF Rename

\* A symbol whose address one entry has by another name takes what is found of it.
LEMMA RenameOf ==
  ASSUME NEW f \in ElfFile, NEW d, NEW i, ByAddr(f, d.value) = {i}
  PROVE  Rename(f, d) = IF f.symtab[i].name = d.name THEN None
                        ELSE StrtabFind(f, f.symtab[i].name)
<1>1. Min({i}) = i /\ ~Blacklisted({i})
  <2>1. IsFiniteSet({i}) /\ {i} \subseteq Nat
    BY FoundInSymtab
  <2> QED
    BY <2>1, Counted
<1> QED
  BY <1>1 DEF Rename

\* Redefined after the symbol of its name, a symbol agrees with it.
LEMMA RedefinedAgrees ==
  ASSUME NEW d \in Symbol, NEW s \in Symbol
  PROVE  /\ Redefined(d, s) \in Symbol /\ Redefined(d, s).name = d.name
         /\ Agrees(Redefined(d, s), s)
         /\ Agrees(d, s) <=> Redefined(d, s) = d
<1>1. CASE SameSort(d, s)
  BY <1>1 DEF Redefined, Agrees, SameSort, Symbol
<1>2. CASE ~SameSort(d, s)
  <2>1. Redefined(d, s) = [d EXCEPT !.shndx = s.shndx, !.value = s.value]
    BY <1>2 DEF Redefined
  <2>2. Redefined(d, s).shndx = s.shndx /\ Redefined(d, s).value = s.value
    BY <2>1 DEF Symbol
  <2>3. SameSort(Redefined(d, s), s)
    BY <2>2 DEF SameSort
  <2> QED
    BY <1>2, <2>1, <2>2, <2>3 DEF Agrees, Symbol
<1> QED
  BY <1>1, <1>2

\* A symbol that .symtab has once by its name is redefined after that.
LEMMA PatchedByName ==
  ASSUME NEW f \in ElfFile, NEW d \in Symbol, NEW i, ByName(f, d.name) = {i}
  PROVE  /\ i \in DOMAIN f.symtab /\ f.symtab[i] \in Symbol
         /\ Patched(f, d) = Redefined(d, f.symtab[i])
         /\ ~IsRenamed(f, d)
<1> DEFINE s == f.symtab[i]
<1>1. i \in DOMAIN f.symtab /\ s \in Symbol /\ s.name = d.name /\ s.name # ""
  <2>1. i \in ByName(f, d.name) /\ f.symtab \in Seq(Symbol)
    BY DEF ElfFile
  <2>2. i \in DOMAIN f.symtab /\ s.name = d.name /\ s.name # ""
    BY <2>1 DEF ByName
  <2>3. s \in Symbol
    BY <2>2, EntriesAreSymbols
  <2> QED
    BY <2>2, <2>3
<1>2. ~Blacklisted({i}) /\ Min({i}) = i
  <2>1. IsFiniteSet({i}) /\ {i} \subseteq Nat
    BY FoundInSymtab
  <2> QED
    BY <2>1, Counted
<1> HIDE DEF s
<1>3. CASE Agrees(d, s)
  <2>1. Redefined(d, s) = d
    BY <1>1, <1>3, RedefinedAgrees
  <2>2. Redefinition(f, d) = {}
    BY <2>1 DEF Redefinition, s
  <2>3. Rename(f, d) = None
    <3>1. i \in ByAddr(f, d.value)
      BY <1>1, <1>3 DEF ByAddr, Agrees, s
    <3>2. ASSUME Rename(f, d) # None PROVE FALSE
      <4>1. PICK j \in DOMAIN f.symtab : ByAddr(f, d.value) = {j} /\ f.symtab[j].name # d.name
        BY <3>2, RenameIs
      <4>2. i = j
        BY <3>1, <4>1
      <4> QED
        BY <1>1, <4>1, <4>2 DEF s
    <3> QED
      BY <3>2
  <2> QED
    BY <1>1, <2>1, <2>2, <2>3 DEF Patched, IsRenamed, s
<1>4. CASE ~Agrees(d, s)
  <2>1. Redefined(d, s) # d
    BY <1>1, <1>4, RedefinedAgrees
  <2>2. Redefinition(f, d) = {i}
    BY <1>2, <2>1 DEF Redefinition, s
  <2> QED
    BY <1>1, <1>2, <2>2 DEF Patched, IsRenamed, s
<1> QED
  BY <1>3, <1>4

\* What a patched symbol may be; only a rename changes its name.
LEMMA PatchedIs ==
  ASSUME NEW f \in ElfFile, NEW d \in Symbol
  PROVE  /\ Patched(f, d) \in Symbol
         /\ Patched(f, d).name # d.name => IsRenamed(f, d)
         /\ PartlyPatched(f, d) \subseteq Symbol
         /\ d \in PartlyPatched(f, d) /\ Patched(f, d) \in PartlyPatched(f, d)
<1> DEFINE e == Patched(f, d)
<1>1. e \in Symbol /\ (e.name # d.name => IsRenamed(f, d))
  <2>1. CASE IsRenamed(f, d)
    <3>1. e = [d EXCEPT !.name = Rename(f, d)]
      BY <2>1 DEF Patched
    <3>2. Rename(f, d) \in STRING
      <4>1. PICK i \in DOMAIN f.symtab : Rename(f, d) = StrtabFind(f, f.symtab[i].name)
        BY <2>1, RenameIs DEF IsRenamed
      <4> QED
        BY <4>1, StrtabFindIs
    <3> QED
      BY <2>1, <3>1, <3>2 DEF Symbol
  <2>2. CASE ~IsRenamed(f, d) /\ Redefinition(f, d) = {}
    BY <2>2 DEF Patched
  <2>3. CASE ~IsRenamed(f, d) /\ Redefinition(f, d) # {}
    <3>1. PICK i : ByName(f, d.name) = {i}
      <4>1. ByName(f, d.name) # {} /\ ~Blacklisted(ByName(f, d.name))
        BY <2>3 DEF Redefinition
      <4>2. IsFiniteSet(ByName(f, d.name)) /\ ByName(f, d.name) \subseteq Nat
        BY FoundInSymtab
      <4> QED
        BY <4>1, <4>2, Counted
    <3> QED
      BY <3>1, PatchedByName, RedefinedAgrees
  <2> QED
    BY <2>1, <2>2, <2>3
<1>2. PartlyPatched(f, d) =
        [name : {d.name, e.name}, shndx : {d.shndx, e.shndx}, value : {d.value, e.value}]
  BY DEF PartlyPatched
<1> HIDE DEF e
<1>3. PartlyPatched(f, d) \subseteq Symbol /\ d \in PartlyPatched(f, d) /\ e \in PartlyPatched(f, d)
  BY <1>1, <1>2 DEF Symbol
<1> QED
  BY <1>1, <1>3 DEF e

\* A symbol without its name in .symtab takes the one that is found for it.
LEMMA PatchedByAddr ==
  ASSUME NEW f \in ElfFile, NEW d \in Symbol, NEW i,
         d.name # "", ByName(f, d.name) = {}, ByAddr(f, d.value) = {i},
         Beginning(f, f.symtab[i].name) = {f.symtab[i].name}
  PROVE  Patched(f, d) = [d EXCEPT !.name = f.symtab[i].name]
<1> DEFINE n == f.symtab[i].name
<1>1. n # d.name /\ n # ""
  <2>1. i \in ByAddr(f, d.value)
    OBVIOUS
  <2>2. i \in DOMAIN f.symtab /\ n # ""
    BY <2>1 DEF ByAddr
  <2>3. i \notin ByName(f, d.name)
    OBVIOUS
  <2> QED
    BY <2>2, <2>3 DEF ByName
<1>2. Rename(f, d) = StrtabFind(f, n)
  BY <1>1, RenameOf
<1>3. StrtabFind(f, n) = n /\ StrtabFind(f, n) # None
  <2> HIDE DEF n
  <2>1. Beginning(f, n) = {n}
    BY DEF n
  <2> QED
    BY <2>1, StrtabFindIs
<1>4. ~Blacklisted(ByName(f, d.name))
  <2>1. IsFiniteSet(ByName(f, d.name)) /\ ByName(f, d.name) \subseteq Nat
    BY FoundInSymtab
  <2> QED
    BY <2>1, Counted
<1>5. Redefinition(f, d) = {}
  BY DEF Redefinition
<1>6. IsRenamed(f, d)
  BY <1>2, <1>3, <1>4, <1>5 DEF IsRenamed
<1> QED
  BY <1>2, <1>3, <1>6 DEF Patched

\* A symbol with the name that alone marks its address keeps both.
LEMMA PatchedInPlace ==
  ASSUME NEW f \in ElfFile, NEW d \in Symbol, NEW i,
         ByAddr(f, d.value) = {i}, f.symtab[i].name = d.name
  PROVE  /\ Patched(f, d).name = d.name /\ Patched(f, d).value = d.value
         /\ SameSort(d, f.symtab[i]) => Patched(f, d) = d
<1>1. i \in DOMAIN f.symtab /\ f.symtab[i].name # "" /\ f.symtab[i].value = d.value
  <2>1. i \in ByAddr(f, d.value)
    OBVIOUS
  <2> QED
    BY <2>1 DEF ByAddr
<1>2. i \in ByName(f, d.name)
  BY <1>1 DEF ByName
<1>3. ~IsRenamed(f, d)
  <2>1. Rename(f, d) = None
    BY RenameOf
  <2> QED
    BY <2>1 DEF IsRenamed
<1>4. CASE Redefinition(f, d) = {}
  BY <1>3, <1>4 DEF Patched
<1>5. CASE Redefinition(f, d) # {}
  <2>1. ~Blacklisted(ByName(f, d.name))
    BY <1>5 DEF Redefinition
  <2>2. IsFiniteSet(ByName(f, d.name)) /\ ByName(f, d.name) \subseteq Nat
    BY FoundInSymtab
  <2>3. ByName(f, d.name) = {i}
    BY <1>2, <2>1, <2>2, Counted
  <2>4. f.symtab[i] \in Symbol /\ Patched(f, d) = Redefined(d, f.symtab[i])
    BY <2>3, PatchedByName
  <2>5. SameSort(d, f.symtab[i]) => Redefined(d, f.symtab[i]) = d
    BY <1>1, <2>4, RedefinedAgrees DEF Agrees
  <2>6. Redefined(d, f.symtab[i]).name = d.name /\ Redefined(d, f.symtab[i]).value = d.value
    BY <1>1, <2>4, RedefinedAgrees DEF Agrees
  <2> QED
    BY <2>4, <2>5, <2>6
<1> QED
  BY <1>4, <1>5

\* Whatever an interruption leaves of a symbol, the next run makes the same of it.
LEMMA Settles ==
  ASSUME NEW f \in ElfFile, NEW d \in Symbol, NEW u \in PartlyPatched(f, d),
         \A n \in Names(f.symtab) : Beginning(f, n) \subseteq {n},
         \A i \in DOMAIN f.symtab :
           ByName(f, d.name) = {} /\ ByAddr(f, d.value) = {i} => SameSort(d, f.symtab[i])
  PROVE  Patched(f, u) = Patched(f, d)
<1> DEFINE e == Patched(f, d)
<1>0. e \in Symbol /\ u \in Symbol
  BY PatchedIs
<1>1. /\ u.name \in {d.name, e.name} /\ u.shndx \in {d.shndx, e.shndx}
      /\ u.value \in {d.value, e.value}
  BY DEF PartlyPatched
<1>2. ASSUME e = d PROVE u = d
  BY <1>0, <1>1, <1>2 DEF Symbol
<1>3. CASE \E i : ByName(f, d.name) = {i}
  <2>1. PICK i : ByName(f, d.name) = {i}
    BY <1>3
  <2> DEFINE s == f.symtab[i]
  <2>2. s \in Symbol /\ e = Redefined(d, s)
    BY <2>1, PatchedByName
  <2> HIDE DEF e, s
  <2>3. u.name = d.name
    BY <1>1, <2>2, RedefinedAgrees
  <2>4. Patched(f, u) = Redefined(u, s)
    BY <1>0, <2>1, <2>3, PatchedByName DEF s
  <2>5. Redefined(u, s) = Redefined(d, s)
    <3>1. CASE SameSort(d, s)
      <4>1. e = [d EXCEPT !.value = s.value]
        BY <2>2, <3>1 DEF Redefined
      <4>2. u.shndx = d.shndx
        BY <1>1, <4>1 DEF Symbol
      <4>3. SameSort(u, s)
        BY <3>1, <4>2 DEF SameSort
      <4> QED
        BY <1>0, <2>3, <3>1, <4>2, <4>3 DEF Redefined, Symbol
    <3>2. CASE ~SameSort(d, s)
      <4>1. e = [d EXCEPT !.shndx = s.shndx, !.value = s.value]
        BY <2>2, <3>2 DEF Redefined
      <4>2. CASE u.shndx = d.shndx
        <5>1. ~SameSort(u, s)
          BY <3>2, <4>2 DEF SameSort
        <5> QED
          BY <1>0, <2>3, <3>2, <5>1 DEF Redefined, Symbol
      <4>3. CASE u.shndx = s.shndx
        <5>1. SameSort(u, s)
          BY <4>3 DEF SameSort
        <5> QED
          BY <1>0, <2>3, <3>2, <4>3, <5>1 DEF Redefined, Symbol
      <4>4. u.shndx \in {d.shndx, s.shndx}
        BY <1>1, <4>1 DEF Symbol
      <4> QED
        BY <4>2, <4>3, <4>4
    <3> QED
      BY <3>1, <3>2
  <2> QED
    BY <2>2, <2>4, <2>5 DEF e
<1>4. CASE IsRenamed(f, d) /\ ~ \E i : ByName(f, d.name) = {i}
  <2>1. PICK i \in DOMAIN f.symtab :
          /\ ByAddr(f, d.value) = {i} /\ f.symtab[i].name # d.name
          /\ Rename(f, d) = StrtabFind(f, f.symtab[i].name)
    BY <1>4, RenameIs DEF IsRenamed
  <2> DEFINE n == f.symtab[i].name
  <2>2. ByName(f, d.name) = {}
    <3>1. IsFiniteSet(ByName(f, d.name)) /\ ByName(f, d.name) \subseteq Nat
      BY FoundInSymtab
    <3>2. ~Blacklisted(ByName(f, d.name))
      BY <1>4 DEF IsRenamed
    <3>3. ByName(f, d.name) = {} \/ ByName(f, d.name) = {Min(ByName(f, d.name))}
      BY <3>1, <3>2, Counted
    <3> QED
      BY <1>4, <3>3
  <2>3. n \in Names(f.symtab)
    <3>1. i \in ByAddr(f, d.value)
      BY <2>1
    <3> QED
      BY <3>1 DEF ByAddr, Names
  <2>4. Rename(f, d) = n
    <3>1. Rename(f, d) # None
      BY <1>4 DEF IsRenamed
    <3> HIDE DEF n
    <3>2. Rename(f, d) \in Beginning(f, n)
      BY <2>1, <3>1, StrtabFindIs DEF n
    <3> QED
      BY <2>3, <3>2
  <2>5. e = [d EXCEPT !.name = n]
    BY <1>4, <2>4 DEF Patched
  <2> HIDE DEF e, n
  <2>6. u.shndx = d.shndx /\ u.value = d.value /\ u.name \in {d.name, n}
    BY <1>1, <2>5 DEF Symbol
  <2>7. CASE u.name = d.name
    <3>1. u = d
      BY <1>0, <2>6, <2>7 DEF Symbol
    <3> QED
      BY <3>1 DEF e
  <2>8. CASE u.name = n
    <3>1. u = e
      BY <1>0, <2>5, <2>6, <2>8 DEF Symbol
    <3>2. ByAddr(f, u.value) = {i} /\ f.symtab[i].name = u.name
      BY <2>1, <2>6, <2>8 DEF n
    <3>3. SameSort(d, f.symtab[i])
      BY <2>1, <2>2
    <3>4. SameSort(u, f.symtab[i])
      BY <2>6, <3>3 DEF SameSort
    <3>5. Patched(f, u) = u
      BY <1>0, <3>2, <3>4, PatchedInPlace
    <3> QED
      BY <3>1, <3>5 DEF e
  <2> QED
    BY <2>6, <2>7, <2>8
<1>5. CASE ~IsRenamed(f, d) /\ ~ \E i : ByName(f, d.name) = {i}
  <2>1. Redefinition(f, d) = {}
    <3>1. ASSUME Redefinition(f, d) # {} PROVE FALSE
      <4>1. ByName(f, d.name) # {} /\ ~Blacklisted(ByName(f, d.name))
        BY <3>1 DEF Redefinition
      <4>2. IsFiniteSet(ByName(f, d.name)) /\ ByName(f, d.name) \subseteq Nat
        BY FoundInSymtab
      <4> QED
        BY <1>5, <4>1, <4>2, Counted
    <3> QED
      BY <3>1
  <2>2. e = d
    BY <1>5, <2>1 DEF Patched
  <2> QED
    BY <1>2, <2>2
<1> QED
  BY <1>3, <1>4, <1>5
----------------------------------------------------------------------------
\* What is stored in the file.

\* .symtab and .dynstr decide what becomes of a symbol.
LEMMA SameTables ==
  ASSUME NEW f, NEW g, f.symtab = g.symtab, f.dynstr = g.dynstr
  PROVE  /\ \A x : ByName(f, x) = ByName(g, x) /\ ByAddr(f, x) = ByAddr(g, x)
         /\ \A n : Beginning(f, n) = Beginning(g, n)
         /\ \A d : /\ (IsRenamed(f, d) <=> IsRenamed(g, d)) /\ Patched(f, d) = Patched(g, d)
                   /\ PartlyPatched(f, d) = PartlyPatched(g, d)
<1>1. \A x : ByName(f, x) = ByName(g, x) /\ ByAddr(f, x) = ByAddr(g, x)
  BY DEF ByName, ByAddr
<1>2. \A n : Beginning(f, n) = Beginning(g, n) /\ StrtabFind(f, n) = StrtabFind(g, n)
  BY DEF Beginning, StrtabFind
<1>3. \A d : Rename(f, d) = Rename(g, d) /\ Redefinition(f, d) = Redefinition(g, d)
  BY <1>1, <1>2 DEF Rename, Redefinition
<1>4. \A d : (IsRenamed(f, d) <=> IsRenamed(g, d))
  BY <1>1, <1>3 DEF IsRenamed
<1>5. \A d : Patched(f, d) = Patched(g, d)
  BY <1>3, <1>4 DEF Patched
<1>6. \A d : PartlyPatched(f, d) = PartlyPatched(g, d)
  BY <1>5 DEF PartlyPatched
<1> QED
  BY <1>1, <1>2, <1>4, <1>5, <1>6

\* Files of the same shape, with the same .symtab and .dynstr.
Alike(f, g) ==
  /\ g \in ElfFile
  /\ g.symtab = f.symtab /\ g.dynstr = f.dynstr /\ g.gnu = f.gnu
  /\ Len(g.dynsym) = Len(f.dynsym) /\ Len(g.filed) \in {0, Len(f.dynsym), Len(f.filed)}
  /\ Len(g.dynamic) = Len(f.dynamic)

\* A dynamic symbol is stored.
LEMMA SymbolStored ==
  ASSUME NEW f \in ElfFile, NEW k \in DOMAIN f.dynsym, NEW d \in Symbol,
         NEW g, g = [f EXCEPT !.dynsym[k] = d]
  PROVE  /\ Alike(f, g) /\ g.dynsym[k] = d
         /\ \A j \in DOMAIN f.dynsym : j # k => g.dynsym[j] = f.dynsym[j]
         /\ g.filed = f.filed /\ g.dynamic = f.dynamic /\ g.after = f.after
<1>1. f.dynsym \in Seq(Symbol)
  BY DEF ElfFile
<1>2. g = [f EXCEPT !.dynsym = [f.dynsym EXCEPT ![k] = d]]
  OBVIOUS
<1> DEFINE t == [f.dynsym EXCEPT ![k] = d]
<1>3. /\ t \in Seq(Symbol) /\ Len(t) = Len(f.dynsym) /\ t[k] = d
      /\ \A j \in DOMAIN f.dynsym : j # k => t[j] = f.dynsym[j]
  <2> HIDE DEF Symbol
  <2>1. t \in Seq(Symbol) /\ Len(t) = Len(f.dynsym)
    BY <1>1, ExceptSeq
  <2> QED
    BY <1>1, <2>1
<1> HIDE DEF t
<1>4. /\ g.dynsym = t /\ g.symtab = f.symtab /\ g.dynstr = f.dynstr /\ g.gnu = f.gnu
      /\ g.filed = f.filed /\ g.dynamic = f.dynamic /\ g.after = f.after /\ g \in ElfFile
  BY <1>2, <1>3 DEF ElfFile, t
<1> QED
  BY <1>3, <1>4 DEF Alike

\* The hash table is filled with names, or zeroed.
LEMMA TableStored ==
  ASSUME NEW f \in ElfFile, NEW h \in Seq(STRING), Len(h) \in {0, Len(f.dynsym)},
         NEW g, g = [f EXCEPT !.filed = h]
  PROVE  /\ Alike(f, g) /\ g.filed = h
         /\ g.dynsym = f.dynsym /\ g.dynamic = f.dynamic /\ g.after = f.after
BY DEF ElfFile, Alike

\* A zeroed table files no symbol.
LEMMA NothingFiled ==
  /\ <<>> \in Seq(STRING)
  /\ \A n : Len(<<>>) \in {0, n}
<1>1. \A S : <<>> \in Seq(S)
  OBVIOUS
<1>2. Len(<<>>) = 0
  OBVIOUS
<1> QED
  BY <1>1, <1>2

\* A dynamic entry is stored.
LEMMA EntryStored ==
  ASSUME NEW f \in ElfFile, NEW k \in DOMAIN f.dynamic, NEW d \in Dyn,
         NEW g, g = WithEntry(f, k, d)
  PROVE  /\ Alike(f, g) /\ g.dynamic[k] = d
         /\ \A j \in DOMAIN f.dynamic : j # k => g.dynamic[j] = f.dynamic[j]
         /\ g.filed = f.filed /\ g.dynsym = f.dynsym /\ g.after = f.after
<1>1. f.dynamic \in Seq(Dyn)
  BY DEF ElfFile
<1>2. g = [f EXCEPT !.dynamic = [f.dynamic EXCEPT ![k] = d]]
  BY DEF WithEntry
<1> DEFINE t == [f.dynamic EXCEPT ![k] = d]
<1>3. /\ t \in Seq(Dyn) /\ Len(t) = Len(f.dynamic) /\ t[k] = d
      /\ \A j \in DOMAIN f.dynamic : j # k => t[j] = f.dynamic[j]
  <2> HIDE DEF Dyn
  <2>1. t \in Seq(Dyn) /\ Len(t) = Len(f.dynamic)
    BY <1>1, ExceptSeq
  <2> QED
    BY <1>1, <2>1
<1> HIDE DEF t
<1>4. /\ g.dynamic = t /\ g.symtab = f.symtab /\ g.dynstr = f.dynstr /\ g.gnu = f.gnu
      /\ g.filed = f.filed /\ g.dynsym = f.dynsym /\ g.after = f.after /\ g \in ElfFile
  BY <1>2, <1>3 DEF ElfFile, t
<1> QED
  BY <1>3, <1>4 DEF Alike

\* The entry after it, in the section or past it, is made null.
LEMMA EndStored ==
  ASSUME NEW f \in ElfFile, NEW k \in DOMAIN f.dynamic, NEW g, g = WithEnd(f, k)
  PROVE  /\ Alike(f, g)
         /\ \A j \in DOMAIN f.dynamic : j # k + 1 => g.dynamic[j] = f.dynamic[j]
         /\ IF k < Len(f.dynamic) THEN g.dynamic[k + 1].tag = DT_NULL /\ g.after = f.after
            ELSE g.after.tag = DT_NULL
         /\ g.filed = f.filed /\ g.dynsym = f.dynsym
<1> DEFINE null == [tag |-> DT_NULL, val |-> 0]
<1>1. f.dynamic \in Seq(Dyn) /\ null \in Dyn /\ null.tag = DT_NULL
  BY DEF ElfFile, Dyn, DT_NULL
<1>2. CASE k < Len(f.dynamic)
  <2>1. k + 1 \in DOMAIN f.dynamic
    BY <1>1, <1>2
  <2>2. g = WithEntry(f, k + 1, null)
    BY <1>2 DEF WithEnd, WithEntry
  <2> HIDE DEF null
  <2> QED
    BY <1>1, <1>2, <2>1, <2>2, EntryStored
<1>3. CASE ~(k < Len(f.dynamic))
  <2>1. g = [f EXCEPT !.after = null]
    BY <1>3 DEF WithEnd
  <2> HIDE DEF null
  <2> QED
    BY <1>1, <1>3, <2>1 DEF ElfFile, Alike
<1> QED
  BY <1>2, <1>3
----------------------------------------------------------------------------
\* What a step does to the recipe.

\* The running tool is the entry of the recipe at its place.
LEMMA RunningIsAt ==
  ASSUME ControlOK, recipe # <<>>
  PROVE  /\ Position \in DOMAIN recipe0 /\ Running = recipe0[Position]
         /\ Running \in Invocation
<1>1. /\ recipe \in Seq(Invocation) /\ recipe0 \in Seq(Invocation)
      /\ Len(recipe) <= Len(recipe0) /\ Len(recipe) >= 1
      /\ recipe[1] = recipe0[Len(recipe0) - Len(recipe) + 1]
  <2> HIDE DEF Invocation
  <2>1. recipe \in Seq(Invocation) /\ recipe0 \in Seq(Invocation) /\ Len(recipe) <= Len(recipe0)
    BY DEF ControlOK
  <2>2. Len(recipe) >= 1
    BY <2>1
  <2>3. \A k \in 1 .. Len(recipe) : recipe[k] = recipe0[Len(recipe0) - Len(recipe) + k]
    BY DEF ControlOK
  <2> QED
    BY <2>1, <2>2, <2>3
<1> HIDE DEF Invocation
<1>2. Position \in DOMAIN recipe0 /\ Running = recipe[1] /\ recipe[1] \in Invocation
  BY <1>1 DEF Position, Running
<1> QED
  BY <1>1, <1>2 DEF Position

\* A tool ends well, and the recipe moves on; or it does not.
LEMMA ExitIs ==
  ASSUME ControlOK, recipe # <<>>, recipe0' = recipe0, NEW status \in {0, 1, 99}, Exit(status)
  PROVE  /\ recipe' \in Seq(Invocation) /\ Len(recipe') <= Len(recipe0)
         /\ \A k \in 1 .. Len(recipe') : recipe'[k] = recipe0[Len(recipe0) - Len(recipe') + k]
         /\ status = 0 => pc' = "start" /\ Position' = Position + 1
         /\ status # 0 => pc' = "failed" /\ recipe' = recipe /\ Position' = Position
         /\ Position \in Nat
<1>1. /\ recipe \in Seq(Invocation) /\ recipe0 \in Seq(Invocation)
      /\ Len(recipe) <= Len(recipe0) /\ Len(recipe) >= 1
      /\ \A k \in 1 .. Len(recipe) : recipe[k] = recipe0[Len(recipe0) - Len(recipe) + k]
  <2> HIDE DEF Invocation
  <2>1. recipe \in Seq(Invocation) /\ recipe0 \in Seq(Invocation) /\ Len(recipe) <= Len(recipe0)
    BY DEF ControlOK
  <2>2. Len(recipe) >= 1
    BY <2>1
  <2>3. \A k \in 1 .. Len(recipe) : recipe[k] = recipe0[Len(recipe0) - Len(recipe) + k]
    BY DEF ControlOK
  <2> QED
    BY <2>1, <2>2, <2>3
<1> HIDE DEF Invocation
<1>2. CASE status = 0
  <2>1. recipe' = Tail(recipe) /\ pc' = "start"
    BY <1>2 DEF Exit
  <2>2. /\ recipe' \in Seq(Invocation) /\ Len(recipe') = Len(recipe) - 1
        /\ \A k \in 1 .. Len(recipe') : recipe'[k] = recipe[k + 1]
    BY <1>1, <2>1
  <2>3. ASSUME NEW k \in 1 .. Len(recipe')
        PROVE  recipe'[k] = recipe0[Len(recipe0) - Len(recipe') + k]
    <3>1. k + 1 \in 1 .. Len(recipe)
      BY <1>1, <2>2
    <3>2. recipe'[k] = recipe0[Len(recipe0) - Len(recipe) + (k + 1)]
      BY <1>1, <2>2, <3>1
    <3>3. Len(recipe0) - Len(recipe) + (k + 1) = Len(recipe0) - Len(recipe') + k
      BY <1>1, <2>2
    <3> QED
      BY <3>2, <3>3
  <2>4. Position' = Position + 1 /\ Position \in Nat
    BY <1>1, <2>2 DEF Position
  <2> QED
    BY <1>1, <1>2, <2>1, <2>2, <2>3, <2>4
<1>3. CASE status # 0
  <2>1. recipe' = recipe /\ pc' = "failed"
    BY <1>3 DEF Exit
  <2> QED
    BY <1>1, <1>3, <2>1 DEF Position
<1> QED
  BY <1>2, <1>3

\* The recipe is as it was, and the tool runs on or has not begun.
LEMMA RecipeStays ==
  ASSUME ControlOK, UNCHANGED <<recipe, recipe0>>
  PROVE  /\ recipe' \in Seq(Invocation) /\ Len(recipe') <= Len(recipe0)
         /\ \A k \in 1 .. Len(recipe') : recipe'[k] = recipe0[Len(recipe0) - Len(recipe') + k]
         /\ Position' = Position /\ Position \in Nat
<1> HIDE DEF Invocation
<1> QED
  BY DEF ControlOK, Position

\* The steps of the tools keep the control of the recipe, and the shape of the file.
LEMMA ControlStep ==
  ASSUME ControlOK, FileOK, [Next]_vars
  PROVE  ControlOK'
<1> USE DEF history
<1>0. /\ Len(file.dynsym) = Len(file0.dynsym) /\ Len(file0.dynsym) \in Nat
      /\ recipe0 \in Seq(Invocation) /\ cursor \in 1 .. Len(file0.dynsym) + 1
      /\ must_recompute_hash_tables \in BOOLEAN /\ interrupted \in BOOLEAN
  <2>1. file0.dynsym \in Seq(Symbol)
    BY DEF FileOK, IsFile, ElfFile
  <2>2. Len(file0.dynsym) \in Nat
    BY <2>1
  <2> QED
    BY <2>2 DEF FileOK, ControlOK
<1> HIDE DEF Invocation
<1> DEFINE Kept == /\ recipe' \in Seq(Invocation) /\ Len(recipe') <= Len(recipe0)
                   /\ \A k \in 1 .. Len(recipe') : recipe'[k] = recipe0[Len(recipe0) - Len(recipe') + k]
<1>1. CASE UNCHANGED vars
  BY <1>1 DEF vars, ControlOK, Running
<1>2. CASE Open
  <2>1. Kept
    BY <1>2, RecipeStays DEF Open
  <2>2. recipe # <<>> => Running.tool \in {"sym2dyn", "dynappend"}
    <3>1. recipe # <<>> => Running \in Invocation
      BY RunningIsAt
    <3> QED
      BY <3>1 DEF Invocation
  <2> HIDE DEF Kept
  <2>3. /\ pc' \in {"dynsym", "append"} /\ cursor' = 1 /\ must_recompute_hash_tables' = FALSE
        /\ interrupted' = interrupted /\ recipe' = recipe /\ recipe0' = recipe0 /\ recipe # <<>>
        /\ file0' = file0 /\ Running' = Running
        /\ (pc' = "dynsym" /\ Running.tool = "sym2dyn")
           \/ (pc' = "append" /\ Running.tool # "sym2dyn")
    BY <1>2 DEF Open, Running
  <2>4. /\ pc' \in {"dynsym", "refill"} => Running'.tool = "sym2dyn"
        /\ pc' = "append" => Running'.tool = "dynappend"
    BY <2>2, <2>3
  <2>5. cursor' \in 1 .. Len(file0.dynsym) + 1
    BY <1>0, <2>3
  <2> QED
    BY <1>0, <2>1, <2>3, <2>4, <2>5 DEF ControlOK, Kept
<1>3. CASE OpenFails
  <2>1. Kept
    BY <1>3, RecipeStays DEF OpenFails
  <2> HIDE DEF Kept
  <2> QED
    BY <1>0, <1>3, <2>1 DEF OpenFails, ControlOK, Kept
<1>4. CASE Patch
  <2>1. Kept
    BY <1>4, RecipeStays DEF Patch
  <2> HIDE DEF Kept
  <2>2. /\ pc = "dynsym" /\ pc' = pc /\ cursor' = cursor + 1 /\ cursor <= Len(file0.dynsym)
        /\ must_recompute_hash_tables' \in BOOLEAN
        /\ interrupted' = interrupted /\ recipe' = recipe /\ recipe0' = recipe0
        /\ file0' = file0 /\ Running' = Running
    <3>1. must_recompute_hash_tables' \in BOOLEAN
      BY <1>4 DEF Patch
    <3> QED
      BY <1>0, <1>4, <3>1 DEF Patch, AtDynsym, Running
  <2>3. cursor' \in 1 .. Len(file0.dynsym) + 1
    BY <1>0, <2>2
  <2> QED
    BY <1>0, <2>1, <2>2, <2>3 DEF ControlOK, Kept
<1>5. CASE KeepHash \/ CannotRehash \/ Refill \/ RefillNothing \/ ClaimEntry
  <2>1. /\ recipe # <<>> /\ UNCHANGED <<cursor, must_recompute_hash_tables, history>>
        /\ \E status \in {0, 1, 99} : Exit(status)
    BY <1>5 DEF KeepHash, CannotRehash, Refill, RefillNothing, ClaimEntry, ControlOK
  <2>2. Kept /\ pc' \in {"start", "failed"}
    <3>1. PICK status \in {0, 1, 99} : Exit(status)
      BY <2>1
    <3> QED
      BY <2>1, <3>1, ExitIs DEF Exit
  <2> HIDE DEF Kept
  <2> QED
    BY <1>0, <2>1, <2>2 DEF ControlOK, Kept
<1>6. CASE ZeroHash
  <2>1. Kept
    BY <1>6, RecipeStays DEF ZeroHash
  <2> HIDE DEF Kept
  <2>2. /\ pc = "dynsym" /\ pc' = "refill" /\ ~(cursor <= Len(file0.dynsym))
        /\ UNCHANGED <<recipe, recipe0, cursor, must_recompute_hash_tables, history>>
        /\ Running' = Running
    BY <1>0, <1>6 DEF ZeroHash, AtDynsym, Running
  <2>3. cursor = Len(file0.dynsym) + 1
    BY <1>0, <2>2
  <2> QED
    BY <1>0, <2>1, <2>2, <2>3 DEF ControlOK, Kept
<1>7. CASE Finish
  <2>1. Kept
    BY <1>7, RecipeStays DEF Finish
  <2> HIDE DEF Kept
  <2> QED
    BY <1>0, <1>7, <2>1 DEF Finish, ControlOK, Kept
<1>8. CASE Interrupt
  <2>1. Kept
    BY <1>8, RecipeStays DEF Interrupt
  <2> HIDE DEF Kept
  <2> QED
    BY <1>0, <1>8, <2>1 DEF Interrupt, ControlOK, Kept
<1> QED
  BY <1>1, <1>2, <1>3, <1>4, <1>5, <1>6, <1>7, <1>8 DEF Next
----------------------------------------------------------------------------
\* What a step does to the file.

\* An entry that is appended is no null entry.
LEMMA EntryIs ==
  ASSUME NEW i \in Invocation, i.tool = "dynappend"
  PROVE  /\ Entry(i) \in Dyn /\ Entry(i).tag = i.tag /\ Entry(i).tag # DT_NULL
         /\ i.tag \in Nat /\ Entry(i).val \in Nat
<1>1. i.tag \in Nat \ {DT_NULL} /\ i.maybe_tagval \in SUBSET Nat
  BY DEF Invocation
<1>2. i.maybe_tagval # {} => (CHOOSE v \in i.maybe_tagval : TRUE) \in Nat
  BY <1>1
<1> QED
  BY <1>1, <1>2 DEF Entry, Dyn

\* The spare entry is the first null one.
LEMMA SpareIs ==
  ASSUME NEW f \in ElfFile
  PROVE  /\ Nulls(f) \subseteq DOMAIN f.dynamic
         /\ DOMAIN f.dynamic = 1 .. Len(f.dynamic) /\ Len(f.dynamic) \in Nat
         /\ Spare(f) = {} <=> Nulls(f) = {}
         /\ \A k \in Spare(f) : k = Min(Nulls(f)) /\ k \in Nulls(f)
         /\ Nulls(f) # {} => /\ Min(Nulls(f)) \in Nulls(f)
                             /\ \A j \in Nulls(f) : Min(Nulls(f)) =< j
<1>1. f.dynamic \in Seq(Dyn)
  BY DEF ElfFile
<1>2. DOMAIN f.dynamic = 1 .. Len(f.dynamic) /\ Len(f.dynamic) \in Nat
  BY <1>1
<1>3. Nulls(f) \subseteq DOMAIN f.dynamic /\ Nulls(f) \subseteq Nat
  BY <1>2 DEF Nulls
<1>4. Spare(f) = IF Nulls(f) = {} THEN {} ELSE {Min(Nulls(f))}
  BY DEF Spare, Nulls
<1>5. Nulls(f) # {} => /\ Min(Nulls(f)) \in Nulls(f)
                       /\ \A j \in Nulls(f) : Min(Nulls(f)) =< j
  BY <1>3, MinIsMember
<1> QED
  BY <1>2, <1>3, <1>4, <1>5

\* Being alike is a matter of shape.
LEMMA AlikeTwice ==
  ASSUME NEW f, NEW g, NEW h, Alike(f, g), Alike(g, h)
  PROVE  Alike(f, h)
BY DEF Alike

\* A file of the same shape will do.
LEMMA AlikeKeepsFile ==
  ASSUME FileOK, Alike(file, file'), file0' = file0
  PROVE  FileOK'
<1> HIDE DEF ElfFile, IsFile
<1>1. /\ IsFile(file0) /\ Len(file.dynsym) = Len(file0.dynsym)
      /\ file.symtab = file0.symtab /\ file.dynstr = file0.dynstr /\ file.gnu = file0.gnu
      /\ Len(file.filed) \in {0, Len(file0.dynsym)} /\ Len(file.dynamic) = Len(file0.dynamic)
  BY DEF FileOK
<1>2. /\ file' \in ElfFile /\ Len(file'.dynsym) = Len(file.dynsym)
      /\ file'.symtab = file.symtab /\ file'.dynstr = file.dynstr /\ file'.gnu = file.gnu
      /\ Len(file'.filed) \in {0, Len(file.dynsym), Len(file.filed)}
      /\ Len(file'.dynamic) = Len(file.dynamic)
  BY DEF Alike
<1>3. IsFile(file0')
  BY <1>1
<1> QED
  BY <1>1, <1>2, <1>3 DEF FileOK

\* What FileOK says of the tables, once and for all.
LEMMA Shape ==
  ASSUME FileOK
  PROVE  /\ file0 \in ElfFile /\ file \in ElfFile /\ Alike(file, file)
         /\ DOMAIN file.dynsym = DynSymbols /\ DynSymbols = 1 .. Len(file0.dynsym)
         /\ Len(file.dynsym) = Len(file0.dynsym) /\ Len(file0.dynsym) \in Nat
         /\ \A k \in DynSymbols : file.dynsym[k] \in Symbol /\ file0.dynsym[k] \in Symbol
         /\ \A d : /\ (IsRenamed(file, d) <=> IsRenamed(file0, d))
                   /\ Patched(file, d) = Patched(file0, d)
                   /\ PartlyPatched(file, d) = PartlyPatched(file0, d)
<1>1. /\ file0 \in ElfFile /\ file \in ElfFile /\ Len(file.dynsym) = Len(file0.dynsym)
      /\ file.symtab = file0.symtab /\ file.dynstr = file0.dynstr
  BY DEF FileOK, IsFile
<1>2. Alike(file, file)
  BY <1>1 DEF Alike
<1>3. DOMAIN file.dynsym = DynSymbols /\ DynSymbols = 1 .. Len(file0.dynsym) /\ Len(file0.dynsym) \in Nat
  BY <1>1, EntriesAreSymbols DEF DynSymbols
<1>4. \A k \in DynSymbols : file.dynsym[k] \in Symbol /\ file0.dynsym[k] \in Symbol
  BY <1>1, <1>3, EntriesAreSymbols DEF DynSymbols
<1>5. \A d : /\ (IsRenamed(file, d) <=> IsRenamed(file0, d))
             /\ Patched(file, d) = Patched(file0, d)
             /\ PartlyPatched(file, d) = PartlyPatched(file0, d)
  BY <1>1, SameTables
<1> QED
  BY <1>1, <1>2, <1>3, <1>4, <1>5

\* What sym2dyn may do to the symbols in one step, what it has been done with
\* after it, and what else of the file stays.
SymbolsMove ==
  /\ \A k \in DynSymbols : file'.dynsym[k] \in PartlyPatched(file0, file.dynsym[k])
  /\ \A k \in DynSymbols :
       Passed(k)' => Passed(k) \/ file'.dynsym[k] = Patched(file0, file.dynsym[k])

\* Nothing happens to the symbols.
LEMMA SymbolsStay ==
  ASSUME FileOK, file'.dynsym = file.dynsym,
         \A k \in DynSymbols : Passed(k)' => Passed(k)
  PROVE  SymbolsMove
<1>1. ASSUME NEW k \in DynSymbols PROVE file'.dynsym[k] \in PartlyPatched(file0, file.dynsym[k])
  <2>1. file0 \in ElfFile /\ file.dynsym[k] \in Symbol
    BY Shape
  <2> QED
    BY <2>1, PatchedIs
<1> QED
  BY <1>1 DEF SymbolsMove

\* sym2dyn is at a symbol, and stores it whole or in part.
LEMMA SymbolIsStored ==
  ASSUME ControlOK, FileOK, AtDynsym, file0' = file0,
         NEW d \in PartlyPatched(file0, file.dynsym[cursor]),
         file' = [file EXCEPT !.dynsym[cursor] = d]
  PROVE  /\ FileOK' /\ cursor \in DynSymbols /\ file'.dynsym[cursor] = d
         /\ \A k \in DynSymbols : k # cursor => file'.dynsym[k] = file.dynsym[k]
         /\ \A k \in DynSymbols : file'.dynsym[k] \in PartlyPatched(file0, file.dynsym[k])
         /\ file'.filed = file.filed /\ file'.dynamic = file.dynamic /\ file'.after = file.after
<1>1. cursor \in DynSymbols
  <2>1. cursor \in 1 .. Len(file0.dynsym) + 1 /\ cursor <= Len(file.dynsym)
    BY DEF ControlOK, AtDynsym
  <2>2. Len(file.dynsym) = Len(file0.dynsym) /\ Len(file0.dynsym) \in Nat /\ DynSymbols = 1 .. Len(file0.dynsym)
    BY Shape
  <2> QED
    BY <2>1, <2>2
<1>2. file0 \in ElfFile /\ file \in ElfFile /\ file.dynsym[cursor] \in Symbol /\ DOMAIN file.dynsym = DynSymbols
  BY <1>1, Shape
<1>3. d \in Symbol
  BY <1>2, PatchedIs
<1>4. /\ Alike(file, file') /\ file'.dynsym[cursor] = d
      /\ \A k \in DOMAIN file.dynsym : k # cursor => file'.dynsym[k] = file.dynsym[k]
      /\ file'.filed = file.filed /\ file'.dynamic = file.dynamic /\ file'.after = file.after
  BY <1>1, <1>2, <1>3, SymbolStored
<1>5. ASSUME NEW k \in DynSymbols PROVE file'.dynsym[k] \in PartlyPatched(file0, file.dynsym[k])
  <2>1. CASE k = cursor
    BY <1>4, <2>1
  <2>2. CASE k # cursor
    <3>1. file'.dynsym[k] = file.dynsym[k] /\ file.dynsym[k] \in Symbol
      BY <1>2, <1>4, <2>2, Shape
    <3> QED
      BY <1>2, <3>1, PatchedIs
  <2> QED
    BY <2>1, <2>2
<1> QED
  BY <1>1, <1>2, <1>4, <1>5, AlikeKeepsFile

\* A step of dynappend, whole or not, stores entries and nothing else.
LEMMA EntriesAreStored ==
  ASSUME FileOK, file0' = file0, NEW k \in Spare(file), NEW d \in Dyn,
         NEW f, f = WithEntry(file, k, d), file' \in {f, WithEnd(f, k)}
  PROVE  /\ FileOK' /\ file'.dynsym = file.dynsym /\ file'.filed = file.filed
         /\ k \in DOMAIN file.dynamic /\ file'.dynamic[k] = d
         /\ \A j \in DOMAIN file.dynamic : j \notin {k, k + 1} => file'.dynamic[j] = file.dynamic[j]
         /\ file' = WithEnd(f, k) =>
              IF k < Len(file.dynamic) THEN file'.dynamic[k + 1].tag = DT_NULL /\ file'.after = file.after
              ELSE file'.after.tag = DT_NULL
<1>1. file \in ElfFile /\ k \in DOMAIN file.dynamic /\ DOMAIN file.dynamic \subseteq Nat
  BY Shape, SpareIs
<1>3. /\ Alike(file, f) /\ f.dynamic[k] = d
      /\ \A j \in DOMAIN file.dynamic : j # k => f.dynamic[j] = file.dynamic[j]
      /\ f.filed = file.filed /\ f.dynsym = file.dynsym /\ f.after = file.after
  BY <1>1, EntryStored
<1>4. f \in ElfFile /\ Len(f.dynamic) = Len(file.dynamic)
  BY <1>3 DEF Alike
<1>5. DOMAIN f.dynamic = DOMAIN file.dynamic
  BY <1>1, <1>4, SpareIs
<1> DEFINE g == WithEnd(f, k)
<1>6. /\ Alike(f, g)
      /\ \A j \in DOMAIN f.dynamic : j # k + 1 => g.dynamic[j] = f.dynamic[j]
      /\ IF k < Len(f.dynamic) THEN g.dynamic[k + 1].tag = DT_NULL /\ g.after = f.after
         ELSE g.after.tag = DT_NULL
      /\ g.filed = f.filed /\ g.dynsym = f.dynsym
  BY <1>1, <1>4, <1>5, EndStored
<1>7. k # k + 1
  BY <1>1
<1>8. file' \in {f, g}
  OBVIOUS
<1> HIDE DEF g
<1>9. Alike(file, g)
  BY <1>3, <1>6, AlikeTwice
<1>10. FileOK'
  BY <1>3, <1>8, <1>9, AlikeKeepsFile
<1>11. CASE file' = f /\ file' # g
  BY <1>1, <1>3, <1>10, <1>11 DEF g
<1>12. CASE file' = g
  BY <1>1, <1>3, <1>4, <1>5, <1>6, <1>7, <1>10, <1>12
<1> QED
  BY <1>8, <1>11, <1>12

\* What is stored of an entry is one, whole or not.
LEMMA PartlyStoredIs ==
  ASSUME FileOK, Running \in Invocation, Running.tool = "dynappend", NEW k \in Spare(file)
  PROVE  PartlyStored(file.dynamic[k], Entry(Running)) \subseteq Dyn
<1>1. Entry(Running) \in Dyn
  BY EntryIs
<1>2. file.dynamic[k] \in Dyn
  <2>1. file \in ElfFile /\ k \in DOMAIN file.dynamic
    BY Shape, SpareIs
  <2>2. file.dynamic \in Seq(Dyn)
    BY <2>1 DEF ElfFile
  <2> HIDE DEF Dyn
  <2> QED
    BY <2>1, <2>2
<1> QED
  BY <1>1, <1>2 DEF PartlyStored, Dyn

\* A table half filled is one of the same symbols.
LEMMA PartlyFiledIs ==
  ASSUME FileOK, NEW h \in PartlyFiled(file.dynsym)
  PROVE  h \in Seq(STRING) /\ Len(h) = Len(file.dynsym)
<1>1. /\ DOMAIN file.dynsym = 1 .. Len(file.dynsym) /\ Len(file.dynsym) \in Nat
      /\ \A k \in DOMAIN file.dynsym : file.dynsym[k].name \in STRING
  BY Shape DEF Symbol
<1>2. h \in [1 .. Len(file.dynsym) -> STRING]
  BY <1>1, NoneAssumption DEF PartlyFiled
<1> QED
  BY <1>1, <1>2

\* Every step keeps the shape of the file and moves symbols only as sym2dyn does.
LEMMA FileStep ==
  ASSUME ControlOK, FileOK, [Next]_vars
  PROVE  FileOK' /\ SymbolsMove
<1> USE DEF history
<1>0. /\ Len(file.dynsym) = Len(file0.dynsym) /\ Len(file0.dynsym) \in Nat
      /\ DynSymbols = 1 .. Len(file0.dynsym) /\ cursor \in Nat
  <2>1. cursor \in Nat
    BY DEF ControlOK
  <2> QED
    BY <2>1, Shape
<1>1. ASSUME UNCHANGED <<recipe, recipe0>>, pc' \notin {"dynsym", "refill"}
      PROVE  \A k \in DynSymbols : Passed(k)' => Passed(k)
  BY <1>1 DEF Passed, Finished, Position
<1>2. ASSUME file' = file, file0' = file0 PROVE FileOK'
  BY <1>2, Shape, AlikeKeepsFile
<1>3. CASE UNCHANGED vars
  <2>1. \A k \in DynSymbols : Passed(k)' => Passed(k)
    BY <1>3 DEF vars, Passed, Finished, Position
  <2> QED
    BY <1>2, <1>3, <2>1, SymbolsStay DEF vars
<1>4. CASE Open
  <2>1. \A k \in DynSymbols : Passed(k)' => Passed(k)
    <3>1. \A k \in DynSymbols : ~(k < 1)
      BY <1>0
    <3> QED
      BY <1>4, <3>1 DEF Open, Passed, Finished, Position
  <2> QED
    BY <1>2, <1>4, <2>1, SymbolsStay DEF Open
<1>5. CASE OpenFails \/ Finish
  BY <1>1, <1>2, <1>5, SymbolsStay DEF OpenFails, Finish
<1>6. CASE Patch
  <2>1. /\ AtDynsym /\ pc = "dynsym" /\ cursor' = cursor + 1 /\ pc' = pc
        /\ UNCHANGED <<recipe, recipe0, file0>>
        /\ file' = [file EXCEPT !.dynsym[cursor] = Patched(file, file.dynsym[cursor])]
    BY <1>6 DEF Patch, AtDynsym
  <2>2. cursor \in DynSymbols
    BY <1>0, <2>1 DEF AtDynsym, ControlOK
  <2> DEFINE d == Patched(file0, file.dynsym[cursor])
  <2>3. d \in PartlyPatched(file0, file.dynsym[cursor]) /\ d = Patched(file, file.dynsym[cursor])
    BY <2>2, Shape, PatchedIs
  <2> HIDE DEF d
  <2>4. /\ FileOK' /\ file'.dynsym[cursor] = d
        /\ \A k \in DynSymbols : file'.dynsym[k] \in PartlyPatched(file0, file.dynsym[k])
    BY <2>1, <2>3, SymbolIsStored
  <2>5. ASSUME NEW k \in DynSymbols, Passed(k)'
        PROVE  Passed(k) \/ file'.dynsym[k] = Patched(file0, file.dynsym[k])
    <3>1. k < cursor + 1 => k < cursor \/ k = cursor
      BY <1>0
    <3>2. CASE k = cursor
      BY <2>4, <3>2 DEF d
    <3>3. CASE k # cursor
      BY <2>1, <2>5, <3>1, <3>3 DEF Passed, Finished, Position
    <3> QED
      BY <3>2, <3>3
  <2> QED
    BY <2>4, <2>5 DEF SymbolsMove
<1>7. CASE KeepHash \/ Refill \/ RefillNothing
  <2>1. /\ pc \in {"dynsym", "refill"} /\ Exit(0) /\ recipe # <<>>
        /\ UNCHANGED <<recipe0, file0>>
    BY <1>7 DEF KeepHash, Refill, RefillNothing, ControlOK
  <2>2. cursor > Len(file0.dynsym)
    BY <1>0, <1>7 DEF KeepHash, Refill, RefillNothing, AtDynsym, ControlOK
  <2>3. \A k \in DynSymbols : Passed(k)
    <3>1. \A k \in DynSymbols : k < cursor
      BY <1>0, <2>2
    <3> QED
      BY <2>1, <3>1 DEF Passed
  <2>4. CASE KeepHash \/ RefillNothing
    BY <1>2, <2>1, <2>3, <2>4, SymbolsStay DEF KeepHash, RefillNothing
  <2>5. CASE Refill
    <3>1. file' = [file EXCEPT !.filed = FiledByName(file.dynsym)]
      BY <2>5 DEF Refill
    <3> DEFINE h == FiledByName(file.dynsym)
    <3>2. h \in Seq(STRING) /\ Len(h) = Len(file.dynsym)
      <4>1. /\ DOMAIN file.dynsym = 1 .. Len(file0.dynsym)
            /\ \A k \in DOMAIN file.dynsym : file.dynsym[k].name \in STRING
        BY Shape DEF Symbol
      <4>2. h \in [1 .. Len(file0.dynsym) -> STRING]
        BY <4>1 DEF FiledByName
      <4> HIDE DEF h
      <4> QED
        BY <1>0, <4>2
    <3> HIDE DEF h
    <3>3. file \in ElfFile
      BY Shape
    <3>4. Alike(file, file') /\ file'.dynsym = file.dynsym
      BY <3>1, <3>2, <3>3, TableStored DEF h
    <3> QED
      BY <2>1, <2>3, <3>4, AlikeKeepsFile, SymbolsStay
  <2> QED
    BY <1>7, <2>4, <2>5
<1>8. CASE CannotRehash
  <2>1. UNCHANGED <<file, file0, recipe, recipe0>> /\ pc' = "failed"
    BY <1>8 DEF CannotRehash, Exit
  <2> QED
    BY <1>1, <1>2, <2>1, SymbolsStay
<1>9. CASE ZeroHash
  <2>1. /\ file' = [file EXCEPT !.filed = <<>>]
        /\ UNCHANGED <<file0, recipe, recipe0, cursor>> /\ pc = "dynsym" /\ pc' = "refill"
    BY <1>9 DEF ZeroHash
  <2>4. Alike(file, file') /\ file'.dynsym = file.dynsym
    <3>1. file \in ElfFile
      BY Shape
    <3>2. \E h : h = <<>> /\ h \in Seq(STRING) /\ Len(h) \in {0, Len(file.dynsym)}
      BY NothingFiled
    <3>3. PICK h : h = <<>> /\ h \in Seq(STRING) /\ Len(h) \in {0, Len(file.dynsym)}
      BY <3>2
    <3>4. file' = [file EXCEPT !.filed = h]
      BY <2>1, <3>3
    <3> QED
      BY <3>1, <3>3, <3>4, TableStored
  <2>5. \A k \in DynSymbols : Passed(k)' => Passed(k)
    BY <2>1 DEF Passed, Finished, Position
  <2> QED
    BY <2>1, <2>4, <2>5, AlikeKeepsFile, SymbolsStay
<1>10. CASE ClaimEntry
  <2>1. /\ pc = "append" /\ recipe # <<>> /\ Running.tool = "dynappend"
        /\ UNCHANGED <<recipe0, file0>>
    BY <1>10 DEF ClaimEntry, ControlOK
  <2>2. Running \in Invocation /\ Running = recipe0[Position]
    BY <2>1, RunningIsAt
  <2>3. \A k \in DynSymbols : Passed(k)' => Passed(k)
    <3>1. PICK status \in {0, 1} : Exit(status)
      BY <1>10 DEF ClaimEntry
    <3>2. /\ pc' \notin {"dynsym", "refill"} /\ Position \in Nat
          /\ Position' \in {Position, Position + 1}
      BY <2>1, <3>1, ExitIs
    <3>3. Finished' => Finished
      <4> SUFFICES ASSUME NEW j \in DOMAIN recipe0, j < Position', recipe0[j].tool = "sym2dyn"
                   PROVE  j < Position
        BY <2>1 DEF Finished
      <4>1. j # Position
        BY <2>1, <2>2
      <4>2. j \in Nat
        BY DEF ControlOK
      <4> QED
        BY <3>2, <4>1, <4>2
    <3> QED
      BY <3>2, <3>3 DEF Passed
  <2>4. CASE UNCHANGED file
    BY <1>2, <2>1, <2>3, <2>4, SymbolsStay
  <2>5. CASE ~UNCHANGED file
    <3>1. PICK k \in Spare(file) : file' = WithEnd(WithEntry(file, k, Entry(Running)), k)
      BY <1>10, <2>5 DEF ClaimEntry
    <3>2. Entry(Running) \in Dyn
      BY <2>1, <2>2, EntryIs
    <3>3. FileOK' /\ file'.dynsym = file.dynsym
      BY <2>1, <2>2, <3>1, <3>2, EntriesAreStored
    <3> QED
      BY <2>3, <3>3, SymbolsStay
  <2> QED
    BY <2>4, <2>5
<1>11. CASE Interrupt
  <2>1. UNCHANGED <<recipe, recipe0, file0>> /\ pc' = "start"
    BY <1>11 DEF Interrupt
  <2>2. \A k \in DynSymbols : Passed(k)' => Passed(k)
    BY <1>1, <2>1
  <2>3. CASE file' = file
    BY <1>2, <2>1, <2>2, <2>3, SymbolsStay
  <2>4. CASE AtDynsym /\ \E d \in PartlyPatched(file, file.dynsym[cursor]) :
                           file' = [file EXCEPT !.dynsym[cursor] = d]
    <3>1. PICK d \in PartlyPatched(file0, file.dynsym[cursor]) :
                 file' = [file EXCEPT !.dynsym[cursor] = d]
      BY <2>4, Shape
    <3>2. FileOK' /\ \A k \in DynSymbols : file'.dynsym[k] \in PartlyPatched(file0, file.dynsym[k])
      BY <2>1, <2>4, <3>1, SymbolIsStored
    <3> QED
      BY <2>2, <3>2 DEF SymbolsMove
  <2>5. CASE pc = "append" /\ file' # file
    <3>1. recipe # <<>> /\ Running.tool = "dynappend"
      BY <2>5 DEF ControlOK
    <3>2. Running \in Invocation
      BY <3>1, RunningIsAt
    <3>3. PICK k \in Spare(file) : \E d \in PartlyStored(file.dynamic[k], Entry(Running)) :
            file' \in {WithEntry(file, k, d), WithEnd(WithEntry(file, k, d), k)}
      BY <1>11, <2>5 DEF Interrupt
    <3>4. PICK d \in Dyn : file' \in {WithEntry(file, k, d), WithEnd(WithEntry(file, k, d), k)}
      BY <3>1, <3>2, <3>3, PartlyStoredIs
    <3>5. FileOK' /\ file'.dynsym = file.dynsym
      BY <2>1, <3>4, EntriesAreStored
    <3> QED
      BY <2>2, <3>5, SymbolsStay
  <2>6. CASE pc = "refill" /\ \E h \in PartlyFiled(file.dynsym) : file' = [file EXCEPT !.filed = h]
    <3>1. PICK h \in PartlyFiled(file.dynsym) : file' = [file EXCEPT !.filed = h]
      BY <2>6
    <3>2. h \in Seq(STRING) /\ Len(h) = Len(file.dynsym)
      BY PartlyFiledIs
    <3>3. Alike(file, file') /\ file'.dynsym = file.dynsym
      BY <3>1, <3>2, TableStored, Shape
    <3> QED
      BY <2>1, <2>2, <3>3, AlikeKeepsFile, SymbolsStay
  <2> QED
    BY <1>11, <2>3, <2>4, <2>5, <2>6 DEF Interrupt
<1> QED
  BY <1>3, <1>4, <1>5, <1>6, <1>7, <1>8, <1>9, <1>10, <1>11 DEF Next

----------------------------------------------------------------------------
\* The symbols.

\* A symbol whose name .symtab has once comes to agree with the entry, for good.
LEMMA RedefinedStep ==
  ASSUME FileOK, RedefinedOK, SymbolsMove, file0' = file0
  PROVE  RedefinedOK'
<1> SUFFICES ASSUME NEW k \in DynSymbols, NEW i \in DOMAIN file0.symtab,
                    ByName(file0, file0.dynsym[k].name) = {i}
             PROVE  /\ file'.dynsym[k].name = file0.dynsym[k].name
                    /\ Passed(k)' => Agrees(file'.dynsym[k], file0.symtab[i])
  BY DEF RedefinedOK, DynSymbols
<1> DEFINE d == file.dynsym[k]
           e == file'.dynsym[k]
           s == file0.symtab[i]
<1>1. /\ d \in Symbol /\ s \in Symbol /\ file0 \in ElfFile
      /\ e \in PartlyPatched(file0, d) /\ (Passed(k)' => Passed(k) \/ e = Patched(file0, d))
      /\ d.name = file0.dynsym[k].name /\ (Passed(k) => Agrees(d, s))
  <2>1. file0 \in ElfFile /\ d \in Symbol
    BY Shape
  <2>2. s \in Symbol
    BY <2>1, EntriesAreSymbols
  <2> QED
    BY <2>1, <2>2 DEF SymbolsMove, RedefinedOK
<1>2. Patched(file0, d) = Redefined(d, s)
  BY <1>1, PatchedByName
<1> HIDE DEF d, e, s
<1>3. e.name = d.name
  <2>1. Redefined(d, s).name = d.name
    BY <1>1, RedefinedAgrees
  <2> QED
    BY <1>1, <1>2, <2>1 DEF PartlyPatched
<1>4. ASSUME Agrees(d, s) PROVE e = d
  <2>1. Patched(file0, d) = d
    BY <1>1, <1>2, <1>4, RedefinedAgrees
  <2>2. e \in Symbol
    BY <1>1, PatchedIs
  <2> QED
    BY <1>1, <2>1, <2>2 DEF PartlyPatched, Symbol
<1>5. Passed(k)' => Agrees(e, s)
  BY <1>1, <1>2, <1>4, RedefinedAgrees
<1> QED
  BY <1>1, <1>3, <1>5 DEF d, e, s

\* A symbol that has lost its name comes to have the one at its address, for good.
LEMMA RenamedStep ==
  ASSUME FileOK, RenamedOK, SymbolsMove, file0' = file0
  PROVE  RenamedOK'
<1> SUFFICES ASSUME NEW k \in DynSymbols, NEW i \in DOMAIN file0.symtab,
                    Renamable(file0.dynsym[k], i)
             PROVE  /\ file'.dynsym[k].value = file0.dynsym[k].value
                    /\ file'.dynsym[k].name \in {file0.dynsym[k].name, file0.symtab[i].name}
                    /\ Passed(k)' => file'.dynsym[k].name = file0.symtab[i].name
  BY DEF RenamedOK, DynSymbols, Renamable
<1> DEFINE c == file0.dynsym[k]
           d == file.dynsym[k]
           e == file'.dynsym[k]
           n == file0.symtab[i].name
           p == Patched(file0, d)
<1>1. /\ d \in Symbol /\ file0 \in ElfFile
      /\ e \in PartlyPatched(file0, d) /\ (Passed(k)' => Passed(k) \/ e = p)
      /\ d.value = c.value /\ d.name \in {c.name, n} /\ (Passed(k) => d.name = n)
  BY Shape DEF SymbolsMove, RenamedOK
<1>2. ByAddr(file0, d.value) = {i}
  BY <1>1 DEF Renamable
<1>3. p.value = d.value /\ p.name = n
  <2>1. CASE d.name = n
    BY <1>1, <1>2, <2>1, PatchedInPlace
  <2>2. CASE d.name = c.name
    <3>1. d.name # "" /\ ByName(file0, d.name) = {}
      BY <2>2 DEF Renamable
    <3>2. Beginning(file0, file0.symtab[i].name) = {file0.symtab[i].name}
      BY DEF Renamable
    <3>3. p = [d EXCEPT !.name = n]
      <4> HIDE DEF c, d, n, p
      <4>1. d \in Symbol /\ file0 \in ElfFile
        BY <1>1
      <4>2. Patched(file0, d) = [d EXCEPT !.name = file0.symtab[i].name]
        BY <1>2, <3>1, <3>2, <4>1, PatchedByAddr, Zenon
      <4> QED
        BY <4>2 DEF n, p
    <3> HIDE DEF c, d, p, n
    <3>4. file0.symtab[i] \in Symbol
      BY <1>1, EntriesAreSymbols
    <3>5. n \in STRING
      BY <3>4 DEF n, Symbol
    <3> QED
      BY <1>1, <3>3, <3>5 DEF Symbol
  <2> QED
    BY <1>1, <2>1, <2>2
<1>4. e.value \in {d.value, p.value} /\ e.name \in {d.name, p.name}
  BY <1>1 DEF PartlyPatched
<1> HIDE DEF c, d, e, n, p
<1>5. e.value = c.value /\ e.name \in {c.name, n} /\ (Passed(k)' => e.name = n)
  BY <1>1, <1>3, <1>4
<1> QED
  BY <1>5 DEF c, e, n

\* A symbol stays on its way to what one run makes of it.
LEMMA SettledStep ==
  ASSUME FileOK, SettledOK, SymbolsMove, file0' = file0
  PROVE  SettledOK'
<1> SUFFICES ASSUME Clear, NEW k \in DynSymbols
             PROVE  /\ file'.dynsym[k] \in PartlyPatched(file0, file0.dynsym[k])
                    /\ Passed(k)' => file'.dynsym[k] = Patched(file0, file0.dynsym[k])
  BY DEF SettledOK, DynSymbols, Clear
<1> DEFINE c == file0.dynsym[k]
           d == file.dynsym[k]
           e == file'.dynsym[k]
           p == Patched(file0, c)
<1>1. /\ c \in Symbol /\ d \in Symbol /\ file0 \in ElfFile
      /\ e \in PartlyPatched(file0, d) /\ (Passed(k)' => Passed(k) \/ e = Patched(file0, d))
      /\ d \in PartlyPatched(file0, c) /\ (Passed(k) => d = p)
  BY Shape DEF SymbolsMove, SettledOK
<1>2. /\ \A n \in Names(file0.symtab) : Beginning(file0, n) \subseteq {n}
      /\ \A i \in DOMAIN file0.symtab :
           ByName(file0, c.name) = {} /\ ByAddr(file0, c.value) = {i} => SameSort(c, file0.symtab[i])
  BY DEF Clear
<1> HIDE DEF c, d, e
<1>3. Patched(file0, d) = p
  BY <1>1, <1>2, Settles
<1>4. e \in PartlyPatched(file0, c)
  <2>1. /\ d.name \in {c.name, p.name} /\ d.shndx \in {c.shndx, p.shndx}
        /\ d.value \in {c.value, p.value}
    BY <1>1 DEF PartlyPatched
  <2>2. e \in [name : {d.name, p.name}, shndx : {d.shndx, p.shndx}, value : {d.value, p.value}]
    BY <1>1, <1>3 DEF PartlyPatched
  <2> HIDE DEF p
  <2>3. e \in [name : {c.name, p.name}, shndx : {c.shndx, p.shndx}, value : {c.value, p.value}]
    BY <2>1, <2>2
  <2> QED
    BY <2>3 DEF p, PartlyPatched
<1>5. ASSUME d = p PROVE e = p
  <2>1. Patched(file0, d) = d
    BY <1>3, <1>5
  <2>2. e \in Symbol
    BY <1>1, PatchedIs
  <2> QED
    BY <1>1, <1>5, <2>1, <2>2 DEF PartlyPatched, Symbol
<1> QED
  BY <1>1, <1>3, <1>4, <1>5 DEF c, e
----------------------------------------------------------------------------
\* The hash table.

\* A table by name has a place for each symbol.
LEMMA FiledByNameIs ==
  ASSUME FileOK
  PROVE  /\ FiledByName(file.dynsym) \in Seq(STRING)
         /\ Len(FiledByName(file.dynsym)) = Len(file0.dynsym)
<1>1. /\ DOMAIN file.dynsym = 1 .. Len(file0.dynsym) /\ Len(file0.dynsym) \in Nat
      /\ \A k \in DOMAIN file.dynsym : file.dynsym[k].name \in STRING
  BY Shape DEF Symbol
<1> DEFINE h == FiledByName(file.dynsym)
<1>2. h \in [1 .. Len(file0.dynsym) -> STRING]
  BY <1>1 DEF FiledByName
<1> HIDE DEF h
<1>3. h \in Seq(STRING) /\ Len(h) = Len(file0.dynsym)
  BY <1>1, <1>2
<1> QED
  BY <1>3 DEF h

\* The sizes of the table are there until it is zeroed.
LEMMA SizesKept ==
  ASSUME ControlOK, FileOK, HashOK, [Next]_vars, ~interrupted',
         pc' = "dynsym", must_recompute_hash_tables'
  PROVE  Len(file'.filed) = Len(file0'.dynsym)
<1> USE DEF history
<1>1. CASE UNCHANGED vars
  BY <1>1 , FiledByNameIs DEF vars, HashOK
<1>2. CASE Patch
  <2>1. /\ AtDynsym /\ pc = "dynsym" /\ file0' = file0 /\ ~interrupted
        /\ file' = [file EXCEPT !.dynsym[cursor] = Patched(file, file.dynsym[cursor])]
    BY <1>2 DEF Patch, AtDynsym
  <2>2. Len(file.filed) = Len(file0.dynsym)
    BY <2>1, FiledByNameIs DEF HashOK
  <2>3. file \in ElfFile
    BY Shape
  <2>4. file'.filed = file.filed
    BY <2>1, <2>3 DEF ElfFile
  <2> QED
    BY <2>1, <2>2, <2>4
<1> QED
  BY <1>1, <1>2 DEF Next, Open, OpenFails, KeepHash, CannotRehash, ZeroHash, Refill, RefillNothing,
                    ClaimEntry, Finish, Interrupt, Exit

\* A step that changes a name notes it, before the table is kept.
LEMMA HashStep ==
  ASSUME ControlOK, FileOK, HashOK, [Next]_vars
  PROVE  HashOK'
<1> USE DEF history
<1> SUFFICES ASSUME ~interrupted', pc' \notin {"refill", "failed"},
                    ~(pc' = "dynsym" /\ must_recompute_hash_tables')
             PROVE  (file.filed = FiledByName(file.dynsym))'
  BY SizesKept DEF HashOK
<1>0. ~interrupted /\ interrupted' = interrupted
  BY DEF Next, vars, Open, OpenFails, Patch, KeepHash, CannotRehash, ZeroHash, Refill,
         RefillNothing, ClaimEntry, Finish, Interrupt
<1> DEFINE InOrder == file.filed = FiledByName(file.dynsym)
<1>1. ASSUME UNCHANGED file, pc \notin {"refill", "failed"},
             ~(pc = "dynsym" /\ must_recompute_hash_tables)
      PROVE  InOrder'
  <2>1. InOrder
    BY <1>0, <1>1 DEF HashOK
  <2> QED
    BY <1>1, <2>1
<1>2. CASE UNCHANGED vars
  BY <1>1, <1>2 DEF vars
<1>3. CASE Open \/ Finish
  BY <1>1, <1>3 DEF Open, Finish
<1>4. CASE Patch
  <2>1. /\ AtDynsym /\ pc = "dynsym" /\ pc' = pc /\ file0' = file0
        /\ file' = [file EXCEPT !.dynsym[cursor] = Patched(file, file.dynsym[cursor])]
        /\ must_recompute_hash_tables' =
             (must_recompute_hash_tables \/ IsRenamed(file, file.dynsym[cursor]))
    BY <1>4 DEF Patch, AtDynsym
  <2>2. ~must_recompute_hash_tables /\ ~IsRenamed(file, file.dynsym[cursor])
    BY <2>1
  <2>3. InOrder
    BY <1>0, <2>1, <2>2 DEF HashOK
  <2>4. cursor \in DynSymbols
    <3>1. cursor \in 1 .. Len(file0.dynsym) + 1 /\ cursor <= Len(file.dynsym)
      BY <2>1 DEF ControlOK, AtDynsym
    <3>2. Len(file.dynsym) = Len(file0.dynsym) /\ Len(file0.dynsym) \in Nat /\ DynSymbols = 1 .. Len(file0.dynsym)
      BY Shape
    <3> QED
      BY <3>1, <3>2
  <2> DEFINE d == Patched(file, file.dynsym[cursor])
  <2>5. /\ d \in PartlyPatched(file0, file.dynsym[cursor])
        /\ d.name = file.dynsym[cursor].name
    <3>1. file \in ElfFile /\ file.dynsym[cursor] \in Symbol
      BY <2>4, Shape
    <3> QED
      BY <2>2, <3>1, PatchedIs, Shape
  <2> HIDE DEF d
  <2>6. /\ FileOK' /\ file'.dynsym[cursor] = d /\ file'.filed = file.filed
        /\ \A k \in DynSymbols : k # cursor => file'.dynsym[k] = file.dynsym[k]
    BY <2>1, <2>5, SymbolIsStored DEF d
  <2>7. DOMAIN file'.dynsym = DynSymbols /\ DOMAIN file.dynsym = DynSymbols
    <3>1. file' \in ElfFile /\ Len(file'.dynsym) = Len(file0.dynsym)
      BY <2>1, <2>6 DEF FileOK
    <3>2. DOMAIN file'.dynsym = 1 .. Len(file'.dynsym)
      BY <3>1, EntriesAreSymbols
    <3> QED
      BY <3>1, <3>2, Shape
  <2>8. \A k \in DynSymbols : file'.dynsym[k].name = file.dynsym[k].name
    BY <2>5, <2>6
  <2> QED
    BY <2>3, <2>6, <2>7, <2>8 DEF FiledByName
<1>5. CASE KeepHash
  BY <1>1, <1>5 DEF KeepHash
<1>6. CASE Refill
  <2>1. file' = [file EXCEPT !.filed = FiledByName(file.dynsym)] /\ file \in ElfFile
    BY <1>6, Shape DEF Refill
  <2> QED
    BY <2>1 DEF ElfFile, FiledByName
<1>10. CASE RefillNothing
  <2>1. UNCHANGED file /\ pc = "dynsym" /\ file.filed = <<>>
    BY <1>10 DEF RefillNothing
  <2>2. CASE Len(file.filed) = Len(file0.dynsym)
    <3>1. Len(FiledByName(file.dynsym)) = 0 /\ FiledByName(file.dynsym) \in Seq(STRING)
      BY <2>1, <2>2, FiledByNameIs
    <3>2. FiledByName(file.dynsym) = <<>>
      BY <3>1, EmptySeq
    <3> QED
      BY <2>1, <3>2
  <2> QED
    BY <1>0, <1>1, <2>1, <2>2 DEF HashOK
<1>7. CASE OpenFails \/ CannotRehash \/ ZeroHash
  BY <1>7 DEF OpenFails, CannotRehash, ZeroHash, Exit
<1>8. CASE ClaimEntry
  <2>1. pc = "append" /\ recipe # <<>> /\ Running.tool = "dynappend" /\ file0' = file0
    BY <1>8 DEF ClaimEntry, ControlOK
  <2>2. Running \in Invocation
    BY <2>1, RunningIsAt
  <2>3. CASE UNCHANGED file
    BY <1>1, <2>1, <2>3
  <2>4. CASE ~UNCHANGED file
    <3>1. PICK k \in Spare(file) : file' = WithEnd(WithEntry(file, k, Entry(Running)), k)
      BY <1>8, <2>4 DEF ClaimEntry
    <3>2. Entry(Running) \in Dyn
      BY <2>1, <2>2, EntryIs
    <3>3. file'.filed = file.filed /\ file'.dynsym = file.dynsym
      BY <2>1, <2>2, <3>1, <3>2, EntriesAreStored
    <3>4. InOrder
      BY <1>0, <2>1 DEF HashOK
    <3> QED
      BY <3>3, <3>4
  <2> QED
    BY <2>3, <2>4
<1>9. CASE Interrupt
  BY <1>0, <1>9 DEF Interrupt
<1> QED
  BY <1>2, <1>3, <1>4, <1>5, <1>6, <1>7, <1>8, <1>9, <1>10 DEF Next
----------------------------------------------------------------------------
\* The entries of .dynamic.

\* The entries that the loader sees to begin with end before the first null one.
LEMMA OldIs ==
  ASSUME FileOK
  PROVE  /\ Old \in Nat /\ Old < Len(file0.dynamic) /\ Len(file0.dynamic) \in Nat
         /\ \A j \in 1 .. Old : file0.dynamic[j].tag # DT_NULL
         /\ file0.dynamic[Old + 1].tag = DT_NULL
         /\ Nulls(file0) \subseteq Old + 1 .. Len(file0.dynamic)
<1>1. /\ file0 \in ElfFile /\ file0.dynamic # <<>> /\ Last(file0.dynamic).tag = DT_NULL
  BY DEF FileOK, IsFile
<1>2. file0.dynamic \in Seq(Dyn)
  BY <1>1 DEF ElfFile
<1> DEFINE n == Len(file0.dynamic)
<1>3. n \in Nat /\ n >= 1 /\ DOMAIN file0.dynamic = 1 .. n
  BY <1>1, <1>2
<1>4. n \in Nulls(file0)
  BY <1>1, <1>3 DEF Last, Nulls
<1> DEFINE m == Min(Nulls(file0))
<1>5. m \in Nulls(file0) /\ \A j \in Nulls(file0) : m =< j
  BY <1>1, <1>4, SpareIs
<1> HIDE DEF m
<1>6. m \in 1 .. n /\ file0.dynamic[m].tag = DT_NULL /\ Nulls(file0) \subseteq 1 .. n
  BY <1>3, <1>5 DEF Nulls
<1>7. Old = m - 1
  BY DEF Old, m
<1>8. ASSUME NEW j \in 1 .. Old PROVE file0.dynamic[j].tag # DT_NULL
  <2>1. j \in DOMAIN file0.dynamic /\ ~(m =< j)
    BY <1>3, <1>6, <1>7
  <2> QED
    BY <1>5, <2>1 DEF Nulls
<1>9. m <= n
  BY <1>6
<1>10. Old \in Nat /\ Old < n /\ Old + 1 = m
  BY <1>3, <1>6, <1>7
<1>11. Nulls(file0) \subseteq m .. n
  BY <1>5, <1>6
<1> QED
  BY <1>3, <1>6, <1>8, <1>10, <1>11

\* Places in the recipe before another are finitely many, and one more after each.
LEMMA BeforeIs ==
  ASSUME recipe0 \in Seq(Invocation), NEW n \in Nat
  PROVE  /\ IsFiniteSet(Before(n)) /\ Cardinality(Before(n)) \in Nat
         /\ IsFiniteSet(Appends) /\ Cardinality(Appends) \in Nat
         /\ n \notin Before(n) /\ Before(n) \subseteq Appends
         /\ Appends \subseteq 1 .. Len(recipe0) /\ Len(recipe0) \in Nat
         /\ Before(n + 1) = IF n \in Appends THEN Before(n) \cup {n} ELSE Before(n)
         /\ Cardinality(Before(n + 1)) =
              IF n \in Appends THEN Cardinality(Before(n)) + 1 ELSE Cardinality(Before(n))
<1> HIDE DEF Invocation
<1>1. DOMAIN recipe0 = 1 .. Len(recipe0) /\ Len(recipe0) \in Nat
  OBVIOUS
<1>2. Appends \subseteq 1 .. Len(recipe0) /\ Before(n) \subseteq Appends
  BY <1>1 DEF Appends, Before
<1>3. IsFiniteSet(1 .. Len(recipe0))
  <2>1. 1 \in Int /\ Len(recipe0) \in Int
    BY <1>1
  <2> QED
    BY <2>1, FS_Interval, Zenon
<1>4. IsFiniteSet(Appends) /\ IsFiniteSet(Before(n))
  BY <1>2, <1>3, FS_Subset
<1>5. Cardinality(Appends) \in Nat /\ Cardinality(Before(n)) \in Nat
  BY <1>4, FS_CardinalityType
<1>6. n \notin Before(n)
  BY DEF Before
<1>7. Before(n + 1) = IF n \in Appends THEN Before(n) \cup {n} ELSE Before(n)
  <2>1. \A j \in Appends : j < n + 1 <=> j < n \/ j = n
    <3>1. \A j \in Appends : j \in Nat
      BY <1>2
    <3> QED
      BY <3>1
  <2> QED
    BY <2>1 DEF Before
<1>8. Cardinality(Before(n) \cup {n}) = Cardinality(Before(n)) + 1
  BY <1>4, <1>6, FS_AddElement
<1> QED
  BY <1>1, <1>2, <1>4, <1>5, <1>6, <1>7, <1>8

\* Fewer places come before an earlier place of dynappend.
LEMMA FewerBefore ==
  ASSUME recipe0 \in Seq(Invocation), NEW n \in Nat, NEW j \in Before(n)
  PROVE  /\ j \in Nat /\ Cardinality(Before(j)) \in Nat
         /\ Cardinality(Before(j)) < Cardinality(Before(n))
<1>1. j \in Nat /\ j < n /\ j \in Appends
  <2>1. Appends \subseteq 1 .. Len(recipe0)
    BY BeforeIs
  <2> QED
    BY <2>1 DEF Before
<1>2. /\ IsFiniteSet(Before(n)) /\ Cardinality(Before(n)) \in Nat
      /\ Cardinality(Before(j)) \in Nat /\ j \notin Before(j)
  BY <1>1, BeforeIs
<1>3. Before(j) \subseteq Before(n) /\ Before(j) # Before(n)
  <2>1. \A i \in Appends : i < j => i < n
    <3>1. \A i \in Appends : i \in Nat
      <4>1. Appends \subseteq 1 .. Len(recipe0)
        BY BeforeIs
      <4> QED
        BY <4>1
    <3> QED
      BY <1>1, <3>1
  <2> QED
    BY <1>2, <2>1 DEF Before
<1>4. Cardinality(Before(j)) <= Cardinality(Before(n)) /\ Cardinality(Before(n)) # Cardinality(Before(j))
  BY <1>2, <1>3, FS_Subset
<1> QED
  BY <1>1, <1>2, <1>4

\* An invocation to come of dynappend has not been counted.
LEMMA MoreToCome ==
  ASSUME recipe0 \in Seq(Invocation), NEW n \in Appends
  PROVE  Cardinality(Before(n)) < Cardinality(Appends)
<1>1. n \in Nat
  <2>1. 0 \in Nat
    OBVIOUS
  <2>2. Appends \subseteq 1 .. Len(recipe0)
    BY <2>1, BeforeIs
  <2> QED
    BY <2>2
<1>2. /\ IsFiniteSet(Appends) /\ Before(n) \subseteq Appends /\ n \notin Before(n)
      /\ Cardinality(Appends) \in Nat /\ Cardinality(Before(n)) \in Nat
  BY <1>1, BeforeIs
<1>3. Cardinality(Before(n)) <= Cardinality(Appends) /\ Cardinality(Appends) # Cardinality(Before(n))
  BY <1>2, FS_Subset
<1> QED
  BY <1>2, <1>3

\* What is claimed lies behind what the loader saw to begin with.
LEMMA ClaimIsBehind ==
  ASSUME FileOK, EntriesKept, NEW k \in Spare(file)
  PROVE  k \in 1 .. Len(file.dynamic) /\ Len(file.dynamic) \in Nat /\ k > Old
<1>1. /\ k \in Nulls(file) /\ DOMAIN file.dynamic = 1 .. Len(file.dynamic)
      /\ Len(file.dynamic) \in Nat
  BY Shape, SpareIs
<1>2. k \in 1 .. Len(file.dynamic) /\ file.dynamic[k].tag = DT_NULL
  BY <1>1 DEF Nulls
<1>3. /\ Old \in Nat /\ \A j \in 1 .. Old : file.dynamic[j].tag # DT_NULL
  BY OldIs DEF EntriesKept
<1>4. ~(k \in 1 .. Old)
  BY <1>2, <1>3
<1> QED
  BY <1>1, <1>2, <1>3, <1>4

\* Without an interruption it is the next entry after those in use.
LEMMA ClaimIsNext ==
  ASSUME ControlOK, FileOK, AppendedOK, ~interrupted, pc # "failed", NEW k \in Spare(file)
  PROVE  k = Used + 1 /\ Used \in Nat /\ Used < Len(file.dynamic)
<1>1. recipe0 \in Seq(Invocation) /\ Position \in Nat
  BY DEF ControlOK, Position
<1>2. Used \in Nat
  <2>1. Old \in Nat /\ Cardinality(Before(Position)) \in Nat
    BY <1>1, OldIs, BeforeIs
  <2> QED
    BY <2>1 DEF Used
<1>3. /\ k \in Nulls(file) /\ \A j \in Nulls(file) : k =< j
      /\ DOMAIN file.dynamic = 1 .. Len(file.dynamic) /\ Len(file.dynamic) \in Nat
  <2>1. file \in ElfFile
    BY Shape
  <2>2. k = Min(Nulls(file)) /\ k \in Nulls(file)
    BY <2>1, SpareIs
  <2> QED
    BY <2>1, <2>2, SpareIs
<1>4. k \in 1 .. Len(file.dynamic) /\ file.dynamic[k].tag = DT_NULL
  BY <1>3 DEF Nulls
<1>5. /\ \A j \in 1 .. Used : file.dynamic[j].tag # DT_NULL
      /\ Used < Len(file.dynamic) => file.dynamic[Used + 1].tag = DT_NULL
  BY DEF AppendedOK
<1> HIDE DEF Used
<1>6. k > Used
  BY <1>2, <1>4, <1>5
<1>7. Used < Len(file.dynamic)
  BY <1>2, <1>3, <1>4, <1>6
<1>8. Used + 1 \in Nulls(file)
  BY <1>2, <1>3, <1>5, <1>7 DEF Nulls
<1>9. k =< Used + 1
  BY <1>3, <1>8, Zenon
<1>10. k \in Nat
  BY <1>3, <1>4
<1> QED
  BY <1>2, <1>6, <1>7, <1>9, <1>10

\* The entries stay, and so does the count of them.
LEMMA EntriesStay ==
  ASSUME FileOK, EntriesOK, UNCHANGED <<file0, recipe0, interrupted>>,
         file'.dynamic = file.dynamic, file'.after = file.after,
         pc' # "failed" => pc # "failed" /\ Before(Position)' = Before(Position)
  PROVE  EntriesOK'
<1>1. EntriesKept'
  BY DEF EntriesOK, EntriesKept, Old, Nulls
<1>2. NeighbourKept'
  BY DEF EntriesOK, NeighbourKept, Appends
<1>3. AppendedOK'
  <2> SUFFICES ASSUME ~interrupted', pc' # "failed" PROVE AppendedOK'
    BY DEF AppendedOK
  <2>1. ~interrupted /\ pc # "failed" /\ Before(Position)' = Before(Position)
    OBVIOUS
  <2>2. Used' = Used /\ Old' = Old
    BY <2>1 DEF Used, Old, Nulls
  <2>3. \A j : Before(j)' = Before(j)
    BY DEF Before, Appends
  <2> HIDE DEF Used, Old
  <2>4. /\ Used <= Len(file.dynamic)
        /\ \A k \in 1 .. Used : file.dynamic[k].tag # DT_NULL
        /\ \A j \in Before(Position) :
             file.dynamic[Old + Cardinality(Before(j)) + 1] = Entry(recipe0[j])
        /\ IF Used < Len(file.dynamic) THEN file.dynamic[Used + 1].tag = DT_NULL
           ELSE file.after.tag = DT_NULL
    BY <2>1 DEF EntriesOK, AppendedOK
  <2>5. \A j \in Before(Position)' :
          file'.dynamic[Old' + Cardinality(Before(j)') + 1] = Entry(recipe0'[j])
    BY <2>1, <2>2, <2>3, <2>4
  <2> QED
    BY <2>2, <2>4, <2>5 DEF AppendedOK
<1> QED
  BY <1>1, <1>2, <1>3 DEF EntriesOK

\* An invocation of dynappend claims the next entry.
LEMMA EntriesClaimed ==
  ASSUME ControlOK, FileOK, EntriesOK, ClaimEntry, ~UNCHANGED file
  PROVE  EntriesOK'
<1> USE DEF history
<1>1. /\ pc = "append" /\ recipe # <<>> /\ Running.tool = "dynappend"
      /\ UNCHANGED <<recipe0, file0, interrupted>> /\ Exit(0)
  BY DEF ClaimEntry, ControlOK
<1>2. Running \in Invocation /\ Running = recipe0[Position] /\ Position \in Appends
  BY <1>1, RunningIsAt DEF Appends
<1>3. PICK k \in Spare(file) : file' = WithEnd(WithEntry(file, k, Entry(Running)), k)
  BY DEF ClaimEntry
<1>4. Entry(Running) \in Dyn
  BY <1>1, <1>2, EntryIs
<1>5. /\ file'.dynamic[k] = Entry(Running) /\ FileOK'
      /\ \A j \in DOMAIN file.dynamic : j \notin {k, k + 1} => file'.dynamic[j] = file.dynamic[j]
      /\ IF k < Len(file.dynamic) THEN file'.dynamic[k + 1].tag = DT_NULL /\ file'.after = file.after
         ELSE file'.after.tag = DT_NULL
  BY <1>1, <1>2, <1>3, <1>4, EntriesAreStored
<1>6. /\ k \in 1 .. Len(file.dynamic) /\ Len(file.dynamic) \in Nat /\ k > Old
      /\ DOMAIN file.dynamic = 1 .. Len(file.dynamic)
      /\ Old \in Nat /\ Old < Len(file.dynamic)
      /\ Len(file'.dynamic) = Len(file.dynamic)
      /\ Nulls(file0) \subseteq Old + 1 .. Len(file.dynamic)
  <2>1. file \in ElfFile /\ Len(file.dynamic) = Len(file0.dynamic)
    BY DEF FileOK
  <2>2. Len(file'.dynamic) = Len(file0.dynamic)
    BY <1>1, <1>5 DEF FileOK
  <2>3. k \in 1 .. Len(file.dynamic) /\ Len(file.dynamic) \in Nat /\ k > Old
    BY ClaimIsBehind DEF EntriesOK
  <2> QED
    BY <2>1, <2>2, <2>3, SpareIs, OldIs
<1>7. Old' = Old /\ (\A j : Before(j)' = Before(j)) /\ Appends' = Appends
  BY <1>1 DEF Old, Nulls, Before, Appends
<1> HIDE DEF Old
<1>8. EntriesKept'
  <2>1. ASSUME NEW j \in 1 .. Old PROVE file'.dynamic[j] = file0.dynamic[j]
    <3>1. j \in DOMAIN file.dynamic /\ j \notin {k, k + 1}
      BY <1>6
    <3> QED
      BY <1>5, <3>1 DEF EntriesOK, EntriesKept
  <2> QED
    BY <1>1, <1>7, <2>1 DEF EntriesKept
<1>9. CASE interrupted
  BY <1>1, <1>8, <1>9 DEF EntriesOK, AppendedOK, NeighbourKept
<1>10. CASE ~interrupted
  <2>1. k = Used + 1 /\ Used \in Nat /\ Used < Len(file.dynamic)
    BY <1>1, <1>10, ClaimIsNext DEF EntriesOK
  <2>2. /\ recipe0 \in Seq(Invocation) /\ Position \in Nat /\ Position' = Position + 1
        /\ pc' = "start"
    BY <1>1, ExitIs DEF ControlOK
  <2> DEFINE c == Cardinality(Before(Position))
  <2>3. /\ c \in Nat /\ Cardinality(Before(Position + 1)) = c + 1
        /\ Before(Position + 1) = Before(Position) \cup {Position}
        /\ c < Cardinality(Appends) /\ Cardinality(Appends) \in Nat
    BY <1>2, <2>2, BeforeIs, MoreToCome
  <2>4. Used = Old + c /\ Used' = Used + 1
    <3>1. Before(Position)' = Before(Position + 1)
      BY <1>1, <2>2 DEF Before, Appends
    <3>2. Used' = Old + (c + 1) /\ Used = Old + c
      BY <1>7, <2>3, <3>1 DEF Used
    <3> HIDE DEF c
    <3> QED
      BY <1>6, <2>3, <3>2
  <2>5. NeighbourKept'
    <3> SUFFICES ASSUME Cardinality(Appends) < Cardinality(Nulls(file0))
                 PROVE  file'.after = file0.after
      BY <1>1, <1>7 DEF NeighbourKept, Nulls
    <3>1. Cardinality(Nulls(file0)) <= Len(file.dynamic) - Old /\ Cardinality(Nulls(file0)) \in Nat
      <4> DEFINE I == Old + 1 .. Len(file.dynamic)
      <4>1. Old + 1 \in Int /\ Len(file.dynamic) \in Int /\ ~(Old + 1 > Len(file.dynamic))
        BY <1>6
      <4>2. IsFiniteSet(I) /\ Cardinality(I) = Len(file.dynamic) - (Old + 1) + 1
        BY <4>1, FS_Interval
      <4>3. Nulls(file0) \subseteq I
        BY <1>6
      <4> HIDE DEF I
      <4>4. /\ IsFiniteSet(Nulls(file0)) /\ Cardinality(Nulls(file0)) <= Cardinality(I)
        BY <4>2, <4>3, FS_Subset
      <4>5. Cardinality(Nulls(file0)) \in Nat
        BY <4>4, FS_CardinalityType
      <4> QED
        BY <1>6, <4>2, <4>4, <4>5
    <3> HIDE DEF c
    <3>2. k < Len(file.dynamic)
      BY <1>6, <2>1, <2>3, <2>4, <3>1
    <3>3. file'.after = file.after /\ file.after = file0.after
      BY <1>5, <1>10, <3>2 DEF EntriesOK, NeighbourKept, Nulls
    <3> QED
      BY <3>3
  <2>6. AppendedOK'
    <3>1. /\ \A j \in 1 .. Used : file.dynamic[j].tag # DT_NULL
          /\ \A j \in Before(Position) :
               file.dynamic[Old + Cardinality(Before(j)) + 1] = Entry(recipe0[j])
      BY <1>1, <1>10 DEF EntriesOK, AppendedOK
    <3>2. ASSUME NEW j \in 1 .. Used PROVE file'.dynamic[j] = file.dynamic[j]
      <4>1. j \in DOMAIN file.dynamic /\ j \notin {k, k + 1}
        BY <1>6, <2>1
      <4> QED
        BY <1>5, <4>1
    <3>3. Used' <= Len(file'.dynamic)
      BY <1>6, <2>1, <2>4
    <3>4. ASSUME NEW j \in 1 .. Used + 1 PROVE file'.dynamic[j].tag # DT_NULL
      <4>1. CASE j = Used + 1
        BY <1>1, <1>2, <1>5, <2>1, <4>1, EntryIs
      <4>2. CASE j # Used + 1
        <5>1. j \in 1 .. Used
          BY <2>1, <4>2
        <5> QED
          BY <3>1, <3>2, <5>1
      <4> QED
        BY <4>1, <4>2
    <3>5. ASSUME NEW j \in Before(Position) \cup {Position}
          PROVE  file'.dynamic[Old + Cardinality(Before(j)) + 1] = Entry(recipe0[j])
      <4>1. CASE j = Position
        <5>1. Old + Cardinality(Before(j)) + 1 = k
          BY <1>6, <2>1, <2>3, <2>4, <4>1
        <5> QED
          BY <1>2, <1>5, <4>1, <5>1
      <4>2. CASE j \in Before(Position)
        <5>1. Cardinality(Before(j)) \in Nat /\ Cardinality(Before(j)) < c
          BY <2>2, <4>2, FewerBefore
        <5> DEFINE b == Cardinality(Before(j))
        <5>2. b \in Nat /\ b < c
          BY <5>1
        <5> HIDE DEF b, c
        <5>3. Old + b + 1 \in 1 .. Used
          BY <1>6, <2>3, <2>4, <5>2
        <5>4. file.dynamic[Old + b + 1] = Entry(recipe0[j])
          BY <3>1, <4>2 DEF b
        <5>5. file'.dynamic[Old + b + 1] = Entry(recipe0[j])
          BY <3>2, <5>3, <5>4
        <5> QED
          BY <5>5 DEF b
      <4> QED
        BY <4>1, <4>2
    <3>6. \A j \in Before(Position)' :
            file'.dynamic[Old' + Cardinality(Before(j)') + 1] = Entry(recipe0'[j])
      <4>1. Before(Position)' = Before(Position) \cup {Position}
        BY <1>1, <2>2, <2>3 DEF Before, Appends
      <4> QED
        BY <1>1, <1>7, <3>5, <4>1
    <3>7. IF Used' < Len(file'.dynamic) THEN file'.dynamic[Used' + 1].tag = DT_NULL
          ELSE file'.after.tag = DT_NULL
      BY <1>5, <1>6, <2>1, <2>4
    <3> QED
      BY <2>4, <3>3, <3>4, <3>6, <3>7 DEF AppendedOK
  <2> QED
    BY <1>8, <2>5, <2>6 DEF EntriesOK
<1> QED
  BY <1>9, <1>10

\* No step takes an entry from the loader.
LEMMA EntriesStep ==
  ASSUME ControlOK, FileOK, EntriesOK, [Next]_vars
  PROVE  EntriesOK'
<1> USE DEF history
<1>0. file \in ElfFile /\ recipe0 \in Seq(Invocation)
  BY Shape DEF ControlOK
<1>1. ASSUME UNCHANGED <<recipe, recipe0>> PROVE Before(Position)' = Before(Position)
  BY <1>1 DEF Before, Appends, Position
<1>2. CASE UNCHANGED vars
  BY <1>1, <1>2, EntriesStay DEF vars
<1>3. CASE Open \/ OpenFails \/ Finish
  BY <1>1, <1>3, EntriesStay DEF Open, OpenFails, Finish
<1>4. CASE Patch
  <2>1. /\ AtDynsym /\ pc = "dynsym" /\ pc' = pc /\ UNCHANGED <<recipe, recipe0, file0, interrupted>>
        /\ file' = [file EXCEPT !.dynsym[cursor] = Patched(file, file.dynsym[cursor])]
    BY <1>4 DEF Patch, AtDynsym
  <2>2. file'.dynamic = file.dynamic /\ file'.after = file.after
    BY <1>0, <2>1 DEF ElfFile
  <2> QED
    BY <1>1, <2>1, <2>2, EntriesStay
<1>5. CASE CannotRehash
  BY <1>5, EntriesStay DEF CannotRehash, Exit
<1>6. CASE ZeroHash
  <2>1. /\ pc = "dynsym" /\ pc' = "refill" /\ UNCHANGED <<recipe, recipe0, file0, interrupted>>
        /\ file' = [file EXCEPT !.filed = <<>>]
    BY <1>6 DEF ZeroHash
  <2>2. file'.dynamic = file.dynamic /\ file'.after = file.after
    BY <1>0, <2>1 DEF ElfFile
  <2> QED
    BY <1>1, <2>1, <2>2, EntriesStay
<1>7. CASE KeepHash \/ Refill \/ RefillNothing
  <2>1. /\ Exit(0) /\ recipe # <<>> /\ Running.tool = "sym2dyn" /\ pc # "failed"
        /\ UNCHANGED <<recipe0, file0, interrupted>>
    BY <1>7 DEF KeepHash, Refill, RefillNothing, ControlOK
  <2>2. file'.dynamic = file.dynamic /\ file'.after = file.after
    <3>1. file' = file \/ file' = [file EXCEPT !.filed = FiledByName(file.dynsym)]
      BY <1>7 DEF KeepHash, Refill, RefillNothing
    <3> QED
      BY <1>0, <3>1 DEF ElfFile
  <2>3. Running = recipe0[Position] /\ Position \in Nat /\ Position' = Position + 1
    BY <2>1, RunningIsAt, ExitIs
  <2>4. Position \notin Appends
    BY <2>1, <2>3 DEF Appends
  <2>5. Before(Position + 1) = Before(Position)
    BY <1>0, <2>3, <2>4, BeforeIs
  <2>6. Before(Position)' = Before(Position)
    BY <2>1, <2>3, <2>5 DEF Before, Appends
  <2> QED
    BY <2>1, <2>2, <2>6, EntriesStay
<1>8. CASE ClaimEntry /\ UNCHANGED file
  <2>1. /\ UNCHANGED <<recipe0, file0, interrupted>> /\ pc = "append" /\ recipe # <<>>
    BY <1>8 DEF ClaimEntry, ControlOK
  <2>2. CASE pc' = "failed"
    BY <1>8, <2>1, <2>2, EntriesStay
  <2>3. CASE pc' # "failed"
    <3>1. PICK k \in Spare(file) : file' = WithEnd(WithEntry(file, k, Entry(Running)), k)
      BY <1>8, <2>3 DEF ClaimEntry, Exit
    <3>2. Running \in Invocation /\ Running.tool = "dynappend"
      BY <2>1, RunningIsAt DEF ControlOK
    <3>3. Entry(Running) \in Dyn
      BY <3>2, EntryIs
    <3>4. file'.dynamic[k] = Entry(Running) /\ Entry(Running).tag # DT_NULL
      BY <2>1, <3>1, <3>2, <3>3, EntriesAreStored, EntryIs
    <3>5. file.dynamic[k].tag = DT_NULL
      BY <1>0, SpareIs DEF Nulls
    <3> QED
      BY <1>8, <3>4, <3>5
  <2> QED
    BY <2>2, <2>3
<1>9. CASE ClaimEntry /\ ~UNCHANGED file
  BY <1>9, EntriesClaimed
<1>10. CASE Interrupt
  <2>1. UNCHANGED <<recipe, recipe0, file0>> /\ interrupted'
    BY <1>10 DEF Interrupt
  <2>2. EntriesKept'
    <3> SUFFICES ASSUME NEW j \in 1 .. Old PROVE file'.dynamic[j] = file.dynamic[j]
      BY <2>1 DEF EntriesOK, EntriesKept, Old, Nulls
    <3>1. CASE file' = file
      BY <3>1
    <3>2. CASE AtDynsym /\ \E d \in PartlyPatched(file, file.dynsym[cursor]) :
                             file' = [file EXCEPT !.dynsym[cursor] = d]
      BY <1>0, <3>2 DEF ElfFile
    <3>3. CASE pc = "append" /\ file' # file
      <4>1. recipe # <<>> /\ Running.tool = "dynappend"
        BY <3>3 DEF ControlOK
      <4>2. Running \in Invocation
        BY <4>1, RunningIsAt
      <4>8. PICK k \in Spare(file) : \E d \in PartlyStored(file.dynamic[k], Entry(Running)) :
              file' \in {WithEntry(file, k, d), WithEnd(WithEntry(file, k, d), k)}
        BY <1>10, <3>3 DEF Interrupt
      <4>3. PICK d \in Dyn : file' \in {WithEntry(file, k, d), WithEnd(WithEntry(file, k, d), k)}
        BY <4>1, <4>2, <4>8, PartlyStoredIs
      <4>4. \A i \in DOMAIN file.dynamic : i \notin {k, k + 1} => file'.dynamic[i] = file.dynamic[i]
        BY <2>1, <4>3, EntriesAreStored
      <4>5. k \in 1 .. Len(file.dynamic) /\ k > Old /\ Len(file.dynamic) \in Nat
        BY ClaimIsBehind DEF EntriesOK
      <4>6. DOMAIN file.dynamic = 1 .. Len(file.dynamic) /\ Old \in Nat
        BY <1>0, SpareIs, OldIs
      <4> HIDE DEF Old
      <4>7. j \in DOMAIN file.dynamic /\ j \notin {k, k + 1}
        BY <4>5, <4>6
      <4> QED
        BY <4>4, <4>7
    <3>4. CASE pc = "refill" /\ \E h \in PartlyFiled(file.dynsym) : file' = [file EXCEPT !.filed = h]
      BY <1>0, <3>4 DEF ElfFile
    <3> QED
      BY <1>10, <3>1, <3>2, <3>3, <3>4 DEF Interrupt
  <2> QED
    BY <2>1, <2>2 DEF EntriesOK, AppendedOK, NeighbourKept
<1> QED
  BY <1>2, <1>3, <1>4, <1>5, <1>6, <1>7, <1>8, <1>9, <1>10 DEF Next
----------------------------------------------------------------------------
\* The invariant.

\* A file and a recipe to begin with satisfy it.
LEMMA IInvInit == Init => IInv
<1> SUFFICES ASSUME Init PROVE IInv
  OBVIOUS
<1>1. /\ IsFile(file) /\ recipe \in Seq(Invocation) /\ file0 = file /\ recipe0 = recipe
      /\ pc = "start" /\ cursor = 1 /\ must_recompute_hash_tables = FALSE /\ interrupted = FALSE
  BY JobsAssumption DEF Init, IsRecipe
<1>2. file \in ElfFile /\ file.filed = FiledByName(file.dynsym)
  BY <1>1 DEF IsFile
<1>3. FileOK
  <2>1. file.filed \in Seq(STRING) /\ file.dynsym \in Seq(Symbol)
    BY <1>2 DEF ElfFile
  <2>2. Len(file.filed) = Len(file.dynsym)
    <3>1. DOMAIN file.filed = DOMAIN file.dynsym
      BY <1>2 DEF FiledByName
    <3> HIDE DEF Symbol
    <3> QED
      BY <2>1, <3>1
  <2> QED
    BY <1>1, <1>2, <2>2 DEF FileOK
<1>4. Position = 1 /\ Len(recipe) \in Nat
  <2> HIDE DEF Invocation
  <2> QED
    BY <1>1 DEF Position
<1>5. \A j \in DOMAIN recipe0 : ~(j < Position)
  <2> HIDE DEF Invocation
  <2> QED
    BY <1>1, <1>4
<1>6. ControlOK
  <2>1. Len(file0.dynsym) \in Nat
    BY <1>3, Shape
  <2>2. \A k \in 1 .. Len(recipe) : recipe[k] = recipe0[Len(recipe0) - Len(recipe) + k]
    BY <1>1, <1>4
  <2> HIDE DEF Invocation
  <2>3. cursor \in 1 .. Len(file0.dynsym) + 1 /\ Len(recipe) <= Len(recipe0)
    BY <1>1, <1>4, <2>1
  <2>4. /\ pc \notin {"dynsym", "refill", "append", "done"} /\ pc = "start"
        /\ must_recompute_hash_tables \in BOOLEAN /\ interrupted \in BOOLEAN
        /\ recipe0 \in Seq(Invocation) /\ recipe \in Seq(Invocation)
    BY <1>1
  <2> QED
    BY <2>2, <2>3, <2>4 DEF ControlOK
<1>7. \A k : ~Passed(k)
  BY <1>1, <1>5 DEF Passed, Finished
<1>8. RedefinedOK /\ RenamedOK
  BY <1>1, <1>7 DEF RedefinedOK, RenamedOK
<1>9. SettledOK
  <2> SUFFICES ASSUME NEW k \in DynSymbols
               PROVE  file.dynsym[k] \in PartlyPatched(file0, file0.dynsym[k])
    BY <1>7 DEF SettledOK
  <2>1. file0 \in ElfFile /\ file0.dynsym[k] \in Symbol
    BY <1>3, Shape
  <2> QED
    BY <1>1, <2>1, PatchedIs
<1>10. HashOK
  BY <1>1, <1>2 DEF HashOK
<1>11. EntriesKept /\ NeighbourKept
  BY <1>1 DEF EntriesKept, NeighbourKept
<1>12. AppendedOK
  <2>1. Before(Position) = {}
    BY <1>5 DEF Before, Appends
  <2>2. /\ Old \in Nat /\ Old < Len(file0.dynamic) /\ file0.dynamic[Old + 1].tag = DT_NULL
        /\ \A j \in 1 .. Old : file0.dynamic[j].tag # DT_NULL /\ Len(file0.dynamic) \in Nat
    BY <1>3, OldIs
  <2> HIDE DEF Old
  <2>3. Used = Old
    BY <2>1, <2>2, FS_EmptySet DEF Used
  <2> QED
    BY <1>1, <2>1, <2>2, <2>3 DEF AppendedOK
<1> QED
  BY <1>3, <1>6, <1>8, <1>9, <1>10, <1>11, <1>12 DEF IInv, SymbolsOK, EntriesOK

\* Every step keeps it.
LEMMA IInvStep == IInv /\ [Next]_vars => IInv'
<1> SUFFICES ASSUME IInv, [Next]_vars PROVE IInv'
  OBVIOUS
<1>1. ControlOK /\ FileOK /\ SymbolsOK /\ HashOK /\ EntriesOK
  BY DEF IInv
<1>2. file0' = file0
  BY DEF Next, vars, history, Open, OpenFails, Patch, KeepHash, CannotRehash, ZeroHash, Refill,
         RefillNothing, ClaimEntry, Finish, Interrupt
<1>3. ControlOK'
  BY <1>1, ControlStep
<1>4. FileOK' /\ SymbolsMove
  BY <1>1, FileStep
<1>5. SymbolsOK'
  BY <1>1, <1>2, <1>4, RedefinedStep, RenamedStep, SettledStep DEF SymbolsOK
<1>6. HashOK' /\ EntriesOK'
  BY <1>1, HashStep, EntriesStep
<1> QED
  BY <1>3, <1>4, <1>5, <1>6 DEF IInv

\* It holds throughout.
LEMMA AlwaysIInv == Spec => []IInv
BY IInvInit, IInvStep, PTL DEF Spec
----------------------------------------------------------------------------
\* The theorems.

\* What remains of the recipe is its end.
LEMMA SuffixIs ==
  ASSUME ControlOK
  PROVE  IsSuffix(recipe, recipe0)
<1> DEFINE m == Len(recipe)
           n == Len(recipe0)
           r == Reverse(recipe)
           r0 == Reverse(recipe0)
<1>1. /\ m \in Nat /\ n \in Nat /\ m <= n
      /\ recipe \in Seq(Invocation) /\ recipe0 \in Seq(Invocation)
      /\ \A k \in 1 .. m : recipe[k] = recipe0[n - m + k]
  BY DEF ControlOK
<1>2. /\ r \in Seq(Invocation) /\ r0 \in Seq(Invocation) /\ Len(r) = m /\ Len(r0) = n
      /\ \A k \in 1 .. m : r[k] = recipe[m - k + 1]
      /\ \A k \in 1 .. n : r0[k] = recipe0[n - k + 1]
  <2>1. ASSUME NEW q \in Seq(Invocation)
        PROVE  /\ Reverse(q) \in Seq(Invocation) /\ Len(Reverse(q)) = Len(q)
               /\ \A k \in 1 .. Len(q) : Reverse(q)[k] = q[Len(q) - k + 1]
    BY DEF Reverse
  <2> QED
    BY <1>1, <2>1
<1> HIDE DEF m, n, r, r0
<1>3. ASSUME NEW k \in 1 .. m PROVE r[k] = r0[k]
  <2>1. m - k + 1 \in 1 .. m /\ n - m + (m - k + 1) = n - k + 1 /\ k \in 1 .. n
    BY <1>1
  <2> QED
    BY <1>1, <1>2, <2>1
<1>4. SubSeq(r, 1, m) = SubSeq(r0, 1, m)
  <2>1. /\ SubSeq(r, 1, m) \in Seq(Invocation) /\ SubSeq(r0, 1, m) \in Seq(Invocation)
        /\ Len(SubSeq(r, 1, m)) = m /\ Len(SubSeq(r0, 1, m)) = m
        /\ \A k \in 1 .. m : SubSeq(r, 1, m)[k] = r[k] /\ SubSeq(r0, 1, m)[k] = r0[k]
    BY <1>1, <1>2
  <2> QED
    BY <1>3, <2>1, SeqEqual
<1>5. IsPrefix(r, r0)
  BY <1>1, <1>2, <1>4 DEF IsPrefix
<1> QED
  BY <1>5 DEF IsSuffix, r, r0

\* Everything has its type.
LEMMA TypesFollow ==
  ASSUME IInv
  PROVE  TypeOK
<1>1. ControlOK /\ FileOK
  BY DEF IInv
<1>2. /\ file.symtab = file0.symtab /\ file.dynstr = file0.dynstr /\ file.gnu = file0.gnu
      /\ file \in ElfFile /\ file0 \in ElfFile /\ Len(file.dynsym) = Len(file0.dynsym)
      /\ Len(file.filed) \in {0, Len(file0.dynsym)} /\ Len(file.dynamic) = Len(file0.dynamic)
  BY <1>1 DEF FileOK, IsFile
<1>3. /\ file.dynsym \in Seq(Symbol) /\ file0.dynsym \in Seq(Symbol) /\ file.filed \in Seq(STRING)
      /\ file.dynamic \in Seq(Dyn) /\ file0.dynamic \in Seq(Dyn) /\ file.after \in Dyn
  BY <1>2 DEF ElfFile
<1>4. /\ file.dynsym \in [DOMAIN file0.dynsym -> Symbol]
      /\ file.filed \in {<<>>} \cup [DOMAIN file0.dynsym -> STRING]
      /\ file.dynamic \in [DOMAIN file0.dynamic -> Dyn]
  <2> HIDE DEF Symbol, Dyn
  <2> QED
    BY <1>2, <1>3
<1>5. IsSuffix(recipe, recipe0)
  BY <1>1, SuffixIs
<1>6. /\ pc \in {"start", "dynsym", "refill", "append", "done", "failed"}
      /\ cursor \in 1 .. Len(file.dynsym) + 1
      /\ must_recompute_hash_tables \in BOOLEAN /\ interrupted \in BOOLEAN
  BY <1>1, <1>2 DEF ControlOK
<1> QED
  BY <1>2, <1>3, <1>4, <1>5, <1>6 DEF TypeOK

\* When all is done, every place in the recipe is past.
LEMMA AllIsPast ==
  ASSUME ControlOK, pc = "done"
  PROVE  /\ Position = Len(recipe0) + 1 /\ Len(recipe0) \in Nat
         /\ Before(Position) = Appends
         /\ Appends # DOMAIN recipe0 => Finished
<1> HIDE DEF Invocation
<1>1. recipe = <<>> /\ recipe0 \in Seq(Invocation)
  BY DEF ControlOK
<1>2. Position = Len(recipe0) + 1 /\ Len(recipe0) \in Nat
  BY <1>1 DEF Position
<1>3. \A j \in DOMAIN recipe0 : j < Position
  BY <1>1, <1>2
<1>4. Before(Position) = Appends
  BY <1>3 DEF Before, Appends
<1>5. ASSUME Appends # DOMAIN recipe0 PROVE Finished
  <2>1. PICK j \in DOMAIN recipe0 : recipe0[j].tool # "dynappend"
    BY <1>5 DEF Appends
  <2>2. recipe0[j] \in Invocation
    BY <1>1, <2>1
  <2>3. recipe0[j].tool = "sym2dyn"
    BY <2>1, <2>2 DEF Invocation
  <2> QED
    BY <1>3, <2>3 DEF Finished
<1> QED
  BY <1>2, <1>4, <1>5

\* What has been said of .symtab as it was holds of it as it is.
LEMMA Now ==
  ASSUME FileOK
  PROVE  /\ file.symtab = file0.symtab
         /\ \A x : ByName(file, x) = ByName(file0, x) /\ ByAddr(file, x) = ByAddr(file0, x)
         /\ \A n : Beginning(file, n) = Beginning(file0, n)
         /\ \A d : Patched(file, d) = Patched(file0, d)
         /\ DOMAIN file.dynsym = DynSymbols
<1>1. file.symtab = file0.symtab /\ file.dynstr = file0.dynstr
  BY DEF FileOK
<1> QED
  BY <1>1, SameTables, Shape

\* The symbols that kept their names agree with .symtab at the end.
LEMMA RedefinitionsFollow ==
  ASSUME IInv
  PROVE  RedefinitionsPropagate
<1> SUFFICES ASSUME Sym2dynDone, NEW k \in DOMAIN file.dynsym,
                    NEW same, same = ByName(file, file0.dynsym[k].name), Cardinality(same) = 1
             PROVE  /\ file.dynsym[k].name = file.symtab[Min(same)].name
                    /\ file.dynsym[k].value = file.symtab[Min(same)].value
                    /\ SameSort(file.dynsym[k], file.symtab[Min(same)])
  BY DEF RedefinitionsPropagate
<1>1. ControlOK /\ FileOK /\ RedefinedOK
  BY DEF IInv, SymbolsOK
<1>2. k \in DynSymbols /\ Passed(k) /\ same = ByName(file0, file0.dynsym[k].name)
  BY <1>1, AllIsPast, Now DEF Sym2dynDone, Passed
<1>3. same = {Min(same)} /\ Min(same) \in DOMAIN file0.symtab
  <2>1. file0 \in ElfFile
    BY <1>1, Shape
  <2>2. IsFiniteSet(same) /\ same \subseteq Nat /\ same \subseteq DOMAIN file0.symtab
    BY <1>2, <2>1, FoundInSymtab
  <2>3. same = {Min(same)}
    BY <2>2, Counted
  <2> QED
    BY <2>2, <2>3
<1> DEFINE i == Min(same)
<1>4. i \in DOMAIN file0.symtab /\ ByName(file0, file0.dynsym[k].name) = {i}
  BY <1>2, <1>3
<1>5. file0.symtab[i].name = file0.dynsym[k].name
  <2>1. i \in ByName(file0, file0.dynsym[k].name)
    BY <1>4
  <2> QED
    BY <2>1 DEF ByName
<1> HIDE DEF i
<1>6. /\ file.dynsym[k].name = file0.dynsym[k].name
      /\ Agrees(file.dynsym[k], file0.symtab[i])
  BY <1>1, <1>2, <1>4 DEF RedefinedOK
<1>7. file.symtab = file0.symtab
  BY <1>1, Now
<1> QED
  BY <1>5, <1>6, <1>7 DEF Agrees, i

\* Whatever .symtab says of a symbol it has once, and wherever sym2dyn was
\* interrupted before it came to its end, the dynamic symbol of that name says
\* the same, and no rename takes its name (sym2dyn.c:24-26).
THEOREM Redefinitions_Propagate == Spec => []RedefinitionsPropagate
<1>1. IInv => RedefinitionsPropagate
  BY RedefinitionsFollow
<1> QED
  BY <1>1, AlwaysIInv, PTL

\* The symbols that lost their names have the new ones at the end.
LEMMA RenamesFollow ==
  ASSUME IInv
  PROVE  RenamesPropagate
<1> SUFFICES ASSUME Sym2dynDone, NEW k \in DOMAIN file.dynsym, NEW d, d = file0.dynsym[k],
                    NEW there, there = ByAddr(file, d.value),
                    NEW name, name = file.symtab[Min(there)].name,
                    d.name # "", ByName(file, d.name) = {}, Cardinality(there) = 1,
                    Beginning(file, name) = {name}
             PROVE  file.dynsym[k].name = name
  BY DEF RenamesPropagate
<1>1. ControlOK /\ FileOK /\ RenamedOK
  BY DEF IInv, SymbolsOK
<1>2. k \in DynSymbols /\ Passed(k) /\ file.symtab = file0.symtab
  BY <1>1, AllIsPast, Now DEF Sym2dynDone, Passed
<1>3. there = {Min(there)} /\ Min(there) \in DOMAIN file0.symtab
  <2>1. file0 \in ElfFile /\ there = ByAddr(file0, d.value)
    BY <1>1, Shape, Now
  <2>2. IsFiniteSet(there) /\ there \subseteq Nat /\ there \subseteq DOMAIN file0.symtab
    BY <2>1, FoundInSymtab
  <2>3. there = {Min(there)}
    BY <2>2, Counted
  <2> QED
    BY <2>2, <2>3
<1> DEFINE i == Min(there)
<1>4. Renamable(d, i) /\ i \in DOMAIN file0.symtab /\ name = file0.symtab[i].name
  <2>1. /\ ByName(file0, d.name) = {} /\ ByAddr(file0, d.value) = there
        /\ Beginning(file0, name) = {name}
    BY <1>1, Now
  <2> QED
    BY <1>2, <1>3, <2>1 DEF Renamable
<1> HIDE DEF i
<1> QED
  BY <1>1, <1>2, <1>4 DEF RenamedOK

\* A symbol whose name .symtab no longer has takes the name that alone marks its
\* address, wherever sym2dyn was interrupted and run again (sym2dyn.c:28-31):
\* once it has that name, the next run finds it under it and lets it be.
THEOREM Renames_Propagate == Spec => []RenamesPropagate
<1>1. IInv => RenamesPropagate
  BY RenamesFollow
<1> QED
  BY <1>1, AlwaysIInv, PTL

\* Every symbol is at the end what one run makes of it.
LEMMA RerunFollows ==
  ASSUME IInv
  PROVE  RerunSettles
<1>1. ControlOK /\ FileOK /\ SettledOK
  BY DEF IInv, SymbolsOK
<1>2. /\ file.symtab = file0.symtab /\ DOMAIN file.dynsym = DynSymbols
      /\ \A x : ByName(file, x) = ByName(file0, x) /\ ByAddr(file, x) = ByAddr(file0, x)
      /\ \A n : Beginning(file, n) = Beginning(file0, n)
      /\ \A d : Patched(file, d) = Patched(file0, d)
  BY <1>1, Now
<1>3. Sym2dynDone => \A k : Passed(k)
  BY <1>1, AllIsPast DEF Sym2dynDone, Passed
<1>4. /\ \A n \in Names(file.symtab) : Beginning(file, n) \subseteq {n}
      /\ \A k \in DOMAIN file.dynsym, i \in DOMAIN file.symtab :
           LET d == file0.dynsym[k]  s == file.symtab[i]
           IN  ByName(file, d.name) = {} /\ ByAddr(file, d.value) = {i} => SameSort(d, s)
      => Clear
  BY <1>2 DEF Clear
<1>5. Clear /\ Sym2dynDone => \A k \in DynSymbols : file.dynsym[k] = Patched(file0, file0.dynsym[k])
  BY <1>1, <1>3 DEF SettledOK
<1> QED
  BY <1>2, <1>4, <1>5 DEF RerunSettles

\* sym2dyn settles: whatever was interrupted and run again, a file is left as one
\* run over the first file leaves it, where names and sorts are clear (19-20).
THEOREM Rerun_Settles == Spec => []RerunSettles
<1>1. IInv => RerunSettles
  BY RerunFollows
<1> QED
  BY <1>1, AlwaysIInv, PTL

\* The hash table of a file on which nothing was interrupted files every dynamic
\* symbol under the name it now has (sym2dyn.c:289-299): no rename goes unnoted.
THEOREM Found_ByName == Spec => []FoundByName
<1>1. IInv => FoundByName
  BY DEF IInv, HashOK, FoundByName
<1> QED
  BY <1>1, AlwaysIInv, PTL

\* What the loader reads, of a file whose first n entries are no null entries.
LEMMA ViewIs ==
  ASSUME NEW f \in ElfFile, NEW n \in 0 .. Len(f.dynamic),
         \A j \in 1 .. n : f.dynamic[j].tag # DT_NULL
  PROVE  /\ LoaderView(f) \in Seq(Dyn) /\ Len(LoaderView(f)) >= n /\ n \in Nat
         /\ \A j \in 1 .. n : LoaderView(f)[j] = f.dynamic[j]
         /\ (IF n < Len(f.dynamic) THEN f.dynamic[n + 1].tag = DT_NULL
             ELSE f.after.tag = DT_NULL) => Len(LoaderView(f)) = n
<1> DEFINE memory == Append(f.dynamic, f.after)
           null == {k \in DOMAIN memory : memory[k].tag = DT_NULL}
           len == Len(f.dynamic)
<1> HIDE DEF Dyn
<1>1. f.dynamic \in Seq(Dyn) /\ f.after \in Dyn
  BY DEF ElfFile
<1>2. /\ memory \in Seq(Dyn) /\ Len(memory) = len + 1 /\ len \in Nat
      /\ memory[len + 1] = f.after /\ \A j \in 1 .. len : memory[j] = f.dynamic[j]
      /\ DOMAIN memory = 1 .. len + 1
  BY <1>1
<1>3. LoaderView(f) = IF null = {} THEN memory ELSE SubSeq(memory, 1, Min(null) - 1)
  BY DEF LoaderView
<1> HIDE DEF memory
<1>4. null \subseteq 1 .. len + 1 /\ null \subseteq Nat
  BY <1>2
<1>5. ASSUME NEW k \in null PROVE k > n
  <2>1. k \in 1 .. len + 1 /\ memory[k].tag = DT_NULL
    BY <1>2
  <2>2. ~(k \in 1 .. n)
    <3>1. ASSUME k \in 1 .. n PROVE FALSE
      <4>1. k \in 1 .. len
        BY <1>2, <3>1
      <4> QED
        BY <1>2, <2>1, <3>1, <4>1
    <3> QED
      BY <3>1
  <2> QED
    BY <1>2, <2>1, <2>2
<1>6. n + 1 \in null => null # {} /\ Min(null) = n + 1
  <2> SUFFICES ASSUME n + 1 \in null PROVE Min(null) = n + 1
    OBVIOUS
  <2> HIDE DEF null
  <2>1. Min(null) \in null /\ Min(null) =< n + 1
    BY <1>4, MinIsMember
  <2>2. Min(null) > n /\ Min(null) \in Nat
    BY <1>4, <1>5, <2>1
  <2> QED
    BY <2>1, <2>2
<1>7. (IF n < len THEN f.dynamic[n + 1].tag = DT_NULL ELSE f.after.tag = DT_NULL) => n + 1 \in null
  <2>1. CASE n < len
    <3>1. n + 1 \in 1 .. len /\ n + 1 \in 1 .. len + 1
      BY <1>2, <2>1
    <3> QED
      BY <1>2, <2>1, <3>1
  <2>2. CASE ~(n < len)
    <3>1. n = len
      BY <1>2, <2>2
    <3> QED
      BY <1>2, <2>2, <3>1
  <2> QED
    BY <2>1, <2>2
<1>8. CASE null = {}
  <2>1. LoaderView(f) = memory
    BY <1>3, <1>8
  <2> HIDE DEF null
  <2>2. ASSUME NEW j \in 1 .. n PROVE memory[j] = f.dynamic[j]
    <3>1. j \in 1 .. len
      BY <1>2
    <3> QED
      BY <1>2, <3>1
  <2> QED
    BY <1>2, <1>7, <1>8, <2>1, <2>2
<1>9. CASE null # {}
  <2> DEFINE m == Min(null) - 1
  <2>1. Min(null) \in null
    <3> HIDE DEF null
    <3> QED
      BY <1>4, <1>9, MinIsMember
  <2>2. Min(null) > n /\ Min(null) \in 1 .. len + 1
    <3>1. Min(null) > n
      BY <1>5, <2>1
    <3>2. Min(null) \in 1 .. len + 1
      BY <1>4, <2>1
    <3> QED
      BY <3>1, <3>2
  <2>3. LoaderView(f) = SubSeq(memory, 1, m)
    BY <1>3, <1>9
  <2>4. m \in 0 .. len /\ m >= n
    BY <1>2, <2>2
  <2>5. n + 1 \in null => m = n
    <3>1. n + 1 \in null => m = (n + 1) - 1
      BY <1>6
    <3> QED
      BY <3>1
  <2> HIDE DEF null, m
  <2>6. /\ SubSeq(memory, 1, m) \in Seq(Dyn) /\ Len(SubSeq(memory, 1, m)) = m
        /\ \A j \in 1 .. m : SubSeq(memory, 1, m)[j] = memory[j]
    BY <1>2, <2>4
  <2>7. ASSUME NEW j \in 1 .. n PROVE LoaderView(f)[j] = f.dynamic[j]
    <3>1. j \in 1 .. m /\ j \in 1 .. len
      BY <1>2, <2>4
    <3> QED
      BY <1>2, <2>3, <2>6, <3>1
  <2> QED
    BY <1>2, <1>7, <2>3, <2>4, <2>5, <2>6, <2>7
<1> QED
  BY <1>8, <1>9

\* The loader sees the old entries, and then the appended ones.
LEMMA EntriesFollow ==
  ASSUME IInv
  PROVE  EntriesInOrder
<1> DEFINE v0 == LoaderView(file0)
           v == LoaderView(file)
<1>1. ControlOK /\ FileOK /\ EntriesKept /\ AppendedOK
  BY DEF IInv, EntriesOK
<1>2. /\ file \in ElfFile /\ file0 \in ElfFile /\ Len(file.dynamic) = Len(file0.dynamic)
  BY <1>1, Shape DEF FileOK
<1>3. /\ Old \in 0 .. Len(file.dynamic) /\ Old \in 0 .. Len(file0.dynamic) /\ Old \in Nat
      /\ \A j \in 1 .. Old : file0.dynamic[j].tag # DT_NULL
      /\ \A j \in 1 .. Old : file.dynamic[j] = file0.dynamic[j]
      /\ IF Old < Len(file0.dynamic) THEN file0.dynamic[Old + 1].tag = DT_NULL
         ELSE file0.after.tag = DT_NULL
  <2>1. /\ Old \in Nat /\ Old < Len(file0.dynamic) /\ Len(file0.dynamic) \in Nat
        /\ \A j \in 1 .. Old : file0.dynamic[j].tag # DT_NULL
        /\ file0.dynamic[Old + 1].tag = DT_NULL
    BY <1>1, OldIs
  <2> HIDE DEF Old
  <2> QED
    BY <1>1, <1>2, <2>1 DEF EntriesKept
<1> HIDE DEF Old
<1>4. v0 \in Seq(Dyn) /\ Len(v0) = Old /\ \A j \in 1 .. Old : v0[j] = file0.dynamic[j]
  BY <1>2, <1>3, ViewIs
<1>5. v \in Seq(Dyn) /\ Len(v) >= Old /\ \A j \in 1 .. Old : v[j] = file0.dynamic[j]
  <2>1. \A j \in 1 .. Old : file.dynamic[j].tag # DT_NULL
    BY <1>3
  <2>2. v \in Seq(Dyn) /\ Len(v) >= Old /\ \A j \in 1 .. Old : v[j] = file.dynamic[j]
    BY <1>2, <1>3, <2>1, ViewIs
  <2> QED
    BY <1>3, <2>2
<1>6. IsPrefix(v0, v)
  <2> HIDE DEF v0, v
  <2>1. /\ SubSeq(v0, 1, Old) \in Seq(Dyn) /\ SubSeq(v, 1, Old) \in Seq(Dyn)
        /\ Len(SubSeq(v0, 1, Old)) = Old /\ Len(SubSeq(v, 1, Old)) = Old
        /\ \A j \in 1 .. Old : SubSeq(v0, 1, Old)[j] = v0[j] /\ SubSeq(v, 1, Old)[j] = v[j]
    <3> HIDE DEF Dyn
    <3> QED
      BY <1>3, <1>4, <1>5
  <2>2. SubSeq(v0, 1, Old) = SubSeq(v, 1, Old)
    <3> HIDE DEF Dyn
    <3>1. \A j \in 1 .. Old : SubSeq(v0, 1, Old)[j] = SubSeq(v, 1, Old)[j]
      BY <1>4, <1>5, <2>1
    <3> QED
      BY <2>1, <3>1, SeqEqual
  <2> QED
    BY <1>4, <1>5, <2>2 DEF IsPrefix
<1>7. ASSUME pc = "done", ~interrupted
      PROVE  /\ Len(v) = Len(v0) + Cardinality(Appends)
             /\ \A j \in Appends :
                  v[Len(v0) + Cardinality({i \in Appends : i <= j})] = Entry(recipe0[j])
  <2>1. /\ Before(Position) = Appends /\ Position \in Nat /\ recipe0 \in Seq(Invocation)
    <3>1. recipe0 \in Seq(Invocation)
      BY <1>1 DEF ControlOK
    <3>2. Before(Position) = Appends /\ Position = Len(recipe0) + 1 /\ Len(recipe0) \in Nat
      BY <1>1, <1>7, AllIsPast
    <3> QED
      BY <3>1, <3>2
  <2>2. Used = Old + Cardinality(Appends) /\ Used \in Nat /\ Cardinality(Appends) \in Nat
    <3>1. Cardinality(Appends) \in Nat
      BY <2>1, BeforeIs
    <3> QED
      BY <1>3, <2>1, <3>1 DEF Used
  <2>3. /\ Used <= Len(file.dynamic)
        /\ \A k \in 1 .. Used : file.dynamic[k].tag # DT_NULL
        /\ \A j \in Appends :
             file.dynamic[Old + Cardinality(Before(j)) + 1] = Entry(recipe0[j])
        /\ IF Used < Len(file.dynamic) THEN file.dynamic[Used + 1].tag = DT_NULL
           ELSE file.after.tag = DT_NULL
    BY <1>1, <1>7, <2>1 DEF AppendedOK
  <2>4. Used \in 0 .. Len(file.dynamic)
    <3>1. file.dynamic \in Seq(Dyn)
      BY <1>2 DEF ElfFile
    <3>2. Len(file.dynamic) \in Nat
      BY <3>1
    <3> QED
      BY <2>2, <2>3, <3>2
  <2>5. Len(v) = Used /\ \A k \in 1 .. Used : v[k] = file.dynamic[k]
    BY <1>2, <2>3, <2>4, ViewIs
  <2> HIDE DEF v, v0
  <2>6. ASSUME NEW j \in Appends
        PROVE  v[Len(v0) + Cardinality({i \in Appends : i <= j})] = Entry(recipe0[j])
    <3> DEFINE b == Cardinality(Before(j))
    <3>1. j \in Nat /\ b \in Nat /\ b < Cardinality(Appends)
      BY <2>1, FewerBefore
    <3>2. Cardinality({i \in Appends : i <= j}) = b + 1
      <4>1. {i \in Appends : i <= j} = Before(j + 1)
        <5>1. \A i \in Appends : i \in Nat
          BY <2>1, FewerBefore
        <5>2. \A i \in Appends : i <= j <=> i < j + 1
          BY <3>1, <5>1
        <5> QED
          BY <5>2 DEF Before
      <4> QED
        BY <2>1, <3>1, <4>1, BeforeIs
    <3>3. file.dynamic[Old + b + 1] = Entry(recipe0[j])
      BY <2>3
    <3> HIDE DEF b
    <3>4. Old + b + 1 \in 1 .. Used /\ Len(v0) + (b + 1) = Old + b + 1
      BY <1>3, <1>4, <2>2, <3>1
    <3> QED
      BY <2>5, <3>2, <3>3, <3>4
  <2>7. Len(v) = Len(v0) + Cardinality(Appends)
    BY <1>4, <2>2, <2>5
  <2> QED
    BY <2>6, <2>7
<1> QED
  BY <1>6, <1>7 DEF EntriesInOrder

\* At every moment the file is well formed and the loader sees the entries it saw
\* at first, followed at the end by those appended, in order, and never at the
\* cost of what follows .dynamic while an entry is spare (dynappend.c:93-109).
THEOREM Dynamic_Sound == Spec => []DynamicSound
<1>1. IInv => DynamicSound
  BY TypesFollow, EntriesFollow DEF IInv, EntriesOK, DynamicSound
<1> QED
  BY <1>1, AlwaysIInv, PTL
=============================================================================
