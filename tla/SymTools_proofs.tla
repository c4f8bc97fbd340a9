-------------------------- MODULE SymTools_proofs --------------------------
(***************************************************************************)
(* The tools lose no definition but those they are asked for, move no      *)
(* symbol, tie symbols to sections of their names, and leave as undefined  *)
(* what the linker can resolve, whatever the file and the recipe and       *)
(* wherever they are interrupted; and a recipe whose tools were            *)
(* interrupted and run again leaves what it leaves undisturbed.            *)
(***************************************************************************)
EXTENDS SymTools, Integers, SequenceTheorems, WellFoundedInduction, TLAPS

----------------------------------------------------------------------------
\* The inductive invariant, in parts.

Sections == DOMAIN file0.shdrs
Symbols == DOMAIN file0.symtab

\* The place of the running tool in the recipe.
Position == Len(recipe0) - Len(recipe) + 1

RunningIs(tool) == recipe # <<>> /\ Running.tool = tool
Finished(tool) == \E j \in DOMAIN recipe0 : j < Position /\ recipe0[j].tool = tool

\* The tools write what they are to write, in the passes they have.
ControlOK ==
  /\ recipe0 \in Seq(Invocation) /\ recipe \in Seq(Invocation)
  /\ Len(recipe) <= Len(recipe0)
  /\ \A k \in 1 .. Len(recipe) : recipe[k] = recipe0[Len(recipe0) - Len(recipe) + k]
  /\ pc \in {"start", "symbols", "sections", "header", "done", "failed"}
  /\ cursor \in Nat /\ spoilt \in BOOLEAN
  /\ pc = "symbols" => cursor # 0 /\ recipe # <<>> /\ Running.tool # "rel2data"
  /\ pc = "sections" => RunningIs("rel2data") \/ RunningIs("pie2rel")
  /\ pc = "header" => RunningIs("pie2rel")
  /\ pc = "done" => recipe = <<>>

\* Nothing but types, addresses and symbols is written.
FileOK ==
  /\ \E n \in 0 .. LORESERVE - 1 : file0 \in File(n) /\ file \in File(n)
  /\ file0.shdrs[0].name = ""
  /\ Len(file.symtab) = Len(file0.symtab)
  /\ \A i \in Sections :
       /\ file.shdrs[i].name = file0.shdrs[i].name
       /\ file.shdrs[i].alloc = file0.shdrs[i].alloc
       /\ file.shdrs[i].addr \in {0, file0.shdrs[i].addr}
       /\ ~file.shdrs[i].alloc => file.shdrs[i].addr = 0

\* sym2und was asked for a symbol of this name, and abs2und.
SymAsked(s) == s.name # "" /\ s.name \in Asked("sym2und")
AbsAsked(s) == s.name # "" /\ s.shndx = ABS /\ {NoName, s.name} \cap Asked("abs2und") # {}

\* How a symbol differs from what it was.
SymbolOK(s, t) ==
  /\ t.name = s.name
  /\ t.shndx # s.shndx =>
       \/ t.shndx = UNDEF /\ (SymAsked(s) \/ AbsAsked(s))
       \/ s.shndx = ABS /\ t.shndx \in Sections \ {0}

SymbolsOK == \A k \in Symbols : SymbolOK(file0.symtab[k], file.symtab[k])

\* The sections that have a symbol's name.
Homes(s) == {i \in Sections : file0.shdrs[i].name # "" /\ file0.shdrs[i].name = s.name}

\* A symbol tied to a section had the value 0 and has its name, and abs2sectsym
\* has come to run.
IsTied(s, t) == s.shndx = ABS /\ t.shndx \notin {ABS, UNDEF}
TiedOK ==
  \A k \in Symbols :
    LET s == file0.symtab[k]  t == file.symtab[k]
    IN  IsTied(s, t) =>
          /\ RunningIs("abs2sectsym") \/ Finished("abs2sectsym")
          /\ s.value = 0 /\ t.shndx \in Homes(s)
          /\ ~spoilt => t.shndx = Max(Homes(s))
          /\ Before("pie2rel", "abs2sectsym") => t.value = 0

\* Tool i makes an undefined symbol of t.
Gone(i, t) ==
  /\ t.name # ""
  /\ \/ i.tool = "sym2und" /\ t.name = i.sym
     \/ i.tool = "abs2und" /\ i.sym \in {NoName, t.name} /\ t.shndx = ABS

\* The running tool has yet to make this symbol undefined, or is in the middle.
Doomed(k) ==
  /\ recipe # <<>> /\ Gone(Running, file.symtab[k]) /\ pc \in {"start", "symbols", "failed"}
  /\ pc = "symbols" => k >= cursor

\* sym2und has yet to rewrite this symbol, or is in the middle of it.
Awaited(k) ==
  /\ RunningIs("sym2und") /\ pc \in {"start", "symbols", "failed"}
  /\ file.symtab[k].name # "" /\ Running.sym = file.symtab[k].name
  /\ pc = "symbols" => k >= cursor

\* An undefined local symbol is one that sym2und has begun to write.
ReferencesOK ==
  ~spoilt =>
    \A k \in Symbols :
      LET t == file.symtab[k]
      IN  t.shndx = UNDEF /\ t.name # "" /\ t.info.bind = "LOCAL" => Awaited(k)

\* Once undprot has passed a symbol it stays protected.
Unbindable(t) == t.vis \in {"HIDDEN", "PROTECTED"}
PassedBy(tool, k) == RunningIs(tool) /\ pc = "symbols" /\ k < cursor
ProtectedOK ==
  Before("sym2und", "undprot") /\ Before("abs2und", "undprot") =>
    \A k \in Symbols :
      /\ file.symtab[k].shndx = UNDEF
      /\ Finished("undprot") \/ PassedBy("undprot", k)
      => Unbindable(file.symtab[k])

\* An absolute symbol has lost its value only to a tool that makes it undefined,
\* and with the value 0 and a section's name it is one that abs2sectsym has not
\* come to.
AbsoluteOK ==
  \A k \in Symbols :
    LET s == file0.symtab[k]  t == file.symtab[k]
    IN  s.shndx = ABS /\ t.shndx = ABS =>
          /\ t.value = s.value \/ (t.value = 0 /\ Doomed(k))
          /\ s.value = 0 /\ Homes(s) # {} =>
               ~Finished("abs2sectsym") /\ ~PassedBy("abs2sectsym", k)

\* pie2rel has moved this symbol and not yet dropped every address.
Moved(k) == RunningIs("pie2rel") /\ (pc \in {"sections", "header"} \/ PassedBy("pie2rel", k))

\* pie2rel leaves no address and no symbol without a section.
AddressesOK ==
  /\ \A i \in Sections :
       \/ Finished("pie2rel") \/ pc = "header"
       \/ pc = "sections" /\ RunningIs("pie2rel") /\ i < cursor
       => file.shdrs[i].addr = 0
  /\ \A k \in Symbols :
       InSection(file.symtab[k]) /\ (Finished("pie2rel") \/ Moved(k))
       => file.symtab[k].shndx \in Sections

\* A symbol is at its place: by its address as long as the section has its, by
\* its offset once the section's address is gone or about to go.
Placed(k) ==
  LET s == file0.symtab[k]  t == file.symtab[k]
  IN  IF file.shdrs[s.shndx].addr = 0 \/ Moved(k)
      THEN (t.value + file0.shdrs[s.shndx].addr) % Word = s.value
      ELSE t.value = s.value

PlacesOK ==
  ~spoilt /\ pc # "failed" =>
    \A k \in Symbols :
      LET s == file0.symtab[k]
      IN  /\ InSection(s) /\ s.shndx \in Sections
          /\ file.symtab[k].shndx = s.shndx /\ ~Awaited(k)
          => Placed(k)

IInv == /\ ControlOK /\ FileOK /\ SymbolsOK /\ TiedOK /\ AbsoluteOK /\ ProtectedOK
        /\ AddressesOK /\ PlacesOK

----------------------------------------------------------------------------
\* Numbers.

\* The greatest of some natural numbers up to n is one of them.
LEMMA MaxIsMember ==
  ASSUME NEW n \in Nat, NEW S, S \subseteq 0 .. n, S # {}
  PROVE  Max(S) \in S
<1> DEFINE T == {n - x : x \in S}
<1>1. T \subseteq Nat /\ T # {}
  <2>1. PICK x \in S : TRUE
    OBVIOUS
  <2>2. n - x \in T
    OBVIOUS
  <2>3. \A z \in S : n - z \in Nat
    OBVIOUS
  <2> QED
    BY <2>2, <2>3
<1> HIDE DEF T
<1>2. PICK y \in T : \A z \in T : ~(<<z, y>> \in OpToRel(<, Nat))
  BY <1>1, NatLessThanWellFounded, WFMin
<1>3. PICK x \in S : y = n - x
  BY DEF T
<1>4. \A z \in S : x >= z
  <2> SUFFICES ASSUME NEW z \in S PROVE ~(n - z < n - x)
    OBVIOUS
  <2>1. n - z \in T /\ n - z \in Nat /\ n - x \in Nat
    BY DEF T
  <2>2. n - z < n - x => <<n - z, n - x>> \in OpToRel(<, Nat)
    BY <2>1 DEF OpToRel
  <2> QED
    BY <1>2, <1>3, <2>1, <2>2
<1>5. \E m \in S : \A z \in S : m >= z
  BY <1>4
<1> QED
  BY <1>5, Zenon DEF Max

\* Numbers below Word do not differ by a multiple of it.
LEMMA NoFactor ==
  ASSUME NEW x \in Int, NEW r \in 0 .. Word - 1, NEW s \in 0 .. Word - 1,
         Word * x = s - r
  PROVE  s = r
<1> USE WordAssumption
<1>1. CASE x >= 1
  <2>1. Word * x >= Word
    BY <1>1
  <2> QED
    BY <2>1
<1>2. CASE x =< -1
  <2>1. Word * x =< -Word
    BY <1>2
  <2> QED
    BY <2>1
<1>3. CASE x = 0
  BY <1>3
<1> QED
  BY <1>1, <1>2, <1>3

\* An address is what it is modulo the number of addresses, and once around.
LEMMA AddressesWrap ==
  ASSUME NEW a \in 0 .. Word - 1
  PROVE  a % Word = a /\ (a + Word) % Word = a
<1> USE WordAssumption
<1>1. ASSUME NEW b \in Nat, NEW c \in {0, 1}, b = a + Word * c
      PROVE  b % Word = a
  <2> DEFINE q == b \div Word
             r == b % Word
  <2>1. b = Word * q + r /\ q \in Int /\ r \in 0 .. Word - 1
    BY <1>1
  <2> HIDE DEF q, r
  <2>2. Word * (q - c) = Word * q - Word * c /\ q - c \in Int
    BY <2>1
  <2>3. Word * (q - c) = a - r
    BY <1>1, <2>1, <2>2
  <2>4. a = r
    BY <2>1, <2>2, <2>3, NoFactor
  <2> QED
    BY <2>4 DEF r
<1>2. a \in Nat /\ a + Word \in Nat
  OBVIOUS
<1> QED
  BY <1>1, <1>2

\* What pie2rel makes of a value, and the address again.
LEMMA RebasedAddsUp ==
  ASSUME NEW v \in 0 .. Word - 1, NEW a \in 0 .. Word - 1
  PROVE  /\ (v + Word - a) % Word \in 0 .. Word - 1
         /\ (((v + Word - a) % Word) + a) % Word = v
<1> USE WordAssumption
<1>1. CASE v < a
  <2>1. (v + Word - a) % Word = v + Word - a
    BY <1>1, AddressesWrap
  <2>2. v + Word - a \in 0 .. Word - 1 /\ v + Word - a + a = v + Word
    BY <1>1
  <2> QED
    BY <2>1, <2>2, AddressesWrap
<1>2. CASE v >= a
  <2>1. v - a \in 0 .. Word - 1 /\ v + Word - a = (v - a) + Word
    BY <1>2
  <2>2. (v + Word - a) % Word = v - a
    BY <2>1, AddressesWrap
  <2>3. v - a + a = v
    OBVIOUS
  <2> QED
    BY <2>1, <2>2, <2>3, AddressesWrap
<1> QED
  BY <1>1, <1>2
----------------------------------------------------------------------------
\* What a tool may write to a symbol.

\* What tool i leaves of symbol t when it has finished with it.
IsRewritten(i, f, t, r) ==
  /\ r \in Symbol /\ r.name = t.name
  /\ Gone(i, t) => /\ r.shndx = UNDEF /\ r.value = 0 /\ r.info.bind = "GLOBAL"
                   /\ r.vis = t.vis
  /\ ~Gone(i, t) =>
       /\ r.info = t.info
       /\ \/ r.shndx = t.shndx
          \/ i.tool = "abs2sectsym" /\ r.shndx \in Namesakes(f, t)
       /\ i.tool = "abs2sectsym" /\ Namesakes(f, t) # {} => r.shndx = Max(Namesakes(f, t))
       /\ i.tool # "pie2rel" => r.value = t.value
       /\ i.tool = "pie2rel" /\ InSection(t) =>
            r.value = (t.value + Word - f.shdrs[t.shndx].addr) % Word
       /\ i.tool = "pie2rel" => r.shndx = t.shndx
       /\ i.tool = "pie2rel" /\ ~InSection(t) => r.value = t.value
       /\ r.vis # t.vis => i.tool = "undprot" /\ r.vis = "PROTECTED"
       /\ i.tool = "undprot" /\ t.shndx = UNDEF => Unbindable(r)

\* The sections of a symbol's name are sections, the last of them too.
LEMMA NamesakesAreSections ==
  ASSUME NEW n \in 0 .. LORESERVE - 1, NEW f \in File(n), NEW t \in Symbol
  PROVE  /\ Namesakes(f, t) \subseteq 0 .. n
         /\ Namesakes(f, t) # {} =>
              /\ t.shndx = ABS /\ t.value = 0
              /\ Max(Namesakes(f, t)) \in Namesakes(f, t)
         /\ \A i \in Namesakes(f, t) : f.shdrs[i].name # "" /\ f.shdrs[i].name = t.name
<1>1. Namesakes(f, t) \subseteq 0 .. n /\ n \in Nat
  <2>1. DOMAIN f.shdrs = 0 .. n
    BY DEF File
  <2>2. Namesakes(f, t) \subseteq DOMAIN f.shdrs
    BY DEF Namesakes
  <2>3. n \in Nat
    BY DEF LORESERVE
  <2> QED
    BY <2>1, <2>2, <2>3
<1>2. Namesakes(f, t) # {} => Max(Namesakes(f, t)) \in Namesakes(f, t)
  BY <1>1, MaxIsMember
<1> QED
  BY <1>1, <1>2 DEF Namesakes

\* Each tool by itself: what it leaves of a symbol.
LEMMA RewrittenIs ==
  ASSUME NEW n \in 0 .. LORESERVE - 1, NEW f \in File(n), NEW t \in Symbol,
         NEW i \in Invocation, i.tool # "rel2data", AssertionHolds(i, f, t)
  PROVE  IsRewritten(i, f, t, RewrittenSymbol(i, f, t))
<1> SUFFICES ASSUME NEW r, r = RewrittenSymbol(i, f, t) PROVE IsRewritten(i, f, t, r)
  OBVIOUS
<1>0. i.tool \in Tools /\ Word \in Nat \ {0}
  BY WordAssumption DEF Invocation
<1>a. ASSUME NEW u, u = Undefined(t)
      PROVE  /\ u \in Symbol /\ u.name = t.name /\ u.shndx = UNDEF
             /\ u.value = 0 /\ u.info.bind = "GLOBAL" /\ u.vis = t.vis
  <2> DEFINE info == [bind |-> "GLOBAL", type |-> "NOTYPE"]
  <2>1. info \in Info /\ info.bind = "GLOBAL"
    BY DEF Info, SymbolTypes
  <2>2. u = [t EXCEPT !.shndx = 0, !.size = 0, !.value = 0, !.info = info]
    BY <1>a DEF Undefined, UNDEF
  <2> HIDE DEF info
  <2>3. 0 \in 0 .. Word - 1
    BY <1>0
  <2> QED
    BY <2>1, <2>2, <2>3 DEF Symbol, UNDEF
<1>1. CASE i.tool = "sym2und"
  <2>1. r = IF Gone(i, t) THEN Undefined(t) ELSE t
    BY <1>1 DEF RewrittenSymbol, Sym2und, Gone
  <2> QED
    BY <1>1, <1>a, <2>1 DEF IsRewritten
<1>2. CASE i.tool = "abs2und"
  <2>1. r = IF Gone(i, t) THEN Undefined(t) ELSE t
    BY <1>2 DEF RewrittenSymbol, Abs2und, Gone
  <2> QED
    BY <1>2, <1>a, <2>1 DEF IsRewritten
<1>3. CASE i.tool = "abs2sectsym"
  <2>1. r = Abs2sectsym(f, t)
    BY <1>3 DEF RewrittenSymbol
  <2>2. CASE Namesakes(f, t) = {}
    BY <1>3, <2>1, <2>2 DEF Abs2sectsym, IsRewritten, Gone
  <2>3. CASE Namesakes(f, t) # {}
    <3>1. r = [t EXCEPT !.shndx = Max(Namesakes(f, t))]
      BY <2>1, <2>3 DEF Abs2sectsym
    <3> DEFINE m == Max(Namesakes(f, t))
    <3>2. m \in Namesakes(f, t) /\ m \in Nat
      <4>1. m \in Namesakes(f, t) /\ Namesakes(f, t) \subseteq 0 .. n
        BY <2>3, NamesakesAreSections
      <4> QED
        BY <4>1
    <3> HIDE DEF m
    <3>3. /\ r \in Symbol /\ r.name = t.name /\ r.shndx = m /\ r.info = t.info
          /\ r.value = t.value /\ r.vis = t.vis
      BY <3>1, <3>2 DEF Symbol, m
    <3>4. r.shndx = Max(Namesakes(f, t))
      BY <3>3 DEF m
    <3> QED
      BY <1>3, <3>2, <3>3, <3>4 DEF IsRewritten, Gone
  <2> QED
    BY <2>2, <2>3
<1>4. CASE i.tool = "undprot"
  <2>1. r = Undprot(t)
    BY <1>4 DEF RewrittenSymbol
  <2> QED
    BY <1>4, <2>1 DEF Undprot, Symbol, Visibilities, IsRewritten, Gone, Unbindable
<1>5. CASE i.tool = "pie2rel"
  <2>1. r = Rebased(f, t)
    BY <1>5 DEF RewrittenSymbol
  <2>2. CASE ~InSection(t)
    BY <1>5, <2>1, <2>2 DEF Rebased, IsRewritten, Gone
  <2>3. CASE InSection(t)
    <3> DEFINE v == (t.value + Word - f.shdrs[t.shndx].addr) % Word
    <3>1. r = [t EXCEPT !.value = v]
      BY <2>1, <2>3 DEF Rebased
    <3>2. v \in 0 .. Word - 1
      <4>1. t.shndx \in 0 .. n
        BY <1>5, <2>3 DEF AssertionHolds, File
      <4>2. f.shdrs[t.shndx].addr \in 0 .. Word - 1 /\ t.value \in 0 .. Word - 1
        BY <4>1 DEF File, Shdr, Symbol
      <4> QED
        BY <4>2, RebasedAddsUp
    <3>3. v = (t.value + Word - f.shdrs[t.shndx].addr) % Word
      OBVIOUS
    <3> HIDE DEF v
    <3>4. /\ r \in Symbol /\ r.name = t.name /\ r.shndx = t.shndx /\ r.info = t.info
          /\ r.value = v /\ r.vis = t.vis
      BY <3>1, <3>2 DEF Symbol
    <3> QED
      BY <1>5, <2>3, <3>3, <3>4 DEF IsRewritten, Gone
  <2> QED
    BY <2>2, <2>3
<1> QED
  BY <1>0, <1>1, <1>2, <1>3, <1>4, <1>5 DEF Tools

\* What symbol t may be found to be while tool i writes to it, or afterwards.
MayWrite(i, f, t, u) ==
  /\ u \in Symbol /\ u.name = t.name
  /\ u.shndx # t.shndx =>
       \/ u.shndx = UNDEF /\ Gone(i, t)
       \/ i.tool = "abs2sectsym" /\ u.shndx \in Namesakes(f, t)
  /\ u.value # t.value =>
       \/ u.value = 0 /\ Gone(i, t)
       \/ /\ i.tool = "pie2rel" /\ InSection(t)
          /\ u.value = (t.value + Word - f.shdrs[t.shndx].addr) % Word
  /\ u.info # t.info => Gone(i, t)
  /\ u.vis # t.vis => i.tool = "undprot" /\ u.vis = "PROTECTED"

\* What an interruption leaves of a symbol, and what a whole rewriting does.
LEMMA PartlyWrittenIs ==
  ASSUME NEW n \in 0 .. LORESERVE - 1, NEW f \in File(n), NEW t \in Symbol,
         NEW i \in Invocation, i.tool # "rel2data", AssertionHolds(i, f, t)
  PROVE  /\ \A u \in PartlyWritten(i, f, t) : MayWrite(i, f, t, u)
         /\ MayWrite(i, f, t, RewrittenSymbol(i, f, t))
<1> DEFINE r == RewrittenSymbol(i, f, t)
<1>1. IsRewritten(i, f, t, r)
  BY RewrittenIs
<1>2. ASSUME NEW u \in PartlyWritten(i, f, t)
      PROVE  /\ u \in Symbol /\ u.name = t.name
             /\ \/ u.shndx \in {t.shndx, r.shndx}
                \/ i.tool = "abs2sectsym" /\ u.shndx \in Namesakes(f, t)
             /\ u.value \in {t.value, r.value}
             /\ u.info \in {t.info, r.info} /\ u.vis \in {t.vis, r.vis}
  <2> DEFINE sections == {t.shndx, r.shndx}
                 \cup (IF i.tool = "abs2sectsym" THEN Namesakes(f, t) ELSE {})
  <2>1. u \in [name : {t.name}, shndx : sections, value : {t.value, r.value},
               size : {t.size, r.size}, info : {t.info, r.info}, vis : {t.vis, r.vis}]
    BY DEF PartlyWritten
  <2> HIDE DEF r, sections
  <2>2. r \in Symbol
    BY <1>1 DEF IsRewritten
  <2>3. \/ u.shndx \in {t.shndx, r.shndx}
        \/ i.tool = "abs2sectsym" /\ u.shndx \in Namesakes(f, t)
    BY <2>1 DEF sections
  <2>4. Namesakes(f, t) \subseteq Nat
    <3>1. Namesakes(f, t) \subseteq 0 .. n
      BY NamesakesAreSections
    <3> QED
      BY <3>1
  <2>5. u.name = t.name
    BY <2>1
  <2>6. u \in Symbol
    BY <2>1, <2>2, <2>3, <2>4 DEF Symbol
  <2> QED
    BY <2>1, <2>3, <2>5, <2>6
<1> HIDE DEF r
<1>3. ASSUME NEW u \in PartlyWritten(i, f, t) PROVE MayWrite(i, f, t, u)
  BY <1>1, <1>2 DEF IsRewritten, MayWrite
<1>4. MayWrite(i, f, t, r)
  BY <1>1 DEF IsRewritten, MayWrite
<1> QED
  BY <1>3, <1>4 DEF r
----------------------------------------------------------------------------
\* Steps.

\* The file in types and numbers.
LEMMA FileIs ==
  ASSUME FileOK
  PROVE  \E n \in 0 .. LORESERVE - 1 :
           /\ n \in Nat /\ n < LORESERVE
           /\ file0 \in File(n) /\ file \in File(n)
           /\ Sections = 0 .. n /\ DOMAIN file.shdrs = 0 .. n
           /\ Symbols = 1 .. Len(file.symtab) /\ DOMAIN file.symtab = 1 .. Len(file.symtab)
           /\ Len(file.symtab) \in Nat
           /\ \A k \in Symbols : file.symtab[k] \in Symbol /\ file0.symtab[k] \in Symbol
           /\ \A i \in 0 .. n : file.shdrs[i] \in Shdr /\ file0.shdrs[i] \in Shdr
<1>1. PICK n \in 0 .. LORESERVE - 1 : file0 \in File(n) /\ file \in File(n)
  BY DEF FileOK
<1>2. n \in Nat /\ n < LORESERVE
  BY DEF LORESERVE
<1>3. ASSUME NEW f \in File(n)
      PROVE  /\ DOMAIN f.shdrs = 0 .. n /\ f.symtab \in Seq(Symbol)
             /\ \A i \in 0 .. n : f.shdrs[i] \in Shdr
  BY DEF File
<1>4. ASSUME NEW s \in Seq(Symbol)
      PROVE  DOMAIN s = 1 .. Len(s) /\ Len(s) \in Nat /\ \A k \in 1 .. Len(s) : s[k] \in Symbol
  OBVIOUS
<1>5. file.symtab \in Seq(Symbol) /\ file0.symtab \in Seq(Symbol)
      /\ Len(file.symtab) = Len(file0.symtab)
  BY <1>1, <1>3 DEF FileOK
<1>6. /\ Symbols = 1 .. Len(file.symtab) /\ DOMAIN file.symtab = 1 .. Len(file.symtab)
      /\ Len(file.symtab) \in Nat
      /\ \A k \in Symbols : file.symtab[k] \in Symbol /\ file0.symtab[k] \in Symbol
  BY <1>4, <1>5 DEF Symbols
<1>7. Sections = 0 .. n
  BY <1>1, <1>3 DEF Sections
<1> QED
  BY <1>1, <1>2, <1>3, <1>6, <1>7

\* A symbol is written: the others and the sections stay.
LEMMA SymbolStored ==
  ASSUME NEW n, NEW f \in File(n), NEW c \in 1 .. Len(f.symtab), NEW u \in Symbol,
         NEW g, g = [f EXCEPT !.symtab[c] = u]
  PROVE  /\ g \in File(n) /\ g.shdrs = f.shdrs /\ Len(g.symtab) = Len(f.symtab)
         /\ \A k \in 1 .. Len(f.symtab) :
              g.symtab[k] = IF k = c THEN u ELSE f.symtab[k]
<1> DEFINE s == [f.symtab EXCEPT ![c] = u]
<1>1. f.symtab \in Seq(Symbol)
  BY DEF File
<1>2. /\ s \in Seq(Symbol) /\ Len(s) = Len(f.symtab)
      /\ \A k \in 1 .. Len(f.symtab) : s[k] = IF k = c THEN u ELSE f.symtab[k]
  BY <1>1
<1>3. g = [f EXCEPT !.symtab = s]
  OBVIOUS
<1> HIDE DEF s
<1>4. g.symtab = s /\ g.shdrs = f.shdrs /\ g \in File(n)
  BY <1>2, <1>3 DEF File
<1> QED
  BY <1>2, <1>4

\* A section header is written: the others and the symbols stay.
LEMMA ShdrStored ==
  ASSUME NEW n \in Nat, NEW f \in File(n), NEW c \in 0 .. n, NEW h \in Shdr,
         NEW g, g = [f EXCEPT !.shdrs[c] = h]
  PROVE  /\ g \in File(n) /\ g.symtab = f.symtab
         /\ \A i \in 0 .. n : g.shdrs[i] = IF i = c THEN h ELSE f.shdrs[i]
<1> DEFINE s == [f.shdrs EXCEPT ![c] = h]
<1>1. f.shdrs \in [0 .. n -> Shdr]
  BY DEF File
<1>2. s \in [0 .. n -> Shdr] /\ \A i \in 0 .. n : s[i] = IF i = c THEN h ELSE f.shdrs[i]
  BY <1>1
<1>3. g = [f EXCEPT !.shdrs = s]
  OBVIOUS
<1> HIDE DEF s
<1>4. g.shdrs = s /\ g.symtab = f.symtab /\ g \in File(n)
  BY <1>2, <1>3 DEF File
<1> QED
  BY <1>2, <1>4

\* What becomes of a section header.
LEMMA RewrittenShdrIs ==
  ASSUME NEW i \in Invocation, NEW h \in Shdr
  PROVE  LET r == RewrittenShdr(i, h)
         IN  /\ r \in Shdr /\ r.name = h.name /\ r.alloc = h.alloc
             /\ r.addr = h.addr \/ (i.tool = "pie2rel" /\ r.addr = 0)
             /\ i.tool = "pie2rel" /\ h.alloc => r.addr = 0
<1> SUFFICES ASSUME NEW r, r = RewrittenShdr(i, h)
             PROVE  /\ r \in Shdr /\ r.name = h.name /\ r.alloc = h.alloc
                    /\ r.addr = h.addr \/ (i.tool = "pie2rel" /\ r.addr = 0)
                    /\ i.tool = "pie2rel" /\ h.alloc => r.addr = 0
  BY Zenon
<1>0. 0 \in 0 .. Word - 1
  BY WordAssumption
<1>1. CASE i.tool = "rel2data" /\ h.type \in {"REL", "RELA"}
  <2>1. r = [h EXCEPT !.type = "PROGBITS"]
    BY <1>1 DEF RewrittenShdr
  <2> QED
    BY <1>1, <2>1 DEF Shdr, SectionTypes
<1>2. CASE i.tool = "pie2rel" /\ h.alloc
  <2>1. r = [h EXCEPT !.addr = 0]
    BY <1>2 DEF RewrittenShdr
  <2> QED
    BY <1>0, <1>2, <2>1 DEF Shdr
<1>3. CASE ~(i.tool = "rel2data" /\ h.type \in {"REL", "RELA"}) /\ ~(i.tool = "pie2rel" /\ h.alloc)
  BY <1>3 DEF RewrittenShdr
<1> QED
  BY <1>1, <1>2, <1>3

\* The running tool is in the recipe.
LEMMA RunningIsInRecipe ==
  ASSUME ControlOK, recipe # <<>>
  PROVE  /\ Position \in DOMAIN recipe0 /\ Running = recipe0[Position]
         /\ Running \in Invocation /\ Position \in Nat
         /\ DOMAIN recipe0 = 1 .. Len(recipe0)
<1>1. /\ Len(recipe) \in Nat /\ Len(recipe0) \in Nat /\ DOMAIN recipe0 = 1 .. Len(recipe0)
      /\ Len(recipe) >= 1 /\ Running = recipe[1]
  BY DEF ControlOK, Running
<1>2. Position \in 1 .. Len(recipe0)
  BY <1>1 DEF ControlOK, Position
<1>3. recipe[1] = recipe0[Position]
  BY <1>1 DEF ControlOK, Position
<1>4. recipe0[Position] \in Invocation
  BY <1>2 DEF ControlOK
<1> QED
  BY <1>1, <1>2, <1>3, <1>4

\* One symbol is written, in part or as a whole.
Writes(u) ==
  LET t == file.symtab[cursor]
  IN  /\ pc = "symbols" /\ cursor \in Symbols /\ AssertionHolds(Running, file, t)
      /\ file' = [file EXCEPT !.symtab[cursor] = u]
      /\ MayWrite(Running, file, t, u)
      /\ UNCHANGED <<recipe, history>>
      /\ \/ /\ pc' = "symbols" /\ cursor' = cursor + 1 /\ spoilt' = spoilt
            /\ IsRewritten(Running, file, t, u)
         \/ pc' = "start" /\ cursor' = cursor /\ spoilt' = (spoilt \/ Spoils(file'))

\* An interruption that does not come in the middle of a symbol.
BetweenSymbols ==
  Interrupt /\ ~(AtSymbol /\ AssertionHolds(Running, file, file.symtab[cursor]))

\* Such an interruption leaves the symbols and the section headers as they are,
\* and all of the file unless pie2rel has come to the header.
LEMMA BetweenIs ==
  ASSUME FileOK, BetweenSymbols
  PROVE  /\ pc \in {"symbols", "sections", "header"} /\ pc' = "start"
         /\ UNCHANGED <<recipe, cursor, history>>
         /\ spoilt' = (spoilt \/ Spoils(file'))
         /\ \A n \in 0 .. LORESERVE - 1 : file \in File(n) => file' \in File(n)
         /\ file'.symtab = file.symtab /\ file'.shdrs = file.shdrs
         /\ pc # "header" => file' = file
<1>1. file' \in IF pc = "header" THEN PartlyDoctored(file) ELSE {file}
  BY Zenon DEF BetweenSymbols, Interrupt
<1>2. PICK n \in 0 .. LORESERVE - 1 : file \in File(n)
  BY FileIs
<1>3. CASE pc = "header"
  <2>1. PICK t \in {file.type, "REL"}, m \in {file.phnum, 0} :
          file' = [file EXCEPT !.type = t, !.phnum = m]
    BY <1>1, <1>3 DEF PartlyDoctored
  <2>2. ASSUME NEW k \in 0 .. LORESERVE - 1, file \in File(k) PROVE file' \in File(k)
    BY <2>1, <2>2 DEF File
  <2>3. file'.symtab = file.symtab /\ file'.shdrs = file.shdrs
    BY <1>2, <2>1 DEF File
  <2> QED
    BY <1>3, <2>2, <2>3 DEF BetweenSymbols, Interrupt
<1>4. CASE pc # "header"
  BY <1>1, <1>4 DEF BetweenSymbols, Interrupt
<1> QED
  BY <1>3, <1>4

\* Every step writes a symbol or is one of those that write none.
LEMMA StepIs ==
  ASSUME ControlOK, FileOK, Next
  PROVE  \/ \E u \in Symbol : Writes(u)
         \/ Open \/ OpenFails \/ AssertionFails \/ RewriteSection \/ NextPass \/ Close
         \/ Finish \/ BetweenSymbols
<1>1. PICK n \in 0 .. LORESERVE - 1 :
        /\ file \in File(n) /\ Symbols = 1 .. Len(file.symtab)
        /\ \A k \in Symbols : file.symtab[k] \in Symbol
  BY FileIs
<1>2. AtSymbol => /\ cursor \in Symbols /\ file.symtab[cursor] \in Symbol
                  /\ pc = "symbols" /\ Running \in Invocation /\ Running.tool # "rel2data"
  <2> SUFFICES ASSUME AtSymbol
               PROVE  /\ cursor \in Symbols /\ pc = "symbols" /\ Running \in Invocation
                      /\ Running.tool # "rel2data"
    BY <1>1
  <2>1. pc = "symbols" /\ recipe # <<>> /\ Running.tool # "rel2data"
    BY DEF AtSymbol, ControlOK
  <2>2. cursor \in 1 .. Len(file.symtab)
    <3>1. file.symtab \in Seq(Symbol)
      BY <1>1 DEF File
    <3> QED
      BY <2>1, <3>1 DEF AtSymbol, ControlOK
  <2> QED
    BY <1>1, <2>1, <2>2, RunningIsInRecipe
<1> DEFINE t == file.symtab[cursor]
           r == RewrittenSymbol(Running, file, t)
<1>3. ASSUME AtSymbol, AssertionHolds(Running, file, t)
      PROVE  /\ \A u \in PartlyWritten(Running, file, t) : MayWrite(Running, file, t, u)
             /\ MayWrite(Running, file, t, r) /\ IsRewritten(Running, file, t, r)
  BY <1>1, <1>2, <1>3, PartlyWrittenIs, RewrittenIs
<1>4. CASE RewriteSymbol
  <2>1. AtSymbol /\ AssertionHolds(Running, file, t)
    BY <1>4 DEF RewriteSymbol
  <2>2. file' = [file EXCEPT !.symtab[cursor] = r]
    BY <1>4 DEF RewriteSymbol
  <2>3. r \in Symbol /\ MayWrite(Running, file, t, r) /\ IsRewritten(Running, file, t, r)
    BY <1>3, <2>1 DEF MayWrite
  <2> HIDE DEF r
  <2>4. Writes(r)
    BY <1>2, <1>4, <2>1, <2>2, <2>3 DEF Writes, RewriteSymbol
  <2> QED
    BY <2>3, <2>4
<1>5. CASE Interrupt /\ ~BetweenSymbols
  <2>1. AtSymbol /\ AssertionHolds(Running, file, t)
    BY <1>5 DEF BetweenSymbols
  <2>2. PICK u \in PartlyWritten(Running, file, t) : file' = [file EXCEPT !.symtab[cursor] = u]
    BY <1>5, <2>1 DEF Interrupt
  <2>3. u \in Symbol /\ MayWrite(Running, file, t, u)
    BY <1>3, <2>1 DEF MayWrite
  <2>4. Writes(u)
    BY <1>2, <1>5, <2>1, <2>2, <2>3 DEF Writes, Interrupt
  <2> QED
    BY <2>3, <2>4
<1> QED
  BY <1>4, <1>5 DEF Next

\* What is written, and what is not.
LEMMA WritesIs ==
  ASSUME ControlOK, FileOK, NEW u \in Symbol, Writes(u)
  PROVE  /\ file'.shdrs = file.shdrs /\ file0' = file0
         /\ recipe' = recipe /\ recipe0' = recipe0
         /\ \A k \in Symbols : file'.symtab[k] = IF k = cursor THEN u ELSE file.symtab[k]
         /\ Running \in Invocation
<1>1. PICK n \in 0 .. LORESERVE - 1 :
        file \in File(n) /\ Symbols = 1 .. Len(file.symtab)
  BY FileIs
<1>2. cursor \in 1 .. Len(file.symtab) /\ file' = [file EXCEPT !.symtab[cursor] = u]
  BY <1>1 DEF Writes
<1>3. /\ file'.shdrs = file.shdrs
      /\ \A k \in 1 .. Len(file.symtab) : file'.symtab[k] = IF k = cursor THEN u ELSE file.symtab[k]
  BY <1>1, <1>2, SymbolStored
<1>4. recipe # <<>>
  BY DEF Writes, ControlOK
<1> QED
  BY <1>1, <1>3, <1>4, RunningIsInRecipe DEF Writes, history

\* The tools run in the order of the recipe, in their passes.
LEMMA ControlStep == ControlOK /\ FileOK /\ [Next]_vars => ControlOK'
<1> SUFFICES ASSUME ControlOK, FileOK, [Next]_vars PROVE ControlOK'
  OBVIOUS
<1>0. Len(recipe) \in Nat /\ Len(recipe0) \in Nat
  BY DEF ControlOK
<1>1. ASSUME UNCHANGED <<recipe, recipe0>>,
             /\ pc' \in {"start", "symbols", "sections", "header", "done", "failed"}
             /\ cursor' \in Nat /\ spoilt' \in BOOLEAN
             /\ pc' = "symbols" => cursor' # 0 /\ recipe # <<>> /\ Running.tool # "rel2data"
             /\ pc' = "sections" => RunningIs("rel2data") \/ RunningIs("pie2rel")
             /\ pc' = "header" => RunningIs("pie2rel")
             /\ pc' = "done" => recipe = <<>>
      PROVE  ControlOK'
  BY <1>1 DEF ControlOK, RunningIs, Running
<1>2. CASE \E u \in Symbol : Writes(u)
  <2>1. PICK u \in Symbol : Writes(u)
    BY <1>2
  <2>2. (spoilt \/ Spoils(file')) \in BOOLEAN /\ spoilt \in BOOLEAN
    BY DEF Spoils, ControlOK
  <2>3. UNCHANGED <<recipe, recipe0>> /\ pc = "symbols"
    BY <2>1 DEF Writes, history
  <2>4. /\ pc' \in {"symbols", "start"} /\ cursor' \in {cursor, cursor + 1}
        /\ pc' = "symbols" => cursor' = cursor + 1
        /\ spoilt' \in {spoilt, spoilt \/ Spoils(file')}
    BY <2>1 DEF Writes
  <2>5. cursor \in Nat /\ recipe # <<>> /\ Running.tool # "rel2data"
    BY <2>3 DEF ControlOK
  <2>6. cursor' \in Nat /\ (pc' = "symbols" => cursor' # 0)
    BY <2>4, <2>5
  <2>7. spoilt' \in BOOLEAN
    BY <2>2, <2>4, Zenon
  <2> QED
    BY <1>1, <2>3, <2>4, <2>5, <2>6, <2>7
<1>3. CASE Open
  <2>1. \/ Running.tool = "rel2data" /\ pc' = "sections" /\ cursor' = 0
        \/ Running.tool # "rel2data" /\ pc' = "symbols" /\ cursor' = 1
    BY <1>3 DEF Open
  <2> QED
    BY <1>1, <1>3, <2>1 DEF Open, history, ControlOK, RunningIs
<1>4. CASE OpenFails \/ AssertionFails \/ Finish
  BY <1>1, <1>4 DEF OpenFails, AssertionFails, Finish, history, ControlOK
<1>5. CASE RewriteSection
  BY <1>1, <1>5 DEF RewriteSection, history, AtSection, ControlOK
<1>6. CASE NextPass
  BY <1>1, <1>6 DEF NextPass, history, ControlOK, RunningIs
<1>7. CASE Close
  <2>1. recipe # <<>> /\ recipe' = Tail(recipe) /\ pc' = "start"
        /\ UNCHANGED <<cursor, recipe0, spoilt>>
    BY <1>7 DEF Close, history, ControlOK, RunningIs
  <2>2. /\ recipe' \in Seq(Invocation) /\ Len(recipe') = Len(recipe) - 1
        /\ \A k \in 1 .. Len(recipe) - 1 : recipe'[k] = recipe[k + 1]
    BY <2>1 DEF ControlOK
  <2>3. Len(recipe') <= Len(recipe0)
    BY <1>0, <2>2 DEF ControlOK
  <2>4. \A k \in 1 .. Len(recipe') : recipe'[k] = recipe0[Len(recipe0) - Len(recipe') + k]
    <3> SUFFICES ASSUME NEW k \in 1 .. Len(recipe') 
                 PROVE  recipe'[k] = recipe0[Len(recipe0) - Len(recipe') + k]
      OBVIOUS
    <3>1. k + 1 \in 1 .. Len(recipe) /\ recipe'[k] = recipe[k + 1]
      BY <1>0, <2>2
    <3>2. recipe[k + 1] = recipe0[Len(recipe0) - Len(recipe) + (k + 1)]
      BY <3>1 DEF ControlOK
    <3>3. Len(recipe0) - Len(recipe) + (k + 1) = Len(recipe0) - Len(recipe') + k
      BY <1>0, <2>2
    <3> QED
      BY <3>1, <3>2, <3>3
  <2> QED
    BY <2>1, <2>2, <2>3, <2>4 DEF ControlOK
<1>8. CASE BetweenSymbols
  <2>1. (spoilt \/ Spoils(file')) \in BOOLEAN
    BY DEF Spoils
  <2>2. /\ pc' = "start" /\ UNCHANGED <<recipe, cursor, history>> /\ file'.symtab = file.symtab
        /\ spoilt' = (spoilt \/ Spoils(file'))
    BY <1>8, BetweenIs
  <2> QED
    BY <1>1, <2>1, <2>2 DEF history, ControlOK
<1>9. CASE UNCHANGED vars
  BY <1>9 DEF vars, history, ControlOK, RunningIs, Running
<1> QED
  BY <1>2, <1>3, <1>4, <1>5, <1>6, <1>7, <1>8, <1>9, StepIs

\* Every tool keeps names, numbers and the addresses it does not drop.
LEMMA FileStep == ControlOK /\ FileOK /\ [Next]_vars => FileOK'
<1> SUFFICES ASSUME ControlOK, FileOK, [Next]_vars PROVE FileOK'
  OBVIOUS
<1>0. PICK n \in 0 .. LORESERVE - 1 :
        /\ n \in Nat /\ file0 \in File(n) /\ file \in File(n)
        /\ Symbols = 1 .. Len(file.symtab)
        /\ Sections = 0 .. n /\ DOMAIN file.shdrs = 0 .. n
        /\ \A i \in 0 .. n : file.shdrs[i] \in Shdr
  BY FileIs
<1>1. ASSUME UNCHANGED <<file, file0>> PROVE FileOK'
  BY <1>1 DEF FileOK, Sections
<1>2. CASE \E u \in Symbol : Writes(u)
  <2>1. PICK u \in Symbol : Writes(u)
    BY <1>2
  <2>2. /\ cursor \in 1 .. Len(file.symtab) /\ file' = [file EXCEPT !.symtab[cursor] = u]
        /\ file0' = file0
    BY <1>0, <2>1 DEF Writes, history
  <2>3. file' \in File(n) /\ file'.shdrs = file.shdrs /\ Len(file'.symtab) = Len(file.symtab)
    BY <1>0, <2>2, SymbolStored
  <2> QED
    BY <1>0, <2>2, <2>3 DEF FileOK, Sections
<1>3. CASE RewriteSection
  <2> DEFINE h == RewrittenShdr(Running, file.shdrs[cursor])
  <2>1. cursor \in 0 .. n /\ file' = [file EXCEPT !.shdrs[cursor] = h] /\ file0' = file0
    BY <1>0, <1>3 DEF RewriteSection, AtSection, history
  <2>2. Running \in Invocation
    <3>1. recipe # <<>>
      BY <1>3 DEF RewriteSection, AtSection, ControlOK, RunningIs
    <3> QED
      BY <3>1, RunningIsInRecipe
  <2>3. /\ h \in Shdr /\ h.name = file.shdrs[cursor].name
        /\ h.alloc = file.shdrs[cursor].alloc
        /\ h.addr \in {0, file.shdrs[cursor].addr}
    BY <1>0, <2>1, <2>2, RewrittenShdrIs
  <2> HIDE DEF h
  <2>4. /\ file' \in File(n) /\ file'.symtab = file.symtab
        /\ \A i \in 0 .. n : file'.shdrs[i] = IF i = cursor THEN h ELSE file.shdrs[i]
    BY <1>0, <2>1, <2>3, ShdrStored
  <2>5. \A i \in 0 .. n :
          /\ file'.shdrs[i].name = file0.shdrs[i].name
          /\ file'.shdrs[i].alloc = file0.shdrs[i].alloc
          /\ file'.shdrs[i].addr \in {0, file0.shdrs[i].addr}
          /\ ~file'.shdrs[i].alloc => file'.shdrs[i].addr = 0
    <3>1. \A i \in 0 .. n :
            /\ file.shdrs[i].name = file0.shdrs[i].name
            /\ file.shdrs[i].alloc = file0.shdrs[i].alloc
            /\ file.shdrs[i].addr \in {0, file0.shdrs[i].addr}
            /\ ~file.shdrs[i].alloc => file.shdrs[i].addr = 0
      BY <1>0 DEF FileOK
    <3> QED
      BY <2>1, <2>3, <2>4, <3>1
  <2>6. DOMAIN file0'.shdrs = 0 .. n
    BY <1>0, <2>1 DEF Sections
  <2> QED
    BY <1>0, <2>1, <2>4, <2>5, <2>6 DEF FileOK, Sections
<1>4. CASE Close
  <2>1. file0' = file0 /\ (file' = file \/ file' = RewrittenHeader(file))
    BY <1>4 DEF Close, history
  <2>2. CASE file' = RewrittenHeader(file)
    <3>1. file' \in File(n) /\ file'.shdrs = file.shdrs /\ file'.symtab = file.symtab
      BY <1>0, <2>2 DEF RewrittenHeader, File
    <3> QED
      BY <1>0, <2>1, <3>1 DEF FileOK, Sections
  <2> QED
    BY <1>1, <2>1, <2>2
<1>5. CASE Open \/ OpenFails \/ AssertionFails \/ NextPass \/ Finish
  BY <1>1, <1>5 DEF Open, OpenFails, AssertionFails, NextPass, Finish, history
<1>6. CASE BetweenSymbols
  <2>1. file' \in File(n) /\ file'.shdrs = file.shdrs /\ file'.symtab = file.symtab
        /\ file0' = file0
    BY <1>0, <1>6, BetweenIs DEF history
  <2> QED
    BY <1>0, <2>1 DEF FileOK, Sections
<1>7. CASE UNCHANGED vars
  BY <1>1, <1>7 DEF vars, history
<1> QED
  BY <1>2, <1>3, <1>4, <1>5, <1>6, <1>7, StepIs

\* Except where one symbol is written, the symbols stay.
LEMMA SymbolsStay ==
  ASSUME ControlOK, FileOK, [Next]_vars
  PROVE  \/ \E u \in Symbol : Writes(u)
         \/ file'.symtab = file.symtab
<1>0. PICK n \in 0 .. LORESERVE - 1 : n \in Nat /\ file \in File(n) /\ DOMAIN file.shdrs = 0 .. n
                                     /\ \A i \in 0 .. n : file.shdrs[i] \in Shdr
  BY FileIs
<1>1. CASE RewriteSection
  <2>1. recipe # <<>>
    BY <1>1 DEF RewriteSection, AtSection, ControlOK, RunningIs
  <2>2. RewrittenShdr(Running, file.shdrs[cursor]) \in Shdr
    BY <1>0, <1>1, <2>1, RunningIsInRecipe, RewrittenShdrIs DEF RewriteSection, AtSection
  <2> QED
    BY <1>0, <1>1, <2>2, ShdrStored DEF RewriteSection, AtSection
<1>2. CASE Close
  BY <1>0, <1>2 DEF Close, RewrittenHeader, File
<1>3. CASE BetweenSymbols
  BY <1>3, BetweenIs
<1> QED
  BY <1>1, <1>2, <1>3, StepIs
  DEF Open, OpenFails, AssertionFails, NextPass, Finish, vars

\* What was to be done stays known.
LEMMA HistoryStays ==
  [Next]_vars =>
    /\ file0' = file0 /\ recipe0' = recipe0
    /\ Symbols' = Symbols /\ Sections' = Sections
    /\ \A tool : Asked(tool)' = Asked(tool)
    /\ \A t, u : Before(t, u)' <=> Before(t, u)
<1> SUFFICES ASSUME [Next]_vars
             PROVE  /\ file0' = file0 /\ recipe0' = recipe0
                    /\ Symbols' = Symbols /\ Sections' = Sections
                    /\ \A tool : Asked(tool)' = Asked(tool)
                    /\ \A t, u : Before(t, u)' <=> Before(t, u)
  OBVIOUS
<1>1. UNCHANGED history
  <2>1. CASE RewriteSymbol
    BY <2>1 DEF RewriteSymbol
  <2>2. CASE RewriteSection
    BY <2>2 DEF RewriteSection
  <2>3. CASE Interrupt
    BY <2>3 DEF Interrupt
  <2>4. CASE Close
    BY <2>4 DEF Close
  <2>5. CASE UNCHANGED vars
    BY <2>5 DEF vars, history
  <2> QED
    BY <2>1, <2>2, <2>3, <2>4, <2>5
    DEF Next, Open, OpenFails, AssertionFails, NextPass, Finish
<1>2. file0' = file0 /\ recipe0' = recipe0
  BY <1>1 DEF history
<1>3. Symbols' = Symbols /\ Sections' = Sections
  BY <1>2 DEF Symbols, Sections
<1>4. \A tool : Asked(tool)' = Asked(tool)
  BY <1>2 DEF Asked
<1>5. \A t, u : Before(t, u)' <=> Before(t, u)
  BY <1>2 DEF Before
<1> QED
  BY <1>2, <1>3, <1>4, <1>5

\* The recipe goes on when a tool has finished, and not before.
LEMMA RecipeStays == ControlOK /\ [Next]_vars => Close \/ UNCHANGED recipe
  BY DEF Next, Open, OpenFails, RewriteSymbol, AssertionFails, RewriteSection, NextPass,
         Finish, Interrupt, vars

\* The recipe goes on.
LEMMA NextTool ==
  ASSUME ControlOK, Close
  PROVE  /\ recipe # <<>> /\ recipe0' = recipe0
         /\ \A tool : Finished(tool)' <=> Finished(tool) \/ RunningIs(tool)
<1>1. recipe # <<>> /\ recipe' = Tail(recipe) /\ recipe0' = recipe0
  BY DEF Close, ControlOK, RunningIs, history
<1>2. /\ recipe \in Seq(Invocation) /\ Len(recipe) \in Nat /\ Len(recipe0) \in Nat
      /\ DOMAIN recipe0 = 1 .. Len(recipe0)
  BY DEF ControlOK
<1>3. Len(recipe') = Len(recipe) - 1
  BY <1>1, <1>2
<1>4. Position' = Position + 1
  BY <1>1, <1>2, <1>3 DEF Position
<1>5. Position \in 1 .. Len(recipe0) /\ Running = recipe0[Position]
  BY <1>1, RunningIsInRecipe
<1>6. ASSUME NEW tool PROVE Finished(tool)' <=> Finished(tool) \/ RunningIs(tool)
  <2>1. Finished(tool)' <=> \E j \in DOMAIN recipe0 : j < Position + 1 /\ recipe0[j].tool = tool
    BY <1>1, <1>4 DEF Finished
  <2>2. \A j \in DOMAIN recipe0 : j < Position + 1 <=> j < Position \/ j = Position
    BY <1>2, <1>5
  <2> QED
    BY <1>1, <1>2, <1>5, <2>1, <2>2 DEF Finished, RunningIs
<1> QED
  BY <1>1, <1>6

\* While the recipe stays, so does what has run and what is running.
LEMMA SameTool ==
  ASSUME UNCHANGED <<recipe, recipe0>>
  PROVE  \A tool : (Finished(tool)' <=> Finished(tool)) /\ (RunningIs(tool)' <=> RunningIs(tool))
  BY DEF Finished, RunningIs, Running, Position

\* A definition goes only where a tool was asked to.
LEMMA SymbolsStep == ControlOK /\ FileOK /\ SymbolsOK /\ [Next]_vars => SymbolsOK'
<1> SUFFICES ASSUME ControlOK, FileOK, SymbolsOK, [Next]_vars PROVE SymbolsOK'
  OBVIOUS
<1>0. /\ file0' = file0 /\ Symbols' = Symbols /\ Sections' = Sections
      /\ Asked("sym2und")' = Asked("sym2und") /\ Asked("abs2und")' = Asked("abs2und")
  BY HistoryStays
<1>a. ASSUME \A k \in Symbols : SymbolOK(file0.symtab[k], file'.symtab[k])
      PROVE  SymbolsOK'
  BY <1>0, <1>a DEF SymbolsOK, SymbolOK, SymAsked, AbsAsked
<1>1. CASE file'.symtab = file.symtab
  BY <1>1, <1>a DEF SymbolsOK
<1>2. CASE \E u \in Symbol : Writes(u)
  <2>1. PICK u \in Symbol : Writes(u)
    BY <1>2
  <2> DEFINE t == file.symtab[cursor]
             s == file0.symtab[cursor]
  <2>2. /\ cursor \in Symbols /\ MayWrite(Running, file, t, u)
        /\ SymbolOK(s, t) /\ recipe # <<>>
    BY <2>1 DEF Writes, SymbolsOK, ControlOK
  <2>3. PICK n \in 0 .. LORESERVE - 1 : /\ n \in Nat /\ n < LORESERVE
                                        /\ file \in File(n) /\ Sections = 0 .. n
                                        /\ t \in Symbol
    BY <2>2, FileIs
  <2>4. Namesakes(file, t) \subseteq Sections \ {0} /\ ABS \notin Sections
    <3>1. /\ Namesakes(file, t) \subseteq Sections
          /\ \A i \in Namesakes(file, t) : file.shdrs[i].name # ""
      BY <2>3, NamesakesAreSections
    <3>2. file.shdrs[0].name = ""
      <4>1. 0 \in Sections
        BY <2>3
      <4> QED
        BY <4>1 DEF FileOK
    <3>3. ABS \notin Sections
      BY <2>3 DEF ABS, LORESERVE
    <3> QED
      BY <3>1, <3>2, <3>3
  <2>5. Namesakes(file, t) # {} => t.shndx = ABS
    BY <2>3, NamesakesAreSections
  <2>6. t.shndx = ABS => s.shndx = ABS
    BY <2>2, <2>4 DEF SymbolOK, UNDEF, ABS
  <2>7. Gone(Running, t) => SymAsked(s) \/ AbsAsked(s)
    <3>1. Running.sym \in Asked(Running.tool)
      BY <2>2, RunningIsInRecipe DEF Asked
    <3>2. t.name = s.name
      BY <2>2 DEF SymbolOK
    <3> QED
      BY <2>6, <3>1, <3>2 DEF Gone, SymAsked, AbsAsked
  <2> HIDE DEF t, s
  <2>8. SymbolOK(s, u)
    BY <2>2, <2>4, <2>5, <2>6, <2>7 DEF SymbolOK, MayWrite, UNDEF
  <2> QED
    BY <1>a, <2>1, <2>8, WritesIs DEF SymbolsOK, s
<1> QED
  BY <1>1, <1>2, SymbolsStay

\* No run of t is under way or over when one of u begins, if they are so ordered.
LEMMA Ordered ==
  ASSUME ControlOK, NEW t, NEW u, Before(t, u), RunningIs(t)
  PROVE  ~RunningIs(u) /\ ~Finished(u)
<1>1. /\ Position \in DOMAIN recipe0 /\ Running = recipe0[Position] /\ Position \in Nat
      /\ DOMAIN recipe0 = 1 .. Len(recipe0)
  BY RunningIsInRecipe DEF RunningIs
<1>2. Len(recipe0) \in Nat
  BY DEF ControlOK
<1> QED
  BY <1>1, <1>2 DEF Before, RunningIs, Finished

\* The null section.
LEMMA FirstSection ==
  ASSUME FileOK
  PROVE  0 \in Sections /\ file.shdrs[0].name = "" /\ UNDEF # ABS
<1>1. PICK n \in 0 .. LORESERVE - 1 : Sections = 0 .. n /\ n \in Nat
  BY FileIs
<1>2. 0 \in Sections
  BY <1>1
<1>3. file.shdrs[0].name = ""
  BY <1>2 DEF FileOK
<1>4. UNDEF # ABS
  BY DEF UNDEF, ABS
<1> QED
  BY <1>2, <1>3, <1>4

\* What is written is the symbol at the cursor.
LEMMA WritesAtSymbol ==
  ASSUME FileOK, NEW u, Writes(u)
  PROVE  AtSymbol
<1>1. pc = "symbols" /\ cursor \in 1 .. Len(file.symtab) /\ Len(file.symtab) \in Nat
  BY FileIs DEF Writes
<1> QED
  BY <1>1 DEF AtSymbol

\* What is spoilt stays so, and a recipe that has failed does not go on.
LEMMA NothingMadeGood ==
  ASSUME ControlOK, FileOK, [Next]_vars
  PROVE  (~spoilt' => ~spoilt) /\ (pc' # "failed" => pc # "failed")
<1>1. CASE \E u \in Symbol : Writes(u)
  <2>1. spoilt => spoilt'
    BY <1>1, Zenon DEF Writes
  <2>2. pc = "symbols"
    BY <1>1 DEF Writes
  <2> QED
    BY <2>1, <2>2
<1>2. CASE Interrupt
  <2>1. spoilt => spoilt'
    BY <1>2, Zenon DEF Interrupt
  <2>2. pc # "failed"
    BY <1>2 DEF Interrupt
  <2> QED
    BY <2>1, <2>2
<1>3. CASE Open \/ OpenFails \/ AssertionFails \/ RewriteSection \/ NextPass \/ Finish
  <2>1. spoilt' = spoilt
    BY <1>3 DEF Open, OpenFails, AssertionFails, RewriteSection, NextPass, Finish
  <2>2. pc # "failed"
    BY <1>3 DEF Open, OpenFails, AssertionFails, AtSymbol, RewriteSection, AtSection, NextPass, Finish
  <2> QED
    BY <2>1, <2>2
<1>4. CASE Close
  <2>1. spoilt' = spoilt
    BY <1>4 DEF Close
  <2>2. pc # "failed"
    BY <1>4 DEF Close
  <2> QED
    BY <2>1, <2>2
<1>5. CASE UNCHANGED vars
  <2>1. spoilt' = spoilt /\ pc' = pc
    BY <1>5 DEF vars
  <2> QED
    BY <2>1
<1> QED
  BY <1>1, <1>2, <1>3, <1>4, <1>5, StepIs DEF BetweenSymbols

\* What has a home is at home among the sections.
LEMMA HomesAreSections ==
  ASSUME FileOK
  PROVE  ABS \notin Sections /\ \A s : Homes(s) \subseteq Sections \ {0}
<1>1. PICK n \in 0 .. LORESERVE - 1 : n \in Nat /\ n < LORESERVE /\ Sections = 0 .. n
  BY FileIs
<1>2. ABS \notin Sections
  BY <1>1 DEF ABS, LORESERVE
<1>3. file0.shdrs[0].name = ""
  BY DEF FileOK
<1> QED
  BY <1>2, <1>3 DEF Homes

\* The sections that abs2sectsym finds for a symbol are those of its name.
LEMMA NamesakesAreHomes ==
  ASSUME FileOK, NEW s, NEW t, t.name = s.name, t.shndx = ABS, t.value = 0
  PROVE  Namesakes(file, t) = Homes(s)
<1>1. DOMAIN file.shdrs = Sections
  BY FileIs
<1>2. \A i \in Sections : file.shdrs[i].name = file0.shdrs[i].name
  BY DEF FileOK
<1> QED
  BY <1>1, <1>2 DEF Namesakes, Homes

\* What abs2sectsym leaves of a symbol that an interruption has not spoilt.
LEMMA UnspoiltIsRewritten ==
  ASSUME ControlOK, FileOK, NEW u \in Symbol, Writes(u), ~spoilt',
         Running.tool = "abs2sectsym", u.shndx # file.symtab[cursor].shndx
  PROVE  IsRewritten(Running, file, file.symtab[cursor], u)
<1> DEFINE t == file.symtab[cursor]
<1>1. /\ cursor \in Symbols /\ AssertionHolds(Running, file, t) /\ pc = "symbols"
      /\ recipe # <<>> /\ file'.symtab[cursor] = u
  BY WritesIs DEF Writes, ControlOK
<1>2. PICK n \in 0 .. LORESERVE - 1 : file \in File(n) /\ t \in Symbol
  BY <1>1, FileIs
<1>3. Running \in Invocation
  BY <1>1, RunningIsInRecipe
<1>4. AtSymbol
  BY WritesAtSymbol
<1>5. u # RewrittenSymbol(Running, file, t) => Spoils(file')
  BY <1>1, <1>4 DEF Spoils
<1>6. CASE u = RewrittenSymbol(Running, file, t)
  BY <1>1, <1>2, <1>3, <1>6, RewrittenIs
<1>7. CASE u # RewrittenSymbol(Running, file, t)
  BY <1>5, <1>7 DEF Writes
<1> QED
  BY <1>6, <1>7

\* A tie to a section lasts, and only pie2rel moves what is tied.
LEMMA TiedStep ==
  ControlOK /\ FileOK /\ SymbolsOK /\ TiedOK /\ AbsoluteOK /\ [Next]_vars => TiedOK'
<1> SUFFICES ASSUME ControlOK, FileOK, SymbolsOK, TiedOK, AbsoluteOK, [Next]_vars PROVE TiedOK'
  OBVIOUS
<1> DEFINE Begun == RunningIs("abs2sectsym") \/ Finished("abs2sectsym")
           Label(s, t) == /\ s.value = 0 /\ t.shndx \in Homes(s)
                          /\ Before("pie2rel", "abs2sectsym") => t.value = 0
           LastHome(s, t) == t.shndx = Max(Homes(s))
<1>0. /\ file0' = file0 /\ Symbols' = Symbols /\ recipe0' = recipe0 /\ Sections' = Sections
      /\ Before("pie2rel", "abs2sectsym")' <=> Before("pie2rel", "abs2sectsym")
  BY HistoryStays
<1>n. \A s : Homes(s)' = Homes(s)
  BY <1>0 DEF Homes
<1>m. ~spoilt' => ~spoilt
  BY NothingMadeGood
<1>a. ASSUME \A k \in Symbols :
               IsTied(file0.symtab[k], file'.symtab[k]) =>
                 /\ Begun' /\ Label(file0.symtab[k], file'.symtab[k])
                 /\ ~spoilt' => LastHome(file0.symtab[k], file'.symtab[k])
      PROVE  TiedOK'
  BY <1>0, <1>n, <1>a DEF TiedOK, IsTied
<1>b. \A k \in Symbols :
        IsTied(file0.symtab[k], file.symtab[k]) =>
          /\ Begun /\ Label(file0.symtab[k], file.symtab[k])
          /\ ~spoilt => LastHome(file0.symtab[k], file.symtab[k])
  BY DEF TiedOK
<1>c. Begun => Begun'
  BY <1>0, RecipeStays, SameTool, NextTool
<1> HIDE DEF Label, LastHome
<1>1. CASE file'.symtab = file.symtab
  <2> HIDE DEF Begun
  <2> QED
    BY <1>1, <1>a, <1>b, <1>c, <1>m
<1>2. CASE \E u \in Symbol : Writes(u)
  <2>1. PICK u \in Symbol : Writes(u)
    BY <1>2
  <2> DEFINE t == file.symtab[cursor]
             s == file0.symtab[cursor]
  <2>2. /\ cursor \in Symbols /\ MayWrite(Running, file, t, u)
        /\ SymbolOK(s, t) /\ recipe # <<>>
    BY <2>1 DEF Writes, SymbolsOK, ControlOK
  <2>3. PICK n \in 0 .. LORESERVE - 1 : file \in File(n) /\ Sections = 0 .. n /\ t \in Symbol
    BY <2>2, FileIs
  <2>5. IsTied(s, t) => Begun /\ Label(s, t) /\ (~spoilt => LastHome(s, t))
    BY <1>b, <2>2
  <2>6. t.name = s.name
    BY <2>2 DEF SymbolOK
  <2>7. ASSUME IsTied(s, u) PROVE Begun /\ Label(s, u) /\ (~spoilt' => LastHome(s, u))
    <3>1. CASE u.shndx = t.shndx
      <4>1. Begun /\ Label(s, t) /\ (~spoilt => LastHome(s, t))
        BY <2>5, <2>7, <3>1 DEF IsTied
      <4>2. Before("pie2rel", "abs2sectsym") => ~RunningIs("pie2rel")
        BY <4>1, Ordered
      <4>3. Before("pie2rel", "abs2sectsym") => u.value \in {0, t.value}
        BY <2>2, <4>2 DEF MayWrite, RunningIs
      <4> HIDE DEF t, s, Begun
      <4> QED
        BY <1>m, <3>1, <4>1, <4>3 DEF Label, LastHome
    <3>2. CASE u.shndx # t.shndx
      <4>1. Running.tool = "abs2sectsym" /\ u.shndx \in Namesakes(file, t)
        BY <2>2, <2>7, <3>2 DEF MayWrite, IsTied
      <4>2. u.value = t.value
        BY <2>2, <4>1 DEF MayWrite, Gone
      <4>3. t.shndx = ABS /\ t.value = 0
        BY <2>3, <4>1, NamesakesAreSections
      <4>4. Namesakes(file, t) = Homes(s)
        BY <2>6, <4>3, NamesakesAreHomes
      <4>5. s.value = 0
        <5>1. t.value = s.value \/ Doomed(cursor)
          BY <2>2, <2>7, <4>3 DEF AbsoluteOK, IsTied
        <5>2. ~Doomed(cursor)
          BY <4>1 DEF Doomed, Gone
        <5> QED
          BY <4>3, <5>1, <5>2
      <4>6. ~spoilt' => u.shndx = Max(Homes(s))
        <5> SUFFICES ASSUME ~spoilt' PROVE u.shndx = Max(Homes(s))
          OBVIOUS
        <5>1. IsRewritten(Running, file, t, u)
          BY <2>1, <3>2, <4>1, UnspoiltIsRewritten
        <5>2. u.shndx = Max(Namesakes(file, t))
          BY <4>1, <5>1 DEF IsRewritten, Gone
        <5> QED
          BY <4>4, <5>2
      <4> HIDE DEF t, s
      <4> QED
        BY <2>2, <4>1, <4>2, <4>3, <4>4, <4>5, <4>6 DEF Label, LastHome, RunningIs
    <3> QED
      BY <3>1, <3>2
  <2> HIDE DEF t, Begun
  <2> QED
    BY <1>a, <1>b, <1>c, <1>m, <2>1, <2>7, WritesIs DEF s
<1> QED
  BY <1>1, <1>2, SymbolsStay

\* What the running tool is to make undefined it makes undefined.
LEMMA DoomedNext ==
  ASSUME ControlOK, FileOK, [Next]_vars, NEW k \in Symbols, Doomed(k),
         file'.symtab[k].shndx = file.symtab[k].shndx
  PROVE  \/ Doomed(k)'
         \/ /\ k = cursor
            /\ \E u \in Symbol :
                 Writes(u) /\ IsRewritten(Running, file, file.symtab[cursor], u)
<1>0. /\ Symbols = 1 .. Len(file.symtab) /\ Len(file.symtab) \in Nat /\ cursor \in Nat
      /\ recipe # <<>> /\ Running.tool \in {"sym2und", "abs2und"}
      /\ pc \in {"start", "symbols", "failed"}
  BY FileIs DEF ControlOK, Doomed, Gone
<1>a. ASSUME recipe' = recipe, file'.symtab[k].name = file.symtab[k].name,
             pc' \in {"start", "symbols", "failed"}, pc' = "symbols" => k >= cursor'
      PROVE  Doomed(k)'
  BY <1>a DEF Doomed, Gone, Running
<1>1. CASE \E u \in Symbol : Writes(u)
  <2>1. PICK u \in Symbol : Writes(u)
    BY <1>1
  <2>2. recipe' = recipe /\ file'.symtab[k].name = file.symtab[k].name
    BY <2>1, WritesIs DEF Writes, MayWrite
  <2>3. k >= cursor
    BY <2>1 DEF Writes, Doomed
  <2>4. CASE pc' = "start"
    BY <1>a, <2>2, <2>4
  <2>5. CASE pc' # "start"
    <3>1. pc' = "symbols" /\ cursor' = cursor + 1
          /\ IsRewritten(Running, file, file.symtab[cursor], u)
      BY <2>1, <2>5 DEF Writes
    <3>2. k = cursor \/ k >= cursor + 1
      BY <1>0, <2>3
    <3> QED
      BY <1>a, <2>1, <2>2, <3>1, <3>2
  <2> QED
    BY <2>4, <2>5
<1>2. CASE Open
  <2>1. pc' = "symbols" /\ cursor' = 1
    BY <1>0, <1>2 DEF Open
  <2> QED
    BY <1>0, <1>2, <1>a, <2>1 DEF Open
<1>3. CASE OpenFails \/ AssertionFails \/ BetweenSymbols
  BY <1>3, <1>a, BetweenIs DEF OpenFails, AssertionFails
<1>4. CASE RewriteSection \/ NextPass \/ Finish
  BY <1>0, <1>4 DEF RewriteSection, AtSection, NextPass, Finish
<1>5. CASE Close
  <2>1. pc = "symbols" /\ ~(cursor <= Len(file.symtab)) /\ k >= cursor
    BY <1>0, <1>5 DEF Close, AtSymbol, Doomed
  <2> QED
    BY <1>0, <2>1
<1>6. CASE UNCHANGED vars
  BY <1>6 DEF vars, Doomed, Gone, Running
<1> QED
  BY <1>1, <1>2, <1>3, <1>4, <1>5, <1>6, StepIs

\* A tool of one pass comes past a symbol by rewriting it.
LEMMA PassedNext ==
  ASSUME ControlOK, FileOK, [Next]_vars, NEW tool \in {"undprot", "abs2sectsym"},
         NEW k \in Symbols, Finished(tool)' \/ PassedBy(tool, k)'
  PROVE  \/ Finished(tool) \/ PassedBy(tool, k)
         \/ /\ RunningIs(tool) /\ k = cursor
            /\ \E u \in Symbol :
                 Writes(u) /\ IsRewritten(Running, file, file.symtab[cursor], u)
<1>0. /\ Symbols = 1 .. Len(file.symtab) /\ Len(file.symtab) \in Nat /\ cursor \in Nat
      /\ recipe0' = recipe0
  BY HistoryStays, FileIs DEF ControlOK
<1>1. CASE \E u \in Symbol : Writes(u)
  <2>1. PICK u \in Symbol : Writes(u)
    BY <1>1
  <2>2. (Finished(tool)' <=> Finished(tool)) /\ (RunningIs(tool)' <=> RunningIs(tool))
    BY <2>1, <1>0, SameTool, WritesIs
  <2>3. CASE Finished(tool)'
    BY <2>2, <2>3
  <2>4. CASE PassedBy(tool, k)'
    <3>1. RunningIs(tool) /\ pc = "symbols" /\ k < cursor + 1
          /\ IsRewritten(Running, file, file.symtab[cursor], u)
      BY <2>1, <2>2, <2>4 DEF Writes, PassedBy
    <3>2. k = cursor \/ k < cursor
      BY <1>0, <3>1
    <3> QED
      BY <2>1, <3>1, <3>2 DEF PassedBy
  <2> QED
    BY <2>3, <2>4
<1>2. CASE ~(\E u \in Symbol : Writes(u)) /\ PassedBy(tool, k)'
  <2>1. pc' = "symbols" /\ k < cursor'
    BY <1>2 DEF PassedBy
  <2>2. CASE Open
    <3>1. cursor' = 1
      BY <2>1, <2>2 DEF Open
    <3> QED
      BY <1>0, <2>1, <3>1
  <2>3. CASE UNCHANGED vars
    BY <1>2, <2>3 DEF vars, PassedBy, RunningIs, Running
  <2> QED
    BY <1>2, <2>1, <2>2, <2>3, StepIs
    DEF OpenFails, AssertionFails, RewriteSection, AtSection, NextPass, Close, Finish,
        BetweenSymbols, Interrupt
<1>3. CASE Finished(tool)'
  <2>1. CASE Close
    <3>1. Finished(tool) \/ RunningIs(tool)
      BY <1>3, <2>1, NextTool
    <3>2. ASSUME RunningIs(tool) PROVE PassedBy(tool, k)
      <4>1. pc = "symbols" /\ ~AtSymbol
        BY <2>1, <3>2 DEF Close, RunningIs, ControlOK
      <4>2. k < cursor
        BY <1>0, <4>1 DEF AtSymbol
      <4> QED
        BY <3>2, <4>1, <4>2 DEF PassedBy
    <3> QED
      BY <3>1, <3>2
  <2>2. CASE UNCHANGED recipe
    BY <1>0, <1>3, <2>2, SameTool
  <2> QED
    BY <2>1, <2>2, RecipeStays
<1> QED
  BY <1>1, <1>2, <1>3

\* An absolute symbol keeps its value until it is about to become undefined, and
\* abs2sectsym leaves none with the value 0 and a section's name.
LEMMA AbsoluteStep ==
  ControlOK /\ FileOK /\ SymbolsOK /\ AbsoluteOK /\ [Next]_vars => AbsoluteOK'
<1> SUFFICES ASSUME ControlOK, FileOK, SymbolsOK, AbsoluteOK, [Next]_vars PROVE AbsoluteOK'
  OBVIOUS
<1>0. file0' = file0 /\ Symbols' = Symbols /\ Sections' = Sections
  BY HistoryStays
<1>n. \A s : Homes(s)' = Homes(s)
  BY <1>0 DEF Homes
<1> SUFFICES ASSUME NEW k \in Symbols, NEW s, s = file0.symtab[k], NEW v, v = file'.symtab[k],
                    s.shndx = ABS, v.shndx = ABS
             PROVE  /\ v.value = s.value \/ (v.value = 0 /\ Doomed(k)')
                    /\ s.value = 0 /\ Homes(s) # {} =>
                         ~Finished("abs2sectsym")' /\ ~PassedBy("abs2sectsym", k)'
  BY <1>0, <1>n DEF AbsoluteOK
<1> SUFFICES ASSUME NEW t, t = file.symtab[k]
             PROVE  /\ v.value = s.value \/ (v.value = 0 /\ Doomed(k)')
                    /\ s.value = 0 /\ Homes(s) # {} =>
                         ~Finished("abs2sectsym")' /\ ~PassedBy("abs2sectsym", k)'
  OBVIOUS
<1>a. ABS \notin Sections /\ Homes(s) \subseteq Sections
  BY HomesAreSections
<1>b. t.name = s.name
  BY DEF SymbolsOK, SymbolOK
<1>c. ASSUME NEW u \in Symbol, Writes(u), k = cursor
      PROVE  /\ v = u /\ MayWrite(Running, file, t, v) /\ t.shndx = ABS
             /\ v.value = t.value \/ (v.value = 0 /\ Gone(Running, t))
             /\ recipe # <<>> /\ pc = "symbols"
             /\ ~IsRewritten(Running, file, t, v) \/ ~Gone(Running, t)
  <2>1. v = u /\ MayWrite(Running, file, t, v) /\ pc = "symbols" /\ recipe # <<>>
    BY <1>c, WritesIs DEF Writes, ControlOK
  <2>2. PICK n \in 0 .. LORESERVE - 1 : file \in File(n) /\ Sections = 0 .. n /\ t \in Symbol
    BY FileIs
  <2>3. Namesakes(file, t) \subseteq Sections /\ UNDEF # ABS
    BY <2>2, NamesakesAreSections, FirstSection
  <2>4. t.shndx = ABS
    BY <1>a, <2>1, <2>3 DEF MayWrite
  <2>5. ~InSection(t)
    BY <2>4 DEF InSection, ABS, LORESERVE
  <2>6. IsRewritten(Running, file, t, v) => ~Gone(Running, t)
    BY <2>3 DEF IsRewritten
  <2> QED
    BY <2>1, <2>4, <2>5, <2>6 DEF MayWrite
<1>d. t.shndx = ABS
  <2>1. CASE \E u \in Symbol : Writes(u) /\ k = cursor
    BY <1>c, <2>1
  <2>2. CASE ~\E u \in Symbol : Writes(u) /\ k = cursor
    <3>1. CASE \E u \in Symbol : Writes(u)
      BY <2>2, <3>1, WritesIs
    <3> QED
      BY <3>1, SymbolsStay
  <2> QED
    BY <2>1, <2>2
<1>e. /\ t.value = s.value \/ (t.value = 0 /\ Doomed(k))
      /\ s.value = 0 /\ Homes(s) # {} =>
           ~Finished("abs2sectsym") /\ ~PassedBy("abs2sectsym", k)
  BY <1>d DEF AbsoluteOK
<1>f. Doomed(k) => Doomed(k)'
  <2> SUFFICES ASSUME Doomed(k) PROVE Doomed(k)'
    OBVIOUS
  <2>1. Gone(Running, t)
    BY DEF Doomed
  <2>2. ~(k = cursor /\ \E u \in Symbol :
            Writes(u) /\ IsRewritten(Running, file, file.symtab[cursor], u))
    BY <1>c, <2>1
  <2> QED
    BY <1>d, <2>2, DoomedNext
<1>1. v.value = s.value \/ (v.value = 0 /\ Doomed(k)')
  <2>1. CASE v.value = t.value
    BY <1>e, <1>f, <2>1
  <2>2. CASE v.value # t.value
    <3>1. PICK u \in Symbol : Writes(u) /\ k = cursor
      <4>1. CASE \E u \in Symbol : Writes(u)
        BY <2>2, <4>1, WritesIs
      <4> QED
        BY <2>2, <4>1, SymbolsStay
    <3>2. v.value = 0 /\ Gone(Running, t) /\ recipe # <<>> /\ pc = "symbols"
      BY <1>c, <2>2, <3>1
    <3>3. k >= cursor
      BY <3>1 DEF ControlOK
    <3>4. Doomed(k)
      BY <3>2, <3>3 DEF Doomed
    <3> QED
      BY <1>f, <3>2, <3>4
  <2> QED
    BY <2>1, <2>2
<1>2. ASSUME s.value = 0, Homes(s) # {}, Finished("abs2sectsym")' \/ PassedBy("abs2sectsym", k)'
      PROVE  FALSE
  <2>1. /\ RunningIs("abs2sectsym") /\ k = cursor
        /\ \E u \in Symbol : Writes(u) /\ IsRewritten(Running, file, file.symtab[cursor], u)
    BY <1>2, <1>e, PassedNext
  <2>2. IsRewritten(Running, file, t, v) /\ Running.tool = "abs2sectsym"
    BY <1>c, <2>1 DEF RunningIs
  <2>3. t.value = 0
    BY <1>2, <1>e
  <2>4. Namesakes(file, t) = Homes(s)
    BY <1>b, <1>d, <2>3, NamesakesAreHomes
  <2>5. v.shndx = Max(Namesakes(file, t))
    BY <1>2, <2>2, <2>4 DEF IsRewritten, Gone
  <2>6. PICK n \in 0 .. LORESERVE - 1 : file \in File(n) /\ t \in Symbol
    BY FileIs
  <2>7. v.shndx \in Namesakes(file, t)
    <3>1. Namesakes(file, t) # {}
      BY <1>2, <2>4
    <3> QED
      BY <2>5, <2>6, <3>1, NamesakesAreSections
  <2> QED
    BY <1>a, <2>4, <2>7
<1> QED
  BY <1>1, <1>2

\* Only sym2und and abs2und make undefined symbols, and undprot passes all.
LEMMA ProtectedStep ==
  ControlOK /\ FileOK /\ ProtectedOK /\ [Next]_vars => ProtectedOK'
<1> SUFFICES ASSUME ControlOK, FileOK, ProtectedOK, [Next]_vars PROVE ProtectedOK'
  OBVIOUS
<1>h. /\ Symbols' = Symbols
      /\ Before("sym2und", "undprot")' <=> Before("sym2und", "undprot")
      /\ Before("abs2und", "undprot")' <=> Before("abs2und", "undprot")
  BY HistoryStays
<1> SUFFICES ASSUME Before("sym2und", "undprot"), Before("abs2und", "undprot"),
                    NEW k \in Symbols, file'.symtab[k].shndx = UNDEF,
                    Finished("undprot")' \/ PassedBy("undprot", k)'
             PROVE  Unbindable(file'.symtab[k])
  BY <1>h DEF ProtectedOK, Unbindable
<1>0. recipe0' = recipe0
  BY HistoryStays
<1>a. file.symtab[k].shndx = UNDEF /\ (Finished("undprot") \/ PassedBy("undprot", k))
        => Unbindable(file.symtab[k])
  BY DEF ProtectedOK
<1>1. CASE \E u \in Symbol : Writes(u)
  <2>1. PICK u \in Symbol : Writes(u)
    BY <1>1
  <2> DEFINE t == file.symtab[cursor]
  <2>2. /\ cursor \in Symbols /\ MayWrite(Running, file, t, u) /\ recipe # <<>>
        /\ pc = "symbols" /\ cursor \in Nat
    BY <2>1 DEF Writes, ControlOK
  <2>3. Finished("undprot")' <=> Finished("undprot")
    BY <2>1, <1>0, SameTool, WritesIs
  <2>4. PassedBy("undprot", k)' =>
          /\ RunningIs("undprot") /\ k < cursor + 1
          /\ IsRewritten(Running, file, t, u)
    <3>1. RunningIs("undprot")' <=> RunningIs("undprot")
      BY <2>1, <1>0, SameTool, WritesIs
    <3> QED
      BY <2>1, <3>1 DEF Writes, PassedBy
  <2>5. k \in Nat /\ k <= Len(file.symtab)
    <3>1. Symbols = 1 .. Len(file.symtab) /\ Len(file.symtab) \in Nat
      BY FileIs
    <3> QED
      BY <3>1
  <2>6. CASE k # cursor
    <3>1. file'.symtab[k] = file.symtab[k]
      BY <2>1, <2>6, WritesIs
    <3>2. PassedBy("undprot", k)' => PassedBy("undprot", k)
      BY <2>2, <2>4, <2>5, <2>6 DEF PassedBy
    <3> QED
      BY <1>a, <2>3, <3>1, <3>2
  <2>7. CASE k = cursor
    <3>1. file'.symtab[k] = u
      BY <2>1, <2>7, WritesIs
    <3>2. ~Gone(Running, t)
      <4>1. RunningIs("undprot") \/ Finished("undprot")
        BY <2>3, <2>4
      <4>2. ~RunningIs("sym2und") /\ ~RunningIs("abs2und")
        BY <4>1, Ordered
      <4> QED
        BY <2>2, <4>2 DEF Gone, RunningIs
    <3>3. t.shndx = UNDEF
      <4>1. u.shndx = UNDEF
        BY <3>1
      <4>2. UNDEF \notin Namesakes(file, t)
        <5>1. PICK n \in 0 .. LORESERVE - 1 :
                n \in Nat /\ file \in File(n) /\ Sections = 0 .. n /\ t \in Symbol
          BY <2>2, FileIs
        <5>2. file.shdrs[0].name = ""
          <6>1. 0 \in Sections
            BY <5>1
          <6> QED
            BY <6>1 DEF FileOK
        <5> QED
          BY <5>1, <5>2, NamesakesAreSections DEF UNDEF
      <4> QED
        BY <2>2, <3>2, <4>1, <4>2 DEF MayWrite
    <3>4. CASE Finished("undprot")
      <4>1. Unbindable(t)
        BY <1>a, <2>7, <3>3, <3>4
      <4> QED
        BY <2>2, <3>1, <4>1 DEF MayWrite, Unbindable
    <3>5. CASE PassedBy("undprot", k)'
      <4>1. Running.tool = "undprot" /\ IsRewritten(Running, file, t, u)
        BY <2>4, <3>5 DEF RunningIs
      <4> QED
        BY <3>1, <3>2, <3>3, <4>1 DEF IsRewritten
    <3> QED
      BY <2>3, <3>4, <3>5
  <2> QED
    BY <2>6, <2>7
<1>2. CASE file'.symtab = file.symtab /\ ~(\E u \in Symbol : Writes(u))
  BY <1>a, <1>2, PassedNext
<1> QED
  BY <1>1, <1>2, SymbolsStay

\* The section headers change where RewriteSection changes one.
LEMMA ShdrsStay ==
  ASSUME ControlOK, FileOK, [Next]_vars
  PROVE  \/ file'.shdrs = file.shdrs
         \/ /\ RewriteSection /\ cursor \in Sections
            /\ Running \in Invocation /\ recipe # <<>>
            /\ \A i \in Sections :
                 file'.shdrs[i] = IF i = cursor THEN RewrittenShdr(Running, file.shdrs[i])
                                  ELSE file.shdrs[i]
<1>0. PICK n \in 0 .. LORESERVE - 1 :
        /\ n \in Nat /\ file \in File(n) /\ DOMAIN file.shdrs = 0 .. n /\ Sections = 0 .. n
        /\ \A i \in 0 .. n : file.shdrs[i] \in Shdr
  BY FileIs
<1>1. CASE RewriteSection
  <2> DEFINE h == RewrittenShdr(Running, file.shdrs[cursor])
  <2>1. recipe # <<>> /\ cursor \in 0 .. n /\ file' = [file EXCEPT !.shdrs[cursor] = h]
    BY <1>0, <1>1 DEF RewriteSection, AtSection, ControlOK, RunningIs
  <2>2. Running \in Invocation
    BY <2>1, RunningIsInRecipe
  <2>3. h \in Shdr
    BY <1>0, <2>1, <2>2, RewrittenShdrIs
  <2> HIDE DEF h
  <2>4. \A i \in 0 .. n : file'.shdrs[i] = IF i = cursor THEN h ELSE file.shdrs[i]
    BY <1>0, <2>1, <2>3, ShdrStored
  <2> QED
    BY <1>0, <1>1, <2>1, <2>2, <2>4 DEF h
<1>2. CASE Close
  BY <1>0, <1>2 DEF Close, RewrittenHeader, File
<1>3. CASE \E u \in Symbol : Writes(u)
  BY <1>3, WritesIs
<1>4. CASE BetweenSymbols
  BY <1>4, BetweenIs
<1> QED
  BY <1>1, <1>2, <1>3, <1>4, StepIs
  DEF Open, OpenFails, AssertionFails, NextPass, Finish, vars

\* Who is moved next.
LEMMA MovedNext ==
  ASSUME ControlOK, FileOK, [Next]_vars, NEW k \in Symbols, Moved(k)'
  PROVE  \/ Moved(k) /\ UNCHANGED recipe
         \/ /\ RunningIs("pie2rel") /\ k = cursor
            /\ \E u \in Symbol :
                 Writes(u) /\ IsRewritten(Running, file, file.symtab[cursor], u)
<1>0. recipe0' = recipe0 /\ Symbols = 1 .. Len(file.symtab) /\ Len(file.symtab) \in Nat
  BY HistoryStays, FileIs
<1>1. pc' \in {"symbols", "sections", "header"} /\ RunningIs("pie2rel")'
      /\ (pc' = "symbols" => k < cursor')
  BY DEF Moved, PassedBy
<1>2. ~Close /\ recipe' = recipe /\ RunningIs("pie2rel")
  <2>1. ~Close
    BY <1>1 DEF Close
  <2> QED
    BY <1>0, <1>1, <2>1, RecipeStays, SameTool
<1>3. CASE \E u \in Symbol : Writes(u)
  <2>1. PICK u \in Symbol : Writes(u)
    BY <1>3
  <2>2. cursor' = cursor + 1 /\ IsRewritten(Running, file, file.symtab[cursor], u)
        /\ pc = "symbols" /\ k < cursor + 1
    BY <1>1, <2>1 DEF Writes
  <2>3. k = cursor \/ k < cursor
    BY <1>0, <2>2 DEF ControlOK
  <2> QED
    BY <1>2, <2>1, <2>2, <2>3 DEF Moved, PassedBy
<1>4. CASE Open
  <2>1. pc' = "symbols" => cursor' = 1
    BY <1>4 DEF Open
  <2>2. pc' = "symbols"
    BY <1>2, <1>4 DEF Open, RunningIs
  <2> QED
    BY <1>0, <1>1, <2>1, <2>2
<1>5. CASE RewriteSection
  BY <1>2, <1>5 DEF RewriteSection, AtSection, Moved
<1>6. CASE NextPass
  <2>1. CASE pc = "symbols" /\ ~AtSymbol
    <3>1. k < cursor
      BY <1>0, <2>1 DEF AtSymbol, ControlOK
    <3> QED
      BY <1>2, <2>1, <3>1 DEF Moved, PassedBy
  <2> QED
    BY <1>2, <1>6, <2>1 DEF NextPass, Moved
<1>7. CASE UNCHANGED vars
  BY <1>1, <1>2, <1>7 DEF vars, Moved, PassedBy
<1> QED
  BY <1>1, <1>2, <1>3, <1>4, <1>5, <1>6, <1>7, StepIs
  DEF OpenFails, AssertionFails, Finish, BetweenSymbols, Interrupt

\* The second pass of pie2rel drops each address.
LEMMA AddressesStep ==
  ControlOK /\ FileOK /\ AddressesOK /\ [Next]_vars => AddressesOK'
<1> SUFFICES ASSUME ControlOK, FileOK, AddressesOK, [Next]_vars PROVE AddressesOK'
  OBVIOUS
<1>0. /\ Symbols' = Symbols /\ Sections' = Sections /\ recipe0' = recipe0
  BY HistoryStays
<1>a. PICK n \in 0 .. LORESERVE - 1 :
        /\ n \in Nat /\ file \in File(n) /\ Sections = 0 .. n /\ DOMAIN file.shdrs = 0 .. n
        /\ \A i \in 0 .. n : file.shdrs[i] \in Shdr
        /\ \A k \in Symbols : file.symtab[k] \in Symbol
        /\ Symbols = 1 .. Len(file.symtab) /\ Len(file.symtab) \in Nat
  BY FileIs
<1>1. ASSUME NEW i \in Sections,
             \/ Finished("pie2rel")' \/ pc' = "header"
             \/ pc' = "sections" /\ RunningIs("pie2rel")' /\ i < cursor'
      PROVE  file'.shdrs[i].addr = 0
  <2>1. file.shdrs[i].addr = 0 => file'.shdrs[i].addr = 0
    <3>1. CASE file'.shdrs = file.shdrs
      BY <3>1
    <3>2. CASE file'.shdrs # file.shdrs
      <4>1. /\ Running \in Invocation /\ file.shdrs[i] \in Shdr
            /\ file'.shdrs[i] \in {RewrittenShdr(Running, file.shdrs[i]), file.shdrs[i]}
        BY <1>a, <3>2, ShdrsStay
      <4> QED
        BY <4>1, RewrittenShdrIs
    <3> QED
      BY <3>1, <3>2
  <2>2. CASE Finished("pie2rel")'
    <3>1. Finished("pie2rel") \/ (Close /\ RunningIs("pie2rel"))
      BY <1>0, <2>2, RecipeStays, SameTool, NextTool
    <3>2. Close /\ RunningIs("pie2rel") => pc = "header"
      BY DEF Close, RunningIs
    <3> QED
      BY <2>1, <3>1, <3>2 DEF AddressesOK
  <2>3. CASE pc' = "header"
    <3>1. \/ pc = "header"
          \/ pc = "sections" /\ ~AtSection /\ NextPass
      BY <2>3, StepIs
      DEF Writes, Open, OpenFails, AssertionFails, RewriteSection, AtSection, NextPass, Close,
          Finish, BetweenSymbols, Interrupt, vars
    <3>2. pc = "sections" /\ ~AtSection => i < cursor
      BY <1>a DEF AtSection, ControlOK
    <3>3. NextPass /\ pc = "sections" => RunningIs("pie2rel")
      BY DEF NextPass, ControlOK, RunningIs
    <3> QED
      BY <2>1, <3>1, <3>2, <3>3 DEF AddressesOK
  <2>4. CASE pc' = "sections" /\ RunningIs("pie2rel")' /\ i < cursor'
    <3>1. CASE RewriteSection
      <4>1. /\ cursor' = cursor + 1 /\ pc = "sections" /\ recipe' = recipe /\ cursor \in 0 .. n
            /\ i \in Nat
        BY <1>a, <3>1 DEF RewriteSection, AtSection
      <4>2. RunningIs("pie2rel")
        BY <1>0, <2>4, <4>1, SameTool
      <4>3. i < cursor \/ i = cursor
        BY <2>4, <4>1
      <4>4. CASE i = cursor
        <5>1. file'.shdrs[i] = RewrittenShdr(Running, file.shdrs[i]) \/ file'.shdrs = file.shdrs
          BY <4>4, ShdrsStay
        <5>2. file' = [file EXCEPT !.shdrs[cursor] = RewrittenShdr(Running, @)]
          BY <3>1 DEF RewriteSection
        <5>3. Running \in Invocation /\ file.shdrs[i] \in Shdr
          BY <1>a, <4>2, RunningIsInRecipe DEF RunningIs
        <5> DEFINE h == RewrittenShdr(Running, file.shdrs[cursor])
        <5>4. file' = [file EXCEPT !.shdrs[cursor] = h]
          BY <5>2
        <5>5. h \in Shdr
          BY <4>4, <5>3, RewrittenShdrIs
        <5> HIDE DEF h
        <5>6. file'.shdrs[i] = h
          BY <1>a, <4>1, <4>4, <5>4, <5>5, ShdrStored
        <5>7. file'.shdrs[i] = RewrittenShdr(Running, file.shdrs[i])
          BY <4>4, <5>6 DEF h
        <5>8. ~file.shdrs[i].alloc => file.shdrs[i].addr = 0
          BY DEF FileOK
        <5>9. file.shdrs[i].alloc => RewrittenShdr(Running, file.shdrs[i]).addr = 0
          BY <4>2, <5>3, RewrittenShdrIs DEF RunningIs
        <5> QED
          BY <2>1, <5>7, <5>8, <5>9
      <4> QED
        BY <2>1, <4>1, <4>2, <4>3, <4>4 DEF AddressesOK
    <3>2. CASE ~RewriteSection /\ ~(UNCHANGED vars)
      <4>1. cursor' = 0
        BY <2>4, <3>2, StepIs
        DEF Writes, Open, OpenFails, AssertionFails, NextPass, Close, Finish, BetweenSymbols,
            Interrupt
      <4> QED
        BY <1>a, <2>4, <4>1
    <3>3. CASE UNCHANGED vars
      <4>1. pc = "sections" /\ RunningIs("pie2rel") /\ i < cursor
        BY <2>4, <3>3 DEF vars, RunningIs, Running
      <4> QED
        BY <2>1, <4>1 DEF AddressesOK
    <3> QED
      BY <3>1, <3>2, <3>3
  <2> QED
    BY <1>1, <2>2, <2>3, <2>4
<1>2. ASSUME NEW k \in Symbols, InSection(file'.symtab[k]), Finished("pie2rel")' \/ Moved(k)'
      PROVE  file'.symtab[k].shndx \in Sections
  <2>0. InSection(file.symtab[k]) /\ (Finished("pie2rel") \/ Moved(k))
          => file.symtab[k].shndx \in Sections
    BY DEF AddressesOK
  <2>1. CASE file'.symtab = file.symtab /\ ~(\E u \in Symbol : Writes(u))
    <3>1. Finished("pie2rel")' => Finished("pie2rel") \/ Moved(k)
      <4>1. Close /\ RunningIs("pie2rel") => Moved(k)
        BY DEF Close, RunningIs, Moved
      <4> QED
        BY <1>0, <4>1, RecipeStays, SameTool, NextTool
    <3>2. Moved(k)' => Moved(k)
      BY <2>1, MovedNext
    <3> QED
      BY <1>2, <2>0, <2>1, <3>1, <3>2
  <2>2. CASE \E u \in Symbol : Writes(u)
    <3>1. PICK u \in Symbol : Writes(u)
      BY <2>2
    <3>2. Finished("pie2rel")' <=> Finished("pie2rel")
      BY <1>0, <3>1, SameTool, WritesIs
    <3>3. CASE k # cursor
      <4>1. file'.symtab[k] = file.symtab[k]
        BY <3>1, <3>3, WritesIs
      <4>2. Moved(k)' => Moved(k)
        BY <3>3, MovedNext
      <4> QED
        BY <1>2, <2>0, <3>2, <4>1, <4>2
    <3>4. CASE k = cursor
      <4> DEFINE t == file.symtab[cursor]
      <4>1. file'.symtab[k] = u
        BY <3>1, <3>4, WritesIs
      <4>2. MayWrite(Running, file, t, u) /\ AssertionHolds(Running, file, t)
        BY <3>1 DEF Writes
      <4>3. t \in Symbol /\ Namesakes(file, t) \subseteq Sections
        BY <1>a, <3>4, NamesakesAreSections
      <4>4. u.shndx # UNDEF /\ InSection(u)
        BY <1>2, <4>1 DEF InSection
      <4>5. CASE u.shndx # t.shndx
        BY <4>1, <4>2, <4>3, <4>4, <4>5 DEF MayWrite
      <4>6. CASE u.shndx = t.shndx
        <5>1. InSection(t)
          BY <4>4, <4>6 DEF InSection
        <5>2. Moved(k)' => Moved(k) \/ RunningIs("pie2rel")
          BY MovedNext
        <5>3. CASE RunningIs("pie2rel")
          BY <1>a, <4>1, <4>2, <4>6, <5>1, <5>3 DEF AssertionHolds, RunningIs
        <5> QED
          BY <1>2, <2>0, <3>2, <3>4, <4>1, <4>6, <5>1, <5>2, <5>3
      <4> QED
        BY <4>5, <4>6
    <3> QED
      BY <3>3, <3>4
  <2> QED
    BY <2>1, <2>2, SymbolsStay
<1> QED
  BY <1>0, <1>1, <1>2 DEF AddressesOK, InSection

\* What sym2und is to rewrite it rewrites.
LEMMA AwaitedNext ==
  ASSUME ControlOK, FileOK, [Next]_vars, NEW k \in Symbols, Awaited(k)
  PROVE  \/ Awaited(k)'
         \/ /\ k = cursor
            /\ \E u \in Symbol :
                 Writes(u) /\ IsRewritten(Running, file, file.symtab[cursor], u)
<1>0. /\ Symbols = 1 .. Len(file.symtab) /\ Len(file.symtab) \in Nat /\ cursor \in Nat
      /\ RunningIs("sym2und") /\ pc \in {"start", "symbols", "failed"}
  BY FileIs DEF ControlOK, Awaited
<1>a. ASSUME recipe' = recipe, file'.symtab[k].name = file.symtab[k].name,
             pc' \in {"start", "symbols", "failed"}, pc' = "symbols" => k >= cursor'
      PROVE  Awaited(k)'
  BY <1>a DEF Awaited, RunningIs, Running
<1>1. CASE \E u \in Symbol : Writes(u)
  <2>1. PICK u \in Symbol : Writes(u)
    BY <1>1
  <2>2. recipe' = recipe /\ file'.symtab[k].name = file.symtab[k].name
    BY <2>1, WritesIs DEF Writes, MayWrite
  <2>3. k >= cursor
    BY <2>1 DEF Writes, Awaited
  <2>4. CASE pc' = "start"
    BY <1>a, <2>2, <2>4
  <2>5. CASE pc' # "start"
    <3>1. pc' = "symbols" /\ cursor' = cursor + 1
          /\ IsRewritten(Running, file, file.symtab[cursor], u)
      BY <2>1, <2>5 DEF Writes
    <3>2. k = cursor \/ k >= cursor + 1
      BY <1>0, <2>3
    <3> QED
      BY <1>a, <2>1, <2>2, <3>1, <3>2
  <2> QED
    BY <2>4, <2>5
<1>2. CASE Open
  <2>1. pc' = "symbols" /\ cursor' = 1
    BY <1>0, <1>2 DEF Open, RunningIs
  <2> QED
    BY <1>0, <1>2, <1>a, <2>1 DEF Open
<1>3. CASE OpenFails \/ AssertionFails \/ BetweenSymbols
  BY <1>3, <1>a, BetweenIs DEF OpenFails, AssertionFails
<1>4. CASE RewriteSection \/ NextPass \/ Finish
  BY <1>0, <1>4 DEF RewriteSection, AtSection, NextPass, Finish, RunningIs
<1>5. CASE Close
  <2>1. pc = "symbols" /\ ~(cursor <= Len(file.symtab)) /\ k >= cursor
    BY <1>0, <1>5 DEF Close, AtSymbol, Awaited
  <2> QED
    BY <1>0, <2>1
<1>6. CASE UNCHANGED vars
  BY <1>6 DEF vars, Awaited, RunningIs, Running
<1> QED
  BY <1>1, <1>2, <1>3, <1>4, <1>5, <1>6, StepIs

\* pie2rel takes from a value the address it is about to drop, once.
LEMMA PlacesStep ==
  /\ ControlOK /\ FileOK /\ SymbolsOK /\ AddressesOK /\ PlacesOK /\ [Next]_vars
  => PlacesOK'
<1> SUFFICES ASSUME ControlOK, FileOK, SymbolsOK, AddressesOK, PlacesOK, [Next]_vars
             PROVE  PlacesOK'
  OBVIOUS
<1>h. file0' = file0 /\ Symbols' = Symbols /\ Sections' = Sections
  BY HistoryStays
<1> SUFFICES ASSUME ~spoilt', pc' # "failed", NEW k \in Symbols,
                    InSection(file0.symtab[k]), file0.symtab[k].shndx \in Sections,
                    file'.symtab[k].shndx = file0.symtab[k].shndx, ~Awaited(k)'
             PROVE  Placed(k)'
  BY <1>h DEF PlacesOK, InSection
<1> DEFINE s == file0.symtab[k]
           t == file.symtab[k]
           address == file0.shdrs[s.shndx].addr
           a == file.shdrs[s.shndx].addr
           Rewrites(u) == Writes(u) /\ IsRewritten(Running, file, file.symtab[cursor], u)
<1>0. /\ k \in Nat /\ t \in Symbol /\ s \in Symbol /\ DOMAIN file.shdrs = Sections
      /\ a \in {0, address} /\ address \in 0 .. Word - 1
      /\ DOMAIN file.symtab = Symbols
      /\ s.value \in 0 .. Word - 1 /\ t.value \in 0 .. Word - 1
  <2>1. /\ k \in Nat /\ t \in Symbol /\ s \in Symbol /\ DOMAIN file.shdrs = Sections
        /\ file0.shdrs[s.shndx] \in Shdr /\ DOMAIN file.symtab = Symbols
    BY FileIs
  <2>2. a \in {0, address}
    BY DEF FileOK
  <2> QED
    BY <2>1, <2>2 DEF Symbol, Shdr
<1>1. ~spoilt /\ pc # "failed"
  BY NothingMadeGood
<1>2. t.shndx = s.shndx
  <2>1. CASE file'.symtab = file.symtab
    BY <2>1
  <2>2. CASE \E u \in Symbol : Writes(u)
    <3>1. PICK u \in Symbol : Writes(u)
      BY <2>2
    <3>2. CASE k # cursor
      BY <3>1, <3>2, WritesIs
    <3>3. CASE k = cursor
      <4>1. u.shndx = s.shndx /\ MayWrite(Running, file, t, u) /\ SymbolOK(s, t)
        BY <3>1, <3>3, WritesIs DEF Writes, SymbolsOK
      <4>2. s.shndx # UNDEF /\ s.shndx # ABS
        BY DEF InSection, LORESERVE, ABS
      <4>3. PICK n \in 0 .. LORESERVE - 1 : file \in File(n)
        BY FileIs
      <4>4. Namesakes(file, t) # {} => t.shndx = ABS
        BY <1>0, <4>3, NamesakesAreSections
      <4>5. t.shndx # ABS
        BY <4>1, <4>2 DEF SymbolOK, ABS, UNDEF
      <4> HIDE DEF s, t
      <4> QED
        BY <4>1, <4>2, <4>4, <4>5 DEF MayWrite
    <3> QED
      BY <3>2, <3>3
  <2> QED
    BY <2>1, <2>2, SymbolsStay
<1>3. ~Awaited(k)
  <2> SUFFICES ASSUME Awaited(k) PROVE FALSE
    OBVIOUS
  <2>1. PICK u \in Symbol : Rewrites(u) /\ k = cursor
    BY AwaitedNext
  <2>2. file'.symtab[k] = u /\ IsRewritten(Running, file, t, u)
    BY <2>1, WritesIs
  <2>3. Gone(Running, t)
    BY DEF Awaited, RunningIs, Gone
  <2>4. s.shndx = UNDEF
    BY <2>2, <2>3 DEF IsRewritten
  <2> QED
    BY <2>4 DEF InSection
<1>4. Placed(k)
  BY <1>1, <1>2, <1>3 DEF PlacesOK
<1>5. IF a = 0 \/ Moved(k) THEN (t.value + address) % Word = s.value ELSE t.value = s.value
  BY <1>4 DEF Placed
\* An interrupted pie2rel is spoilt by a symbol it has moved by an address that it
\* has not dropped.
<1>6. ASSUME Spoils(file') => spoilt', file'.shdrs = file.shdrs, RunningIs("pie2rel"),
             pc = "symbols" => k <= cursor
      PROVE  a = 0
  <2>1. file'.symtab[k].shndx = s.shndx /\ s.shndx \in Sections \ {UNDEF}
    BY DEF InSection
  <2>2. k \in DOMAIN file'.symtab
    <3>1. FileOK'
      BY FileStep
    <3>2. Len(file'.symtab) = Len(file0'.symtab) /\ \E n \in 0 .. LORESERVE - 1 : file' \in File(n)
      BY <3>1 DEF FileOK
    <3>3. file'.symtab \in Seq(Symbol)
      BY <3>2 DEF File
    <3>4. DOMAIN file'.symtab = 1 .. Len(file0.symtab)
      BY <1>h, <3>2, <3>3
    <3>5. Symbols = 1 .. Len(file0.symtab)
      BY FileIs DEF FileOK
    <3> QED
      BY <3>4, <3>5
  <2>3. a # 0 => Spoils(file')
    BY <1>0, <1>6, <2>1, <2>2 DEF Spoils, RunningIs
  <2> QED
    BY <1>6, <2>3
<1>7. Moved(k) => Moved(k)' \/ a = 0
  <2> SUFFICES ASSUME Moved(k) PROVE Moved(k)' \/ a = 0
    OBVIOUS
  <2>0. /\ RunningIs("pie2rel") /\ pc \in {"symbols", "sections", "header"}
        /\ pc = "symbols" => k < cursor
    BY DEF Moved, PassedBy
  <2>1. CASE \E u \in Symbol : Writes(u)
    <3>1. PICK u \in Symbol : Writes(u)
      BY <2>1
    <3>2. CASE pc' = "symbols" /\ cursor' = cursor + 1
      <4>1. RunningIs("pie2rel")' /\ k < cursor + 1
        BY <1>0, <2>0, <3>1 DEF Writes, RunningIs, Running, ControlOK
      <4> QED
        BY <3>2, <4>1 DEF Moved, PassedBy
    <3>3. CASE Spoils(file') => spoilt'
      <4>1. k <= cursor
        BY <1>0, <2>0, <3>1 DEF Writes, ControlOK
      <4> QED
        BY <1>6, <2>0, <3>1, <3>3, <4>1, WritesIs
    <3> QED
      BY <3>1, <3>2, <3>3 DEF Writes
  <2>2. CASE BetweenSymbols
    <3>1. /\ Spoils(file') => spoilt'
          /\ file'.symtab = file.symtab /\ file'.shdrs = file.shdrs
      BY <2>2, BetweenIs
    <3>2. pc = "symbols" => k <= cursor
      BY <1>0, <2>0 DEF ControlOK
    <3> QED
      BY <1>6, <2>0, <2>2, <3>1, <3>2
  <2>3. CASE RewriteSection \/ NextPass
    <3>1. pc' \in {"sections", "header"} /\ recipe' = recipe
      BY <2>3 DEF RewriteSection, AtSection, NextPass
    <3> QED
      BY <2>0, <3>1 DEF Moved, RunningIs, Running
  <2>4. CASE Close
    <3>1. pc = "header"
      BY <2>0, <2>4 DEF Close, RunningIs
    <3> QED
      BY <3>1 DEF AddressesOK
  <2>5. CASE UNCHANGED vars
    BY <2>5 DEF vars, Moved, PassedBy, RunningIs, Running
  <2> QED
    BY <2>0, <2>1, <2>2, <2>3, <2>4, <2>5, StepIs DEF Open, OpenFails, AssertionFails, Finish
\* The section's address stays, or pie2rel drops it after the symbols are moved.
<1>8. file'.shdrs[s.shndx].addr = a \/ (file'.shdrs[s.shndx].addr = 0 /\ Moved(k))
  <2>1. CASE file'.shdrs # file.shdrs
    <3>1. /\ RewriteSection /\ Running \in Invocation /\ recipe # <<>>
          /\ file'.shdrs[s.shndx] \in
               {file.shdrs[s.shndx], RewrittenShdr(Running, file.shdrs[s.shndx])}
      BY <2>1, ShdrsStay
    <3>2. file.shdrs[s.shndx] \in Shdr
      BY FileIs
    <3>3. \/ file'.shdrs[s.shndx].addr = a
          \/ file'.shdrs[s.shndx].addr = 0 /\ Running.tool = "pie2rel"
      BY <3>1, <3>2, RewrittenShdrIs
    <3> QED
      BY <3>1, <3>3 DEF RewriteSection, AtSection, Moved, RunningIs
  <2> QED
    BY <2>1
<1>a. ASSUME IF file'.shdrs[s.shndx].addr = 0 \/ Moved(k)'
             THEN (file'.symtab[k].value + address) % Word = s.value
             ELSE file'.symtab[k].value = s.value
      PROVE  Placed(k)'
  BY <1>a, <1>h DEF Placed
<1>9. ASSUME file'.symtab[k].value = t.value, Moved(k)' => Moved(k) PROVE Placed(k)'
  <2> HIDE DEF t, s, a, address
  <2> QED
    BY <1>5, <1>7, <1>8, <1>9, <1>a
<1>10. CASE \E u \in Symbol : Writes(u) /\ k = cursor
  <2>1. PICK u \in Symbol : Writes(u) /\ k = cursor
    BY <1>10
  <2>2. /\ file'.symtab[k] = u /\ MayWrite(Running, file, t, u) /\ recipe # <<>>
        /\ pc = "symbols" /\ file'.shdrs = file.shdrs
    BY <2>1, WritesIs DEF Writes, ControlOK
  <2>3. ~Gone(Running, t) /\ InSection(t)
    <3>1. ASSUME Running.tool = "sym2und", Gone(Running, t) PROVE FALSE
      <4>1. RunningIs("sym2und") /\ pc = "symbols" /\ k >= cursor
        BY <1>0, <2>1, <2>2, <3>1 DEF RunningIs
      <4>2. file.symtab[k].name # "" /\ Running.sym = file.symtab[k].name
        BY <3>1 DEF Gone
      <4> QED
        BY <1>3, <4>1, <4>2 DEF Awaited
    <3>2. t.shndx # ABS /\ InSection(t)
      BY <1>2 DEF InSection, LORESERVE, ABS
    <3> QED
      BY <3>1, <3>2 DEF Gone
  <2>4. ~Moved(k)
    BY <1>0, <2>1, <2>2 DEF Moved, PassedBy
  <2> DEFINE rebased == (t.value + Word - a) % Word
  <2>5. a = 0 => rebased = t.value
    BY <1>0, AddressesWrap, WordAssumption
  <2>6. CASE Rewrites(u) /\ RunningIs("pie2rel")
    <3>1. IsRewritten(Running, file, t, u) /\ Running.tool = "pie2rel"
      BY <2>1, <2>6 DEF RunningIs
    <3>2. u.value = rebased
      BY <1>2, <2>3, <3>1 DEF IsRewritten
    <3>3. (u.value + address) % Word = s.value
      <4>1. CASE a = 0
        BY <1>5, <2>5, <3>2, <4>1
      <4>2. CASE a # 0
        <5>1. a = address /\ t.value = s.value
          BY <1>0, <1>5, <2>4, <4>2
        <5> HIDE DEF s, t, a, address
        <5>2. u.value = (s.value + Word - address) % Word
          BY <3>2, <5>1
        <5>3. (((s.value + Word - address) % Word) + address) % Word = s.value
          BY <1>0, RebasedAddsUp
        <5> QED
          BY <5>2, <5>3
      <4> QED
        BY <4>1, <4>2
    <3>4. Moved(k)' \/ a = 0
      <4>1. CASE pc' = "symbols" /\ cursor' = cursor + 1
        <5>1. RunningIs("pie2rel")' /\ k < cursor + 1
          BY <1>0, <2>1, <2>6, SameTool DEF Writes, RunningIs, Running, ControlOK
        <5> QED
          BY <4>1, <5>1 DEF Moved, PassedBy
      <4>2. CASE Spoils(file') => spoilt'
        BY <1>0, <1>6, <2>1, <2>2, <2>6, <4>2
      <4> QED
        BY <2>1, <4>1, <4>2 DEF Writes
    <3>5. file'.shdrs[s.shndx].addr = a
      BY <2>2
    <3> HIDE DEF s, t, a, address
    <3> QED
      BY <1>a, <2>2, <3>3, <3>4, <3>5
  <2>7. CASE ~(Rewrites(u) /\ RunningIs("pie2rel"))
    <3>1. Moved(k)' => Moved(k)
      <4> SUFFICES ASSUME Moved(k)' PROVE Moved(k)
        OBVIOUS
      <4>1. RunningIs("pie2rel")' /\ pc' # "start"
        BY DEF Moved, PassedBy
      <4>2. RunningIs("pie2rel") /\ Rewrites(u)
        BY <2>1, <4>1 DEF Writes, RunningIs, Running
      <4> QED
        BY <2>7, <4>2
    <3>2. u.value = t.value
      <4>1. CASE u.value # t.value
        <5>1. RunningIs("pie2rel") /\ u.value = rebased
          BY <1>2, <2>2, <2>3, <4>1 DEF MayWrite, RunningIs
        <5>2. Spoils(file') => spoilt'
          BY <2>1, <2>7, <5>1 DEF Writes
        <5>3. a = 0
          BY <1>0, <1>6, <2>1, <2>2, <5>1, <5>2
        <5> QED
          BY <2>5, <5>1, <5>3
      <4> QED
        BY <4>1
    <3> QED
      BY <1>9, <2>2, <3>1, <3>2
  <2> QED
    BY <2>6, <2>7
<1>11. CASE ~\E u \in Symbol : Writes(u) /\ k = cursor
  <2>1. file'.symtab[k] = t
    <3>1. CASE \E u \in Symbol : Writes(u)
      BY <1>11, <3>1, WritesIs
    <3> QED
      BY <3>1, SymbolsStay
  <2>2. Moved(k)' => Moved(k)
    BY <1>11, MovedNext
  <2> QED
    BY <1>9, <2>1, <2>2
<1> QED
  BY <1>10, <1>11

\* A symbol that becomes undefined becomes global, or is about to.
LEMMA ReferencesStep ==
  ControlOK /\ FileOK /\ ReferencesOK /\ [Next]_vars => ReferencesOK'
<1> SUFFICES ASSUME ControlOK, FileOK, ReferencesOK, [Next]_vars PROVE ReferencesOK'
  OBVIOUS
<1>h. Symbols' = Symbols
  BY HistoryStays
<1> SUFFICES ASSUME ~spoilt', NEW k \in Symbols, file'.symtab[k].shndx = UNDEF,
                    file'.symtab[k].name # "", file'.symtab[k].info.bind = "LOCAL"
             PROVE  Awaited(k)'
  BY <1>h DEF ReferencesOK
<1> SUFFICES ASSUME NEW t, t = file.symtab[k] PROVE Awaited(k)'
  OBVIOUS
<1>1. t.shndx = UNDEF /\ t.name # "" /\ t.info.bind = "LOCAL" => Awaited(k)
  <2>1. ~spoilt
    BY NothingMadeGood
  <2> QED
    BY <2>1 DEF ReferencesOK
<1>2. CASE \E u \in Symbol : Writes(u) /\ k = cursor
  <2>1. PICK u \in Symbol : Writes(u) /\ k = cursor
    BY <1>2
  <2>2. /\ file'.symtab[k] = u /\ MayWrite(Running, file, t, u) /\ recipe # <<>>
        /\ pc = "symbols" /\ AssertionHolds(Running, file, t)
        /\ Running \in Invocation /\ Running.tool # "rel2data"
    BY <2>1, WritesIs DEF Writes, ControlOK
  <2>3. PICK n \in 0 .. LORESERVE - 1 : file \in File(n) /\ t \in Symbol
    BY FileIs
  <2>4. ~IsRewritten(Running, file, t, u) \/ ~Gone(Running, t)
    BY <2>2 DEF IsRewritten
  <2>5. CASE ~Gone(Running, t)
    <3>1. file.shdrs[0].name = ""
      BY FirstSection
    <3>2. UNDEF \notin Namesakes(file, t)
      BY <2>3, <3>1, NamesakesAreSections DEF UNDEF
    <3>3. t.shndx = UNDEF /\ t.name # "" /\ t.info.bind = "LOCAL"
      BY <2>2, <2>5, <3>2 DEF MayWrite
    <3>4. RunningIs("sym2und") /\ Running.sym = t.name
      BY <1>1, <3>3 DEF Awaited
    <3> QED
      BY <2>5, <3>3, <3>4 DEF Gone, RunningIs
  <2>6. CASE Gone(Running, t)
    <3>1. pc' = "start" /\ (Spoils(file') => spoilt') /\ recipe' = recipe
      BY <2>1, <2>4, <2>6 DEF Writes
    <3>2. CASE Running.tool = "sym2und"
      <4>1. u.name = t.name /\ t.name # "" /\ Running.sym = t.name
        BY <2>2, <2>6, <3>2 DEF MayWrite, Gone
      <4> QED
        BY <2>2, <3>1, <3>2, <4>1 DEF Awaited, RunningIs, Running
    <3>3. CASE Running.tool # "sym2und"
      <4>1. Running.tool = "abs2und" /\ t.shndx = ABS
        BY <2>6, <3>3 DEF Gone
      <4>2. u # RewrittenSymbol(Running, file, t)
        <5>1. IsRewritten(Running, file, t, RewrittenSymbol(Running, file, t))
          BY <2>2, <2>3, RewrittenIs
        <5> QED
          BY <2>4, <2>6, <5>1
      <4>3. AtSymbol
        BY <2>1, WritesAtSymbol
      <4>4. u.shndx # t.shndx
        BY <2>2, <4>1, FirstSection, Zenon
      <4>5. Spoils(file')
        BY <2>1, <2>2, <4>1, <4>2, <4>3, <4>4 DEF Spoils
      <4> QED
        BY <3>1, <4>5
    <3> QED
      BY <3>2, <3>3
  <2> QED
    BY <2>5, <2>6
<1>3. CASE ~\E u \in Symbol : Writes(u) /\ k = cursor
  <2>1. file'.symtab[k] = t
    <3>1. CASE \E u \in Symbol : Writes(u)
      BY <1>3, <3>1, WritesIs
    <3> QED
      BY <3>1, SymbolsStay
  <2>2. Awaited(k)
    BY <1>1, <2>1
  <2> QED
    BY <1>3, <2>2, AwaitedNext
<1> QED
  BY <1>2, <1>3

----------------------------------------------------------------------------
\* What follows.

\* To begin with the file is as it was and no tool has run.
LEMMA IInvInit == Init => IInv
<1> SUFFICES ASSUME Init PROVE IInv
  OBVIOUS
<1>1. file0 \in Files /\ file = file0 /\ recipe0 \in Recipes /\ recipe = recipe0
      /\ pc = "start" /\ cursor = 0 /\ spoilt = FALSE
  BY DEF Init
<1>2. recipe0 \in Seq(Invocation)
  BY <1>1, RecipesAssumption
<1>3. ControlOK
  <2>1. Len(recipe0) \in Nat /\ \A k \in 1 .. Len(recipe0) : Len(recipe0) - Len(recipe0) + k = k
    BY <1>2
  <2>2. \A k \in 1 .. Len(recipe) : recipe[k] = recipe0[Len(recipe0) - Len(recipe) + k]
    BY <1>1, <2>1
  <2>3. recipe \in Seq(Invocation) /\ Len(recipe) <= Len(recipe0)
    BY <1>1, <1>2, <2>1
  <2>4. pc \notin {"symbols", "sections", "header", "done"} /\ cursor \in Nat
        /\ pc \in {"start", "symbols", "sections", "header", "done", "failed"}
    BY <1>1
  <2>5. spoilt \in BOOLEAN
    BY <1>1, Zenon
  <2> QED
    BY <1>2, <2>2, <2>3, <2>4, <2>5, Zenon DEF ControlOK
<1>4. PICK n \in 0 .. LORESERVE - 1 :
        /\ file0 \in File(n) /\ file0.shdrs[0].name = ""
        /\ \A i \in 0 .. n : ~file0.shdrs[i].alloc => file0.shdrs[i].addr = 0
  BY <1>1, FilesAssumption
<1>5. Sections = 0 .. n
  BY <1>4 DEF Sections, File
<1>6. FileOK
  BY <1>1, <1>4, <1>5 DEF FileOK
<1>7. SymbolsOK
  BY <1>1 DEF SymbolsOK, SymbolOK
<1>8. \A tool : ~Finished(tool)
  <2>1. Position = 1 /\ DOMAIN recipe0 = 1 .. Len(recipe0) /\ Len(recipe0) \in Nat
    BY <1>1, <1>2 DEF Position
  <2> QED
    BY <2>1 DEF Finished
<1>9. \A k : ~Moved(k) /\ \A tool : ~PassedBy(tool, k)
  BY <1>1 DEF Moved, PassedBy
<1>10. TiedOK /\ AbsoluteOK
  BY <1>1, <1>8, <1>9 DEF TiedOK, IsTied, AbsoluteOK
<1>11. ProtectedOK
  BY <1>8, <1>9 DEF ProtectedOK
<1>12. AddressesOK
  BY <1>1, <1>8, <1>9 DEF AddressesOK
<1>13. PlacesOK
  <2> SUFFICES ASSUME NEW k \in Symbols, InSection(file0.symtab[k]),
                      file0.symtab[k].shndx \in Sections
               PROVE  Placed(k)
    BY DEF PlacesOK
  <2>1. file0.symtab[k] \in Symbol
    BY <1>6, FileIs
  <2>2. file0.symtab[k].value \in 0 .. Word - 1
    BY <2>1 DEF Symbol
  <2>3. file0.symtab[k].value % Word = file0.symtab[k].value
    BY <2>2, AddressesWrap
  <2>4. file0.symtab[k].value + 0 = file0.symtab[k].value
    BY <2>2
  <2> QED
    BY <1>1, <1>9, <2>3, <2>4 DEF Placed
<1> QED
  BY <1>3, <1>6, <1>7, <1>10, <1>11, <1>12, <1>13 DEF IInv

\* Every step keeps every part.
LEMMA IInvStep == IInv /\ [Next]_vars => IInv'
  BY ControlStep, FileStep, SymbolsStep, TiedStep, AbsoluteStep, ProtectedStep, AddressesStep, PlacesStep
  DEF IInv

\* The invariant.
LEMMA AlwaysIInv == Spec => []IInv
  BY IInvInit, IInvStep, PTL DEF Spec

\* What is left of a recipe is a suffix of it.
LEMMA SuffixIs ==
  ASSUME ControlOK
  PROVE  IsSuffix(recipe, recipe0)
<1> DEFINE m == Len(recipe)
           n == Len(recipe0)
           r == Reverse(recipe)
           r0 == Reverse(recipe0)
<1>1. /\ m \in Nat /\ n \in Nat /\ m <= n
      /\ recipe \in Seq(Invocation) /\ recipe0 \in Seq(Invocation)
      /\ \A k \in 1 .. m : recipe[k] = recipe0[n - m + k]
  BY DEF ControlOK
<1>2. /\ r \in Seq(Invocation) /\ r0 \in Seq(Invocation) /\ Len(r) = m /\ Len(r0) = n
      /\ \A k \in 1 .. m : r[k] = recipe[m - k + 1]
      /\ \A k \in 1 .. n : r0[k] = recipe0[n - k + 1]
  <2>1. ASSUME NEW q \in Seq(Invocation)
        PROVE  /\ Reverse(q) \in Seq(Invocation) /\ Len(Reverse(q)) = Len(q)
               /\ \A k \in 1 .. Len(q) : Reverse(q)[k] = q[Len(q) - k + 1]
    BY DEF Reverse
  <2> QED
    BY <1>1, <2>1
<1> HIDE DEF m, n, r, r0
<1>3. ASSUME NEW k \in 1 .. m PROVE r[k] = r0[k]
  <2>1. m - k + 1 \in 1 .. m /\ n - m + (m - k + 1) = n - k + 1 /\ k \in 1 .. n
    BY <1>1
  <2> QED
    BY <1>1, <1>2, <2>1
<1>4. SubSeq(r, 1, m) = SubSeq(r0, 1, m)
  <2>1. /\ SubSeq(r, 1, m) \in Seq(Invocation) /\ SubSeq(r0, 1, m) \in Seq(Invocation)
        /\ Len(SubSeq(r, 1, m)) = m /\ Len(SubSeq(r0, 1, m)) = m
        /\ \A k \in 1 .. m : SubSeq(r, 1, m)[k] = r[k] /\ SubSeq(r0, 1, m)[k] = r0[k]
    BY <1>1, <1>2
  <2> QED
    BY <1>3, <2>1, SeqEqual
<1>5. IsPrefix(r, r0)
  BY <1>1, <1>2, <1>4 DEF IsPrefix
<1> QED
  BY <1>5 DEF IsSuffix, r, r0

\* In the end every tool of the recipe has finished, and none is running.
LEMMA AtTheEnd ==
  ASSUME ControlOK, pc = "done"
  PROVE  /\ \A tool : ~RunningIs(tool)
         /\ \A tool : Ran(tool) => Finished(tool)
<1>1. recipe = <<>> /\ \A tool : ~RunningIs(tool)
  BY DEF ControlOK, RunningIs
<1>2. \A j \in DOMAIN recipe0 : j < Position
  <2>1. Len(recipe) = 0 /\ recipe0 \in Seq(Invocation)
    BY <1>1 DEF ControlOK
  <2>2. DOMAIN recipe0 = 1 .. Len(recipe0) /\ Len(recipe0) \in Nat
    BY <2>1
  <2> QED
    BY <2>1, <2>2 DEF Position
<1> QED
  BY <1>1, <1>2 DEF Ran, Finished

\* A symbol with a section that is no longer its own was absolute.
LEMMA OtherSectionOfAbsolute ==
  ASSUME NEW s, NEW t, SymbolOK(s, t), t.shndx # UNDEF, t.shndx # s.shndx
  PROVE  s.shndx = ABS /\ t.shndx \in Sections /\ ~InSection(s)
<1>1. s.shndx = ABS /\ t.shndx \in Sections
  BY DEF SymbolOK
<1>2. ~(ABS <= LORESERVE)
  BY DEF ABS, LORESERVE
<1> QED
  BY <1>1, <1>2, Zenon DEF InSection

----------------------------------------------------------------------------
\* A file that differs in what the invariant allows is sound.
LEMMA SymtabFollows ==
  ASSUME IInv
  PROVE  SymtabSound
<1> USE DEF IInv
<1>1. PICK n \in 0 .. LORESERVE - 1 :
        /\ file0 \in File(n) /\ file \in File(n) /\ Sections = 0 .. n
        /\ Symbols = DOMAIN file.symtab
        /\ \A k \in Symbols : file.symtab[k] \in Symbol
  BY FileIs
<1>2. TypeOK
  <2>1. /\ file.type \in {"REL", "DYN"} /\ file.phnum \in Nat
        /\ file.shdrs \in [0 .. n -> Shdr] /\ file.symtab \in Seq(Symbol)
    BY <1>1 DEF File
  <2>2. file.symtab \in [Symbols -> Symbol]
    <3>1. file.symtab \in [1 .. Len(file.symtab) -> Symbol]
      BY <2>1
    <3>2. DOMAIN file.symtab = 1 .. Len(file.symtab)
      BY <2>1
    <3> QED
      BY <1>1, <3>1, <3>2, Zenon
  <2>3. IsSuffix(recipe, recipe0)
    BY SuffixIs
  <2> QED
    BY <1>1, <2>1, <2>2, <2>3, Zenon DEF TypeOK, ControlOK, Sections, Symbols
<1>3. DefinitionsKept
  <2> SUFFICES ASSUME NEW k \in Symbols, file0.symtab[k].shndx # UNDEF,
                      file.symtab[k].shndx = UNDEF
               PROVE  SymAsked(file0.symtab[k]) \/ AbsAsked(file0.symtab[k])
    BY <1>1 DEF DefinitionsKept, SymAsked, AbsAsked
  <2>1. UNDEF \notin Sections \ {0}
    BY DEF UNDEF
  <2> QED
    BY <2>1 DEF SymbolsOK, SymbolOK
<1> QED
  BY <1>2, <1>3 DEF SymtabSound

\* Whatever is run, and however often it is interrupted, the file stays well
\* formed, and a definition is lost only to sym2und or abs2und asked for its name
\* (sym2und.c:93-101, abs2und.c:86-94): SymbolsOK, by a step of any tool.
THEOREM Symtab_Sound == Spec => []SymtabSound
<1>1. IInv => SymtabSound
  BY SymtabFollows
<1> QED
  BY <1>1, AlwaysIInv, PTL

\* When all has finished, every address is gone.
LEMMA PlacesFollow ==
  ASSUME IInv
  PROVE  PlacesKept
<1> USE DEF IInv
<1> SUFFICES ASSUME pc = "done", ~spoilt, Ran("pie2rel"), NEW k \in Symbols,
                    InSection(file0.symtab[k]), InSection(file.symtab[k])
             PROVE  (file.symtab[k].value + file0.shdrs[file0.symtab[k].shndx].addr) % Word
                      = file0.symtab[k].value
  <2>1. Symbols = DOMAIN file.symtab
    BY FileIs
  <2> QED
    BY <2>1 DEF PlacesKept
<1>1. Finished("pie2rel") /\ ~RunningIs("sym2und") /\ ~RunningIs("pie2rel")
  BY AtTheEnd
<1>2. file.symtab[k].shndx \in Sections
  BY <1>1 DEF AddressesOK
<1>3. SymbolOK(file0.symtab[k], file.symtab[k])
  BY DEF SymbolsOK
<1>4. file.symtab[k].shndx = file0.symtab[k].shndx
  BY <1>3, OtherSectionOfAbsolute DEF InSection
<1>5. file.shdrs[file0.symtab[k].shndx].addr = 0
  BY <1>1, <1>2, <1>4 DEF AddressesOK
<1>6. pc # "failed"
  OBVIOUS
<1>7. Placed(k)
  BY <1>1, <1>2, <1>4, <1>6 DEF PlacesOK, Awaited
<1> QED
  BY <1>5, <1>7 DEF Placed

\* pie2rel moves no symbol: in a finished file that no interruption has spoilt,
\* what pie2rel left of a value and the address of the section it dropped add up
\* to where the symbol was (pie2rel.c:23-25).
THEOREM Places_Kept == Spec => []PlacesKept
<1>1. IInv => PlacesKept
  BY PlacesFollow
<1> QED
  BY <1>1, AlwaysIInv, PTL

\* Sections keep their names, and in the end abs2sectsym has come to all.
LEMMA SectionNamesFollow ==
  ASSUME IInv
  PROVE  SectionNamesLabelSections
<1> USE DEF IInv
<1> DEFINE homes(s) == {i \in DOMAIN file.shdrs : /\ file.shdrs[i].name # ""
                                                  /\ file.shdrs[i].name = s.name}
<1>0. \A s : homes(s) = Homes(s)
  <2>1. DOMAIN file.shdrs = Sections
    BY FileIs
  <2> QED
    BY <2>1 DEF FileOK, Homes
<1> DEFINE Labels(s, t) ==
             /\ t.shndx \notin {UNDEF, ABS} =>
                  /\ s.value = 0 /\ t.value = 0 /\ t.shndx \in homes(s)
                  /\ ~spoilt => t.shndx = Max(homes(s))
             /\ Ran("abs2sectsym") /\ s.value = 0 /\ homes(s) # {} => t.shndx # ABS
<1> SUFFICES ASSUME pc = "done", Before("pie2rel", "abs2sectsym")
             PROVE  \A k \in Symbols : file0.symtab[k].shndx = ABS
                                          => Labels(file0.symtab[k], file.symtab[k])
  <2>1. Symbols = DOMAIN file.symtab
    BY FileIs
  <2> QED
    BY <2>1, Zenon DEF SectionNamesLabelSections
<1> SUFFICES ASSUME NEW k \in Symbols,
                    NEW s, s = file0.symtab[k], NEW t, t = file.symtab[k], s.shndx = ABS
             PROVE  /\ t.shndx \notin {UNDEF, ABS} =>
                         /\ s.value = 0 /\ t.value = 0 /\ t.shndx \in homes(s)
                         /\ ~spoilt => t.shndx = Max(homes(s))
                    /\ Ran("abs2sectsym") /\ s.value = 0 /\ homes(s) # {} => t.shndx # ABS
  OBVIOUS
<1> HIDE DEF homes
<1>1. ASSUME t.shndx \notin {UNDEF, ABS}
      PROVE  /\ s.value = 0 /\ t.value = 0 /\ t.shndx \in homes(s)
             /\ ~spoilt => t.shndx = Max(homes(s))
  BY <1>0, <1>1 DEF TiedOK, IsTied
<1>2. ASSUME Ran("abs2sectsym"), s.value = 0, homes(s) # {} PROVE t.shndx # ABS
  <2>1. Finished("abs2sectsym")
    BY <1>2, AtTheEnd
  <2> QED
    BY <1>0, <1>2, <2>1 DEF AbsoluteOK
<1> QED
  BY <1>1, <1>2

\* An absolute symbol of value 0 that has a section's name stands for the start of
\* that section in a finished relocatable file, the last of them if no
\* interruption has spoilt the file, and no other absolute symbol is tied to a
\* section, provided no pie2rel comes after (abs2sectsym.c:15-17 and 90-102):
\* TiedOK for those that are tied, AbsoluteOK for those that are not.
THEOREM SectionNames_LabelSections == Spec => []SectionNamesLabelSections
<1>1. IInv => SectionNamesLabelSections
  BY SectionNamesFollow
<1> QED
  BY <1>1, AlwaysIInv, PTL

\* As the ELF specification has it, a symbol that has a name and is undefined
\* to begin with is not local.
NoLocalReferences ==
  \A f \in Files : \A k \in DOMAIN f.symtab :
    f.symtab[k].shndx = UNDEF /\ f.symtab[k].name # "" => f.symtab[k].info.bind # "LOCAL"

\* The invariant, for files without undefined local symbols.
LEMMA AlwaysReferencesOK ==
  ASSUME NoLocalReferences
  PROVE  Spec => [](IInv /\ ReferencesOK)
<1>1. Init => ReferencesOK
  BY DEF Init, ReferencesOK, NoLocalReferences, Symbols
<1>2. IInv /\ ReferencesOK /\ [Next]_vars => ReferencesOK'
  BY ReferencesStep DEF IInv
<1> QED
  BY <1>1, <1>2, IInvInit, IInvStep, PTL DEF Spec

\* In the end no symbol is awaited, and undprot has passed all.
LEMMA ReferencesFollow ==
  ASSUME IInv, ReferencesOK
  PROVE  UndefinedAreReferences
<1> USE DEF IInv
<1>0. Symbols = DOMAIN file.symtab
  BY FileIs
<1> SUFFICES ASSUME pc = "done", NEW k \in Symbols, file.symtab[k].shndx = UNDEF
             PROVE  /\ ~spoilt /\ file.symtab[k].name # ""
                       => file.symtab[k].info.bind # "LOCAL"
                    /\ Ran("undprot") /\ Before("sym2und", "undprot")
                       /\ Before("abs2und", "undprot")
                       => file.symtab[k].vis \in {"HIDDEN", "PROTECTED"}
  BY <1>0 DEF UndefinedAreReferences
<1>1. ~RunningIs("sym2und") /\ (Ran("undprot") => Finished("undprot"))
  BY AtTheEnd
<1>2. ~spoilt /\ file.symtab[k].name # "" => file.symtab[k].info.bind # "LOCAL"
  BY <1>1 DEF ReferencesOK, Awaited
<1>3. Ran("undprot") /\ Before("sym2und", "undprot") /\ Before("abs2und", "undprot")
      => file.symtab[k].vis \in {"HIDDEN", "PROTECTED"}
  BY <1>1 DEF ProtectedOK, Unbindable
<1> QED
  BY <1>2, <1>3

\* What is undefined in the finished file is a reference the linker resolves,
\* provided the file had no undefined local symbol to begin with, and after a last
\* undprot it cannot be bound to another object's definition
\* (undprot.c:68-69, sym2und.c:97, abs2und.c:91).
THEOREM Undefined_AreReferences ==
  ASSUME NoLocalReferences
  PROVE  Spec => []UndefinedAreReferences
<1>1. IInv /\ ReferencesOK => UndefinedAreReferences
  BY ReferencesFollow
<1> QED
  BY <1>1, AlwaysReferencesOK, PTL

----------------------------------------------------------------------------
\* What an uninterrupted recipe leaves.

\* A set of numbers that is not empty has a least one.
LEMMA LeastIsMember ==
  ASSUME NEW S, S \subseteq Nat, S # {}
  PROVE  \E m \in S : \A y \in S : m =< y
<1>1. PICK x \in S : \A y \in S : ~(<<y, x>> \in OpToRel(<, Nat))
  BY NatLessThanWellFounded, WFMin
<1>2. \A y \in S : x =< y
  <2> SUFFICES ASSUME NEW y \in S PROVE ~(y < x)
    OBVIOUS
  <2>1. y < x => <<y, x>> \in OpToRel(<, Nat)
    BY DEF OpToRel
  <2> QED
    BY <1>1, <2>1
<1> QED
  BY <1>2

\* A set of numbers up to n that lacks the first, and with each the one before,
\* is empty.
LEMMA NoFirst ==
  ASSUME NEW n \in Nat, NEW Bad, Bad \subseteq 0 .. n, 0 \notin Bad,
         \A i \in 1 .. n : i \in Bad => i - 1 \in Bad
  PROVE  Bad = {}
<1> SUFFICES ASSUME Bad # {} PROVE FALSE
  OBVIOUS
<1>1. Bad \subseteq Nat
  OBVIOUS
<1>2. PICK m \in Bad : \A y \in Bad : m =< y
  BY <1>1, LeastIsMember
<1>3. m \in 1 .. n /\ ~(m =< m - 1)
  <2>1. m \in 0 .. n /\ m # 0
    OBVIOUS
  <2> QED
    BY <2>1
<1> QED
  BY <1>2, <1>3

\* g has what each of the first k tools leaves.
LeftBy(g, k) ==
  g[0] = file0 /\ \A i \in 1 .. k : g[i] = Work(recipe0[i], g[i - 1])

\* One more tool can be run.
LEMMA OneMoreTool ==
  ASSUME NEW k \in Nat, k >= 1, NEW g, LeftBy(g, k - 1)
  PROVE  \E h : LeftBy(h, k)
<1> DEFINE last == Work(recipe0[k], g[k - 1])
           h == [j \in 0 .. k |-> IF j < k THEN g[j] ELSE last]
<1>1. h[0] = file0 /\ \A j \in 0 .. k : h[j] = IF j < k THEN g[j] ELSE last
  BY DEF LeftBy
<1>2. ASSUME NEW i \in 1 .. k PROVE h[i] = Work(recipe0[i], h[i - 1])
  <2>1. i \in 0 .. k /\ i - 1 \in 0 .. k /\ i - 1 < k
    OBVIOUS
  <2>2. h[i - 1] = g[i - 1]
    BY <1>1, <2>1
  <2>3. CASE i < k
    <3>1. i \in 1 .. k - 1
      BY <2>3
    <3>2. g[i] = Work(recipe0[i], g[i - 1])
      BY <3>1 DEF LeftBy
    <3>3. h[i] = g[i]
      BY <1>1, <2>1, <2>3
    <3> QED
      BY <2>2, <3>2, <3>3
  <2>4. CASE i = k
    <3>1. h[i] = last
      BY <1>1, <2>1, <2>4
    <3> QED
      BY <2>2, <2>4, <3>1
  <2> QED
    BY <2>3, <2>4
<1> HIDE DEF h
<1> QED
  BY <1>1, <1>2 DEF LeftBy

\* So there is a function that Uninterrupted names.
LEMMA UninterruptedIs ==
  ASSUME recipe0 \in Seq(Invocation)
  PROVE  /\ Uninterrupted[0] = file0
         /\ \A k \in 1 .. Len(recipe0) :
              Uninterrupted[k] = Work(recipe0[k], Uninterrupted[k - 1])
<1> DEFINE n == Len(recipe0)
           Loop(f) == [k \in 0 .. n |-> IF k = 0 THEN file0 ELSE Work(recipe0[k], f[k - 1])]
           Bad == {k \in 0 .. n : ~\E g : LeftBy(g, k)}
<1>1. n \in Nat
  OBVIOUS
<1>2. 0 \notin Bad
  <2> DEFINE g == [k \in 0 .. 0 |-> file0]
  <2>1. g[0] = file0 /\ \A i \in 1 .. 0 : FALSE
    OBVIOUS
  <2> HIDE DEF g
  <2>2. LeftBy(g, 0)
    BY <2>1 DEF LeftBy
  <2> QED
    BY <2>2
<1>3. ASSUME NEW k \in 1 .. n, k \in Bad PROVE k - 1 \in Bad
  <2>1. k \in Nat /\ k >= 1 /\ k - 1 \in 0 .. n
    BY <1>1
  <2> QED
    BY <1>3, <2>1, OneMoreTool
<1>4. Bad = {}
  <2> HIDE DEF Bad, n
  <2>1. Bad \subseteq 0 .. n
    BY DEF Bad
  <2> QED
    BY <1>1, <1>2, <1>3, <2>1, NoFirst
<1>5. PICK g : LeftBy(g, n)
  <2>1. n \in 0 .. n
    BY <1>1
  <2> QED
    BY <1>4, <2>1
<1> HIDE DEF n, Bad
<1> DEFINE f == [k \in 0 .. n |-> g[k]]
<1>6. ASSUME NEW k \in 0 .. n
      PROVE  f[k] = IF k = 0 THEN file0 ELSE Work(recipe0[k], f[k - 1])
  <2>1. k # 0 => k \in 1 .. n /\ k - 1 \in 0 .. n
    BY <1>1
  <2>2. f[k] = g[k] /\ (k # 0 => f[k - 1] = g[k - 1])
    BY <2>1
  <2> HIDE DEF f
  <2> QED
    BY <1>5, <2>1, <2>2 DEF LeftBy
<1>7. f = Loop(f)
  <2>1. f = [k \in 0 .. n |-> f[k]]
    OBVIOUS
  <2> HIDE DEF f
  <2> QED
    BY <1>6, <2>1
<1> HIDE DEF f
<1>8. Uninterrupted = CHOOSE e : e = Loop(e)
  BY DEF Uninterrupted, n
<1>9. Uninterrupted = Loop(Uninterrupted)
  <2> HIDE DEF Loop
  <2> QED
    BY <1>7, <1>8
<1>10. 0 \in 0 .. n /\ \A k \in 1 .. n : k \in 0 .. n /\ k # 0
  BY <1>1
<1> QED
  BY <1>9, <1>10 DEF n

\* Files that agree in every part are one.
LEMMA SameFile ==
  ASSUME NEW n, NEW f \in File(n), NEW g \in File(n),
         f.type = g.type, f.phnum = g.phnum, Len(f.symtab) = Len(g.symtab),
         \A i \in 0 .. n : f.shdrs[i] = g.shdrs[i],
         \A k \in 1 .. Len(g.symtab) : f.symtab[k] = g.symtab[k]
  PROVE  f = g
<1>1. f.symtab \in Seq(Symbol) /\ g.symtab \in Seq(Symbol)
  BY DEF File
<1>2. f.symtab = g.symtab
  BY <1>1, SeqEqual
<1>3. f.shdrs \in [0 .. n -> Shdr] /\ g.shdrs \in [0 .. n -> Shdr]
  BY DEF File
<1>4. f.shdrs = g.shdrs
  <2> DEFINE r == f.shdrs
             s == g.shdrs
  <2>1. /\ r = [i \in 0 .. n |-> r[i]] /\ s = [i \in 0 .. n |-> s[i]]
        /\ \A i \in 0 .. n : r[i] = s[i]
    BY <1>3
  <2> HIDE DEF r, s
  <2>2. r = s
    BY <2>1
  <2> QED
    BY <2>2 DEF r, s
<1>5. /\ f = [type |-> f.type, phnum |-> f.phnum, shdrs |-> f.shdrs, symtab |-> f.symtab]
      /\ g = [type |-> g.type, phnum |-> g.phnum, shdrs |-> g.shdrs, symtab |-> g.symtab]
  BY DEF File
<1> QED
  BY <1>2, <1>4, <1>5

\* The work of a tool, part by part.
LEMMA WorkIs ==
  ASSUME NEW n, NEW f \in File(n), NEW i \in Invocation
  PROVE  LET w == Work(i, f)
         IN  /\ w = [type |-> w.type, phnum |-> w.phnum, shdrs |-> w.shdrs, symtab |-> w.symtab]
             /\ IF i.tool = "pie2rel" THEN w.type = "REL" /\ w.phnum = 0
                ELSE w.type = f.type /\ w.phnum = f.phnum
             /\ w.symtab = IF i.tool = "rel2data" THEN f.symtab
                           ELSE [k \in 1 .. Len(f.symtab) |-> RewrittenSymbol(i, f, f.symtab[k])]
             /\ w.shdrs = [k \in 0 .. n |-> RewrittenShdr(i, f.shdrs[k])]
<1> DEFINE s == IF i.tool = "rel2data" THEN f.symtab
                ELSE [k \in 1 .. Len(f.symtab) |-> RewrittenSymbol(i, f, f.symtab[k])]
           h == [k \in 0 .. n |-> RewrittenShdr(i, f.shdrs[k])]
           w == Work(i, f)
           g == IF i.tool = "rel2data" THEN f
                ELSE [f EXCEPT !.symtab = [k \in DOMAIN @ |-> RewrittenSymbol(i, f, @[k])]]
           v == IF i.tool \in {"rel2data", "pie2rel"}
                THEN [g EXCEPT !.shdrs = [k \in DOMAIN @ |-> RewrittenShdr(i, @[k])]] ELSE g
<1>1. /\ f = [type |-> f.type, phnum |-> f.phnum, shdrs |-> f.shdrs, symtab |-> f.symtab]
      /\ DOMAIN f.symtab = 1 .. Len(f.symtab) /\ DOMAIN f.shdrs = 0 .. n
      /\ f.shdrs = [k \in 0 .. n |-> f.shdrs[k]]
  <2>1. /\ f.symtab \in Seq(Symbol) /\ f.shdrs \in [0 .. n -> Shdr]
        /\ f = [type |-> f.type, phnum |-> f.phnum, shdrs |-> f.shdrs, symtab |-> f.symtab]
    BY DEF File
  <2>2. DOMAIN f.symtab = 1 .. Len(f.symtab)
    BY <2>1
  <2>3. DOMAIN f.shdrs = 0 .. n /\ f.shdrs = [k \in 0 .. n |-> f.shdrs[k]]
    BY <2>1
  <2> QED
    BY <2>1, <2>2, <2>3
<1>2. g = [type |-> f.type, phnum |-> f.phnum, shdrs |-> f.shdrs, symtab |-> s]
  <2>1. CASE i.tool = "rel2data"
    BY <1>1, <2>1
  <2>2. CASE i.tool # "rel2data"
    <3>1. g = [f EXCEPT !.symtab = s]
      BY <1>1, <2>2
    <3> HIDE DEF g, s
    <3> QED
      BY <1>1, <3>1
  <2> QED
    BY <2>1, <2>2
<1>3. v = [type |-> f.type, phnum |-> f.phnum, shdrs |-> h, symtab |-> s]
  <2>1. CASE i.tool \in {"rel2data", "pie2rel"}
    <3>1. g.shdrs = f.shdrs
      <4> HIDE DEF g, s
      <4> QED
        BY <1>2
    <3>2. v = [g EXCEPT !.shdrs = h]
      <4> HIDE DEF g, s
      <4> QED
        BY <1>1, <2>1, <3>1
    <3> HIDE DEF g, v, s, h
    <3> QED
      BY <1>2, <3>2
  <2>2. CASE i.tool \notin {"rel2data", "pie2rel"}
    <3>1. \A k \in 0 .. n : RewrittenShdr(i, f.shdrs[k]) = f.shdrs[k]
      BY <2>2 DEF RewrittenShdr
    <3>2. h = f.shdrs
      BY <1>1, <3>1
    <3>3. v = g
      BY <2>2
    <3> HIDE DEF g, v, s, h
    <3> QED
      BY <1>2, <3>2, <3>3
  <2> QED
    BY <2>1, <2>2
<1>4. w = IF i.tool = "pie2rel" THEN RewrittenHeader(v) ELSE v
  BY DEF Work
<1> HIDE DEF v, w, g, s, h
<1>5. w = [type |-> IF i.tool = "pie2rel" THEN "REL" ELSE f.type,
           phnum |-> IF i.tool = "pie2rel" THEN 0 ELSE f.phnum, shdrs |-> h, symtab |-> s]
  BY <1>3, <1>4 DEF RewrittenHeader
<1>6. w = [type |-> w.type, phnum |-> w.phnum, shdrs |-> w.shdrs, symtab |-> w.symtab]
  BY <1>5
<1>7. /\ w.symtab = s /\ w.shdrs = h
      /\ IF i.tool = "pie2rel" THEN w.type = "REL" /\ w.phnum = 0
         ELSE w.type = f.type /\ w.phnum = f.phnum
  BY <1>5
<1> QED
  BY <1>6, <1>7 DEF w, s, h

\* A file whose parts are those of the work of a tool is the work of that tool.
LEMMA IsWork ==
  ASSUME NEW n, NEW f \in File(n), NEW g \in File(n), NEW i \in Invocation,
         IF i.tool = "pie2rel" THEN g.type = "REL" /\ g.phnum = 0
         ELSE g.type = f.type /\ g.phnum = f.phnum,
         Len(g.symtab) = Len(f.symtab),
         \A k \in 1 .. Len(f.symtab) :
           g.symtab[k] = IF i.tool = "rel2data" THEN f.symtab[k]
                         ELSE RewrittenSymbol(i, f, f.symtab[k]),
         \A k \in 0 .. n : g.shdrs[k] = RewrittenShdr(i, f.shdrs[k])
  PROVE  g = Work(i, f)
<1> DEFINE w == Work(i, f)
           s == IF i.tool = "rel2data" THEN f.symtab
                ELSE [k \in 1 .. Len(f.symtab) |-> RewrittenSymbol(i, f, f.symtab[k])]
           h == [k \in 0 .. n |-> RewrittenShdr(i, f.shdrs[k])]
<1>1. /\ w = [type |-> w.type, phnum |-> w.phnum, shdrs |-> w.shdrs, symtab |-> w.symtab]
      /\ IF i.tool = "pie2rel" THEN w.type = "REL" /\ w.phnum = 0
         ELSE w.type = f.type /\ w.phnum = f.phnum
      /\ w.symtab = s /\ w.shdrs = h
  BY WorkIs
<1>2. /\ g = [type |-> g.type, phnum |-> g.phnum, shdrs |-> g.shdrs, symtab |-> g.symtab]
      /\ f.symtab \in Seq(Symbol) /\ g.symtab \in Seq(Symbol)
      /\ g.shdrs = [k \in 0 .. n |-> g.shdrs[k]]
  BY DEF File
<1>3. f.symtab = [k \in 1 .. Len(f.symtab) |-> f.symtab[k]]
      /\ g.symtab = [k \in 1 .. Len(f.symtab) |-> g.symtab[k]]
  BY <1>2
<1>4. g.symtab = s
  <2>1. CASE i.tool = "rel2data"
    <3>1. \A k \in 1 .. Len(f.symtab) : g.symtab[k] = f.symtab[k]
      BY <2>1
    <3> QED
      BY <1>3, <2>1, <3>1
  <2>2. CASE i.tool # "rel2data"
    <3>1. \A k \in 1 .. Len(f.symtab) : g.symtab[k] = RewrittenSymbol(i, f, f.symtab[k])
      BY <2>2
    <3> QED
      BY <1>3, <2>2, <3>1
  <2> QED
    BY <2>1, <2>2
<1>5. g.shdrs = h
  BY <1>2
<1>6. g.type = w.type /\ g.phnum = w.phnum
  BY <1>1
<1> HIDE DEF w, s, h
<1>7. g = w
  BY <1>1, <1>2, <1>4, <1>5, <1>6
<1> QED
  BY <1>7 DEF w

----------------------------------------------------------------------------
\* Running a tool again on a symbol.

\* A symbol is what its fields are.
LEMMA SymbolIs ==
  ASSUME NEW t \in Symbol
  PROVE  t = [name |-> t.name, shndx |-> t.shndx, value |-> t.value, size |-> t.size,
              info |-> t.info, vis |-> t.vis]
  BY DEF Symbol

\* Symbols that agree in every field are one.
LEMMA SameSymbol ==
  ASSUME NEW t \in Symbol, NEW u \in Symbol,
         u.name = t.name, u.shndx = t.shndx, u.value = t.value, u.size = t.size,
         u.info = t.info, u.vis = t.vis
  PROVE  u = t
<1>1. /\ t = [name |-> t.name, shndx |-> t.shndx, value |-> t.value, size |-> t.size,
              info |-> t.info, vis |-> t.vis]
      /\ u = [name |-> u.name, shndx |-> u.shndx, value |-> u.value, size |-> u.size,
              info |-> u.info, vis |-> u.vis]
  BY SymbolIs
<1> QED
  BY <1>1, Zenon

\* What an undefined symbol keeps of what it was: its name and its visibility.
LEMMA UndefinedIs ==
  ASSUME NEW t \in Symbol
  PROVE  /\ Undefined(t) = [name |-> t.name, shndx |-> UNDEF, value |-> 0, size |-> 0,
                            info |-> [bind |-> "GLOBAL", type |-> "NOTYPE"], vis |-> t.vis]
         /\ Undefined(t).name = t.name /\ Undefined(t).vis = t.vis
         /\ Undefined(t).shndx = UNDEF
<1> DEFINE info == [bind |-> "GLOBAL", type |-> "NOTYPE"]
<1>1. Undefined(t) = [t EXCEPT !.shndx = UNDEF, !.size = 0, !.value = 0, !.info = info]
  BY DEF Undefined
<1>2. t = [name |-> t.name, shndx |-> t.shndx, value |-> t.value, size |-> t.size,
           info |-> t.info, vis |-> t.vis]
  BY SymbolIs
<1> HIDE DEF info
<1>3. Undefined(t) = [name |-> t.name, shndx |-> UNDEF, value |-> 0, size |-> 0,
                      info |-> info, vis |-> t.vis]
  BY <1>1, <1>2
<1>4. Undefined(t).name = t.name /\ Undefined(t).vis = t.vis /\ Undefined(t).shndx = UNDEF
  BY <1>3
<1> QED
  BY <1>3, <1>4 DEF info

\* Symbols of one name and visibility are undefined alike.
LEMMA UndefinedAlike ==
  ASSUME NEW t \in Symbol, NEW u \in Symbol, u.name = t.name, u.vis = t.vis
  PROVE  Undefined(u) = Undefined(t)
  BY UndefinedIs

\* What a tool makes of a symbol depends on the section headers only.
LEMMA SameRewriting ==
  ASSUME NEW f, NEW g, f.shdrs = g.shdrs, NEW t, NEW i \in Invocation, i.tool # "rel2data"
  PROVE  RewrittenSymbol(i, f, t) = RewrittenSymbol(i, g, t)
<1>1. Namesakes(f, t) = Namesakes(g, t)
  BY DEF Namesakes
<1>2. Abs2sectsym(f, t) = Abs2sectsym(g, t)
  BY <1>1 DEF Abs2sectsym
<1>3. Rebased(f, t) = Rebased(g, t)
  BY DEF Rebased
<1> QED
  BY <1>2, <1>3, Zenon DEF RewrittenSymbol

\* pie2rel leaves a symbol alone if its section has no address.
LEMMA NotMoved ==
  ASSUME NEW f, NEW t \in Symbol, NEW i \in Invocation, i.tool = "pie2rel",
         InSection(t) => f.shdrs[t.shndx].addr = 0
  PROVE  RewrittenSymbol(i, f, t) = t
<1>1. RewrittenSymbol(i, f, t) = Rebased(f, t)
  BY DEF RewrittenSymbol
<1>2. CASE InSection(t)
  <2>1. t.value \in 0 .. Word - 1 /\ Word \in Nat \ {0}
    BY WordAssumption DEF Symbol
  <2>2. t.value + Word - 0 = t.value + Word
    BY <2>1
  <2>3. (t.value + Word - f.shdrs[t.shndx].addr) % Word = t.value
    BY <1>2, <2>1, <2>2, AddressesWrap
  <2>4. Rebased(f, t) = [t EXCEPT !.value = t.value]
    BY <1>2, <2>3 DEF Rebased
  <2>5. [t EXCEPT !.value = t.value] = t
    BY DEF Symbol
  <2> QED
    BY <1>1, <2>4, <2>5
<1>3. CASE ~InSection(t)
  BY <1>1, <1>3 DEF Rebased
<1> QED
  BY <1>2, <1>3

\* The tools but pie2rel leave a symbol alone that they have rewritten.
LEMMA RewrittenTwice ==
  ASSUME NEW n \in 0 .. LORESERVE - 1, NEW f \in File(n), NEW t \in Symbol,
         NEW i \in Invocation, i.tool \notin {"rel2data", "pie2rel"},
         NEW r, r = RewrittenSymbol(i, f, t)
  PROVE  RewrittenSymbol(i, f, r) = r
<1>0. i.tool \in {"sym2und", "abs2und", "abs2sectsym", "undprot"}
  BY DEF Invocation, Tools
<1>1. CASE i.tool = "sym2und"
  <2>1. \A s : RewrittenSymbol(i, f, s) = Sym2und(s, i.sym)
    BY <1>1 DEF RewrittenSymbol
  <2>2. CASE t.name # "" /\ t.name = i.sym
    <3>1. r = Undefined(t)
      BY <2>1, <2>2 DEF Sym2und
    <3>2. r \in Symbol
      BY <1>1, RewrittenIs DEF IsRewritten, AssertionHolds
    <3>3. r.name = t.name /\ r.vis = t.vis
      BY <3>1, UndefinedIs
    <3>4. Undefined(r) = Undefined(t)
      BY <3>2, <3>3, UndefinedAlike
    <3> QED
      BY <2>1, <2>2, <3>1, <3>3, <3>4 DEF Sym2und
  <2>3. CASE ~(t.name # "" /\ t.name = i.sym)
    BY <2>1, <2>3 DEF Sym2und
  <2> QED
    BY <2>2, <2>3
<1>2. CASE i.tool = "abs2und"
  <2>1. \A s : RewrittenSymbol(i, f, s) = Abs2und(s, i.sym)
    BY <1>2 DEF RewrittenSymbol
  <2>2. CASE t.name # "" /\ i.sym \in {NoName, t.name} /\ t.shndx = ABS
    <3>1. r = Undefined(t)
      BY <2>1, <2>2 DEF Abs2und
    <3>2. r.shndx # ABS
      BY <3>1, UndefinedIs DEF UNDEF, ABS
    <3> QED
      BY <2>1, <3>2 DEF Abs2und
  <2>3. CASE ~(t.name # "" /\ i.sym \in {NoName, t.name} /\ t.shndx = ABS)
    BY <2>1, <2>3 DEF Abs2und
  <2> QED
    BY <2>2, <2>3
<1>3. CASE i.tool = "abs2sectsym"
  <2>1. \A s : RewrittenSymbol(i, f, s) = Abs2sectsym(f, s)
    BY <1>3 DEF RewrittenSymbol
  <2>2. CASE Namesakes(f, t) # {}
    <3>1. r = [t EXCEPT !.shndx = Max(Namesakes(f, t))]
      BY <2>1, <2>2 DEF Abs2sectsym
    <3>2. Max(Namesakes(f, t)) \in 0 .. n
      BY <2>2, NamesakesAreSections
    <3>3. r.shndx = Max(Namesakes(f, t))
      BY <3>1 DEF Symbol
    <3>4. r.shndx # ABS
      <4> DEFINE m == Max(Namesakes(f, t))
      <4>1. m \in 0 .. n /\ r.shndx = m
        BY <3>2, <3>3
      <4>2. n \in Nat /\ n < ABS
        BY DEF LORESERVE, ABS
      <4> HIDE DEF m
      <4> QED
        BY <4>1, <4>2
    <3>5. Namesakes(f, r) = {}
      BY <3>4 DEF Namesakes
    <3> QED
      BY <2>1, <3>5 DEF Abs2sectsym
  <2>3. CASE Namesakes(f, t) = {}
    BY <2>1, <2>3 DEF Abs2sectsym
  <2> QED
    BY <2>2, <2>3
<1>4. CASE i.tool = "undprot"
  <2>1. \A s : RewrittenSymbol(i, f, s) = Undprot(s)
    BY <1>4 DEF RewrittenSymbol
  <2>2. CASE t.shndx = UNDEF /\ t.vis \notin {"HIDDEN", "PROTECTED"}
    <3>1. r = [t EXCEPT !.vis = "PROTECTED"]
      BY <2>1, <2>2 DEF Undprot
    <3>2. r.vis = "PROTECTED"
      BY <3>1 DEF Symbol
    <3> QED
      BY <2>1, <3>2 DEF Undprot
  <2>3. CASE ~(t.shndx = UNDEF /\ t.vis \notin {"HIDDEN", "PROTECTED"})
    BY <2>1, <2>3 DEF Undprot
  <2> QED
    BY <2>2, <2>3
<1> QED
  BY <1>0, <1>1, <1>2, <1>3, <1>4

\* A section header is rewritten once.
LEMMA ShdrRewrittenTwice ==
  ASSUME NEW i \in Invocation, NEW h \in Shdr
  PROVE  RewrittenShdr(i, RewrittenShdr(i, h)) = RewrittenShdr(i, h)
<1> SUFFICES ASSUME NEW r, r = RewrittenShdr(i, h) PROVE RewrittenShdr(i, r) = r
  OBVIOUS
<1>1. CASE i.tool = "rel2data" /\ h.type \in {"REL", "RELA"}
  <2>1. r = [h EXCEPT !.type = "PROGBITS"]
    BY <1>1 DEF RewrittenShdr
  <2>2. r.type = "PROGBITS"
    BY <2>1 DEF Shdr
  <2> QED
    BY <1>1, <2>2 DEF RewrittenShdr
<1>2. CASE i.tool = "pie2rel" /\ h.alloc
  <2>1. r = [h EXCEPT !.addr = 0]
    BY <1>2 DEF RewrittenShdr
  <2>2. r.addr = 0 /\ r.alloc = h.alloc /\ r \in Shdr
    BY <1>2, <2>1, RewrittenShdrIs DEF Shdr
  <2>3. [r EXCEPT !.addr = 0] = r
    BY <2>2 DEF Shdr
  <2> QED
    BY <1>2, <2>2, <2>3 DEF RewrittenShdr
<1>3. CASE ~(i.tool = "rel2data" /\ h.type \in {"REL", "RELA"}) /\ ~(i.tool = "pie2rel" /\ h.alloc)
  BY <1>3 DEF RewrittenShdr
<1> QED
  BY <1>1, <1>2, <1>3

\* The other tools rewrite no section header.
LEMMA ShdrLeft ==
  ASSUME NEW i, i.tool \notin {"rel2data", "pie2rel"}
  PROVE  \A h : RewrittenShdr(i, h) = h
  BY DEF RewrittenShdr

\* What tool i makes of a symbol that it has rewritten in part, if it has not
\* overwritten what it decides by.
LEMMA PartlyAgain ==
  ASSUME NEW n \in 0 .. LORESERVE - 1, NEW f \in File(n), NEW t \in Symbol,
         NEW i \in Invocation, i.tool # "rel2data", AssertionHolds(i, f, t),
         NEW u \in PartlyWritten(i, f, t),
         i.tool \in {"abs2und", "abs2sectsym"} =>
           u.shndx = t.shndx \/ u = RewrittenSymbol(i, f, t),
         i.tool = "pie2rel" /\ InSection(t) => f.shdrs[t.shndx].addr = 0
  PROVE  RewrittenSymbol(i, f, u) = RewrittenSymbol(i, f, t)
<1> SUFFICES ASSUME NEW r, r = RewrittenSymbol(i, f, t) PROVE RewrittenSymbol(i, f, u) = r
  OBVIOUS
<1>0. i.tool \in {"sym2und", "abs2und", "abs2sectsym", "undprot", "pie2rel"}
  BY DEF Invocation, Tools
<1>1. /\ u \in Symbol /\ r \in Symbol /\ u.name = t.name
  BY PartlyWrittenIs DEF MayWrite
<1>2. /\ u.value \in {t.value, r.value} /\ u.size \in {t.size, r.size}
      /\ u.info \in {t.info, r.info} /\ u.vis \in {t.vis, r.vis}
      /\ i.tool # "abs2sectsym" => u.shndx \in {t.shndx, r.shndx}
  <2> DEFINE sections == {t.shndx, r.shndx}
                 \cup (IF i.tool = "abs2sectsym" THEN Namesakes(f, t) ELSE {})
  <2>1. u \in [name : {t.name}, shndx : sections, value : {t.value, r.value},
               size : {t.size, r.size}, info : {t.info, r.info}, vis : {t.vis, r.vis}]
    BY DEF PartlyWritten
  <2>2. i.tool # "abs2sectsym" => sections = {t.shndx, r.shndx}
    OBVIOUS
  <2> HIDE DEF sections
  <2> QED
    BY <2>1, <2>2
<1>3. r = t /\ u.shndx = t.shndx => u = t
  BY <1>1, <1>2, SameSymbol
<1>4. i.tool # "pie2rel" => RewrittenSymbol(i, f, r) = r
  BY RewrittenTwice
<1>5. CASE i.tool = "sym2und"
  <2>1. \A s : RewrittenSymbol(i, f, s) = Sym2und(s, i.sym)
    BY <1>5 DEF RewrittenSymbol
  <2>2. CASE t.name # "" /\ t.name = i.sym
    <3>1. r = Undefined(t)
      BY <2>1, <2>2 DEF Sym2und
    <3>2. u.vis = t.vis
      BY <1>2, <3>1, UndefinedIs
    <3>3. Undefined(u) = Undefined(t)
      BY <1>1, <3>2, UndefinedAlike
    <3> QED
      BY <1>1, <2>1, <2>2, <3>1, <3>3 DEF Sym2und
  <2>3. CASE ~(t.name # "" /\ t.name = i.sym)
    <3>1. r = t
      BY <2>1, <2>3 DEF Sym2und
    <3> QED
      BY <1>2, <1>3, <1>4, <1>5, <3>1
  <2> QED
    BY <2>2, <2>3
<1>6. CASE i.tool = "abs2und"
  <2>1. \A s : RewrittenSymbol(i, f, s) = Abs2und(s, i.sym)
    BY <1>6 DEF RewrittenSymbol
  <2>2. CASE t.name # "" /\ i.sym \in {NoName, t.name} /\ t.shndx = ABS /\ u.shndx = t.shndx
    <3>1. r = Undefined(t)
      BY <2>1, <2>2 DEF Abs2und
    <3>2. u.vis = t.vis
      BY <1>2, <3>1, UndefinedIs
    <3>3. Undefined(u) = Undefined(t)
      BY <1>1, <3>2, UndefinedAlike
    <3> QED
      BY <1>1, <2>1, <2>2, <3>1, <3>3 DEF Abs2und
  <2>3. CASE u = r
    BY <1>4, <1>6, <2>3
  <2>4. CASE ~(t.name # "" /\ i.sym \in {NoName, t.name} /\ t.shndx = ABS)
    <3>1. r = t
      BY <2>1, <2>4 DEF Abs2und
    <3> QED
      BY <1>2, <1>3, <1>4, <1>6, <3>1
  <2> QED
    BY <1>6, <2>2, <2>3, <2>4
<1>7. CASE i.tool = "abs2sectsym"
  <2>1. r.value = t.value /\ r.size = t.size /\ r.info = t.info /\ r.vis = t.vis
    <3>1. r = Abs2sectsym(f, t)
      BY <1>7 DEF RewrittenSymbol
    <3>2. r = t \/ r = [t EXCEPT !.shndx = Max(Namesakes(f, t))]
      BY <3>1 DEF Abs2sectsym
    <3> DEFINE m == Max(Namesakes(f, t))
    <3> HIDE DEF m
    <3>3. r = t \/ r = [t EXCEPT !.shndx = m]
      BY <3>2 DEF m
    <3> QED
      BY <3>3 DEF Symbol
  <2>2. CASE u.shndx = t.shndx
    <3>1. u = t
      BY <1>1, <1>2, <2>1, <2>2, SameSymbol
    <3> QED
      BY <3>1
  <2>3. CASE u = r
    BY <1>4, <1>7, <2>3
  <2> QED
    BY <1>7, <2>2, <2>3
<1>8. CASE i.tool = "undprot"
  <2>1. r = Undprot(t)
    BY <1>8 DEF RewrittenSymbol
  <2>2. /\ r.name = t.name /\ r.shndx = t.shndx /\ r.value = t.value /\ r.size = t.size
        /\ r.info = t.info
    BY <2>1 DEF Undprot, Symbol
  <2>3. CASE u.vis = t.vis
    <3>1. u = t
      BY <1>1, <1>2, <1>8, <2>2, <2>3, SameSymbol
    <3> QED
      BY <3>1
  <2>4. CASE u.vis = r.vis
    <3>1. u = r
      BY <1>1, <1>2, <1>8, <2>2, <2>4, SameSymbol
    <3> QED
      BY <1>4, <1>8, <3>1
  <2> QED
    BY <1>2, <2>3, <2>4
<1>9. CASE i.tool = "pie2rel"
  <2>1. r = t
    BY <1>9, NotMoved
  <2>2. u = t
    BY <1>2, <1>3, <1>9, <2>1
  <2> QED
    BY <2>2
<1> QED
  BY <1>0, <1>5, <1>6, <1>7, <1>8, <1>9

\* The number of a section is a number.
LEMMA SectionNumbers ==
  ASSUME NEW n \in 0 .. LORESERVE - 1
  PROVE  n \in Nat
  BY DEF LORESERVE

\* A file has one number of sections.
LEMMA OneSize ==
  ASSUME NEW m \in 0 .. LORESERVE - 1, NEW n \in 0 .. LORESERVE - 1, NEW g,
         g \in File(m), g \in File(n)
  PROVE  m = n
<1>1. DOMAIN g.shdrs = 0 .. m /\ DOMAIN g.shdrs = 0 .. n
  BY DEF File
<1>2. m \in Nat /\ n \in Nat
  BY SectionNumbers
<1>3. 0 .. m = 0 .. n
  BY <1>1
<1> QED
  BY <1>2, <1>3

----------------------------------------------------------------------------
\* What running a tool again makes good.

\* The file as the tools that have finished leave it when nothing interrupts them.
Clean == Uninterrupted[Position - 1]

\* The running tool has been past symbol k, and past section header i.
SymbolDone(k) == (pc = "symbols" /\ k < cursor) \/ pc \in {"sections", "header"}
ShdrDone(i) == pc = "header" \/ (pc = "sections" /\ i < cursor)

\* The running tool has made of symbol k, or makes of it yet, what it makes of
\* the one in the clean file; and of section header i.
Rewrites(k) ==
  LET t == file.symtab[k]  b == Clean.symtab[k]
  IN  IF Running.tool = "rel2data" THEN t = b
      ELSE (IF SymbolDone(k) THEN t ELSE RewrittenSymbol(Running, file, t))
             = RewrittenSymbol(Running, Clean, b)
RewritesShdr(i) ==
  (IF ShdrDone(i) THEN file.shdrs[i] ELSE RewrittenShdr(Running, file.shdrs[i]))
    = RewrittenShdr(Running, Clean.shdrs[i])

\* The file is clean, or the running tool makes of it what it makes of the clean one.
Recovers ==
  /\ \A n \in 0 .. LORESERVE - 1 : file \in File(n) => Clean \in File(n)
  /\ Len(Clean.symtab) = Len(file.symtab)
  /\ ~RunningIs("pie2rel") => Clean.type = file.type /\ Clean.phnum = file.phnum
  /\ recipe = <<>> => file = Clean
  /\ recipe # <<>> =>
       (\A k \in Symbols : Rewrites(k)) /\ (\A i \in Sections : RewritesShdr(i))

RerunOK == ~spoilt /\ pc # "failed" => Recovers

\* What an uninterrupted recipe leaves does not change.
LEMMA CleanStays ==
  ASSUME recipe0' = recipe0, file0' = file0
  PROVE  /\ Uninterrupted' = Uninterrupted
         /\ recipe' = recipe => Clean' = Clean
<1>1. Uninterrupted' = Uninterrupted
  BY Zenon DEF Uninterrupted
<1>2. recipe' = recipe => Position' = Position
  BY DEF Position
<1> QED
  BY <1>1, <1>2 DEF Clean

\* The parts of the clean file.
LEMMA CleanIs ==
  ASSUME FileOK, Recovers
  PROVE  \E n \in 0 .. LORESERVE - 1 :
           /\ n \in Nat /\ file \in File(n) /\ Clean \in File(n)
           /\ Sections = 0 .. n /\ DOMAIN file.shdrs = 0 .. n
           /\ Symbols = 1 .. Len(file.symtab) /\ DOMAIN file.symtab = 1 .. Len(file.symtab)
           /\ \A k \in Symbols : file.symtab[k] \in Symbol /\ Clean.symtab[k] \in Symbol
           /\ \A i \in Sections : file.shdrs[i] \in Shdr /\ Clean.shdrs[i] \in Shdr
<1>1. PICK n \in 0 .. LORESERVE - 1 :
        /\ n \in Nat /\ file \in File(n) /\ Sections = 0 .. n /\ DOMAIN file.shdrs = 0 .. n
        /\ Symbols = 1 .. Len(file.symtab) /\ DOMAIN file.symtab = 1 .. Len(file.symtab)
        /\ \A k \in Symbols : file.symtab[k] \in Symbol
        /\ \A i \in 0 .. n : file.shdrs[i] \in Shdr
  BY FileIs
<1>2. Clean \in File(n) /\ Len(Clean.symtab) = Len(file.symtab)
  BY <1>1 DEF Recovers
<1>3. Clean.symtab \in Seq(Symbol) /\ Clean.shdrs \in [0 .. n -> Shdr]
  BY <1>2 DEF File
<1>4. \A k \in Symbols : Clean.symtab[k] \in Symbol
  BY <1>1, <1>2, <1>3
<1> QED
  BY <1>1, <1>2, <1>3, <1>4

\* The tools for symbols leave the section headers as they are.
LEMMA SameShdrs ==
  ASSUME ControlOK, FileOK, Recovers, recipe # <<>>,
         Running.tool \notin {"rel2data", "pie2rel"}
  PROVE  file.shdrs = Clean.shdrs
<1>1. PICK n \in Nat : file \in File(n) /\ Clean \in File(n) /\ Sections = 0 .. n
  BY CleanIs
<1>2. \A i \in Sections : file.shdrs[i] = Clean.shdrs[i]
  BY ShdrLeft DEF Recovers, RewritesShdr
<1> DEFINE a == file.shdrs
           b == Clean.shdrs
<1>3. a = [i \in 0 .. n |-> a[i]] /\ b = [i \in 0 .. n |-> b[i]]
  BY <1>1 DEF File
<1>4. \A i \in 0 .. n : a[i] = b[i]
  BY <1>1, <1>2
<1> HIDE DEF a, b
<1>5. a = b
  BY <1>3, <1>4
<1> QED
  BY <1>5 DEF a, b

\* A step that writes no symbol and no section header, but pie2rel's header maybe,
\* may pass, or forget that it has passed, what the running tool leaves alone.
LEMMA NothingWritten ==
  ASSUME ControlOK, FileOK, Recovers, UNCHANGED <<recipe, history>>,
         file'.symtab = file.symtab, file'.shdrs = file.shdrs,
         \A n \in 0 .. LORESERVE - 1 : file' \in File(n) => file \in File(n),
         file' = file \/ RunningIs("pie2rel"),
         recipe # <<>> =>
           /\ Running.tool # "rel2data" =>
                \A k \in Symbols :
                  \/ SymbolDone(k)' <=> SymbolDone(k)
                  \/ RewrittenSymbol(Running, file, file.symtab[k]) = file.symtab[k]
           /\ \A i \in Sections :
                \/ ShdrDone(i)' <=> ShdrDone(i)
                \/ RewrittenShdr(Running, file.shdrs[i]) = file.shdrs[i]
  PROVE  Recovers'
<1>1. Clean' = Clean /\ Running' = Running /\ Symbols' = Symbols /\ Sections' = Sections
  BY CleanStays DEF history, Running, Symbols, Sections
<1>0. ASSUME recipe # <<>>, Running.tool # "rel2data", NEW s
      PROVE  RewrittenSymbol(Running, file', s) = RewrittenSymbol(Running, file, s)
  BY <1>0, RunningIsInRecipe, SameRewriting
<1>2. ASSUME recipe # <<>>, NEW k \in Symbols PROVE Rewrites(k)'
  <2>1. Rewrites(k)
    BY <1>2 DEF Recovers
  <2>2. CASE Running.tool = "rel2data"
    BY <1>1, <2>1, <2>2 DEF Rewrites
  <2>3. CASE Running.tool # "rel2data"
    <3>1. \/ SymbolDone(k)' <=> SymbolDone(k)
          \/ RewrittenSymbol(Running, file, file.symtab[k]) = file.symtab[k]
      BY <1>2, <2>3
    <3>2. RewrittenSymbol(Running, file', file.symtab[k])
            = RewrittenSymbol(Running, file, file.symtab[k])
      BY <1>0, <1>2, <2>3
    <3> QED
      BY <1>1, <2>1, <2>3, <3>1, <3>2 DEF Rewrites
  <2> QED
    BY <2>2, <2>3
<1>3. ASSUME recipe # <<>>, NEW i \in Sections PROVE RewritesShdr(i)'
  <2>1. RewritesShdr(i)
    BY <1>3 DEF Recovers
  <2>2. \/ ShdrDone(i)' <=> ShdrDone(i)
        \/ RewrittenShdr(Running, file.shdrs[i]) = file.shdrs[i]
    BY <1>3
  <2> QED
    BY <1>1, <2>1, <2>2 DEF RewritesShdr
<1>4. /\ RunningIs("pie2rel")' <=> RunningIs("pie2rel")
      /\ recipe' = recipe /\ (recipe = <<>> => file' = file)
  BY <1>1 DEF RunningIs
<1>5. ~RunningIs("pie2rel") => Clean.type = file'.type /\ Clean.phnum = file'.phnum
  BY DEF Recovers
<1> QED
  BY <1>1, <1>2, <1>3, <1>4, <1>5 DEF Recovers

\* What the running tool has done it leaves as it is, except that pie2rel moves a
\* symbol again whose section still has its address.
LEMMA DoneTwice ==
  ASSUME ControlOK, FileOK, Recovers, recipe # <<>>, NEW k \in Symbols, SymbolDone(k),
         Running.tool # "rel2data",
         Running.tool = "pie2rel" /\ InSection(file.symtab[k]) =>
           file.shdrs[file.symtab[k].shndx].addr = 0
  PROVE  RewrittenSymbol(Running, file, file.symtab[k]) = file.symtab[k]
<1> DEFINE t == file.symtab[k]
           b == Clean.symtab[k]
<1>1. PICK n \in 0 .. LORESERVE - 1 :
        file \in File(n) /\ t \in Symbol /\ b \in Symbol
  BY CleanIs
<1>2. Running \in Invocation
  BY RunningIsInRecipe
<1>3. CASE Running.tool = "pie2rel"
  BY <1>1, <1>2, <1>3, NotMoved
<1>4. CASE Running.tool # "pie2rel"
  <2>1. file.shdrs = Clean.shdrs
    BY <1>4, SameShdrs
  <2>2. t = RewrittenSymbol(Running, Clean, b)
    BY DEF Recovers, Rewrites
  <2>3. t = RewrittenSymbol(Running, file, b)
    BY <1>2, <2>1, <2>2, SameRewriting
  <2> HIDE DEF t, b
  <2>4. RewrittenSymbol(Running, file, t) = t
    BY <1>1, <1>2, <1>4, <2>3, RewrittenTwice
  <2> QED
    BY <2>4 DEF t
<1> QED
  BY <1>3, <1>4

\* Likewise the section headers.
LEMMA ShdrDoneTwice ==
  ASSUME ControlOK, FileOK, Recovers, recipe # <<>>, NEW i \in Sections, ShdrDone(i)
  PROVE  RewrittenShdr(Running, file.shdrs[i]) = file.shdrs[i]
<1>1. Clean.shdrs[i] \in Shdr
  BY CleanIs
<1>2. Running \in Invocation
  BY RunningIsInRecipe
<1>3. file.shdrs[i] = RewrittenShdr(Running, Clean.shdrs[i])
  BY DEF Recovers, RewritesShdr
<1> QED
  BY <1>1, <1>2, <1>3, ShdrRewrittenTwice

\* A symbol is rewritten.
LEMMA SymbolRecovers ==
  ASSUME ControlOK, FileOK, Recovers, RewriteSymbol
  PROVE  Recovers'
<1> DEFINE t == file.symtab[cursor]
           r == RewrittenSymbol(Running, file, t)
<1>1. PICK n \in 0 .. LORESERVE - 1 :
        /\ file \in File(n) /\ Clean \in File(n)
        /\ Symbols = 1 .. Len(file.symtab) /\ DOMAIN file.symtab = 1 .. Len(file.symtab)
        /\ \A k \in Symbols : file.symtab[k] \in Symbol
  BY CleanIs
<1>2. /\ pc = "symbols" /\ pc' = "symbols" /\ recipe # <<>> /\ Running.tool # "rel2data"
      /\ Running \in Invocation /\ cursor \in Nat /\ cursor' = cursor + 1
      /\ AssertionHolds(Running, file, t)
  BY RunningIsInRecipe DEF RewriteSymbol, AtSymbol, ControlOK
<1>3. cursor \in 1 .. Len(file.symtab)
  <2>1. Len(file.symtab) \in Nat
    BY FileIs
  <2> QED
    BY <1>2, <2>1 DEF RewriteSymbol, AtSymbol, ControlOK
<1>4. file' = [file EXCEPT !.symtab[cursor] = r]
  BY DEF RewriteSymbol
<1>5. r \in Symbol
  BY <1>1, <1>2, <1>3, PartlyWrittenIs DEF MayWrite
<1>6. /\ file' \in File(n) /\ file'.shdrs = file.shdrs
      /\ Len(file'.symtab) = Len(file.symtab)
      /\ \A k \in Symbols : file'.symtab[k] = IF k = cursor THEN r ELSE file.symtab[k]
  <2> HIDE DEF r
  <2> QED
    BY <1>1, <1>3, <1>4, <1>5, SymbolStored
<1>7. file'.type = file.type /\ file'.phnum = file.phnum
  BY <1>1, <1>4 DEF File
<1>8. /\ Clean' = Clean /\ Running' = Running /\ Symbols' = Symbols /\ Sections' = Sections
      /\ recipe' = recipe
  BY CleanStays DEF RewriteSymbol, history, Running, Symbols, Sections
<1>9. ASSUME NEW k \in Symbols PROVE Rewrites(k)'
  <2>1. (IF SymbolDone(k) THEN file.symtab[k] ELSE RewrittenSymbol(Running, file, file.symtab[k]))
          = RewrittenSymbol(Running, Clean, Clean.symtab[k])
    BY <1>2 DEF Recovers, Rewrites
  <2>2. CASE k = cursor
    <3>1. ~SymbolDone(k) /\ SymbolDone(k)'
      BY <1>2, <2>2 DEF SymbolDone
    <3>2. file'.symtab[k] = RewrittenSymbol(Running, file, file.symtab[k])
      BY <1>6, <2>2
    <3> HIDE DEF t, r
    <3> QED
      BY <1>2, <1>8, <2>1, <3>1, <3>2 DEF Rewrites
  <2>3. CASE k # cursor
    <3>1. SymbolDone(k)' <=> SymbolDone(k)
      <4>1. k \in Nat
        BY <1>1
      <4> QED
        BY <1>2, <2>3, <4>1 DEF SymbolDone
    <3>2. file'.symtab[k] = file.symtab[k]
      BY <1>6, <2>3
    <3>3. RewrittenSymbol(Running, file', file.symtab[k])
            = RewrittenSymbol(Running, file, file.symtab[k])
      BY <1>2, <1>6, SameRewriting
    <3> HIDE DEF t, r
    <3> QED
      BY <1>2, <1>8, <2>1, <3>1, <3>2, <3>3 DEF Rewrites
  <2> QED
    BY <2>2, <2>3
<1>10. ASSUME NEW i \in Sections PROVE RewritesShdr(i)'
  <2>1. ~ShdrDone(i) /\ ~ShdrDone(i)'
    BY <1>2 DEF ShdrDone
  <2>2. RewritesShdr(i)
    BY <1>2 DEF Recovers
  <2> QED
    BY <1>6, <1>8, <2>1, <2>2 DEF RewritesShdr
<1>11. \A m \in 0 .. LORESERVE - 1 : file' \in File(m) => Clean \in File(m)
  BY <1>1, <1>6, OneSize
<1> QED
  BY <1>2, <1>6, <1>7, <1>8, <1>9, <1>10, <1>11 DEF Recovers, RunningIs

\* A section header is rewritten.
LEMMA SectionRecovers ==
  ASSUME ControlOK, FileOK, Recovers, RewriteSection
  PROVE  Recovers'
<1> DEFINE h == RewrittenShdr(Running, file.shdrs[cursor])
<1>1. PICK n \in 0 .. LORESERVE - 1 :
        /\ n \in Nat /\ file \in File(n) /\ Clean \in File(n)
        /\ Sections = 0 .. n /\ DOMAIN file.shdrs = 0 .. n
        /\ \A i \in Sections : file.shdrs[i] \in Shdr
  BY CleanIs
<1>2. /\ pc = "sections" /\ pc' = "sections" /\ recipe # <<>> /\ cursor \in 0 .. n
      /\ Running \in Invocation /\ cursor' = cursor + 1
  BY <1>1, RunningIsInRecipe DEF RewriteSection, AtSection, ControlOK, RunningIs
<1>3. file' = [file EXCEPT !.shdrs[cursor] = h]
  BY DEF RewriteSection
<1>4. h \in Shdr
  BY <1>1, <1>2, RewrittenShdrIs
<1>5. /\ file' \in File(n) /\ file'.symtab = file.symtab
      /\ \A i \in Sections : file'.shdrs[i] = IF i = cursor THEN h ELSE file.shdrs[i]
  <2> HIDE DEF h
  <2> QED
    BY <1>1, <1>2, <1>3, <1>4, ShdrStored
<1>6. file'.type = file.type /\ file'.phnum = file.phnum
  BY <1>1, <1>3 DEF File
<1>7. /\ Clean' = Clean /\ Running' = Running /\ Symbols' = Symbols /\ Sections' = Sections
      /\ recipe' = recipe
  BY CleanStays DEF RewriteSection, history, Running, Symbols, Sections
<1>8. ASSUME NEW k \in Symbols PROVE Rewrites(k)'
  <2>1. SymbolDone(k) /\ SymbolDone(k)'
    BY <1>2 DEF SymbolDone
  <2>2. Rewrites(k)
    BY <1>2 DEF Recovers
  <2> QED
    BY <1>5, <1>7, <2>1, <2>2 DEF Rewrites
<1>9. ASSUME NEW i \in Sections PROVE RewritesShdr(i)'
  <2>1. RewritesShdr(i)
    BY <1>2 DEF Recovers
  <2>2. CASE i = cursor
    <3>1. ~ShdrDone(i) /\ ShdrDone(i)'
      BY <1>2, <2>2 DEF ShdrDone
    <3>2. file'.shdrs[i] = RewrittenShdr(Running, file.shdrs[i])
      BY <1>5, <2>2
    <3> HIDE DEF h
    <3> QED
      BY <1>7, <2>1, <3>1, <3>2 DEF RewritesShdr
  <2>3. CASE i # cursor
    <3>1. ShdrDone(i)' <=> ShdrDone(i)
      <4>1. i \in Nat /\ cursor \in Nat
        BY <1>1, <1>2
      <4> QED
        BY <1>2, <2>3, <4>1 DEF ShdrDone
    <3>2. file'.shdrs[i] = file.shdrs[i]
      BY <1>5, <2>3
    <3> HIDE DEF h
    <3> QED
      BY <1>7, <2>1, <3>1, <3>2 DEF RewritesShdr
  <2> QED
    BY <2>2, <2>3
<1>10. \A m \in 0 .. LORESERVE - 1 : file' \in File(m) => Clean \in File(m)
  BY <1>1, <1>5, OneSize
<1> QED
  BY <1>2, <1>5, <1>6, <1>7, <1>8, <1>9, <1>10 DEF Recovers, RunningIs

\* The steps that write nothing and give nothing up.
LEMMA PassRecovers ==
  ASSUME ControlOK, FileOK, Recovers, Open \/ NextPass \/ Finish \/ UNCHANGED vars
  PROVE  Recovers'
<1>1. UNCHANGED <<file, recipe, history>>
  BY DEF Open, NextPass, Finish, vars, history
<1>2. PICK n \in Nat :
        /\ Sections = 0 .. n /\ DOMAIN file.shdrs = 0 .. n
        /\ Symbols = 1 .. Len(file.symtab) /\ Len(file.symtab) \in Nat
  BY FileIs
<1>3. cursor \in Nat
  BY DEF ControlOK
<1>4. ASSUME recipe # <<>>, Running.tool # "rel2data", NEW k \in Symbols
      PROVE  SymbolDone(k)' <=> SymbolDone(k)
  <2>0. k \in Nat /\ k >= 1 /\ k <= Len(file.symtab)
    BY <1>2
  <2>1. CASE Open
    <3>1. pc = "start" /\ pc' = "symbols" /\ cursor' = 1
      BY <1>4, <2>1 DEF Open
    <3> QED
      BY <2>0, <3>1 DEF SymbolDone
  <2>2. CASE NextPass
    <3>1. \/ pc = "symbols" /\ ~(cursor <= Len(file.symtab)) /\ pc' = "sections"
          \/ pc = "sections" /\ pc' = "header"
      BY <2>2 DEF NextPass, AtSymbol
    <3> QED
      BY <1>2, <1>3, <2>0, <3>1 DEF SymbolDone
  <2>3. CASE Finish
    BY <1>4, <2>3 DEF Finish
  <2>4. CASE UNCHANGED vars
    BY <2>4 DEF vars, SymbolDone
  <2> QED
    BY <2>1, <2>2, <2>3, <2>4
<1>5. ASSUME recipe # <<>>, NEW i \in Sections
      PROVE  ShdrDone(i)' <=> ShdrDone(i)
  <2>0. i \in 0 .. n
    BY <1>2
  <2>1. CASE Open
    <3>1. pc = "start" /\ (pc' = "symbols" \/ (pc' = "sections" /\ cursor' = 0))
      BY <2>1 DEF Open
    <3> QED
      BY <2>0, <3>1 DEF ShdrDone
  <2>2. CASE NextPass
    <3>1. \/ pc = "symbols" /\ pc' = "sections" /\ cursor' = 0
          \/ pc = "sections" /\ cursor \notin 0 .. n /\ pc' = "header"
      BY <1>2, <2>2 DEF NextPass, AtSection
    <3> QED
      BY <1>3, <2>0, <3>1 DEF ShdrDone
  <2>3. CASE Finish
    BY <1>5, <2>3 DEF Finish
  <2>4. CASE UNCHANGED vars
    BY <2>4 DEF vars, ShdrDone
  <2> QED
    BY <2>1, <2>2, <2>3, <2>4
<1> QED
  BY <1>1, <1>4, <1>5, NothingWritten

\* Once pie2rel has moved a symbol, only an interruption that finds the address of
\* its section gone does not spoil the file.
LEMMA AddressGone ==
  ASSUME ControlOK, FileOK, AddressesOK, Recovers, Interrupt, ~spoilt',
         RunningIs("pie2rel"), NEW k \in Symbols, InSection(file.symtab[k]),
         file'.shdrs = file.shdrs, k \in DOMAIN file'.symtab,
         file'.symtab[k].shndx = file.symtab[k].shndx,
         SymbolDone(k) \/ (k = cursor /\ AssertionHolds(Running, file, file.symtab[k]))
  PROVE  file.shdrs[file.symtab[k].shndx].addr = 0
<1> DEFINE s == file.symtab[k].shndx
<1>1. ~Spoils(file')
  BY DEF Interrupt, ControlOK
<1>2. PICK n \in Nat : Sections = 0 .. n /\ DOMAIN file.shdrs = 0 .. n /\ Symbols \subseteq Nat
  <2>1. PICK n \in Nat :
          /\ Sections = 0 .. n /\ DOMAIN file.shdrs = 0 .. n
          /\ Symbols = 1 .. Len(file.symtab) /\ Len(file.symtab) \in Nat
    BY FileIs
  <2> QED
    BY <2>1
<1>3. s \in DOMAIN file.shdrs
  <2>1. CASE SymbolDone(k)
    <3>1. Moved(k)
      BY <2>1 DEF SymbolDone, Moved, PassedBy
    <3> QED
      BY <1>2, <3>1 DEF AddressesOK
  <2>2. CASE k = cursor /\ AssertionHolds(Running, file, file.symtab[k])
    BY <2>2 DEF AssertionHolds, RunningIs
  <2> QED
    BY <2>1, <2>2
<1>4. s # UNDEF
  BY DEF InSection
<1>5. pc = "symbols" => k <= cursor
  <2>1. cursor \in Nat /\ k \in Nat
    BY <1>2 DEF ControlOK
  <2> QED
    BY <2>1 DEF SymbolDone
<1> HIDE DEF s
<1>6. /\ file'.symtab[k].shndx \in DOMAIN file'.shdrs \ {UNDEF}
      /\ file'.shdrs[file'.symtab[k].shndx].addr = file.shdrs[s].addr
  BY <1>3, <1>4 DEF s
<1> QED
  BY <1>1, <1>5, <1>6 DEF Spoils, RunningIs, s

\* An interruption that does not spoil the file: what was done and what was begun
\* comes out the same when the tool is run again.
LEMMA InterruptRecovers ==
  ASSUME ControlOK, FileOK, AddressesOK, Recovers, Interrupt, ~spoilt'
  PROVE  Recovers'
<1>1. PICK n \in 0 .. LORESERVE - 1 :
        /\ file \in File(n) /\ Clean \in File(n) /\ DOMAIN file.shdrs = 0 .. n
        /\ Symbols = 1 .. Len(file.symtab) /\ DOMAIN file.symtab = 1 .. Len(file.symtab)
        /\ \A k \in Symbols : file.symtab[k] \in Symbol
  BY CleanIs
<1>2. /\ recipe # <<>> /\ Running \in Invocation /\ pc' = "start" /\ cursor \in Nat
      /\ ~Spoils(file') /\ UNCHANGED <<recipe, history>>
      /\ Running.tool = "pie2rel" <=> RunningIs("pie2rel")
  <2>1. recipe # <<>>
    BY DEF Interrupt, ControlOK, RunningIs
  <2> QED
    BY <2>1, RunningIsInRecipe DEF Interrupt, ControlOK, RunningIs
<1>3. \A k \in Symbols : ~SymbolDone(k)'
  BY <1>2 DEF SymbolDone
<1>4. \A i \in Sections : ~ShdrDone(i)'
  BY <1>2 DEF ShdrDone
<1> DEFINE t == file.symtab[cursor]
<1>5. CASE ~(AtSymbol /\ AssertionHolds(Running, file, t))
  <2>0. BetweenSymbols
    BY <1>5 DEF BetweenSymbols
  <2>1. /\ file' \in File(n) /\ file'.symtab = file.symtab /\ file'.shdrs = file.shdrs
        /\ file' = file \/ RunningIs("pie2rel")
    <3>1. /\ file' \in File(n) /\ file'.symtab = file.symtab /\ file'.shdrs = file.shdrs
          /\ pc # "header" => file' = file
      BY <1>1, <2>0, BetweenIs
    <3>2. pc = "header" => RunningIs("pie2rel")
      BY <1>2 DEF ControlOK, RunningIs
    <3> QED
      BY <3>1, <3>2
  <2>4. \A m \in 0 .. LORESERVE - 1 : file' \in File(m) => file \in File(m)
    BY <1>1, <2>1, OneSize
  <2>2. ASSUME Running.tool # "rel2data", NEW k \in Symbols, SymbolDone(k)
        PROVE  RewrittenSymbol(Running, file, file.symtab[k]) = file.symtab[k]
    <3>1. Running.tool = "pie2rel" /\ InSection(file.symtab[k]) =>
            file.shdrs[file.symtab[k].shndx].addr = 0
      BY <1>1, <1>2, <2>1, <2>2, AddressGone
    <3> QED
      BY <1>2, <2>2, <3>1, DoneTwice
  <2>3. ASSUME NEW i \in Sections, ShdrDone(i)
        PROVE  RewrittenShdr(Running, file.shdrs[i]) = file.shdrs[i]
    BY <1>2, <2>3, ShdrDoneTwice
  <2> QED
    BY <1>2, <1>3, <1>4, <2>1, <2>2, <2>3, <2>4, NothingWritten
<1>6. CASE AtSymbol /\ AssertionHolds(Running, file, t)
  <2>1. /\ pc = "symbols" /\ Running.tool # "rel2data"
        /\ cursor \in Symbols /\ t \in Symbol
    <3>1. Len(file.symtab) \in Nat
      BY FileIs
    <3>2. pc = "symbols" /\ Running.tool # "rel2data" /\ cursor \in 1 .. Len(file.symtab)
      BY <1>6, <3>1 DEF AtSymbol, ControlOK
    <3> QED
      BY <1>1, <3>2
  <2>2. PICK u \in PartlyWritten(Running, file, t) : file' = [file EXCEPT !.symtab[cursor] = u]
    BY <1>6 DEF Interrupt
  <2>3. u \in Symbol /\ MayWrite(Running, file, t, u)
    BY <1>1, <1>2, <1>6, <2>1, PartlyWrittenIs DEF MayWrite
  <2>4. /\ file' \in File(n) /\ file'.shdrs = file.shdrs
        /\ Len(file'.symtab) = Len(file.symtab)
        /\ \A k \in Symbols : file'.symtab[k] = IF k = cursor THEN u ELSE file.symtab[k]
    BY <1>1, <2>1, <2>2, <2>3, SymbolStored
  <2>5. file'.type = file.type /\ file'.phnum = file.phnum
    BY <1>1, <2>2 DEF File
  <2>6. DOMAIN file'.symtab = 1 .. Len(file.symtab)
    <3>1. file'.symtab \in Seq(Symbol)
      BY <2>4 DEF File
    <3> QED
      BY <2>4, <3>1
  <2>7. /\ Clean' = Clean /\ Running' = Running /\ Symbols' = Symbols /\ Sections' = Sections
    BY <1>2, CleanStays DEF history, Running, Symbols, Sections
  <2>8. RewrittenSymbol(Running, file, u) = RewrittenSymbol(Running, file, t)
    <3>1. ASSUME Running.tool \in {"abs2und", "abs2sectsym"}
          PROVE  u.shndx = t.shndx \/ u = RewrittenSymbol(Running, file, t)
      <4>1. file'.symtab[cursor] = u
        BY <2>1, <2>4
      <4> QED
        BY <1>2, <1>6, <3>1, <4>1 DEF Spoils
    <3>2. ASSUME Running.tool = "pie2rel", InSection(t)
          PROVE  file.shdrs[t.shndx].addr = 0
      <4>1. u.shndx = t.shndx
        BY <2>3, <3>2 DEF MayWrite, Gone
      <4>2. file'.symtab[cursor].shndx = t.shndx /\ cursor \in DOMAIN file'.symtab
        BY <1>1, <2>1, <2>4, <2>6, <4>1
      <4> QED
        BY <1>2, <1>6, <2>1, <2>4, <3>2, <4>2, AddressGone
    <3> QED
      BY <1>1, <1>2, <1>6, <2>1, <3>1, <3>2, PartlyAgain
  <2>9. ASSUME NEW k \in Symbols PROVE Rewrites(k)'
    <3>1. (IF SymbolDone(k) THEN file.symtab[k]
           ELSE RewrittenSymbol(Running, file, file.symtab[k]))
            = RewrittenSymbol(Running, Clean, Clean.symtab[k])
      BY <1>2, <2>1 DEF Recovers, Rewrites
    <3>2. \A s : RewrittenSymbol(Running, file', s) = RewrittenSymbol(Running, file, s)
      BY <1>2, <2>1, <2>4, SameRewriting
    <3>3. RewrittenSymbol(Running, file, file'.symtab[k])
            = RewrittenSymbol(Running, Clean, Clean.symtab[k])
      <4>1. CASE k = cursor
        <5>1. ~SymbolDone(k)
          BY <1>2, <2>1, <4>1 DEF SymbolDone
        <5>2. file'.symtab[k] = u
          BY <2>4, <4>1
        <5> QED
          BY <2>8, <3>1, <4>1, <5>1, <5>2
      <4>2. CASE k # cursor
        <5>1. file'.symtab[k] = file.symtab[k]
          BY <2>4, <4>2
        <5>2. CASE SymbolDone(k)
          <6>1. Running.tool = "pie2rel" /\ InSection(file.symtab[k]) =>
                  file.shdrs[file.symtab[k].shndx].addr = 0
            BY <1>1, <1>2, <2>4, <2>6, <5>1, <5>2, AddressGone
          <6>2. RewrittenSymbol(Running, file, file.symtab[k]) = file.symtab[k]
            BY <1>2, <2>1, <5>2, <6>1, DoneTwice
          <6> QED
            BY <3>1, <5>1, <5>2, <6>2
        <5>3. CASE ~SymbolDone(k)
          BY <3>1, <5>1, <5>3
        <5> QED
          BY <5>2, <5>3
      <4> QED
        BY <4>1, <4>2
    <3>4. RewrittenSymbol(Running, file', file'.symtab[k])
            = RewrittenSymbol(Running, Clean, Clean.symtab[k])
      BY <3>2, <3>3
    <3>5. ~SymbolDone(k)'
      BY <1>3
    <3> QED
      BY <2>1, <2>7, <3>4, <3>5 DEF Rewrites
  <2>10. ASSUME NEW i \in Sections PROVE RewritesShdr(i)'
    <3>1. ~ShdrDone(i) /\ ~ShdrDone(i)'
      BY <1>4, <2>1 DEF ShdrDone
    <3>2. RewritesShdr(i)
      BY <1>2 DEF Recovers
    <3> QED
      BY <2>4, <2>7, <3>1, <3>2 DEF RewritesShdr
  <2>11. \A m \in 0 .. LORESERVE - 1 : file' \in File(m) => Clean \in File(m)
    BY <1>1, <2>4, OneSize
  <2> QED
    BY <1>2, <2>4, <2>5, <2>7, <2>9, <2>10, <2>11 DEF Recovers, RunningIs
<1> QED
  BY <1>5, <1>6

\* A tool that finishes has done its work on the clean file.
LEMMA ClosedIsWork ==
  ASSUME ControlOK, FileOK, Recovers, Close
  PROVE  file' = Work(Running, Clean)
<1>1. PICK n \in 0 .. LORESERVE - 1 :
        /\ n \in Nat /\ file \in File(n) /\ Clean \in File(n)
        /\ Sections = 0 .. n /\ DOMAIN file.shdrs = 0 .. n
        /\ Symbols = 1 .. Len(file.symtab)
        /\ \A i \in Sections : file.shdrs[i] \in Shdr
  BY CleanIs
<1>2. /\ recipe # <<>> /\ cursor \in Nat
      /\ \/ pc = "symbols" /\ ~AtSymbol /\ Running.tool \notin {"rel2data", "pie2rel"}
         \/ pc = "sections" /\ ~AtSection /\ Running.tool = "rel2data"
         \/ pc = "header" /\ Running.tool = "pie2rel"
      /\ file' = IF pc = "header" THEN RewrittenHeader(file) ELSE file
  BY DEF Close, ControlOK, RunningIs
<1>3. Running \in Invocation
  BY <1>2, RunningIsInRecipe
<1>4. /\ file'.symtab = file.symtab /\ file'.shdrs = file.shdrs /\ file' \in File(n)
      /\ IF Running.tool = "pie2rel" THEN file'.type = "REL" /\ file'.phnum = 0
         ELSE file'.type = file.type /\ file'.phnum = file.phnum
  <2>1. CASE pc = "header"
    <3>1. file' = [file EXCEPT !.type = "REL", !.phnum = 0] /\ Running.tool = "pie2rel"
      BY <1>2, <2>1 DEF RewrittenHeader
    <3> QED
      BY <1>1, <3>1 DEF File
  <2>2. CASE pc # "header"
    BY <1>1, <1>2, <2>2
  <2> QED
    BY <2>1, <2>2
<1>5. ASSUME NEW k \in Symbols
      PROVE  file.symtab[k] = IF Running.tool = "rel2data" THEN Clean.symtab[k]
                              ELSE RewrittenSymbol(Running, Clean, Clean.symtab[k])
  <2>1. Rewrites(k)
    BY <1>2 DEF Recovers
  <2>2. CASE Running.tool = "rel2data"
    BY <2>1, <2>2 DEF Rewrites
  <2>3. CASE Running.tool # "rel2data"
    <3>1. SymbolDone(k)
      <4>1. CASE pc = "symbols"
        <5>1. Len(file.symtab) \in Nat /\ k \in 1 .. Len(file.symtab)
          BY <1>1, FileIs
        <5>2. ~(cursor <= Len(file.symtab))
          BY <1>2, <4>1 DEF AtSymbol
        <5>3. k < cursor
          BY <1>2, <5>1, <5>2
        <5> QED
          BY <4>1, <5>3 DEF SymbolDone
      <4>2. CASE pc # "symbols"
        BY <1>2, <2>3, <4>2 DEF SymbolDone
      <4> QED
        BY <4>1, <4>2
    <3> QED
      BY <2>1, <2>3, <3>1 DEF Rewrites
  <2> QED
    BY <2>2, <2>3
<1>6. ASSUME NEW i \in Sections
      PROVE  file.shdrs[i] = RewrittenShdr(Running, Clean.shdrs[i])
  <2>1. RewritesShdr(i)
    BY <1>2 DEF Recovers
  <2>2. CASE pc = "symbols"
    <3>1. ~ShdrDone(i)
      BY <2>2 DEF ShdrDone
    <3>2. RewrittenShdr(Running, file.shdrs[i]) = file.shdrs[i]
      BY <1>2, <2>2, ShdrLeft
    <3> QED
      BY <2>1, <3>1, <3>2 DEF RewritesShdr
  <2>3. CASE pc # "symbols"
    <3>1. ShdrDone(i)
      <4>1. CASE pc = "sections"
        <5>1. cursor \notin 0 .. n /\ i \in 0 .. n
          BY <1>1, <1>2, <4>1 DEF AtSection
        <5>2. i < cursor
          BY <1>1, <1>2, <5>1
        <5> QED
          BY <4>1, <5>2 DEF ShdrDone
      <4>2. CASE pc = "header"
        BY <4>2 DEF ShdrDone
      <4> QED
        BY <1>2, <2>3, <4>1, <4>2
    <3> QED
      BY <2>1, <3>1 DEF RewritesShdr
  <2> QED
    BY <2>2, <2>3
<1>7. /\ Running.tool # "pie2rel" => Clean.type = file.type /\ Clean.phnum = file.phnum
      /\ Len(Clean.symtab) = Len(file.symtab)
  BY DEF Recovers, RunningIs
<1>8. \A k \in 1 .. Len(Clean.symtab) :
        file'.symtab[k] = IF Running.tool = "rel2data" THEN Clean.symtab[k]
                          ELSE RewrittenSymbol(Running, Clean, Clean.symtab[k])
  BY <1>1, <1>4, <1>5, <1>7
<1>9. \A i \in 0 .. n : file'.shdrs[i] = RewrittenShdr(Running, Clean.shdrs[i])
  BY <1>1, <1>4, <1>6
<1>10. IF Running.tool = "pie2rel" THEN file'.type = "REL" /\ file'.phnum = 0
       ELSE file'.type = Clean.type /\ file'.phnum = Clean.phnum
  BY <1>4, <1>7
<1>11. Len(file'.symtab) = Len(Clean.symtab)
  BY <1>4, <1>7
<1> QED
  BY <1>1, <1>3, <1>4, <1>8, <1>9, <1>10, <1>11, IsWork

\* So what the next tool is given is clean.
LEMMA CloseRecovers ==
  ASSUME ControlOK, FileOK, Recovers, Close
  PROVE  Recovers'
<1>1. recipe # <<>> /\ recipe0' = recipe0 /\ file0' = file0 /\ pc' = "start"
      /\ recipe' = Tail(recipe)
  BY NextTool DEF Close, history
<1>2. Position \in 1 .. Len(recipe0) /\ Running = recipe0[Position] /\ Position \in Nat
      /\ recipe0 \in Seq(Invocation)
  BY <1>1, RunningIsInRecipe DEF ControlOK
<1>3. Position' = Position + 1
  <2>1. Len(recipe') = Len(recipe) - 1 /\ Len(recipe) \in Nat /\ Len(recipe0) \in Nat
    BY <1>1 DEF ControlOK
  <2> QED
    BY <1>1, <2>1 DEF Position
<1>4. Position' - 1 = Position
  BY <1>2, <1>3
<1>5. Clean' = Uninterrupted[Position]
  BY <1>1, <1>4, CleanStays DEF Clean
<1>6. Clean' = Work(Running, Clean)
  BY <1>2, <1>5, UninterruptedIs DEF Clean
<1>7. file' = Clean'
  BY <1>6, ClosedIsWork
<1>8. ASSUME NEW k \in Symbols' PROVE Rewrites(k)'
  BY <1>1, <1>7 DEF Rewrites, SymbolDone
<1>9. ASSUME NEW i \in Sections' PROVE RewritesShdr(i)'
  BY <1>1, <1>7 DEF RewritesShdr, ShdrDone
<1> QED
  BY <1>7, <1>8, <1>9 DEF Recovers

\* To begin with the file is clean.
LEMMA RerunInit == Init => RerunOK
<1> SUFFICES ASSUME Init PROVE RerunOK
  OBVIOUS
<1>1. recipe0 \in Seq(Invocation) /\ recipe = recipe0 /\ file = file0 /\ pc = "start"
  BY RecipesAssumption DEF Init
<1>2. Position - 1 = 0
  <2>1. Len(recipe0) \in Nat
    BY <1>1
  <2> QED
    BY <1>1, <2>1 DEF Position
<1>3. Clean = file
  BY <1>1, <1>2, UninterruptedIs DEF Clean
<1>4. \A k \in Symbols : Rewrites(k)
  BY <1>1, <1>3 DEF Rewrites, SymbolDone
<1>5. \A i \in Sections : RewritesShdr(i)
  BY <1>1, <1>3 DEF RewritesShdr, ShdrDone
<1> QED
  BY <1>3, <1>4, <1>5 DEF RerunOK, Recovers

\* Every step that does not spoil the file keeps it on the way to the same end.
LEMMA RerunStep == IInv /\ RerunOK /\ [Next]_vars => RerunOK'
<1> SUFFICES ASSUME IInv, RerunOK, [Next]_vars, ~spoilt', pc' # "failed" PROVE Recovers'
  BY DEF RerunOK
<1>1. ControlOK /\ FileOK /\ AddressesOK
  BY DEF IInv
<1>2. Recovers
  BY <1>1, NothingMadeGood DEF RerunOK
<1>3. CASE Open \/ NextPass \/ Finish \/ UNCHANGED vars
  BY <1>1, <1>2, <1>3, PassRecovers
<1>4. CASE OpenFails \/ AssertionFails
  BY <1>4 DEF OpenFails, AssertionFails
<1>5. CASE RewriteSymbol
  BY <1>1, <1>2, <1>5, SymbolRecovers
<1>6. CASE RewriteSection
  BY <1>1, <1>2, <1>6, SectionRecovers
<1>7. CASE Close
  BY <1>1, <1>2, <1>7, CloseRecovers
<1>8. CASE Interrupt
  BY <1>1, <1>2, <1>8, InterruptRecovers
<1> QED
  BY <1>3, <1>4, <1>5, <1>6, <1>7, <1>8, Zenon DEF Next

\* When no tool is left, all have done their work.
LEMMA RerunFollows ==
  ASSUME IInv, RerunOK
  PROVE  RerunCompletes
<1> SUFFICES ASSUME pc = "done", ~spoilt PROVE file = Uninterrupted[Len(recipe0)]
  BY DEF RerunCompletes
<1>1. ControlOK /\ recipe = <<>>
  BY DEF IInv, ControlOK
<1>2. file = Clean
  BY <1>1 DEF RerunOK, Recovers
<1>3. Position - 1 = Len(recipe0)
  <2>1. Len(recipe0) \in Nat /\ Len(recipe) = 0
    BY <1>1 DEF ControlOK
  <2> QED
    BY <2>1 DEF Position
<1> QED
  BY <1>2, <1>3 DEF Clean

\* However often the tools were interrupted, in the middle of a symbol or between
\* two, and run again, a finished recipe leaves the file that it leaves when
\* nothing interrupts it, unless an interruption has spoilt it (the in-place loops
\* of all six tools): what a tool has made of a symbol or a section header it
\* leaves alone when it comes to it again, and makes the same of one half made.
THEOREM Rerun_Completes == Spec => []RerunCompletes
<1>1. IInv /\ RerunOK => RerunCompletes
  BY RerunFollows
<1> QED
  BY <1>1, RerunInit, RerunStep, AlwaysIInv, PTL DEF Spec
=============================================================================
