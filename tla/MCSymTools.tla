----------------------------- MODULE MCSymTools -----------------------------
(***************************************************************************)
(* A static PIE, whose sections have addresses, and a relocatable file     *)
(* with two sections of one name; symbols of every sort the tools tell     *)
(* apart; recipes that run the tools in the orders that make a difference. *)
(***************************************************************************)
EXTENDS SymTools

Sh(name, type, alloc, addr) == [name |-> name, type |-> type, alloc |-> alloc, addr |-> addr]
Sym(name, shndx, value, bind, type, vis) ==
  [name |-> name, shndx |-> shndx, value |-> value, size |-> IF shndx = UNDEF THEN 0 ELSE 4,
   info |-> [bind |-> bind, type |-> type], vis |-> vis]

NullSh == Sh("", "NULL", FALSE, 0)
NullSym == Sym("", UNDEF, 0, "LOCAL", "NOTYPE", "DEFAULT")

Pie ==
  (0 :> NullSh) @@ (1 :> Sh("t", "PROGBITS", TRUE, 8)) @@ (2 :> Sh("d", "PROGBITS", TRUE, 12))
    @@ (3 :> Sh("r", "RELA", TRUE, 2)) @@ (4 :> Sh("c", "PROGBITS", FALSE, 0))
Object ==
  (0 :> NullSh) @@ (1 :> Sh("t", "PROGBITS", TRUE, 0)) @@ (2 :> Sh("r", "REL", FALSE, 0))
    @@ (3 :> Sh("t", "PROGBITS", TRUE, 0))

Base(shdrs, shndx) == IF shndx \in DOMAIN shdrs THEN shdrs[shndx].addr ELSE 0

\* The symbol "t" has the name of a section, "foo" is what sym2und is asked for,
\* "und" is undefined.
Symtabs(shdrs) ==
  {<<NullSym,
     Sym("t", a, Base(shdrs, a) + v, "LOCAL", "NOTYPE", "DEFAULT"),
     Sym("foo", f, Base(shdrs, f) + v, b, "FUNC", "DEFAULT"),
     Sym("und", UNDEF, 0, "GLOBAL", "NOTYPE", u)>> :
     a \in {ABS, 2}, f \in {1, 2, ABS}, v \in {0, 3}, b \in {"LOCAL", "GLOBAL"},
     u \in Visibilities}

MCFiles ==
  {[type |-> "DYN", phnum |-> 2, shdrs |-> Pie, symtab |-> t] : t \in Symtabs(Pie)}
  \cup {[type |-> "REL", phnum |-> 0, shdrs |-> Object, symtab |-> t] : t \in Symtabs(Object)}
  \cup {\* a section number reserved for the processor
        [type |-> "DYN", phnum |-> 2, shdrs |-> Pie,
         symtab |-> <<NullSym, Sym("t", 2, 12, "LOCAL", "FUNC", "DEFAULT"),
                      Sym("p", LORESERVE, 8, "GLOBAL", "OBJECT", "DEFAULT")>>]}

MCNoName == "(none)"
Run(tool, sym) == [tool |-> tool, sym |-> sym]
All(tool) == Run(tool, MCNoName)

MCRecipes ==
  {<<Run("sym2und", "foo"), All("undprot")>>,
   <<All("undprot"), Run("sym2und", "foo")>>,
   <<All("abs2sectsym"), All("abs2und")>>,
   <<Run("abs2und", "foo"), All("abs2sectsym"), All("undprot")>>,
   <<All("pie2rel"), All("abs2sectsym")>>,
   <<All("abs2sectsym"), All("pie2rel")>>,
   <<All("rel2data"), All("pie2rel"), All("pie2rel")>>,
   <<All("pie2rel"), Run("sym2und", "t"), All("abs2und"), All("rel2data")>>}
=============================================================================
