----------------------------- MODULE MCDynTools -----------------------------
(***************************************************************************)
(* Files with two dynamic symbols, whose .symtab is any edit of theirs, of *)
(* up to two symbols; and files whose .dynamic has entries to spare or     *)
(* none.  "alphabet" begins with "alpha" and ends with "bet".              *)
(***************************************************************************)
EXTENDS DynTools

MCNone == "(none)"

MCTails ==
  ("alphabet" :> <<"alphabet", "bet">>) @@ ("alpha" :> <<"alpha">>) @@ ("bet" :> <<"bet">>)
MCStartsWith ==
  {<<"alphabet", "alphabet">>, <<"alpha", "alpha">>, <<"bet", "bet">>, <<"alphabet", "alpha">>}

Sym(name, shndx, value) == [name |-> name, shndx |-> shndx, value |-> value]
NullSym == Sym("", UNDEF, 0)
Shapes == {<<UNDEF, 0>>, <<ABS, 0>>, <<ABS, 8>>, <<1, 8>>, <<2, 16>>}
Symbols(names) == {Sym(n, s[1], s[2]) : n \in names, s \in Shapes}

Dynstrs == {<<"alphabet", "alpha">>, <<"alpha", "alphabet">>, <<"bet", "alpha">>}
Readable(dynstr) == UNION {Range(MCTails[s]) : s \in Range(dynstr)}

Pad(n) == <<[tag |-> 1, val |-> 5]>> \o [k \in 1 .. n |-> [tag |-> DT_NULL, val |-> 0]]
After == [tag |-> 7, val |-> 7]

Elf(symtab, dynsym, dynstr, gnu, dynamic) ==
  [symtab |-> symtab, dynsym |-> dynsym, dynstr |-> dynstr,
   filed |-> FiledByName(dynsym), gnu |-> gnu,
   dynamic |-> dynamic, after |-> After]

Symtabs ==
  {<<NullSym, s>> : s \in Symbols({"alphabet", "alpha", "bet", "other"})}
  \cup {<<NullSym, s, t>> : s \in Symbols({"alphabet", "alpha", "bet"}),
                            t \in {Sym("alphabet", 1, 8), Sym("alphabet", 2, 16),
                                   Sym("other", 1, 8), Sym("other", ABS, 0)}}
Dynsyms(dynstr) ==
  {<<NullSym, Sym(n, s[1], s[2]), Sym(m, t[1], t[2])>> :
     n, m \in Readable(dynstr), s \in {<<UNDEF, 0>>, <<1, 8>>}, t \in {<<1, 8>>, <<2, 16>>}}

SymFiles ==
  UNION {{Elf(s, d, r, FALSE, Pad(2)) : s \in Symtabs, d \in {e \in Dynsyms(r) : e[2].name # e[3].name}} :
           r \in Dynstrs}
GnuFiles ==
  {Elf(s, <<NullSym, Sym("alpha", 1, 8), Sym("bet", 2, 16)>>, <<"bet", "alpha">>, TRUE, Pad(2)) :
     s \in Symtabs}
AppendFiles ==
  {Elf(<<NullSym, Sym("alpha", 1, 8)>>, <<NullSym, Sym("bet", 1, 8)>>, <<"alpha", "bet">>, FALSE,
       Pad(n)) : n \in 1 .. 4}

Sym2dyn == [tool |-> "sym2dyn"]
Dynappend(tag, val) == [tool |-> "dynappend", tag |-> tag, maybe_tagval |-> val]

Jobs_(files, recipes) == {[file |-> f, recipe |-> r] : f \in files, r \in recipes}

MCJobs ==
  Jobs_(SymFiles \cup GnuFiles, {<<Sym2dyn>>, <<Sym2dyn, Sym2dyn>>})
  \cup Jobs_(AppendFiles, {<<Dynappend(2, {}), Dynappend(3, {6})>>, <<Dynappend(3, {6}), Sym2dyn>>})
=============================================================================
