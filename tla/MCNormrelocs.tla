--------------------------- MODULE MCNormrelocs ---------------------------
(***************************************************************************)
(* Objects of two sections of code and one of debugging information, with  *)
(* two functions anywhere in the code, an undefined and an absolute        *)
(* symbol, and every pair of relocations between them.                     *)
(***************************************************************************)
EXTENDS Normrelocs

Sym(name, type, shndx, value) ==
  [name |-> name, type |-> type, shndx |-> shndx, value |-> value]

Symtabs ==
  {<<Sym("", "SECTION", 1, 0), Sym("", "SECTION", 2, 0),
     Sym("foo", "FUNC", fs, fv), Sym("bar", "NOTYPE", bs, bv),
     Sym("und", "NOTYPE", UNDEF, 0), Sym("abs", "NOTYPE", ABS, 0)>> :
       fs \in 1 .. 2, fv \in {0, 8}, bs \in 1 .. 2, bv \in {0, 8}}
  \cup {<<Sym("foo", "FUNC", 2, 0), Sym("", "SECTION", 1, 0)>>}

CodeRelocs(symtab_) == [site : 1 .. 2, sym : DOMAIN symtab_]
AllRelocs(symtab_) == [site : 1 .. 3, sym : DOMAIN symtab_]

MCObjects ==
  UNION {{[symtab |-> s, relocs |-> <<r1, r2>>] :
            r1 \in AllRelocs(s), r2 \in {r \in AllRelocs(s) : r.site # 1}} : s \in Symtabs}

MCInvocations == {<<NoName>>, <<"foo">>, <<"bar", "foo">>}
MCNoName == "(none)"
MCDebugging == {3}
===========================================================================
