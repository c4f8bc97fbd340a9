--------------------------- MODULE MCXwrapPlugin ---------------------------
(***************************************************************************)
(* Links of up to two of four files, three of them objects and one an      *)
(* archive found by -l, with up to two symbols to wrap, started with and   *)
(* without what the plugin would add.                                      *)
(***************************************************************************)
EXTENDS XwrapPlugin

MCExe == Plain("/usr/bin/ld.bfd")

MCFileKind ==
  [a |-> "object", b |-> "object", c |-> "object"] @@
  ("/d1/libx.a" :> "archive")

MCDefines ==
  [a |-> {"s1", "x"}, b |-> {"s1", "s2"}, c |-> {"x"}] @@
  ("/d1/libx.a" :> {"s2"})

MCLibFile == <<"d1", "x", ".a">> :> "/d1/libx.a"

FileArgs ==
  {<<Plain("a")>>, <<Plain("c")>>, <<Plain("a"), Plain("b")>>,
   <<Plain("a"), Plain("c")>>, <<Plain("c"), Plain("b")>>,
   <<Plain("c"), Joined("-L", "d1"), Joined("-l", "x")>>,
   <<Joined("-L", "d1"), Plain("a"), Joined("-l", "x"), Plain("c")>>}
MuldefsArgs == {<<>>, Muldefs, <<Joined("-z", "muldefs")>>, <<Opt("-z"), Plain("relro")>>}
SymArgs ==
  {<<>>, <<Opt("-plugin-opt"), Plain("s1")>>,
   <<Opt("-plugin-opt"), Plain("s1"), Joined("-plugin-opt", "s2")>>}
WrapArgs == {<<>>, <<Opt("--wrap"), Plain("s1")>>, <<Joined("--wrap", "s2")>>}

MCInitialCmdlines ==
  {<<Plain("ld"), Opt("-plugin"), Plain("xwrap")>> \o s \o m \o w \o f
      \o <<Opt("-o"), Plain("out")>> :
     s \in SymArgs, m \in MuldefsArgs, w \in WrapArgs, f \in FileArgs}
  \cup
  \* the files first; a path that named a descriptor once
  {<<Plain("ld")>> \o first \o f \o <<Opt("-plugin"), Plain("xwrap")>> \o m \o s :
     first \in {<<>>, <<FdPath(3)>>}, s \in SymArgs, m \in MuldefsArgs,
     f \in FileArgs}
=============================================================================
