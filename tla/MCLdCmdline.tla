---------------------------- MODULE MCLdCmdline ----------------------------
(***************************************************************************)
(* Every command line of up to MaxWords words after argv[0] over a small   *)
(* vocabulary, typed one word at a time; the files the shorter ones name   *)
(* are classified.                                                         *)
(***************************************************************************)
EXTENDS Classify

CONSTANTS MaxWords, MaxClassifiedWords, Vocabulary

VARIABLE cmd

MCLibFile ==
  (<<"d1", "x", ".so">> :> "/d1/libx.so") @@ (<<"d1", "x", ".a">> :> "/d1/libx.a")
    @@ (<<"d2", "x", ".a">> :> "/d2/libx.a")

\* "d1" and "x" are arguments here and input files there; ld takes the word
\* after -T for an argument, the plugin does not.
MCVocabulary ==
  {Plain("d1"), Plain("x"), Opt("-L"), Joined("-L", "d1"), Joined("-L", "d2"),
   Opt("-l"), Joined("-l", "x"), Opt("-Bstatic"), Opt("-dy"), Opt("-o"),
   Opt("-T"), Opt("--")}

\* Pages of 256 bytes.  Archives that leave no room for a header in their last
\* page, that fill it, and that have a member of an odd size; an object, a shared
\* library, an empty file.
Object(sections) ==
  [archive |-> FALSE, rel |-> TRUE, sections |-> sections, members |-> <<>>, size |-> 300]
Archive(members) ==
  [archive |-> TRUE, rel |-> FALSE, sections |-> <<>>, members |-> members,
   size |-> GlobalHeader + FoldLeft(LAMBDA n, m : n + MemberHeader + m + (m % 2), 0, members)]
Of(type) == [type |-> type, names |-> IF type = "SYMTAB" THEN {"s1"} ELSE {}]

MCImage ==
  [x |-> Object(<<Of("NULL"), Of("SYMTAB"), Of("PROGBITS")>>),
   d1 |-> Archive(<<20, 30, 12>>)]
  @@ ("/d1/libx.so" :> [Object(<<Of("NULL"), Of("SYMTAB")>>) EXCEPT !.rel = FALSE])
  @@ ("/d1/libx.a" :> Archive(<<20, 31, 12>>))
  @@ ("/d2/libx.a" :> Archive(<<60, 68>>))
  @@ ("ld" :> [Object(<<>>) EXCEPT !.rel = FALSE, !.size = 0])

Init == cmd = <<Plain("ld")>> /\ ClassifyInit

Type(w) ==
  /\ phase = "idle" /\ Len(cmd) <= MaxWords
  /\ cmd' = Append(cmd, w)
  /\ UNCHANGED classifyVars

Classifying ==
  /\ UNCHANGED cmd
  /\ Len(cmd) <= MaxClassifiedWords + 1
  /\ Begin(cmd) \/ ClassifyStep

Next == (\E w \in Vocabulary : Type(w)) \/ Classifying

vars == <<cmd, classifyVars>>
Spec == Init /\ [][Next]_vars

----------------------------------------------------------------------------
\* enumerate_input_files takes for input files what ld does, on lines whose
\* options it knows: no argument is enumerated, nothing else is left out, and
\* the order is kept (cmdline.hh:35-141).
InputsAsLd == ReadsAsLd(cmd)

\* The rewrites a plugin restarts with (appending an option and its argument,
\* putting a script in front) leave the enumeration of the other input files
\* alone, whatever the line holds, library searches included.  Lines with
\* "--" are the exception: what is appended to them is a file.
RewritesKeepInputs == RewritesKeepThem(cmd, "a", 3)

\* A library option adds at most one file: one that exists for that name in a
\* directory searched so far, and an archive when the last binding mode option
\* before it asks for static binding (cmdline.hh:79-119).
LibrariesFromSearchPath == SearchedFor(cmd, "x")
=============================================================================
