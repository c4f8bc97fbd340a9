----------------------------- MODULE LdCmdline -----------------------------
(***************************************************************************)
(* The linker command line as the plugin library reads it (cmdline.hh):    *)
(* which of its words enumerate_input_files takes for input files.         *)
(*                                                                         *)
(* A word is a record: an option by itself, an option run together with    *)
(* its argument, a plain word, or the /proc/self/fd path of a descriptor.  *)
(***************************************************************************)
EXTENDS Naturals, Sequences, SequencesExt

CONSTANT LibFile  \* <<directory, library name, suffix>> -> real path, for
                  \* the library files that exist

ASSUME LibFileAssumption ==
  \A k \in DOMAIN LibFile : /\ k \in STRING \X STRING \X {".so", ".a"}
                            /\ LibFile[k] \in STRING

Word == [opt : STRING, arg : STRING, fd : Nat]

Opt(o) == [opt |-> o, arg |-> "", fd |-> 0]
Joined(o, a) == [opt |-> o, arg |-> a, fd |-> 0]
Plain(w) == [opt |-> "", arg |-> w, fd |-> 0]
FdPath(n) == [opt |-> "", arg |-> "", fd |-> n]

IsOption(w) == w.opt # ""
IsDiscrete(w) == w.arg = ""

StaticOpts == {"-Bstatic", "-dn", "-non_shared", "-static"}
DynamicOpts == {"-Bdynamic", "-dy", "-call_shared"}

\* Plausible slips, for showing that the properties can fail.
OptsWithArgNoWrap == {"-L", "-l", "-m", "-o", "-plugin", "-plugin-opt", "-z"}

\* Of the options listed as taking an argument, those that drivers use.
OptsWithArg ==
  {"-L", "-l", "-m", "-o", "-plugin", "-plugin-opt", "--wrap", "-z", "-e",
   "-soname", "-rpath", "--dynamic-linker", "--defsym", "-Map"}

\* An option's argument: joined to it, or else the next word.
GetArg(cmd, i) ==
  IF ~IsDiscrete(cmd[i]) THEN cmd[i].arg
  ELSE IF i < Len(cmd) THEN cmd[i + 1].arg ELSE ""

----------------------------------------------------------------------------
\* What -lname stands for.  The search of a directory stops at the first of
\* its two candidates, but the search of the directories goes on: the last
\* one with a match decides.
FoundAny(dir, name, static) == {s \in {".so", ".a"} : <<dir, name, s>> \in DOMAIN LibFile}

Found(dir, name, static) ==
  {s \in {".so", ".a"} : <<dir, name, s>> \in DOMAIN LibFile /\ (static => s = ".a")}

Resolve(dirs, name, static) ==
  LET hits == {i \in DOMAIN dirs : Found(dirs[i], name, static) # {}}
      dir == dirs[Max(hits)]
      first == IF ".so" \in Found(dir, name, static) THEN ".so" ELSE ".a"
  IN  IF hits = {} THEN <<>> ELSE <<LibFile[<<dir, name, first>>]>>

\* What the loop over the words carries from one to the next, and a round of
\* it at word i.
ScanState == [skip : BOOLEAN, dashdash : BOOLEAN, static : BOOLEAN,
              dirs : Seq(STRING), files : Seq(Word)]

Start == [skip |-> TRUE, dashdash |-> FALSE, static |-> FALSE,
          dirs |-> <<>>, files |-> <<>>]

AnOption(st, cmd, i) ==
  LET w == cmd[i]
      static == (st.static \/ w.opt \in StaticOpts) /\ w.opt \notin DynamicOpts
      dirs == IF w.opt = "-L" THEN Append(st.dirs, GetArg(cmd, i)) ELSE st.dirs
      lib == IF w.opt = "-l" THEN Resolve(dirs, GetArg(cmd, i), static) ELSE <<>>
      \* a resolved -l is replaced by its path before the test for an
      \* argument to skip, so its argument stays
      skip == lib = <<>> /\ IsDiscrete(w) /\ w.opt \in OptsWithArg
  IN [st EXCEPT !.skip = skip, !.static = static, !.dirs = dirs,
                !.files = @ \o [k \in DOMAIN lib |-> Plain(lib[k])]]

ScanOptionsOnly(cmd, i) ==
  [st \in ScanState |->
     IF st.skip THEN [st EXCEPT !.skip = FALSE]
     ELSE IF IsOption(cmd[i]) THEN AnOption(st, cmd, i)
     ELSE [st EXCEPT !.files = <<cmd[i]>> \o @]]

Scan(cmd, i) ==
  [st \in ScanState |->
     IF st.skip THEN [st EXCEPT !.skip = FALSE]
     ELSE IF st.dashdash \/ ~IsOption(cmd[i])
          THEN [st EXCEPT !.files = Append(@, cmd[i])]
     ELSE IF cmd[i] = Opt("--") THEN [st EXCEPT !.dashdash = TRUE]
     ELSE AnOption(st, cmd, i)]

\* What the loop has come to after each number of words.  The first word,
\* argv[0], is skipped.
Scanned(cmd) ==
  LET after[i \in 0 .. Len(cmd)] == IF i = 0 THEN Start ELSE Scan(cmd, i)[after[i - 1]]
  IN  after

EnumerateInputFiles(cmd) == Scanned(cmd)[Len(cmd)].files

----------------------------------------------------------------------------
\* ld's own reading, as far as the plugin relies on it: a plain word is an
\* input file unless the option before it takes it as its argument.
LdOptsWithArg == OptsWithArg \cup {"-T", "-u", "-dynamic-linker"}

IsArgument(cmd, i) ==
  /\ i > 2
  /\ IsOption(cmd[i - 1]) /\ IsDiscrete(cmd[i - 1])
  /\ cmd[i - 1].opt \in LdOptsWithArg

IsInputFile(cmd, i) == i > 1 /\ ~IsOption(cmd[i]) /\ ~IsArgument(cmd, i)

LdFiles(cmd) ==
  LET upto[i \in 0 .. Len(cmd)] ==
        IF i = 0 THEN <<>>
        ELSE IF IsInputFile(cmd, i) THEN Append(upto[i - 1], cmd[i]) ELSE upto[i - 1]
  IN  upto[Len(cmd)]

\* Words ld accepts as a command line: no option lacks its argument, no
\* option is an argument.
WellFormed(cmd) ==
  /\ cmd # <<>> /\ ~IsOption(cmd[1])
  /\ \A i \in DOMAIN cmd :
       IsOption(cmd[i]) /\ IsDiscrete(cmd[i]) /\ cmd[i].opt \in LdOptsWithArg
         => i < Len(cmd) /\ ~IsOption(cmd[i + 1])
----------------------------------------------------------------------------
\* What makes the reading correct, for one line.
Occurs(cmd, o) == \E i \in DOMAIN cmd : cmd[i].opt = o

\* The input files of a line are ld's.
ReadsAsLd(cmd) ==
  WellFormed(cmd) /\ ~Occurs(cmd, "-l") /\ ~Occurs(cmd, "--")
    /\ (\A o \in LdOptsWithArg \ OptsWithArg : ~Occurs(cmd, o))
  => EnumerateInputFiles(cmd) = LdFiles(cmd)

\* An option with argument a behind the line leaves them as they are, and so does
\* a script in front.
RewritesKeepThem(cmd, a, fd) ==
  WellFormed(cmd) /\ ~Occurs(cmd, "--") =>
    /\ \A o \in {"-z", "--wrap"} :
         EnumerateInputFiles(cmd \o <<Opt(o), Plain(a)>>) = EnumerateInputFiles(cmd)
    /\ EnumerateInputFiles(InsertAt(cmd, 2, FdPath(fd)))
         = <<FdPath(fd)>> \o EnumerateInputFiles(cmd)

\* A library option behind the line adds a file of that name from a directory
\* searched so far, in the binding mode set last, if there is one.
SearchedFor(cmd, name) ==
  LET static == \E i \in DOMAIN cmd :
                  /\ cmd[i].opt \in StaticOpts
                  /\ \A j \in DOMAIN cmd : j > i => cmd[j].opt \notin DynamicOpts
      searched == {GetArg(cmd, i) : i \in {j \in DOMAIN cmd : cmd[j].opt = "-L"}}
      before == EnumerateInputFiles(cmd)
      after == EnumerateInputFiles(Append(cmd, Joined("-l", name)))
      hits == {k \in DOMAIN LibFile : /\ k[1] \in searched /\ k[2] = name
                                      /\ static => k[3] = ".a"}
  IN  WellFormed(cmd) /\ ~Occurs(cmd, "--") =>
        IF hits = {} THEN after = before
        ELSE \E k \in hits : after = Append(before, Plain(LibFile[k]))
=============================================================================
