---------------------------- MODULE XwrapPlugin ----------------------------
(***************************************************************************)
(* The xwrap linker plugin (xwrap-ldplugin.cpp on restart-self.hh,         *)
(* base-ldplugin and cmdline.hh) through one link: its constructor, which  *)
(* rewrites the command line and re-executes the linker until its three    *)
(* criteria are content; the claim-file handler, which substitutes a       *)
(* rewritten temporary for each object that defines a symbol to wrap; the  *)
(* all-symbols-read handler, which adds the temporaries to the link; and   *)
(* the cleanup.                                                            *)
(***************************************************************************)
EXTENDS LdCmdline, FiniteSets

CONSTANTS
  Exe,              \* realpath("/proc/self/exe") in every image of the linker
  InitialCmdlines,  \* what the user starts the linker with
  FileKind,         \* file name -> "object", "archive" or "library"
  Defines           \* file name -> symbols it defines (an archive: its members)

\* True of any strings, but no prover knows it.
ASSUME StringsAssumption == {"", "-l", "-z", "muldefs", "--wrap"} \subseteq STRING
ASSUME ExeAssumption == Exe \in Word /\ ~IsOption(Exe)
ASSUME FilesAssumption ==
  /\ "" \notin DOMAIN FileKind
  /\ FileKind \in [DOMAIN FileKind -> {"object", "archive", "library"}]
  /\ Defines \in [DOMAIN FileKind -> SUBSET STRING]

\* Lines that ld accepts, as compiler drivers write them.  After a "--" the
\* options that the plugin appends would be files.
ASSUME InitialCmdlinesAssumption ==
  \A cmd \in InitialCmdlines :
    cmd \in Seq(Word) /\ WellFormed(cmd) /\ Opt("--") \notin ToSet(cmd)

\* Definitions marked (slip) are plausible mistakes in the one that follows;
\* they serve to show that the properties can fail, and nothing uses them.

VARIABLES
  cmdline,   \* argv of the current process image
  cmdline0,  \* (history) what the user started
  env,       \* the criteria whose restart guard is in the environment
  pc,        \* how far the link is
  status,    \* "running", or how the process ended early
  fds,       \* descriptors of the image open on an ldscript temporary
  temps,     \* files created under TMPDIR, none is ever unlinked
  todo,      \* input files the linker has yet to offer to claim_file
  kept,      \* files left to the linker
  claimed,   \* files claimed, with the temporary that stands in for each
  added      \* temporaries handed to add_input_file

loadVars == <<cmdline, env, fds>>
linkVars == <<todo, kept, claimed, added>>
vars == <<cmdline, cmdline0, env, pc, status, fds, temps,
          todo, kept, claimed, added>>

----------------------------------------------------------------------------
\* What the plugin reads off its command line.
Arguments(cmd, o) == {GetArg(cmd, i) : i \in {j \in DOMAIN cmd : cmd[j] = Opt(o)}}

Options(cmd) == {GetArg(cmd, i) : i \in {j \in DOMAIN cmd : cmd[j].opt = "-plugin-opt"}}

\* missing_wrap_options sees --wrap only as a word by itself.
CmdlineWrapped(cmd) == Arguments(cmd, "--wrap")

InputFiles(cmd) == EnumerateInputFiles(cmd)

\* classify_input_objects: for each input object, the symbols to wrap that it
\* defines.  The test for ELF is made at the start of the mapping, whatever
\* the offset of the member, so an archive's members define nothing.
XwrappedDefinedIn(cmd, f) ==
  IF f \in DOMAIN FileKind /\ FileKind[f] = "object"
  THEN Defines[f] \cap Options(cmd) ELSE {}

AllXwrappedDefined(cmd) ==
  UNION {XwrappedDefinedIn(cmd, w.arg) : w \in ToSet(InputFiles(cmd))}

----------------------------------------------------------------------------
\* The three criteria: when each asks for a restart, and with what.
Muldefs == <<Opt("-z"), Plain("muldefs")>>

\* (slip: the window at the very end is not looked at)
HasSubseqBeforeEnd(cmd, seq) ==
  \E i \in 1 .. Len(cmd) : /\ i + Len(seq) - 1 < Len(cmd)
                           /\ \A k \in DOMAIN seq : cmd[i + k - 1] = seq[k]

HasSubseq(cmd, seq) ==
  \E i \in 1 .. Len(cmd) : /\ i + Len(seq) - 1 <= Len(cmd)
                           /\ \A k \in DOMAIN seq : cmd[i + k - 1] = seq[k]

\* (slip: every option is to be wrapped)
MissingWrapsOfAll(cmd) == Options(cmd) \ CmdlineWrapped(cmd)

MissingWraps(cmd) ==
  (Options(cmd) \ AllXwrappedDefined(cmd)) \ CmdlineWrapped(cmd)

HasLdscript(cmd, open) == Len(cmd) >= 2 /\ cmd[2].fd \in open

Criteria == <<"muldefs", "wraps", "ldscript">>

Wants(c, cmd, open) ==
  CASE c = "muldefs"  -> ~HasSubseq(cmd, Muldefs)
    [] c = "wraps"    -> MissingWraps(cmd) # {}
    [] c = "ldscript" -> AllXwrappedDefined(cmd) # {} /\ ~HasLdscript(cmd, open)

WithWraps(cmd) ==
  LET syms == SetToSeq(MissingWraps(cmd))
  IN  cmd \o [k \in 1 .. 2 * Len(syms) |->
                IF k % 2 = 1 THEN Opt("--wrap") ELSE Plain(syms[k \div 2])]

LowestFree(open) == CHOOSE n \in 3 .. 3 + Cardinality(open) :
                       n \notin open /\ 3 .. n - 1 \subseteq open

\* (slip: the script goes in one word too late)
FixedUpLate(c, cmd, open) ==
  CASE c = "muldefs"  -> cmd \o Muldefs
    [] c = "wraps"    -> WithWraps(cmd)
    [] c = "ldscript" -> InsertAt(cmd, 3, FdPath(LowestFree(open)))

FixedUp(c, cmd, open) ==
  CASE c = "muldefs"  -> cmd \o Muldefs
    [] c = "wraps"    -> WithWraps(cmd)
    [] c = "ldscript" -> InsertAt(cmd, 2, FdPath(LowestFree(open)))

\* do_restart: argv[0] becomes the real path of the linker.
Argv(cmd) == [cmd EXCEPT ![1] = Exe]

\* (slips: a descriptor that is closed on exec; a script of all options)
NewFdsCloexec(c, open) == open
NewTempsOfAll(c, cmd, open) ==
  IF c = "ldscript"
  THEN <<[kind |-> "ldscript", of |-> FdPath(LowestFree(open)),
          syms |-> Options(cmd), by |-> Exe]>>
  ELSE <<>>

\* The ldscript is written before the restart, to a descriptor that stays
\* open across it: "sym = __wrap_sym;" for every symbol defined locally.
NewFds(c, open) == IF c = "ldscript" THEN open \cup {LowestFree(open)} ELSE open
NewTemps(c, cmd, open) ==
  IF c = "ldscript"
  THEN <<[kind |-> "ldscript", of |-> FdPath(LowestFree(open)),
          syms |-> AllXwrappedDefined(cmd), by |-> Exe]>>
  ELSE <<>>

----------------------------------------------------------------------------
Init ==
  /\ cmdline \in InitialCmdlines
  /\ cmdline0 = cmdline
  /\ env = {}
  /\ pc = "muldefs" /\ status = "running"
  /\ fds = {} /\ temps = <<>>
  /\ todo = <<>> /\ kept = <<>> /\ claimed = <<>> /\ added = <<>>

Loading == status = "running" /\ pc \in {"muldefs", "wraps", "ldscript"}

\* The criterion is content.  After the last one onload returns, and the
\* linker starts to offer its input files, in its own order.
Content ==
  /\ Loading /\ ~Wants(pc, cmdline, fds)
  /\ pc' = CASE pc = "muldefs" -> "wraps"
             [] pc = "wraps" -> "ldscript"
             [] pc = "ldscript" -> "claiming"
  /\ todo' = IF pc = "ldscript" THEN LdFiles(cmdline) ELSE todo
  /\ UNCHANGED <<loadVars, cmdline0, status, temps, kept, claimed, added>>

AbortOnGuard ==
  /\ temps' = temps \o NewTemps(pc, cmdline, fds)
  /\ status' = "guard_abort"
  /\ UNCHANGED <<loadVars, cmdline0, pc, linkVars>>

\* (slip: execve() is handed the argv and envp that the kernel gave this image)
ReexecAsStarted ==
  /\ cmdline' = Argv(cmdline)
  /\ fds' = NewFds(pc, fds)
  /\ temps' = temps \o NewTemps(pc, cmdline, fds)
  /\ pc' = "muldefs"
  /\ UNCHANGED <<env, cmdline0, status, linkVars>>

\* putenv() and do_restart(): a new image of the same process.
Reexec ==
  /\ env' = env \cup {pc}
  /\ cmdline' = Argv(FixedUp(pc, cmdline, fds))
  /\ fds' = NewFds(pc, fds)
  /\ temps' = temps \o NewTemps(pc, cmdline, fds)
  /\ pc' = "muldefs"
  /\ UNCHANGED <<cmdline0, status, linkVars>>

Restart ==
  /\ Loading /\ Wants(pc, cmdline, fds)
  /\ IF pc \in env THEN AbortOnGuard ELSE Reexec

\* (slip: the constructor goes on after a failed execve())
ExecFailsIgnored ==
  /\ Loading /\ Wants(pc, cmdline, fds) /\ pc \notin env
  /\ env' = env \cup {pc}
  /\ pc' = "claiming" /\ todo' = LdFiles(cmdline)
  /\ UNCHANGED <<cmdline, cmdline0, fds, temps, status, kept, claimed, added>>

\* execve() returns an error: err() exits, and the ldscript stays behind.
ExecFails ==
  /\ Loading /\ Wants(pc, cmdline, fds) /\ pc \notin env
  /\ env' = env \cup {pc}
  /\ temps' = temps \o NewTemps(pc, cmdline, fds)
  /\ status' = "exec_failed"
  /\ UNCHANGED <<cmdline, cmdline0, fds, pc, linkVars>>

\* new_temp_file aborts when mkstemp() fails.
NoTempFile ==
  /\ Loading /\ pc = "ldscript" /\ Wants(pc, cmdline, fds)
  /\ status' = "aborted"
  /\ UNCHANGED <<loadVars, cmdline0, pc, temps, linkVars>>

----------------------------------------------------------------------------
\* claim_file: the handler looks the file up in the classification made by
\* the constructor of this image.
ToReplace(w) ==
  IF w \in ToSet(InputFiles(cmdline)) THEN XwrappedDefinedIn(cmdline, w.arg) ELSE {}

Claiming == status = "running" /\ pc = "claiming" /\ todo # <<>>

LeaveToLinker ==
  /\ Claiming /\ ToReplace(Head(todo)) = {}
  /\ todo' = Tail(todo)
  /\ kept' = Append(kept, Head(todo))
  /\ UNCHANGED <<loadVars, cmdline0, pc, status, temps, claimed, added>>

\* A stand-in as the steps of the handler leave it: a copy of the object, in
\* which syms have been normalised so far; or what ld -r made of that, run by
\* the name this image was started with, and moved over the copy.
Copy(w, syms) == [kind |-> "copy", of |-> w, syms |-> syms, by |-> Exe]
Relinked(w, syms) == [kind |-> "relinked", of |-> w, syms |-> syms, by |-> cmdline[1]]

\* (slip: the linker is not told that the file was claimed)
ClaimUntold ==
  LET w == Head(todo)
      syms == ToReplace(w)
  IN  /\ Claiming /\ syms # {}
      /\ temps' = Append(temps, Relinked(w, syms))
      /\ claimed' = Append(claimed, [file |-> w, temp |-> Len(temps) + 1])
      /\ todo' = Tail(todo) /\ kept' = Append(kept, w)
      /\ UNCHANGED <<loadVars, cmdline0, pc, status, added>>

Claim ==
  LET w == Head(todo)
      syms == ToReplace(w)
  IN  /\ Claiming /\ syms # {}
      /\ temps' = Append(temps, Relinked(w, syms))
      /\ claimed' = Append(claimed, [file |-> w, temp |-> Len(temps) + 1])
      /\ todo' = Tail(todo)
      /\ UNCHANGED <<loadVars, cmdline0, pc, status, kept, added>>

\* Any step of the handler may fail, and each failure aborts the linker: no
\* temporary to be had, no copy, normrelocs half way through the symbols, no
\* second temporary, a sub-link that fails after its output was created, or no
\* move of that output over the copy, which leaves the two side by side.
ClaimFails ==
  LET w == Head(todo)
      syms == ToReplace(w)
  IN  /\ Claiming /\ syms # {}
      /\ \E left \in {<<>>} \cup {<<Copy(w, S)>> : S \in SUBSET syms}
                       \cup {<<Copy(w, syms), Relinked(w, S)>> : S \in {{}, syms}} :
           temps' = temps \o left
      /\ status' = "aborted"
      /\ UNCHANGED <<loadVars, cmdline0, pc, linkVars>>

AllSymbolsRead ==
  /\ status = "running" /\ pc = "claiming" /\ todo = <<>>
  /\ added' = [k \in DOMAIN claimed |-> claimed[k].temp]
  /\ pc' = "linking"
  /\ UNCHANGED <<loadVars, cmdline0, status, temps, todo, kept, claimed>>

\* The cleanup hook destroys the plugin; its list of temporaries goes with it.
Cleanup ==
  /\ status = "running" /\ pc = "linking"
  /\ pc' = "done"
  /\ UNCHANGED <<loadVars, cmdline0, status, temps, linkVars>>

Next ==
  \/ Content \/ Restart \/ ExecFails \/ NoTempFile
  \/ LeaveToLinker \/ Claim \/ ClaimFails \/ AllSymbolsRead \/ Cleanup

\* One thread, which runs until the link is over.
Spec == Init /\ [][Next]_vars
FairSpec == Spec /\ WF_vars(Next)

----------------------------------------------------------------------------
TypeOK ==
  /\ cmdline \in Seq(Word) /\ cmdline0 \in Seq(Word)
  /\ env \subseteq ToSet(Criteria)
  /\ pc \in ToSet(Criteria) \cup {"claiming", "linking", "done"}
  /\ status \in {"running", "guard_abort", "exec_failed", "aborted"}
  /\ fds \in SUBSET Nat
  /\ temps \in Seq([kind : {"ldscript", "copy", "relinked"}, of : Word,
                    syms : SUBSET STRING, by : Word])
  /\ todo \in Seq(Word) /\ kept \in Seq(Word)
  /\ claimed \in Seq([file : Word, temp : DOMAIN temps])
  /\ added \in Seq(DOMAIN temps)

Loaded == pc \in {"claiming", "linking", "done"}
Scripts == {i \in DOMAIN temps : temps[i].kind = "ldscript"}
AddedWraps == CmdlineWrapped(cmdline) \ CmdlineWrapped(cmdline0)

\* When onload returns, the command line of that last image serves every
\* symbol to wrap in one of the two ways: by a line of the script in front of
\* all files if an object of the job defines it, by --wrap if none does.
EverySymbolServed ==
  Loaded =>
    LET local == AllXwrappedDefined(cmdline)
    IN  /\ HasSubseq(cmdline, Muldefs)
        /\ Options(cmdline) = Options(cmdline0)
        /\ Options(cmdline) \ local \subseteq CmdlineWrapped(cmdline)
        /\ local # {} => \E i \in Scripts : /\ temps[i].syms = local
                                            /\ temps[i].of = Head(InputFiles(cmdline))

\* No symbol is redirected twice on the plugin's account, by the script and by
\* --wrap ("Now we have too much wrap!", xwrap-ldplugin.cpp:404).
NoDoubleRedirect ==
  \A i \in Scripts : AddedWraps \cap temps[i].syms = {}

\* However often the command line is rewritten, the job links the files the
\* user named, in the user's order, behind a script if one is open.
InputsPreserved ==
  \E front \in {<<>>} \cup {<<FdPath(n)>> : n \in fds} :
    InputFiles(cmdline) = front \o InputFiles(cmdline0)

\* The danger of xwrap-ldplugin.cpp:478: a new ldscript temporary in every
\* image.  There is at most one in a link, and the image that loads has it open.
OneScript ==
  /\ Cardinality(Scripts) <= 1
  /\ Loaded => \A i \in Scripts : temps[i].of.fd \in fds

\* The state of the plugin is well formed, and in it there is one script or none.
TempsSound == TypeOK /\ OneScript

\* part is what stands in seq at the places S, in the same order.
IsSelection(part, seq, S) ==
  /\ Len(part) = Cardinality(S)
  /\ \A k \in S : part[Cardinality({j \in S : j <= k})] = seq[k]

\* What the linker ends up linking: each file it was to link is either kept or
\* replaced, in order; an object that defines a symbol the script redefines is
\* never kept, and its replacement has had all of them normalised and aliased by
\* the very linker that does the link, whatever name the user started it by.
EveryDefinitionReplaced ==
  pc \in {"linking", "done"} =>
    LET files == LdFiles(cmdline)
        gone == {k \in DOMAIN files : \E j \in DOMAIN claimed : claimed[j].file = files[k]}
    IN
    /\ IsSelection(kept, files, DOMAIN files \ gone)
    /\ IsSelection([k \in DOMAIN added |-> temps[added[k]].of], files, gone)
    /\ \A i \in Scripts : \A k \in DOMAIN kept :
         kept[k].arg \in DOMAIN FileKind /\ FileKind[kept[k].arg] = "object"
           => Defines[kept[k].arg] \cap temps[i].syms = {}
    /\ \A i \in Scripts : \A k \in DOMAIN added :
         /\ temps[added[k]].kind = "relinked" /\ temps[added[k]].by = Exe
         /\ temps[added[k]].syms = Defines[temps[added[k]].of.arg] \cap temps[i].syms

\* The link ends, or the process does.
Termination == <>(pc = "done" \/ status # "running")

----------------------------------------------------------------------------
\* The constructor implements the restart protocol for its three criteria.
Stage == CASE pc = "muldefs" -> 1 [] pc = "wraps" -> 2 [] pc = "ldscript" -> 3
           [] OTHER -> 4

\* A criterion puts up its guard before execve(), also before one that fails.
Restarts == Cardinality(env \ (IF status = "exec_failed" THEN {pc} ELSE {}))

R == INSTANCE RestartSelf WITH
       NumCriteria <- 3,
       Job <- [argv : Seq(Word), open : SUBSET Nat],
       InitialJob <- {[argv |-> c, open |-> {}] : c \in InitialCmdlines},
       Needs <- LAMBDA c, j : Wants(Criteria[c], j.argv, j.open),
       Fixes <- LAMBDA c, j, new :
                  new = [argv |-> Argv(FixedUp(Criteria[c], j.argv, j.open)),
                         open |-> NewFds(Criteria[c], j.open)],
       at <- Stage,
       job <- [argv |-> cmdline, open |-> fds],
       guards <- {c \in 1 .. 3 : Criteria[c] \in env},
       restarts <- Restarts,
       status <- CASE status = "guard_abort" -> "aborted"
                   [] status = "exec_failed" -> "failed"
                   [] OTHER -> "running"

RefinesRestartSelf == R!Spec

\* restart_criterion (restart-self.hh:45-48): with the fixed-up command line
\* "there will be *no* need to restart next time", nor does a fix-up make
\* another criterion ask that did not; and so the abort that "should not happen"
\* (146) does not, through all restarts.
KeepsFixContract ==
  /\ status # "guard_abort"
  /\ Loading => \A c \in ToSet(Criteria) :
       Wants(c, cmdline, fds) =>
         LET new == Argv(FixedUp(c, cmdline, fds))
             open == NewFds(c, fds)
         IN  /\ ~Wants(c, new, open)
             /\ \A d \in ToSet(Criteria) : ~Wants(d, cmdline, fds) => ~Wants(d, new, open)

----------------------------------------------------------------------------
\* What the source says of the plugin, and it does not do: "We ensure --wrap
\* options for all our xwrapped symbols ***that are not defined in an input
\* .o, .a or linker script file***" (362-363).
WrapsOnlyUndefined ==
  \A w \in ToSet(InputFiles(cmdline)) :
    w.arg \in DOMAIN FileKind /\ FileKind[w.arg] \in {"object", "archive"}
      => AddedWraps \cap Defines[w.arg] = {}
=============================================================================
