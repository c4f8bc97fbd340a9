# elftin in TLA+

A verification development for [elftin](../src/README), a collection of tools
that rewrite ELF files and of linker plugins. The modules in this directory
model the code under `src/`; TLC checks them on small instances, and TLAPS
proves much of what TLC finds to hold for every instance.

Run the tools from this directory:

    tlc -workers 2 -config MCXwrapPlugin.cfg MCXwrapPlugin
    tlapm Normrelocs_proofs.tla

`PROJECT.json` is the index: the runs, the lines of the source each definition
translates, the hazards of the code, and, for every property, a slip in the
code (a "mutant") that the property catches.

## 1. The system

### How the parts interact

The largest part of elftin is one pipeline. A user links with
`ld -plugin xwrap-ldplugin.so -plugin-opt SYM ...` to have every reference to
`SYM` go to `__wrap_SYM`, including references `ld --wrap` does not redirect.

1. `ld` calls the plugin's `onload`, which constructs it. The constructor reads
   the options from the transfer vector and the whole command line from the
   process's own stack (**base-ldplugin**), finds the input files in it
   (**command-line enumeration**) and the symbols they define
   (`classify_input_objects` over an **elfmap** of each), and evaluates three
   criteria. A criterion that is not content puts a guard in the environment
   and re-executes the linker with another command line (**restart-self**).
2. For each input file, `ld` calls `claim_file`. For an object that defines a
   symbol to wrap, **xwrap-ldplugin** claims it, copies it, runs **normrelocs**
   on the copy, once for each symbol, and a sub-link `ld -r` of the copy that
   aliases each symbol to its `__real_` name.
3. When all symbols are read, it adds the rewritten copies as input files.

The command-line tools share a shape: map the file shared, change it in place,
unmap. **normrelocs**, **sym2und**/**abs2und**, **abs2sectsym**, **undprot**,
**rel2data** and **pie2rel** work on relocatable objects and static symbol
tables; **dynappend** and **sym2dyn** on the dynamic section and the dynamic
symbol table. **custom-phdrs**, **embed-file** and **embed-loadable**
(`shift-elf`) are a chain of make rules that links a program twice, to give it
a program header of its own, put a file under it, and shift the offsets of an
embedded ELF file to where it will be. The test of custom-phdrs,
**heap-segment**, is a program in itself: a memory allocator, with a lock, over
a pool that lies in a custom segment.

### Inventory

| Part | State | Operations | What is hard | What makes it correct |
|---|---|---|---|---|
| restart-self (`restart-self.hh`) | the environment (guards), the command line, the criterion being evaluated | evaluate, restart (`execve`), abort | state survives in the environment across images; every image starts over; a restart for one criterion can upset another | no abort, a bounded number of restarts, all criteria content at the end |
| command-line enumeration (`cmdline.hh`, `cmdline.cc`) | flags and directories carried from word to word | enumerate the inputs, classify them | joined and discrete arguments, binding mode, `-L` order, archives | the same files as `ld`, before and after each rewriting |
| base-ldplugin | options, job, temporaries and their descriptors | load, new temporary, dispatch of the hooks, cleanup | descriptors that outlive `exec` | at most what the plugin needs is created; hooks in order |
| xwrap-ldplugin | claimed files and their stand-ins | construct, claim, add, clean up | any of a dozen calls may fail; three rewritings of one command line | each symbol served in one way, each definition replaced once |
| normrelocs | lists of section and zero-offset symbols, the mapped relocations | collect twice, rewrite each relocation, again for the next name | in place: every moment is what a crash leaves; several symbols at one place | relocations keep what they refer to |
| sym2und, abs2und, abs2sectsym, undprot, rel2data, pie2rel | the mapped file | rewrite symbols or headers | order of the tools; a kill between two stores, and the second run | only the symbols asked for change; a second run completes the first; symbols stay where they are |
| dynappend, sym2dyn | the mapped file, tables by name and address with blacklists | claim a spare dynamic entry; propagate redefinitions and renames; rebuild the hash table | bounds, name lookup by substring, failure and kill after changes | the dynamic symbols agree with the static ones, the hash table with them; no entry is lost |
| custom-phdrs, embed-file, embed-loadable (`shift-elf`) | make's targets and their ages, the shifted file | predict the offset, copy, shift, link, edit and make again | prediction before placement; a shift in part or twice, taken for up to date | the embedded file is where its offsets say |
| heap-segment | `locked`; the free list and the headers of issued chunks | lock, unlock; malloc, calloc, free, realloc, posix_memalign, pvalloc | interleaving of threads; carving, splitting and joining in every order; overlaid headers | mutual exclusion; chunks apart, nothing lost |
| elfmap, fmap | a mapping and who unmaps it | map, copy, search, unmap | ownership while copies come and go; the walk over an archive | the objects that are there, unmapped once |

The hazards these make for are listed, each at its line, in `PROJECT.json`.

## 2. The modules

| Module | Models | With |
|---|---|---|
| `RestartSelf` | what any plugin built on `restart-self.hh` promises | `MCRestartSelf`, `RestartSelf_proofs` |
| `LdCmdline` | `enumerate_input_files`, as operators | `XwrapPlugin_proofs` |
| `Classify` | `classify_input_objects` over `fmap` and `elfmap`; EXTENDS `LdCmdline` | `MCLdCmdline`, `XwrapPlugin_proofs` |
| `XwrapPlugin` | the plugin through one link; EXTENDS `LdCmdline`, implements `RestartSelf` | `MCXwrapPlugin`, `XwrapPlugin_proofs` |
| `Normrelocs` | `normrelocs` on one object, for one name after another | `MCNormrelocs`, `Normrelocs_proofs` |
| `HeapMutex` | `enter_cr`/`exit_cr` under the threads of `mutex.c` | `MCHeapMutex`, `HeapMutex_proofs` |
| `Allocator` | what an allocator promises its callers | |
| `PoolHeap` | the allocator of `malloc.c`; implements `Allocator` | `PoolHeap_proofs` |
| `SymTools` | `sym2und`, `abs2und`, `abs2sectsym`, `undprot`, `rel2data`, `pie2rel` | `MCSymTools`, `SymTools_proofs` |
| `DynTools` | `sym2dyn`, `dynappend` | `MCDynTools`, `DynTools_proofs` |
| `EmbedLoadable` | `make` in embed-loadable: predict, copy, shift, link | `MCEmbedLoadable`, `EmbedLoadable_proofs` |

In all of them, definitions marked "slip" are wrong versions of the definition
that follows. Nothing uses them; they are there to be put in its place, to show
that a property can fail.

### RestartSelf

`at` is the `RESTART_IF` the constructor is at, `job` the command line (and
whatever else a criterion looks at), `guards` the environment variables set by
`putenv`. `Continue` is a criterion that is content. `Trigger` is one that is
not: `AbortOnGuard` if its guard is set, otherwise `Reexec`. `ExecFails` is an
`execve` that returns, after the guard was set. The criteria are the constants
`Needs` and `Fixes`, restrained by the assumption `FixContract`: what the
comments of `restart-self.hh` ask of a single criterion ("there will be *no*
need to restart next time"), and, because there are several, that a fix-up
leaves the others content. The header does not say the second; without it the
abort can be reached, and `Keeps_Fix_Contract` proves that `XwrapPlugin` provides
it.

### LdCmdline

A word of the command line is a record that tells an option, an option joined
with its argument, a plain word, and the path of an open descriptor apart; the
characters are left out. `Scan` is a round of the loop, `Scanned` what the loop
has come to after each number of words, and `EnumerateInputFiles` the files it
has in the end. `AnOption` does what its body does in its
order, which matters: the library search replaces the option before the test
for an argument to skip. That `realpath` fails on a file `stat` has just found
(`cmdline.hh:110`, which aborts) takes another process that removes the file,
and is left out. `LdFiles` is external: the linker's own reading, as
far as the plugin depends on it. Of the options with an argument only some are
listed; the others take the same path. What makes the reading correct is stated
for one line (`ReadsAsLd`, `RewritesKeepThem`, `SearchedFor`): `MCLdCmdline`
checks it of each line that can be typed, and `XwrapPlugin_proofs` proves it of
every line.

### Classify

An input file after another is opened, mapped and asked. `OpenAndMap`,
`MapFails` and `StatFails` are the constructor of `fmap` with its two failures
(the one aborts, the other leaves an object that is asked all the same);
`AskMember` is a round of the walk over an archive, `EndWalk` and
`ReadsPastMapping` its ends, `Close` the end of the scope, where `close` and
then the destructor run. A file is what matters of it: the sizes of an
archive's members, or the sections of an object with the symbols in them that
match. Headers lie at even offsets (`HeaderAt`, and `HeaderAfter` which counts
them up), which the walk does not know. `ArchiveAssumption` says that an archive
is not cut short: it has room for the members its headers announce.
`made` and `unmapped` count the calls of `mmap` and `munmap`: `CopyUnmaps` is
what the `elfmap` that `enumerate_symbols_matching` copies from the `fmap`
unmaps when it goes, which is nothing because the copy is told not to.
`XwrapPlugin` takes the result of all this as one step.

### XwrapPlugin

One variable for each thing that survives a step: `cmdline`, `env` and `fds`
across `execve`, `temps` on disk, `claimed` and `added` in the plugin, `todo`
and `kept` in the linker. `Content`, `Restart` and `ExecFails` are the
constructor (`Wants` and `FixedUp` are the bodies of its three criteria);
`LeaveToLinker`, `Claim` and `ClaimFails` the claim-file handler;
`AllSymbolsRead` and `Cleanup` the other hooks. `ClaimFails` stops at any of
the calls of the handler, the last rename included, with the temporaries that
call leaves behind. How often the linker was restarted is no variable: it is
the number of guards (`Restarts`), less the one put up before an `execve` that
failed. A
temporary is a record of what it holds: which symbols a script redefines, which
symbols a copy has been normalised for, which linker made it. `FixedUp` for
the script mentions the descriptor the script will be opened on, since the
path put in the command line does.

The assumptions say which jobs are meant: lines that `ld` accepts (`WellFormed`),
without `--`, behind which an appended option would be a file; each file of one
kind, with the symbols it defines; the linker's own path is no option. That the
files to be replaced are replaced once each and the others kept, in the order of
the line, is said by `IsSelection`: a list is the others' members at the places
given, in order.

Reading archives follows the code: the test for ELF in
`enumerate_symbols_matching` looks at the start of the mapping, so a member of
an archive defines nothing.

### Normrelocs

`CollectSection` and `CollectZeroOffset` are rounds of the two passes over the
symbols, `RewriteReloc` one over the relocations, `Close` the end of a run and
the beginning of the next: the plugin runs the tool once for each symbol, on
the same file. A relocation is the section it applies to and its symbol;
offset, type and addend are never written. `sizes` is the capacity as
`REALLOC_IF_FULL` keeps it. The relocations of all sections are one sequence,
and the section's flags enter as the constant `Debugging`.

### HeapMutex

An atomic access per action. `CasSucceeds` goes round the loop of `enter_cr`
and `CasFails` leaves it, as the code has it. Threads are those of `mutex.c`,
each with a number of rounds (two in the source).

### PoolHeap and Allocator

Here every call is one action: interleaved calls are left to `HeapMutex`, and
to the plan. The free list is a sequence of chunks by address, the header of an
issued chunk is in `live` with what its holder asked for. The helpers carry the
names of the functions of `malloc.c`; each gives the list it leaves, the
pointer it returns and whether the assertions on its way hold. Sizes are
computed modulo `Word`, as `size_t` is. `Neighbour` is the callback of `free`,
which reads the size of the chunk from a header that has just been overwritten:
`MetaSizeOnceReset` is what it finds there.

`Allocator` knows no free list: `blocks` says how many bytes each caller may
use from its pointer on. Its steps say what a call may do to them.

### SymTools

Six programs of one shape: the actions are that shape (`Open`, `RewriteSymbol`
or `RewriteSection` for each round of a loop, `NextPass` for `pie2rel`,
`Close`), and what they do to a symbol or a header is an operator per tool.
`recipe` is the sequence of invocations still to run on the file.
`Interrupt` is a kill between two stores: the mapping is shared, so the file
keeps any subset of the stores of the symbol at hand (`PartlyWritten`; the
compiler may reorder them) or of `pie2rel`'s to the ELF header
(`PartlyDoctored`), and the user runs the tool again. `Spoils` names
the interruptions that running again does not make good; what the properties
promise of a finished file they promise for all others.

### DynTools

The same shape for the two tools of the dynamic sections. `Patch` is a round of
`sym2dyn`'s loop over `.dynsym`, with both of its halves: `Redefinition` looks
a symbol up by name, `Rename` by address, each refusing blacklisted keys.
`StrtabFind` is the search with `strstr`, over constants that tell which
strings begin or end which. `KeepHash`, `CannotRehash`, `ZeroHash` and
`Refill` are what follows the loop. Between `ZeroHash` and `Refill` the table is
one of no symbols, because its sizes are gone as well: `RefillNothing` is a run
that meets such a table, left by an interrupted one, and reads 0 for both.
`ClaimEntry` is `dynappend`; the entry behind the section is `after`, since the
tool may write there. `Interrupt` leaves any part of the stores to the symbol,
the table (`PartlyFiled`) or the entry (`PartlyStored`) at hand.

### EmbedLoadable

`files` are the five targets of the Makefile, `older` says which of them `make`
would build again. `Predict`, `Cp` and `ShiftElf` are the lines of the recipe
of `%-shifted.so`, `Build` stands for the recipes that call the compiler,
`objcopy` or the linker, and `BuildFails`, `PredictFails`, `ShiftFails` and
`Kill` for their failures; `Edit` changes a source between two runs. `Placed`
is external: where the linker puts `.meta` with the patched script, one more
program header included, that may tip the data segment over to another page.
`Predicted` is what the shell script computes beforehand, by the search it
does.

## 3. The runs

| Run | States | Shows |
|---|---|---|
| `restart_self` | four criteria, two variants of every job, the most liberal `Needs`/`Fixes` that keep the contract | no abort; content at the end; at most one restart each; loading ends |
| `cmdline` | every line of up to five words of a vocabulary of twelve; on those of up to four, each file that can be named, and each failure | the inputs are `ld`'s; rewritings keep them; libraries come from the directories searched; mappings and descriptors are given back once; an archive's members are found, up to the first of odd size |
| `xwrap` | 420 command lines, seven sets of files, up to two symbols, every failure | the plugin's promises across restarts and hooks; it implements `RestartSelf` |
| `normrelocs` | objects with two functions anywhere in two sections, every pair of relocations, three sequences of names | places are preserved; what was asked for is named, once |
| `heap_mutex` | three threads, two rounds | the lock is not left set; everyone gets through |
| `pool_heap` | every sequence of calls on a pool of 96 bytes | chunks apart, in order, as asked; assertions hold; nothing lost; implements `Allocator` |
| `sym_tools` | 8 recipes of two to four tools on 193 files, killed anywhere and any number of times | running again completes; no definition is lost unasked; symbols stay where they are; what is undefined is a reference |
| `dyn_tools` | two dynamic symbols against every edit of up to two static ones, three string tables; `.dynamic` with one to four null entries | redefinitions and renames arrive; running again changes nothing; names are found by the hash table; the loader loses no entry |
| `embed_loadable` | four data segments, two files to embed, two edits, every failure | the current file is embedded where it says; nothing half shifted is kept |

A property that is a conjunction (`ClassifySound`, `TempsSound`, `ListSound`,
`BlocksSound`, `SymtabSound`, `DynamicSound`, `FilesSound`) names its parts,
which are defined before it; where it includes the type invariant the other
part is what it is about.

Why these bounds. In `restart_self` four criteria let a restart be caused
before, between and after others. In `cmdline` the longest pattern
that matters is `-L d1 -Bstatic -l x`: five words. Four are enough to name two
files of each kind in either order; the archives, on pages of 256 bytes, leave
no room for a header in their last page, fill it, or have a member of odd size.
In `xwrap`, objects that
define both, one or none of the symbols, in each order, and an archive found
by `-l`, are combined with every way the user may already have written what the
plugin adds; the state space is finite without a bound, because the plugin
restarts at most three times. In `normrelocs` two code sections give references
within and across sections, and two relocations are enough because one is
rewritten without regard to the others. In `heap_mutex` the third thread, one
more than in `mutex.c`, can reset the lock between two others. In `pool_heap`
the pool holds two chunks of 48 bytes, or up to seven of 0, so a chunk may have
free and issued neighbours on either side; the sizes are 0, one that needs
rounding and one that never fits; the alignments are one below the minimum and one (the
page, 64 here) that makes `posix_memalign` split a chunk. In `sym_tools` one
symbol of each sort is enough, because no tool looks at two, and the recipes
have each pair of tools whose order matters both ways, `pie2rel` twice
included. In `dyn_tools` two static symbols are the least for a duplicate name
and for a duplicate address, and the strings are one that begins and one that
ends with another's; the second invocation of a recipe is the rerun. In
`embed_loadable` the pages are 4 and 8 bytes, the data segments end on a page,
before it, or with a `.bss` that reaches the next one, and two edits change
both sources, or one back and forth; killed tools and `make` itself may be run
again without bound. Deadlock is not
checked where the system ends: a link, a tool or the threads are done, an
assertion stops the process, a line has all its words, nothing is left to make
or to edit.

Three more runs expect a violation. Each states something the source says of
itself, and shows a behaviour of the code that contradicts it:

- `heap_mutex_exclusion`: two threads are in the critical section. `enter_cr`
  loops while its exchange succeeds, so a thread gets in by finding the lock
  taken, possibly by itself.
- `normrelocs_lists`: a symbol list is written past its allocation. The run has
  room for one entry to begin with, the code for `INITIAL_LIST_SIZE`; the
  capacity is `EntrySize` times too large in both.
- `xwrap_archive_wraps`: a symbol defined in a member of an archive gets a
  `--wrap`.

Other differences between text and code came up and have no run of their own.
The models behave as the code does in each that lies within them.

- After `-l x` with a space, when the library is found, `x` is an input file
  too: the option has been replaced by the path when the test for an argument
  to skip comes (`cmdline.hh:112-125`).
- `free` never joins a chunk with a free one after it, though it has a branch
  for that (`malloc.c:280-297`): the size it looks for the neighbour with has
  just been overwritten.
- The post-pass for multiple definitions that `xwrap-ldplugin.cpp:14-17`
  announces does not exist; the ldscript is never unlinked (`536-543`);
  references to a symbol within its own section stay bound (`8-9`).
- `normrelocs`, given a name, still rewrites references of debugging sections
  to other symbols (`normrelocs.c:27-28`).
- `posix_memalign` stops at an assertion for sizes close to the largest
  (`malloc.c:405`). `calloc` and `pvalloc` wrap around as well; with the sizes
  of `pool_heap` they do not, and `BlocksSound` would fail if they did.
- The walk over an archive does not skip the padding of a member of odd size
  and ends there; behind the last member it may read a header that reaches past
  the mapping (`cmdline.hh:178-181`).
- `abs2sectsym` takes a symbol as an argument and ignores it
  (`abs2sectsym.c:33`). It makes a symbol "relative to that section" (`16`) without
  looking at the section's address, so before `pie2rel` has dropped the
  addresses the symbol's value, 0, is not the section's start:
  `SectionNamesLabelSections` is about relocatable files. `undprot` changes the null symbol too, and loosens
  `STV_INTERNAL` to `STV_PROTECTED` (`undprot.c:74-78`); its header comment is
  that of `rel2data.c`.
- `abs2und` and `abs2sectsym` killed in the middle of a symbol, and `pie2rel`
  between its passes, leave a file that running them again does not complete.
- `sym2dyn` renames to a longer name that contains the one it looks for, when
  that comes first (`53`). It leaves a stale hash table where it stops at a GNU
  one (`291`), and when it is killed after a rename and run again; killed after
  zeroing the table (`296`), it leaves one whose sizes no later run knows.
- `dynappend` writes the entry behind the section when only the terminator is
  left to claim (`dynappend.c:98-106`).
- A failed prediction shifts the embedded file by 0 and `make` goes on
  (`rules.mk:19`); a program whose data segment is moved by the new header
  embeds a file at the wrong offset, as `predict-meta-offset.sh:8` fears; and a
  `make` killed together with its recipe leaves a half-shifted file that is
  newer than its prerequisites. `EmbeddedWhereItSays` excludes the three.

### Fairness

The linker process and the tools have one thread, which runs until it is done:
weak fairness of `Next`. A failing `execve` or `mkstemp` is an alternative of
the same step, so nothing assumes that calls succeed. In `HeapMutex` each
thread is scheduled again and again (the kernel's preemption): weak fairness of
each thread's steps, which is enough for `AllGetThrough` because a thread that
goes round the loop has set the lock, and can go round again only after some
thread has left; threads leave a bounded number of times.

## 4. The proofs

TLAPS checks, for every value of the constants that meets the named
assumptions:

- **RestartSelf** (`RestartSelf_proofs`): type correctness, `NeverAborts`,
  `ConstructedIsSatisfied`, `RestartsBounded`, from `NumCriteriaAssumption`,
  `InitialJobAssumption`, `NeedsAssumption` and `FixContract`. None of the
  three is inductive by itself: that the criterion at hand has no guard follows
  only from what is known of all the others. `IInv` says that every criterion
  already evaluated in this image, and every criterion whose guard is set, is
  content with the job, and that there have been as many restarts as there are
  guards. `Reexec` keeps it by the second half of `FixContract`. A criterion
  that asks for a restart thus has no guard (no abort), each restart adds one
  (the bound), and after the last criterion all are content.
- **Normrelocs** (`Normrelocs_proofs`): all four properties of the run, from
  `ObjectsAssumption` and `InvocationsAssumption`.
  - `TargetsPreserved`. `IInv` adds what the lists mean: `sections` holds
    section symbols, a symbol associated with one lies at its section's
    beginning. A section symbol has value 0 by the assumption, so replacing one
    by the other, in either direction, keeps the section and the offset
    (`RewriteKeepsPlace`).
  - `OnlyAskedInCode`, the action property `NamedOnce` and, for objects whose
    section symbols have sections (`SectionSymbolsHaveSections`),
    `CrossReferencesNamed`. That code uses no section symbol in the end is
    about the loops as a whole, so `RunsInv` says what they have achieved so
    far: the lists miss nothing that has been passed (`SectionsFound`,
    `AssociationsFound`), and a relocation that this run or an earlier one has
    passed is as it should be for the name of that run (`CodeNamed`,
    `DebuggingRelative`). A later run keeps this because in code it only moves
    a relocation off a section symbol, which is `NamedOnce`.
- **HeapMutex** (`HeapMutex_proofs`): `LockNotLeftHeld`, for any threads and
  rounds. With the types it is inductive as it stands: who sets the lock is in
  `enter_cr`, and goes outside only by clearing it.
- **PoolHeap** (`PoolHeap_proofs`): `ListSound`, for any pool and calls;
  `BlocksSound`, `NoAssertionFails` and the refinement `ImplementsAllocator`
  for callers that meet `RequestsFit`: no size that a call computes from its
  arguments wraps around. Without it they are false: `calloc` gives less than
  was asked for, and `posix_memalign` stops at an assertion. `IInv` is
  `Orderly(free)`, the list in address order with every chunk aligned and in
  the pool, and `ApartFrom(free, live)`, the issued chunks with their headers
  clear of the list and of each other; the payloads alone, which the properties
  speak of, could be apart while a header lies in a neighbour. The lemmas are
  the operations on the list, each keeping it in order (`InsertedInOrder`,
  `RemovedInOrder`, `ReplacedInOrder`, `AllocatesPart`, `FreeKeepsOrder`,
  `SplitInOrder`), then one per call with what it leaves (`AllocationEffect`,
  `FreeEffect`, `InPlaceEffect`, `MoveEffect`), from which both the invariant
  and the step of `Allocator` follow. `free` keeps the order although it finds
  0 for the size of the chunk it frees: its search then joins with a chunk
  before or with none, never wrongly. The action property `FewBytesLost` needs
  no `RequestsFit`. It goes by single bytes: a byte is in a free chunk or an
  issued one (`Taken`), what is carved off a chunk leaves it where it was or
  spills 16 behind the allocation (`Spills`), and joining moves the bound between
  two chunks but no byte out of them; `NextLoses` puts that together for each
  call.
- **SymTools** (`SymTools_proofs`): all properties, for every file,
  recipe and sequence of interruptions, from `WordAssumption`,
  `FilesAssumption` and `RecipesAssumption`; `UndefinedAreReferences` for files
  that begin without named undefined local symbols (`NoLocalReferences`), as
  ELF requires. `MayWrite` and `IsRewritten` say what a tool may write to a
  symbol, in part or as a whole, and the lemmas `RewrittenIs` and
  `PartlyWrittenIs` look into the six tools once; every step is then a symbol
  written, or one of those that write none (`StepIs`). `SymtabSound` follows
  from what a symbol may differ in (`SymbolOK`). The others are about a
  finished file and need to know which tools have passed: `TiedOK`,
  `AbsoluteOK`, `ProtectedOK` and `AddressesOK` say it of the tools that have finished
  (`Finished`) and of the symbols the running one has passed (`PassedBy`).
  `PlacesOK` is `PlacesKept` before the end: a symbol is at its place by its
  address as long as its section has one, and by its offset once the running
  `pie2rel` has moved it (`Moved`) or the address is gone. An interruption
  between the passes breaks this, and that is `Spoils`. Addresses are
  subtracted modulo `Word`, and `RebasedAddsUp` says that adding them undoes it.
  `RerunCompletes` compares two runs, and `Recovers` is what ties them together:
  next to the file there is the one that the finished tools leave when nothing
  interrupts them (`Clean`, a place in `Uninterrupted`), and the running tool has
  made of every symbol and header what it makes of the clean one, or still makes
  it (`Rewrites`, `RewritesShdr`). Between its two stores to the ELF header
  only `pie2rel` differs from the clean file there, and it repeats them. A finished tool has then left the clean file
  of the next (`ClosedIsWork`, `CloseRecovers`). A symbol keeps this when it is
  written because every tool leaves alone what it has made (`RewrittenTwice`), and
  when it is written in part because the tool makes of the rest what it makes of
  the whole (`PartlyAgain`, `InterruptRecovers`), but where it has overwritten what
  it decides by. `AddressGone` and `InterruptRecovers` are where `~Spoils` is
  used, so the list of exceptions is all that is needed.
- **EmbedLoadable** (`EmbedLoadable_proofs`): both properties, for every
  layout, library and page size, from the assumptions of the module. The lemma
  `PlacedInNat` is that `predict-meta-offset.sh`, which counts up until the
  remainders agree (`SearchFindsPlace`), finds where the linker puts `.meta`;
  it rests on the lemmas on remainders, which the solvers do not know for a
  divisor that is a constant of the module. `IInv` says what an up-to-date
  target was made from (`MadeFromPrerequisites`), that no target is up to date
  before its prerequisites are (`InOrder`), and what the copy is while its
  offsets are shifted one by one (`MidShift`). `FilesSound` alone is not
  inductive, because it says nothing of a shift that is under way.
- **DynTools** (`DynTools_proofs`): all properties of the run, for every file and
  recipe, from `TailsAssumption`, `NoneAssumption` and `JobsAssumption`. `IInv`
  follows each symbol from what it was to what one run makes of it: `SettledOK`
  says that it is on its way (`PartlyPatched`) and there once `sym2dyn` has passed,
  which is why a second run, or one after a kill, comes to the same although it
  looks names up that the first has changed. `RedefinedOK` and `RenamedOK` say it
  of the symbols with one entry by name, or none by name and one by address.
  `HashOK` says that, if no tool was interrupted, every symbol is filed under its
  present name or the running tool has noted that it must fill the table anew.
  For `.dynamic`, `EntriesKept`, `AppendedOK` and `NeighbourKept` count the null entries that have
  been claimed: what the loader saw is where it was, what has been appended
  follows, and the next entry ends the section, be it the neighbour. The hash table
  itself is the external `Refill`.
- **XwrapPlugin, LdCmdline and Classify** (`XwrapPlugin_proofs`): all properties of
  the run `xwrap`, the refinement `RefinesRestartSelf` included, and those of the
  run `cmdline`. Three of these are about the lines of its vocabulary; what they
  say is proved of every line: `Inputs_AsLd`, `Rewrites_KeepInputs`,
  `Libraries_FromSearchPath`. The assumptions for the plugin and its lines are
  `StringsAssumption` (true of any strings, but the provers do not know it),
  `ExeAssumption`, `FilesAssumption`, `InitialCmdlinesAssumption` and
  `LibFileAssumption`.
  - The command line. That `Scanned` and `LdFiles` are what their recursive
    definitions say follows from there being such a function (`RecursionExists`,
    `ScannedIs`, `LdUptoIs`). A claim about every word is then proved by the first
    word to go wrong (`LeastIsMember`, `NoFirst`). `ReadAlike` goes through a line
    with the plugin's reading and the linker's side by side; `SearchKnown` says that
    the loop knows the binding mode and the directories of the words so far.
    `ScanCarriedOver` compares a line with a rewriting of it, in which the words
    have moved on: from it follow `AppendedFiles` and `InsertedFiles`, and with the
    readings of the options (`AppendedReadings`, `InsertedReadings`) that each of
    the three fix-ups contents its own criterion and disturbs no other
    (`FixContract`, which is `KeepsFixContract` without the behaviour around it).
  - The files on it. `Classify_Sound` and `Members_Found` hold from
    `ImageAssumption`, `PageSizeAssumption` and `ArchiveAssumption`. `CInv` says
    how far the walk over an archive is: behind its first `n` members, each asked
    (`WalkedTo`). Headers are at even offsets, one behind the other
    (`HeadersInOrder`), so only the next member's can be there (`NextMember`), and
    none is where the walk stands on padding. `EndWalkKeeps` is why the
    bound, which is the end of the last page, misses no member: the file ends
    before it (`RoundUpIs`), and behind the file there is no header.
  - The link. `IInv` ties the line of the running image to the user's own
    (`JobOK`: the same inputs with at most the script in front, the same options,
    `--wrap` added only for what no object defines), says what script there is
    (`ScriptOK`), that a criterion which has restarted the linker is content ever
    after (`ContentOK`), and that the files offered so far are either kept or
    claimed, each claimed one relinked for all that it defines (`ClaimsOK`).
    `InputsPreserved` and `NoDoubleRedirect` follow from `JobOK` and `ScriptOK`,
    `TempsSound` from `ScriptOK`; `EverySymbolServed` needs what the content
    criteria say of the last line as well, and `EveryDefinitionReplaced` is what
    `ClaimsOK` comes to when all files have been offered. `RestartIsFirst` is the
    reason that there is one script: a criterion that is not content has not
    restarted before.
  - The refinement maps the constructor's step to the criterion it is at. The
    steps are `ContentRefines`, `RestartRefines` and `ExecFailsRefines`, and
    `OthersRefine` for the hooks, which stutter. A guard stands in the abstract
    state for the one in the environment (`GuardIsSet`), so a restart that found
    it set would be the abort of the protocol; `ContentOK` is why none does.

For the proofs the models were changed in these places, none of which takes a
state away from what the code can reach. `SymTools`: the types of symbols and
sections are finite sets instead of strings, and `PartlyWritten` is a set of
records. `PoolHeap`: alignments are those `posix_memalign(3)` allows, no larger
than leaves room beside the pool in the address space, and `Lost` is the set of
bytes in no chunk instead of their number. `EmbedLoadable`: what
targets hold has a name (`ShiftedLibrary`, `Program`), and `Absent` is assumed
to be none of it. `Normrelocs`: names are strings. `DynTools`: what a search finds
is a set (`Hits`), of which the least is taken. `LdCmdline` and `SymTools`: what
a loop over words or a recipe comes to is a recursive function instead of a fold,
so that it has a value at each place on the way; the search of a directory is a
set. `XwrapPlugin`: the assumptions above, which the instances met before, and
`IsSelection` in place of filters. `Classify`: where headers lie is a recursive
function instead of a fold, and archives are not cut short, as those of the
run were not.

Only model-checked: the liveness properties (`LoadingEnds`, `Termination`,
`AllGetThrough`), because fairness is out of the prover's reach.

## 5. The plan

Done, in this order: `RestartSelf`, `LdCmdline`, `XwrapPlugin` (the pipeline's
core and the abstract specification it implements), `Normrelocs` (the tool that
rewrites most), `HeapMutex`, `Allocator` and `PoolHeap`, `SymTools`,
`DynTools`, `EmbedLoadable`, `Classify`.

Their proofs: `RestartSelf`, `HeapMutex`, `Normrelocs`, `SymTools`,
`EmbedLoadable`, `PoolHeap`, `DynTools`, `XwrapPlugin` with `LdCmdline` and
`Classify`.

Left for later: two threads in `PoolHeap`, a link of the list at a time, with the
lock as `HeapMutex` has it and as it was meant. The second should implement the
atomic allocator.

## 6. Not modelled

What `PROJECT.json` calls `partly` or `not_modelled`, and why:

- `@response` files: one is taken for an input file, whatever is in it.
- The auxiliary vector and the transfer vector: how base-ldplugin gets the
  command line and the options. Their content is an input of `XwrapPlugin`.
- Mappings at an offset other than 0, and upgrades that move an `fmap` into an
  `elfmap`: nothing in the repository makes either.
- The contents of sections, and the bytes of addends and offsets: no tool
  that is modelled changes them. `sh_info`, which counts the local symbols of a
  table and which `sym2und` makes wrong when it turns a local symbol global
  (`sym2und.c:97`): none reads it. Several symbol tables in one file:
  relocatable files and programs have one of each kind.
- `hcreate_r` fails or the table of `sym2dyn` is full (65535 symbols): it exits
  before it writes anything.
- `custom-phdrs`' other shell and m4 scripts transform text. `embed-file`'s
  test embeds a source file, in which nothing has to be shifted.
- `embed-loadable`'s `ldso-helper.c` patches the machine code of one particular
  `ld.so`; nothing in the repository fixes what that is.
- `plugin-api.hh` has only declarations; the other Makefiles build.
