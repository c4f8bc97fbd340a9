------------------------------- MODULE Classify -------------------------------
(***************************************************************************)
(* classify_input_objects (cmdline.hh) with the mapping of files under it  *)
(* (elfmap.hh, elfmap.cpp): each input file is opened and mapped, each     *)
(* object in it, the members of an archive among them, is asked for the    *)
(* symbols that match, and file and mapping are given back.                *)
(***************************************************************************)
EXTENDS LdCmdline

CONSTANTS
  Image,    \* file name -> what the file holds, see ImageAssumption
  PageSize

\* sections has the type of every section from 0 on, and the names of the
\* symbols in it that match; members has the sizes of an archive's members.
Section == [type : STRING, names : SUBSET STRING]

ASSUME ImageAssumption ==
  \A f \in DOMAIN Image :
    /\ DOMAIN Image[f] = {"archive", "rel", "sections", "members", "size"}
    /\ Image[f].archive \in BOOLEAN /\ Image[f].rel \in BOOLEAN
    /\ \A k \in DOMAIN Image[f].sections :
         DOMAIN Image[f].sections[k] = DOMAIN [type |-> "", names |-> {}]
    /\ Image[f].members \in Seq(Nat) /\ Image[f].size \in Nat
    /\ Image[f].archive => ~Image[f].rel
ASSUME PageSizeAssumption == PageSize \in Nat \ {0}

VARIABLES
  phase,   \* "idle", "opening", "whole", "walking", "closing", "done", or how
           \* the program ended: "aborted", "crashed"
  inputs,  \* input files from the current one on
  mapped,  \* mapping_size of the current file, 0 if it is not mapped
  offset,  \* where in the archive the walk is
  out,     \* what classify_input_objects returns
  opened, made, unmapped  \* descriptors open, mmap()s and munmap()s done so far

classifyVars == <<phase, inputs, mapped, offset, out, opened, made, unmapped>>

GlobalHeader == 8
MemberHeader == 60

ClassifyInit ==
  /\ phase = "idle" /\ inputs = <<>> /\ mapped = 0 /\ offset = 0 /\ out = <<>>
  /\ opened = 0 /\ made = 0 /\ unmapped = 0

----------------------------------------------------------------------------
\* Definitions marked (slip) are plausible mistakes in the one that follows;
\* they serve to show that the properties can fail, and nothing uses them.

File == Image[Head(inputs).arg]

RoundUp(n) == PageSize * ((n + PageSize - 1) \div PageSize)

\* An archive as ar lays it out: headers at even offsets, and room for what they
\* say.
HeaderAfter(members) ==
  LET after[j \in 0 .. Len(members)] ==
        IF j = 0 THEN GlobalHeader
        ELSE after[j - 1] + MemberHeader + members[j] + (members[j] % 2)
  IN  after

HeaderAt(members, k) == HeaderAfter(members)[k - 1]

ASSUME ArchiveAssumption ==
  \A f \in DOMAIN Image : Image[f].archive =>
    \A k \in DOMAIN Image[f].members :
      HeaderAt(Image[f].members, k) + MemberHeader + Image[f].members[k] <= Image[f].size

\* elfmap::find<>(): the first section after number 0 that has the type.
Find(sections, type) ==
  {i \in DOMAIN sections : /\ i > 1 /\ sections[i].type = type
                           /\ \A j \in 2 .. i - 1 : sections[j].type # type}

\* enumerate_symbols_matching() looks at the start of the mapping, whatever the
\* offset of the object.
SymbolsMatching(f) ==
  IF mapped > 0 /\ f.rel
  THEN UNION {f.sections[i].names : i \in Find(f.sections, "SYMTAB")} ELSE {}

\* What the elfmap that it copies from the fmap unmaps when it goes.
\* (slip: what any fmap does)
CopyUnmapsToo(f) == IF mapped > 0 /\ f.rel THEN 1 ELSE 0
CopyUnmaps(f) == 0

\* map::insert() leaves an entry that is there already.
Asked(at) ==
  /\ out' = [e \in DOMAIN out \cup {<<Head(inputs).arg, at>>} |->
               IF e \in DOMAIN out THEN out[e] ELSE SymbolsMatching(File)]
  /\ unmapped' = unmapped + CopyUnmaps(File)
----------------------------------------------------------------------------
Begin(cmd) ==
  /\ phase = "idle"
  /\ inputs' = EnumerateInputFiles(cmd)
  /\ phase' = IF inputs' = <<>> THEN "done" ELSE "opening"
  /\ UNCHANGED <<mapped, offset, out, opened, made, unmapped>>

NextFile ==
  /\ inputs' = Tail(inputs)
  /\ phase' = IF Tail(inputs) = <<>> THEN "done" ELSE "opening"

OpenFails ==
  /\ phase = "opening"
  /\ NextFile
  /\ UNCHANGED <<mapped, offset, out, opened, made, unmapped>>

\* A word may name no file of the table: it is not there to be opened.
OpenAndMap ==
  /\ phase = "opening" /\ Head(inputs).arg \in DOMAIN Image /\ File.size > 0
  /\ mapped' = RoundUp(File.size)
  /\ phase' = IF File.archive THEN "walking" ELSE "whole"
  /\ offset' = GlobalHeader
  /\ opened' = opened + 1 /\ made' = made + 1
  /\ UNCHANGED <<inputs, out, unmapped>>

\* mmap() fails, as it does on an empty file: the object counts as no archive
\* and is asked all the same.
MapFails ==
  /\ phase = "opening" /\ Head(inputs).arg \in DOMAIN Image
  /\ mapped' = 0
  /\ phase' = "whole"
  /\ opened' = opened + 1
  /\ UNCHANGED <<inputs, offset, out, made, unmapped>>

StatFails ==
  /\ phase = "opening" /\ Head(inputs).arg \in DOMAIN Image
  /\ phase' = "aborted"
  /\ opened' = opened + 1
  /\ UNCHANGED <<inputs, mapped, offset, out, made, unmapped>>

AskWhole ==
  /\ phase = "whole"
  /\ Asked(0)
  /\ phase' = "closing"
  /\ UNCHANGED <<inputs, mapped, offset, opened, made>>

MembersHere ==
  {k \in DOMAIN File.members : HeaderAt(File.members, k) = offset}

\* (slip: as if the size counted the header)
AskMemberHeaderCounted ==
  /\ phase = "walking" /\ offset < mapped
  /\ \E k \in MembersHere :
       /\ Asked(offset + MemberHeader)
       /\ offset' = offset + File.members[k]
  /\ UNCHANGED <<phase, inputs, mapped, opened, made>>

\* The next header is looked for right behind the member, padded or not.
AskMember ==
  /\ phase = "walking" /\ offset < mapped
  /\ \E k \in MembersHere :
       /\ Asked(offset + MemberHeader)
       /\ offset' = offset + MemberHeader + File.members[k]
  /\ UNCHANGED <<phase, inputs, mapped, opened, made>>

\* The end of the last page, or no header where one should be.
EndWalk ==
  /\ phase = "walking" /\ (offset >= mapped \/ MembersHere = {})
  /\ phase' = "closing"
  /\ UNCHANGED <<inputs, mapped, offset, out, opened, made, unmapped>>

\* The bound of the walk is the end of the last page: what would be a header
\* behind the last member is read although it may reach past the mapping.  What
\* is behind it decides whether that is a crash or EndWalk.
ReadsPastMapping ==
  /\ phase = "walking" /\ offset < mapped /\ offset + MemberHeader > mapped
  /\ phase' = "crashed"
  /\ UNCHANGED <<inputs, mapped, offset, out, opened, made, unmapped>>

\* close(); then f goes, and with it the mapping.
Close ==
  /\ phase = "closing"
  /\ opened' = opened - 1
  /\ unmapped' = unmapped + (IF mapped > 0 THEN 1 ELSE 0)
  /\ mapped' = 0
  /\ NextFile
  /\ UNCHANGED <<offset, out, made>>

ClassifyStep ==
  \/ OpenFails \/ OpenAndMap \/ MapFails \/ StatFails
  \/ AskWhole \/ AskMember \/ EndWalk \/ ReadsPastMapping \/ Close

\* One call, for some line.
ClassifySpec ==
  ClassifyInit /\ [][(\E cmd \in Seq(Word) : Begin(cmd)) \/ ClassifyStep]_classifyVars
----------------------------------------------------------------------------
ClassifyTypeOK ==
  /\ phase \in {"idle", "opening", "whole", "walking", "closing", "done",
             "aborted", "crashed"}
  /\ inputs \in Seq(Word)
  /\ phase \in {"opening", "whole", "walking", "closing"} => inputs # <<>>
  /\ mapped \in Nat /\ offset \in Nat
  /\ \A k \in DOMAIN out : k[1] \in DOMAIN Image /\ k[2] \in Nat
  /\ opened \in 0 .. 1 /\ made \in Nat /\ unmapped \in Nat

\* A mapping is unmapped once: not while there are objects in it to be asked,
\* whatever has been copied from it meanwhile, and at the latest when its file is
\* closed; descriptors are closed too (elfmap.hh:110-113, elfmap.cpp:17-25).
MappingsReleased ==
  /\ opened = (IF phase \in {"whole", "walking", "closing", "crashed", "aborted"} THEN 1 ELSE 0)
  /\ made - unmapped = (IF mapped > 0 THEN 1 ELSE 0)

\* The state is well formed, mappings and descriptors among it.
ClassifySound == ClassifyTypeOK /\ MappingsReleased

\* Once an archive has been walked, the objects found in it are its members,
\* down to the first one of odd size, behind which the padding is taken for no
\* header: nothing else is ever taken for a member (cmdline.hh:171-190).
MembersFound ==
  phase = "closing" /\ mapped > 0 /\ File.archive =>
    LET members == File.members
        reached == {k \in DOMAIN members : \A j \in 1 .. k - 1 : members[j] % 2 = 0}
        found == {k[2] : k \in {e \in DOMAIN out : e[1] = Head(inputs).arg}}
    IN  found \ {0} = {HeaderAt(members, k) + MemberHeader : k \in reached}
=============================================================================
