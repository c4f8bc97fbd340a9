------------------------- MODULE Normrelocs_proofs -------------------------
(***************************************************************************)
(* normrelocs never changes what a relocation refers to, whatever the      *)
(* object and however many names it is run for; it redirects code to what  *)
(* it was asked for only, once, and in the end wherever it was asked to.   *)
(***************************************************************************)
EXTENDS Normrelocs, SequenceTheorems, WellFoundedInduction, TLAPS

\* The object is well formed to begin with and keeps its symbols.
FileOK ==
  /\ symtab \in Seq(Symbol)
  /\ \A i \in DOMAIN symtab : symtab[i].type = "SECTION" => symtab[i].value = 0
  /\ relocs0 \in Seq(Reloc) /\ relocs \in Seq(Reloc)
  /\ \A k \in DOMAIN relocs0 : relocs0[k].sym \in DOMAIN symtab
  /\ \A k \in DOMAIN relocs : relocs[k].sym \in DOMAIN symtab

\* The first list holds section symbols.
SectionsOK ==
  /\ sections \in Seq(DOMAIN symtab)
  /\ \A i \in ToSet(sections) : symtab[i].type = "SECTION"

\* An associated symbol is at the start of the section it is associated with.
AssociatedOK ==
  \A i \in DOMAIN associated :
    /\ i \in DOMAIN symtab /\ associated[i] \in DOMAIN symtab
    /\ symtab[i].type = "SECTION"
    /\ symtab[associated[i]].shndx = symtab[i].shndx
    /\ symtab[associated[i]].value = 0

CursorOK == cursor \in Nat /\ (pc \in {"sections", "zeros", "relocs"} => cursor >= 1)

IInv == FileOK /\ SectionsOK /\ AssociatedOK /\ CursorOK /\ TargetsPreserved

\* The least of some natural numbers is one of them.
LEMMA MinIsMember ==
  ASSUME NEW S, S \subseteq Nat, S # {}
  PROVE  Min(S) \in S
<1>1. PICK x \in S : \A y \in S : ~(<<y, x>> \in OpToRel(<, Nat))
  BY NatLessThanWellFounded, WFMin
<1>2. \A y \in S : x =< y
  <2> SUFFICES ASSUME NEW y \in S PROVE ~(y < x)
    OBVIOUS
  <2>1. y < x => <<y, x>> \in OpToRel(<, Nat)
    BY DEF OpToRel
  <2> QED
    BY <1>1, <2>1
<1>3. \E m \in S : \A y \in S : m =< y
  BY <1>2
<1> QED
  BY <1>3, Zenon DEF Min

\* A relocation that is rewritten keeps its site and its place.
LEMMA RewriteKeepsPlace ==
  ASSUME FileOK, SectionsOK, AssociatedOK,
         NEW r \in Reloc, r.sym \in DOMAIN symtab
  PROVE  /\ IsMetaReference(r) =>
              /\ SectionRelative(r) \in Reloc
              /\ SectionRelative(r).sym \in DOMAIN symtab
              /\ SectionRelative(r).site = r.site
              /\ Place(SectionRelative(r)) = Place(r)
         /\ IsSectionReference(r) =>
              /\ Named(r) \in Reloc
              /\ Named(r).sym \in DOMAIN symtab
              /\ Named(r).site = r.site
              /\ Place(Named(r)) = Place(r)
<1>0. DOMAIN symtab \subseteq Nat
  BY DEF FileOK
<1>1. ASSUME IsMetaReference(r)
      PROVE  /\ SectionRelative(r) \in Reloc
             /\ SectionRelative(r).sym \in DOMAIN symtab
             /\ SectionRelative(r).site = r.site
             /\ Place(SectionRelative(r)) = Place(r)
  <2> DEFINE found == {i \in ToSet(sections) : symtab[i].shndx = symtab[r.sym].shndx}
  <2>1. found \subseteq DOMAIN symtab
    BY DEF SectionsOK, ToSet
  <2>2. CASE found = {}
    BY <2>2 DEF SectionRelative
  <2>3. CASE found # {}
    <3>1. Min(found) \in found
      BY <1>0, <2>1, <2>3, MinIsMember
    <3>2. SectionRelative(r) = [r EXCEPT !.sym = Min(found)]
      BY <2>3 DEF SectionRelative
    <3>3. /\ symtab[Min(found)].shndx = symtab[r.sym].shndx
          /\ symtab[Min(found)].value = 0
      BY <2>1, <3>1 DEF SectionsOK, FileOK
    <3>4. symtab[r.sym].value = 0
      BY <1>1 DEF IsMetaReference
    <3>5. SectionRelative(r).sym = Min(found) /\ SectionRelative(r).site = r.site
      BY <3>2 DEF Reloc
    <3> HIDE DEF found
    <3> QED
      BY <1>0, <2>1, <3>1, <3>2, <3>3, <3>4, <3>5 DEF Place, Reloc
  <2> QED
    BY <2>2, <2>3
<1>2. ASSUME IsSectionReference(r)
      PROVE  /\ Named(r) \in Reloc
             /\ Named(r).sym \in DOMAIN symtab
             /\ Named(r).site = r.site
             /\ Place(Named(r)) = Place(r)
  <2>1. CASE r.sym \notin DOMAIN associated
    BY <2>1 DEF Named
  <2>2. CASE r.sym \in DOMAIN associated
    BY <1>0, <2>2 DEF Named, AssociatedOK, FileOK, Place, Reloc
  <2> QED
    BY <2>1, <2>2
<1> QED
  BY <1>1, <1>2

\* To begin with nothing is collected or changed.
LEMMA IInvInit == Init => IInv
<1> SUFFICES ASSUME Init PROVE IInv
  OBVIOUS
<1>1. PICK o \in Objects : symtab = o.symtab /\ relocs = o.relocs /\ relocs0 = relocs
  BY DEF Init
<1>2. FileOK
  BY <1>1, ObjectsAssumption DEF FileOK
<1>3. TargetsPreserved
  BY <1>1 DEF TargetsPreserved
<1> QED
  BY <1>2, <1>3 DEF Init, EmptyLists, IInv, SectionsOK, AssociatedOK, CursorOK, ToSet

\* Only RewriteReloc writes to the file; the collecting passes fill the lists.
LEMMA IInvStep == IInv /\ [Next]_vars => IInv'
<1> SUFFICES ASSUME IInv, [Next]_vars PROVE IInv'
  OBVIOUS
<1> USE DEF IInv
<1>a. ASSUME UNCHANGED <<symtab, relocs0, relocs>>
      PROVE  FileOK' /\ TargetsPreserved'
  BY <1>a DEF FileOK, TargetsPreserved, Place
<1>b. ASSUME UNCHANGED <<symtab, lists>>
      PROVE  SectionsOK' /\ AssociatedOK'
  BY <1>b DEF lists, SectionsOK, AssociatedOK, ToSet
<1>1. CASE Open \/ OpenFails \/ Finish
  BY <1>1, <1>a, <1>b DEF Open, OpenFails, Finish, file, CursorOK
<1>2. CASE CollectSection
  <2>1. FileOK' /\ TargetsPreserved' /\ CursorOK' /\ AssociatedOK'
    BY <1>2, <1>a DEF CollectSection, InSymtab, file, CursorOK, AssociatedOK
  <2>2. SectionsOK'
    <3>1. CASE symtab[cursor].type = "SECTION"
      <4>1. cursor \in DOMAIN symtab
        BY <1>2 DEF CollectSection, InSymtab, CursorOK, FileOK
      <4>2. sections' = Append(sections, cursor) /\ symtab' = symtab
        BY <1>2, <3>1 DEF CollectSection, file
      <4> QED
        BY <3>1, <4>1, <4>2 DEF SectionsOK, ToSet
    <3>2. CASE symtab[cursor].type # "SECTION"
      BY <1>2, <3>2 DEF CollectSection, SectionsOK, ToSet, file
    <3> QED
      BY <3>1, <3>2
  <2> QED
    BY <2>1, <2>2
<1>3. CASE CollectZeroOffset
  <2>1. FileOK' /\ TargetsPreserved' /\ CursorOK' /\ SectionsOK'
    BY <1>3, <1>a
    DEF CollectZeroOffset, InSymtab, file, CursorOK, SectionsOK, ToSet
  <2>2. AssociatedOK'
    <3>1. CASE IsZeroOffset(cursor)
      <4>1. cursor \in DOMAIN symtab
        BY <1>3 DEF CollectZeroOffset, InSymtab, CursorOK, FileOK
      <4> DEFINE new == [i \in {j \in ToSet(sections) :
                                  symtab[j].shndx = symtab[cursor].shndx} |-> cursor]
      <4>2. /\ DOMAIN associated' = DOMAIN associated \cup DOMAIN new
            /\ \A i \in DOMAIN associated' :
                 associated'[i] = IF i \in DOMAIN associated
                                  THEN associated[i] ELSE new[i]
            /\ symtab' = symtab
        BY <1>3, <3>1 DEF CollectZeroOffset, file
      <4>3. \A i \in DOMAIN new : /\ i \in DOMAIN symtab /\ new[i] = cursor
                                  /\ symtab[i].type = "SECTION"
                                  /\ symtab[cursor].shndx = symtab[i].shndx
        BY DEF SectionsOK, ToSet
      <4>4. symtab[cursor].value = 0
        BY <3>1 DEF IsZeroOffset
      <4> HIDE DEF new
      <4> QED
        BY <4>1, <4>2, <4>3, <4>4 DEF AssociatedOK
    <3>2. CASE ~IsZeroOffset(cursor)
      BY <1>3, <3>2 DEF CollectZeroOffset, AssociatedOK, file
    <3> QED
      BY <3>1, <3>2
  <2> QED
    BY <2>1, <2>2
<1>4. CASE NextPass
  BY <1>4, <1>a, <1>b DEF NextPass, file, CursorOK
<1>5. CASE RewriteReloc
  <2> DEFINE new(r) == IF IsMetaReference(r) THEN SectionRelative(r)
                       ELSE IF IsSectionReference(r) THEN Named(r) ELSE r
  <2>1. cursor \in DOMAIN relocs /\ UNCHANGED <<symtab, relocs0, lists>>
    BY <1>5 DEF RewriteReloc, CursorOK, FileOK, file
  <2>2. relocs' = [relocs EXCEPT ![cursor] = new(relocs[cursor])]
    BY <1>5 DEF RewriteReloc
  <2>3. /\ relocs[cursor] \in Reloc
        /\ relocs[cursor].sym \in DOMAIN symtab
    BY <2>1 DEF FileOK
  <2>4. /\ new(relocs[cursor]) \in Reloc
        /\ new(relocs[cursor]).sym \in DOMAIN symtab
        /\ new(relocs[cursor]).site = relocs[cursor].site
        /\ Place(new(relocs[cursor])) = Place(relocs[cursor])
    BY <2>3, RewriteKeepsPlace
  <2> HIDE DEF new
  <2>5. FileOK'
    BY <2>1, <2>2, <2>4 DEF FileOK
  <2>6. TargetsPreserved'
    BY <2>1, <2>2, <2>4 DEF TargetsPreserved, FileOK, Place
  <2>7. SectionsOK' /\ AssociatedOK'
    BY <1>b, <2>1
  <2> QED
    BY <1>5, <2>5, <2>6, <2>7 DEF RewriteReloc, CursorOK
<1>6. CASE Close
  BY <1>6, <1>a DEF Close, file, CursorOK, SectionsOK, AssociatedOK, ToSet
<1>7. CASE UNCHANGED vars
  BY <1>7, <1>a, <1>b DEF vars, lists, CursorOK
<1> QED
  BY <1>1, <1>2, <1>3, <1>4, <1>5, <1>6, <1>7 DEF Next

\* For every object, every list of names and every state on the way, each
\* relocation refers to the place it referred to to begin with.
THEOREM Targets_Preserved == Spec => []TargetsPreserved
<1>1. IInv => TargetsPreserved
  BY DEF IInv
<1> QED
  BY <1>1, IInvInit, IInvStep, PTL DEF Spec

----------------------------------------------------------------------------
\* What the runs have achieved so far.

\* The place of the current run in the list of names.
Position == Len(asked0) - Len(asked) + 1

AskedOK ==
  /\ asked0 \in Seq(STRING) /\ asked \in Seq(STRING) /\ Len(asked) <= Len(asked0)
  /\ \A j \in 1 .. Len(asked) : asked[j] = asked0[Len(asked0) - Len(asked) + j]
  /\ pc \in {"sections", "zeros", "relocs"} => asked # <<>>
  /\ pc = "done" => asked = <<>>

\* The first list misses no section symbol that has been passed.
SectionsFound ==
  \A i \in DOMAIN symtab :
    /\ symtab[i].type = "SECTION"
    /\ pc \in {"zeros", "relocs"} \/ (pc = "sections" /\ i < cursor)
    => i \in ToSet(sections)

\* Symbol i may stand in for its section's symbol in a run for n.
StandsIn(i, n) ==
  LET s == symtab[i]
  IN  /\ s.name # "" /\ s.type # "SECTION" /\ n \in {NoName, s.name}
      /\ s.shndx # UNDEF /\ s.shndx <= LORESERVE /\ s.value = 0

\* The associations are with such symbols, and miss no section that has one.
AssociationsFound ==
  /\ \A j \in DOMAIN associated : StandsIn(associated[j], Head(asked))
  /\ \A i, j \in DOMAIN symtab :
       /\ pc = "relocs" \/ (pc = "zeros" /\ i < cursor)
       /\ StandsIn(i, Head(asked))
       /\ symtab[j].type = "SECTION" /\ symtab[j].shndx = symtab[i].shndx
       => j \in DOMAIN associated

\* Relocation k has been passed in this run; in a run for n; in any run.
PassedNow(k) == pc = "relocs" /\ k < cursor
PassedFor(n, k) ==
  \/ \E j \in DOMAIN asked0 : j < Position /\ asked0[j] = n
  \/ PassedNow(k) /\ Head(asked) = n
Passed(k) == Position > 1 \/ PassedNow(k)

\* A relocation of code that a run for n has passed reaches no section with a
\* symbol that may stand in through its section symbol.
CodeNamed ==
  \A k \in DOMAIN relocs, n \in STRING :
    LET s == symtab[relocs[k].sym]
    IN  /\ PassedFor(n, k) /\ relocs[k].site \notin Debugging
        /\ s.type = "SECTION" /\ s.shndx # relocs[k].site
        => \A i \in DOMAIN symtab : StandsIn(i, n) => symtab[i].shndx # s.shndx

\* A relocation of debugging information that has been passed names no symbol at
\* the start of a section that has a section symbol.
DebuggingRelative ==
  \A k \in DOMAIN relocs :
    Passed(k) /\ IsMetaReference(relocs[k]) =>
      \A i \in DOMAIN symtab :
        symtab[i].type = "SECTION" => symtab[i].shndx # symtab[relocs[k].sym].shndx

RunsInv ==
  /\ IInv /\ AskedOK /\ SectionsFound /\ AssociationsFound
  /\ CodeNamed /\ DebuggingRelative /\ OnlyAskedInCode

\* Only relocations are written, and only the current one; each run takes one
\* name off the list, at its end.
LEMMA StepIs ==
  ASSUME [Next]_vars
  PROVE  /\ UNCHANGED <<symtab, relocs0, asked0>>
         /\ RewriteReloc \/ UNCHANGED relocs
         /\ Close \/ UNCHANGED asked
  BY DEF Next, vars, Open, OpenFails, CollectSection, CollectZeroOffset, NextPass,
         RewriteReloc, Close, Finish, file

\* The name asked for in this run is in the list, at the run's place.
LEMMA HeadIs ==
  ASSUME AskedOK, asked # <<>>
  PROVE  /\ Position \in DOMAIN asked0 /\ Head(asked) = asked0[Position]
         /\ Head(asked) \in ToSet(asked0) /\ Head(asked) \in STRING
         /\ Position \in Nat /\ DOMAIN asked0 = 1 .. Len(asked0)
<1>1. /\ Len(asked) \in Nat /\ Len(asked0) \in Nat /\ DOMAIN asked0 = 1 .. Len(asked0)
      /\ Len(asked) >= 1 /\ Head(asked) = asked[1]
  BY DEF AskedOK
<1>2. Position \in 1 .. Len(asked0)
  BY <1>1 DEF AskedOK, Position
<1>3. asked[1] = asked0[Position]
  BY <1>1 DEF AskedOK, Position
<1>4. asked0[Position] \in STRING
  BY <1>2 DEF AskedOK
<1> QED
  BY <1>1, <1>2, <1>3, <1>4 DEF ToSet

\* Close takes the first name off what is asked for; what is left is a suffix.
LEMMA AskedStep == AskedOK /\ [Next]_vars => AskedOK'
<1> SUFFICES ASSUME AskedOK, [Next]_vars PROVE AskedOK'
  OBVIOUS
<1>1. CASE Close
  <2>1. asked # <<>> /\ asked' = Tail(asked) /\ asked0' = asked0 /\ pc' = "start"
    BY <1>1 DEF Close, AskedOK, file
  <2>2. /\ Len(asked) \in Nat /\ Len(asked) >= 1 /\ Len(asked') = Len(asked) - 1
        /\ asked' \in Seq(STRING) /\ Len(asked0) \in Nat
        /\ \A j \in 1 .. Len(asked') : asked'[j] = asked[j + 1]
    BY <2>1 DEF AskedOK
  <2>3. ASSUME NEW j \in 1 .. Len(asked')
        PROVE  asked'[j] = asked0[Len(asked0) - Len(asked') + j]
    <3>1. j + 1 \in 1 .. Len(asked)
          /\ Len(asked0) - Len(asked) + (j + 1) = Len(asked0) - Len(asked') + j
      BY <2>2
    <3> QED
      BY <2>2, <3>1 DEF AskedOK
  <2>4. Len(asked') <= Len(asked0)
    BY <2>2 DEF AskedOK
  <2> QED
    BY <2>1, <2>2, <2>3, <2>4 DEF AskedOK
<1>2. CASE ~Close
  <2>1. UNCHANGED <<asked, asked0>>
    BY <1>2, StepIs
  <2>2. /\ pc' \in {"sections", "zeros", "relocs"} => asked # <<>>
        /\ pc' = "done" => asked = <<>>
    BY <1>2 DEF AskedOK, Next, vars, Open, OpenFails, CollectSection, CollectZeroOffset,
                NextPass, RewriteReloc, Finish, InSymtab
  <2> QED
    BY <2>1, <2>2 DEF AskedOK
<1> QED
  BY <1>1, <1>2

\* A longer list holds what it held, and what was added.
LEMMA Appended ==
  ASSUME NEW S, NEW q \in Seq(S), NEW e \in S
  PROVE  e \in ToSet(Append(q, e)) /\ ToSet(q) \subseteq ToSet(Append(q, e))
<1>1. /\ Len(q) \in Nat /\ DOMAIN q = 1 .. Len(q)
      /\ DOMAIN Append(q, e) = 1 .. Len(q) + 1 /\ Append(q, e)[Len(q) + 1] = e
      /\ \A i \in 1 .. Len(q) : Append(q, e)[i] = q[i]
  OBVIOUS
<1>2. Len(q) + 1 \in 1 .. Len(q) + 1 /\ \A i \in 1 .. Len(q) : i \in 1 .. Len(q) + 1
  BY <1>1
<1> QED
  BY <1>1, <1>2 DEF ToSet

\* The first pass collects each section symbol it comes by.
LEMMA SectionsStep == IInv /\ SectionsFound /\ [Next]_vars => SectionsFound'
<1> SUFFICES ASSUME IInv, SectionsFound, [Next]_vars PROVE SectionsFound'
  OBVIOUS
<1>0. symtab' = symtab
  BY StepIs
<1> SUFFICES ASSUME NEW i \in DOMAIN symtab, symtab[i].type = "SECTION",
                    pc' \in {"zeros", "relocs"} \/ (pc' = "sections" /\ i < cursor')
             PROVE  i \in ToSet(sections')
  BY <1>0 DEF SectionsFound, ToSet
<1>1. symtab \in Seq(Symbol) /\ i \in 1 .. Len(symtab) /\ Len(symtab) \in Nat /\ cursor \in Nat
  BY DEF IInv, FileOK, CursorOK
<1>2. CASE CollectSection
  <2>1. /\ pc = "sections" /\ pc' = "sections" /\ cursor' = cursor + 1
        /\ symtab[cursor].type = "SECTION" => sections' = Append(sections, cursor)
        /\ symtab[cursor].type # "SECTION" => sections' = sections
    BY <1>2 DEF CollectSection, InSymtab
  <2>2. i < cursor \/ i = cursor
    BY <1>1, <2>1
  <2>3. ASSUME NEW c \in DOMAIN symtab
        PROVE  /\ c \in ToSet(Append(sections, c))
               /\ ToSet(sections) \subseteq ToSet(Append(sections, c))
    BY Appended DEF IInv, SectionsOK
  <2>4. cursor \in DOMAIN symtab
    BY <1>1, <1>2 DEF CollectSection, InSymtab, IInv, CursorOK
  <2> QED
    BY <2>1, <2>2, <2>3, <2>4 DEF SectionsFound
<1>3. CASE ~CollectSection
  <2>1. sections' = sections \/ Close
    BY <1>3 DEF Next, vars, Open, OpenFails, CollectZeroOffset, NextPass, RewriteReloc,
                Finish, lists
  <2>2. ~Close
    BY DEF Close
  <2>3. pc \in {"zeros", "relocs"} \/ (pc = "sections" /\ i < cursor)
    BY <1>1, <1>3 DEF Next, vars, Open, OpenFails, CollectZeroOffset, NextPass,
                      RewriteReloc, Close, Finish, InSymtab
  <2> QED
    BY <2>1, <2>2, <2>3 DEF SectionsFound
<1> QED
  BY <1>2, <1>3

\* The second pass gives every section its symbol, if it has one.
LEMMA AssociationsStep ==
  IInv /\ SectionsFound /\ AssociationsFound /\ [Next]_vars => AssociationsFound'
<1> SUFFICES ASSUME IInv, SectionsFound, AssociationsFound, [Next]_vars
             PROVE  AssociationsFound'
  OBVIOUS
<1>0. symtab' = symtab /\ \A i, n : StandsIn(i, n)' = StandsIn(i, n)
  BY StepIs DEF StandsIn
<1>1. symtab \in Seq(Symbol) /\ DOMAIN symtab = 1 .. Len(symtab) /\ Len(symtab) \in Nat
      /\ cursor \in Nat
  BY DEF IInv, FileOK, CursorOK
<1>2. CASE CollectZeroOffset
  <2>1. /\ pc = "zeros" /\ pc' = "zeros" /\ cursor' = cursor + 1 /\ asked' = asked
        /\ cursor \in DOMAIN symtab
    BY <1>1, <1>2 DEF CollectZeroOffset, InSymtab, IInv, CursorOK
  <2>2. IsZeroOffset(cursor) <=> StandsIn(cursor, Head(asked))
    BY DEF IsZeroOffset, StandsIn
  <2>3. CASE IsZeroOffset(cursor)
    <3> DEFINE new == {i \in ToSet(sections) : symtab[i].shndx = symtab[cursor].shndx}
    <3>1. /\ DOMAIN associated' = DOMAIN associated \cup new
          /\ \A i \in DOMAIN associated' :
               associated'[i] = IF i \in DOMAIN associated THEN associated[i] ELSE cursor
      BY <1>2, <2>3 DEF CollectZeroOffset
    <3>2. \A j \in DOMAIN symtab :
            symtab[j].type = "SECTION" /\ symtab[j].shndx = symtab[cursor].shndx => j \in new
      BY <2>1 DEF SectionsFound
    <3> HIDE DEF new
    <3>3. \A j \in DOMAIN associated' : StandsIn(associated'[j], Head(asked))
      BY <2>2, <2>3, <3>1 DEF AssociationsFound
    <3>4. ASSUME NEW i \in DOMAIN symtab, NEW j \in DOMAIN symtab, i < cursor + 1,
                 StandsIn(i, Head(asked)),
                 symtab[j].type = "SECTION", symtab[j].shndx = symtab[i].shndx
          PROVE  j \in DOMAIN associated'
      <4>1. i < cursor \/ i = cursor
        BY <1>1, <3>4
      <4> QED
        BY <2>1, <3>1, <3>2, <3>4, <4>1 DEF AssociationsFound
    <3> QED
      BY <1>0, <2>1, <3>3, <3>4 DEF AssociationsFound
  <2>4. CASE ~IsZeroOffset(cursor)
    <3>1. associated' = associated
      BY <1>2, <2>4 DEF CollectZeroOffset
    <3>2. \A i \in DOMAIN symtab : i < cursor + 1 => i < cursor \/ i = cursor
      BY <1>1
    <3> QED
      BY <1>0, <2>1, <2>2, <2>4, <3>1, <3>2 DEF AssociationsFound
  <2> QED
    BY <2>3, <2>4
<1>3. CASE Close
  <2>1. associated' = <<>> /\ pc' = "start"
    BY <1>3 DEF Close
  <2> QED
    BY <2>1 DEF AssociationsFound
<1>4. CASE ~CollectZeroOffset /\ ~Close
  <2>1. asked' = asked /\ associated' = associated
    BY <1>4, StepIs DEF Next, vars, Open, OpenFails, CollectSection, NextPass, RewriteReloc,
                        Finish, lists
  <2>2. ASSUME NEW i \in DOMAIN symtab,
               pc' = "relocs" \/ (pc' = "zeros" /\ i < cursor')
        PROVE  pc = "relocs" \/ (pc = "zeros" /\ i < cursor)
    BY <1>1, <1>4, <2>2 DEF Next, vars, Open, OpenFails, CollectSection, NextPass,
                            RewriteReloc, Finish, InSymtab
  <2> QED
    BY <1>0, <2>1, <2>2 DEF AssociationsFound
<1> QED
  BY <1>2, <1>3, <1>4

\* What is passed was passed before, but for the relocation that is rewritten.
LEMMA PassedNext ==
  ASSUME IInv, AskedOK, [Next]_vars, NEW k \in DOMAIN relocs
  PROVE  /\ Passed(k)' => Passed(k) \/ (RewriteReloc /\ k = cursor)
         /\ \A n : PassedFor(n, k)' =>
              PassedFor(n, k) \/ (RewriteReloc /\ k = cursor /\ n = Head(asked))
<1>1. asked0' = asked0 /\ k \in Nat /\ cursor \in Nat /\ k <= Len(relocs) /\ Len(relocs) \in Nat
  <2>1. relocs \in Seq(Reloc) /\ cursor \in Nat
    BY DEF IInv, FileOK, CursorOK
  <2> QED
    BY <2>1, StepIs
<1>2. CASE RewriteReloc
  <2>1. asked' = asked /\ pc = "relocs" /\ pc' = "relocs" /\ cursor' = cursor + 1
    BY <1>2 DEF RewriteReloc
  <2>2. Position' = Position
    BY <1>1, <2>1 DEF Position
  <2>3. PassedNow(k)' => PassedNow(k) \/ k = cursor
    BY <1>1, <2>1 DEF PassedNow
  <2> QED
    BY <1>1, <1>2, <2>1, <2>2, <2>3 DEF PassedFor, Passed
<1>3. CASE Close
  <2>1. asked # <<>> /\ asked' = Tail(asked) /\ PassedNow(k) /\ pc' = "start"
    BY <1>1, <1>3 DEF Close, AskedOK, PassedNow
  <2>2. Position \in Nat /\ Head(asked) = asked0[Position] /\ DOMAIN asked0 = 1 .. Len(asked0)
    BY <2>1, HeadIs
  <2>3. Position' = Position + 1
    <3>1. Len(asked') = Len(asked) - 1 /\ Len(asked) \in Nat /\ Len(asked0) \in Nat
      BY <2>1 DEF AskedOK
    <3> QED
      BY <1>1, <3>1 DEF Position
  <2>4. ~PassedNow(k)'
    BY <2>1 DEF PassedNow
  <2>5. Passed(k)
    BY <2>1 DEF Passed
  <2>6. ASSUME NEW n, PassedFor(n, k)' PROVE PassedFor(n, k)
    <3>1. PICK j \in DOMAIN asked0 : j < Position + 1 /\ asked0[j] = n
      BY <1>1, <2>3, <2>4, <2>6 DEF PassedFor
    <3>2. j < Position \/ j = Position
      BY <2>2, <3>1
    <3> QED
      BY <2>1, <2>2, <3>1, <3>2 DEF PassedFor
  <2> QED
    BY <2>5, <2>6
<1>4. CASE ~RewriteReloc /\ ~Close
  <2>1. asked' = asked
    BY <1>4, StepIs
  <2>2. Position' = Position
    BY <1>1, <2>1 DEF Position
  <2>3. PassedNow(k)' => PassedNow(k)
    <3>1. k >= 1
      BY DEF IInv, FileOK
    <3> QED
      BY <1>1, <1>4, <3>1 DEF PassedNow, Next, vars, Open, OpenFails, CollectSection,
                              CollectZeroOffset, NextPass, Finish, InSymtab
  <2> QED
    BY <1>1, <2>1, <2>2, <2>3 DEF PassedFor, Passed
<1> QED
  BY <1>2, <1>3, <1>4

\* How the current relocation is rewritten.
Rewritten(r) == IF IsMetaReference(r) THEN SectionRelative(r)
                ELSE IF IsSectionReference(r) THEN Named(r) ELSE r

\* One relocation is rewritten; its site and the section it reaches stay.
LEMMA RewriteIs ==
  ASSUME IInv, RewriteReloc
  PROVE  /\ cursor \in DOMAIN relocs /\ DOMAIN relocs' = DOMAIN relocs
         /\ relocs[cursor] \in Reloc /\ relocs[cursor].sym \in DOMAIN symtab
         /\ relocs'[cursor] = Rewritten(relocs[cursor])
         /\ relocs'[cursor].site = relocs[cursor].site
         /\ relocs'[cursor].sym \in DOMAIN symtab
         /\ symtab[relocs'[cursor].sym].shndx = symtab[relocs[cursor].sym].shndx
         /\ \A k \in DOMAIN relocs : k # cursor => relocs'[k] = relocs[k]
<1>1. cursor \in DOMAIN relocs /\ relocs' = [relocs EXCEPT ![cursor] = Rewritten(relocs[cursor])]
  BY DEF RewriteReloc, Rewritten, IInv, FileOK, CursorOK
<1>2. relocs[cursor] \in Reloc /\ relocs[cursor].sym \in DOMAIN symtab
  BY <1>1 DEF IInv, FileOK
<1>3. /\ Rewritten(relocs[cursor]).site = relocs[cursor].site
      /\ Rewritten(relocs[cursor]).sym \in DOMAIN symtab
      /\ Place(Rewritten(relocs[cursor])) = Place(relocs[cursor])
  BY <1>2, RewriteKeepsPlace DEF IInv, Rewritten
<1> QED
  BY <1>1, <1>2, <1>3 DEF Place

\* In code, a relocation that is rewritten goes from a section symbol to one that
\* may stand in for it; and it is, if there is such a symbol.
LEMMA CodeRewritten ==
  ASSUME IInv, AssociationsFound, RewriteReloc, relocs[cursor].site \notin Debugging
  PROVE  LET r == relocs[cursor]  q == relocs'[cursor]
         IN  /\ q # r => /\ symtab[r.sym].type = "SECTION" /\ symtab[r.sym].shndx # r.site
                         /\ StandsIn(q.sym, Head(asked))
             /\ symtab[q.sym].type = "SECTION" /\ symtab[q.sym].shndx # r.site =>
                  /\ q = r
                  /\ \A i \in DOMAIN symtab :
                       StandsIn(i, Head(asked)) => symtab[i].shndx # symtab[r.sym].shndx
<1> SUFFICES ASSUME NEW r, r = relocs[cursor], NEW q, q = relocs'[cursor]
             PROVE  /\ q # r => /\ symtab[r.sym].type = "SECTION"
                                /\ symtab[r.sym].shndx # r.site
                                /\ StandsIn(q.sym, Head(asked))
                    /\ symtab[q.sym].type = "SECTION" /\ symtab[q.sym].shndx # r.site =>
                         /\ q = r
                         /\ \A i \in DOMAIN symtab : StandsIn(i, Head(asked)) =>
                              symtab[i].shndx # symtab[r.sym].shndx
  BY Zenon
<1>1. r \in Reloc /\ r.sym \in DOMAIN symtab /\ r.site \notin Debugging
  BY RewriteIs
<1>2. q = IF IsSectionReference(r) THEN Named(r) ELSE r
  BY <1>1, RewriteIs DEF Rewritten, IsMetaReference
<1>3. CASE IsSectionReference(r) /\ r.sym \in DOMAIN associated
  <2>1. q = [r EXCEPT !.sym = associated[r.sym]]
    BY <1>2, <1>3 DEF Named
  <2>2. q.sym = associated[r.sym]
    BY <1>1, <2>1 DEF Reloc
  <2>3. StandsIn(q.sym, Head(asked))
    BY <1>3, <2>2 DEF AssociationsFound
  <2>4. symtab[q.sym].type # "SECTION"
    BY <2>3 DEF StandsIn
  <2> QED
    BY <1>3, <2>3, <2>4 DEF IsSectionReference
<1>4. CASE ~(IsSectionReference(r) /\ r.sym \in DOMAIN associated)
  <2>1. q = r
    BY <1>2, <1>4 DEF Named
  <2>2. ASSUME symtab[r.sym].type = "SECTION", symtab[r.sym].shndx # r.site,
               NEW i \in DOMAIN symtab, StandsIn(i, Head(asked))
        PROVE  symtab[i].shndx # symtab[r.sym].shndx
    <3>1. r.sym \notin DOMAIN associated
      BY <1>1, <1>4, <2>2 DEF IsSectionReference
    <3>2. pc = "relocs"
      BY DEF RewriteReloc
    <3> QED
      BY <1>1, <2>2, <3>1, <3>2 DEF AssociationsFound
  <2> QED
    BY <2>1, <2>2
<1> QED
  BY <1>3, <1>4

\* Debugging information is left with an ordinary symbol at the start of a
\* section only if the section has no symbol.
LEMMA DebuggingRewritten ==
  ASSUME IInv, SectionsFound, RewriteReloc, IsMetaReference(relocs'[cursor])
  PROVE  \A i \in DOMAIN symtab : symtab[i].type = "SECTION" =>
           symtab[i].shndx # symtab[relocs'[cursor].sym].shndx
<1> SUFFICES ASSUME NEW r, r = relocs[cursor], NEW q, q = relocs'[cursor]
             PROVE  \A i \in DOMAIN symtab : symtab[i].type = "SECTION" =>
                      symtab[i].shndx # symtab[q.sym].shndx
  OBVIOUS
<1>1. r \in Reloc /\ r.site \in Debugging /\ IsMetaReference(q)
  BY RewriteIs DEF IsMetaReference
<1>2. q = IF IsMetaReference(r) THEN SectionRelative(r) ELSE r
  BY <1>1, RewriteIs DEF Rewritten, IsSectionReference
<1>3. q = SectionRelative(r)
  BY <1>1, <1>2
<1> DEFINE found == {i \in ToSet(sections) : symtab[i].shndx = symtab[r.sym].shndx}
<1>4. CASE found = {}
  <2>1. q = r
    BY <1>3, <1>4 DEF SectionRelative
  <2>2. pc = "relocs"
    BY DEF RewriteReloc
  <2> QED
    BY <1>4, <2>1, <2>2 DEF SectionsFound
<1>5. CASE found # {}
  <2>1. q = [r EXCEPT !.sym = Min(found)]
    BY <1>3, <1>5 DEF SectionRelative
  <2>2. Min(found) \in found
    <3>1. found \subseteq Nat
      BY DEF IInv, FileOK, SectionsOK, ToSet
    <3> QED
      BY <1>5, <3>1, MinIsMember
  <2>3. symtab[Min(found)].type = "SECTION"
    BY <2>2 DEF IInv, SectionsOK
  <2> HIDE DEF found
  <2>4. q.sym = Min(found)
    BY <1>1, <2>1 DEF Reloc
  <2> QED
    BY <1>1, <2>3, <2>4 DEF IsMetaReference
<1> QED
  BY <1>4, <1>5

\* What a run for a name has passed stays named in later runs.
LEMMA CodeStep ==
  IInv /\ AskedOK /\ AssociationsFound /\ CodeNamed /\ [Next]_vars => CodeNamed'
<1> SUFFICES ASSUME IInv, AskedOK, AssociationsFound, CodeNamed, [Next]_vars
             PROVE  CodeNamed'
  OBVIOUS
<1>0. symtab' = symtab /\ DOMAIN relocs' = DOMAIN relocs
      /\ \A i, n : StandsIn(i, n)' = StandsIn(i, n)
  BY StepIs, RewriteIs DEF StandsIn
<1> SUFFICES ASSUME NEW k \in DOMAIN relocs, NEW n \in STRING, PassedFor(n, k)',
                    NEW q, q = relocs'[k], q.site \notin Debugging,
                    symtab[q.sym].type = "SECTION", symtab[q.sym].shndx # q.site,
                    NEW i \in DOMAIN symtab, StandsIn(i, n)
             PROVE  symtab[i].shndx # symtab[q.sym].shndx
  BY <1>0 DEF CodeNamed
<1>1. CASE RewriteReloc /\ k = cursor
  <2>1. relocs[k].site \notin Debugging /\ relocs[k].site = q.site
    BY <1>1, RewriteIs
  <2>2. q = relocs[k] /\ \A j \in DOMAIN symtab :
          StandsIn(j, Head(asked)) => symtab[j].shndx # symtab[q.sym].shndx
    BY <1>1, <2>1, CodeRewritten
  <2>3. PassedFor(n, k) \/ n = Head(asked)
    BY PassedNext
  <2> QED
    BY <2>2, <2>3 DEF CodeNamed
<1>2. CASE ~(RewriteReloc /\ k = cursor)
  <2>1. q = relocs[k]
    BY <1>2, StepIs, RewriteIs
  <2>2. PassedFor(n, k)
    BY <1>2, PassedNext
  <2> QED
    BY <2>1, <2>2 DEF CodeNamed
<1> QED
  BY <1>1, <1>2

\* What a run has passed in debugging sections stays by section symbols.
LEMMA DebuggingStep ==
  IInv /\ AskedOK /\ SectionsFound /\ DebuggingRelative /\ [Next]_vars => DebuggingRelative'
<1> SUFFICES ASSUME IInv, AskedOK, SectionsFound, DebuggingRelative, [Next]_vars
             PROVE  DebuggingRelative'
  OBVIOUS
<1>0. symtab' = symtab /\ DOMAIN relocs' = DOMAIN relocs
  BY StepIs, RewriteIs
<1> SUFFICES ASSUME NEW k \in DOMAIN relocs, Passed(k)', IsMetaReference(relocs'[k])
             PROVE  \A i \in DOMAIN symtab : symtab[i].type = "SECTION" =>
                      symtab[i].shndx # symtab[relocs'[k].sym].shndx
  BY <1>0 DEF DebuggingRelative, IsMetaReference
<1>1. CASE RewriteReloc /\ k = cursor
  BY <1>1, DebuggingRewritten
<1>2. CASE ~(RewriteReloc /\ k = cursor)
  <2>1. relocs'[k] = relocs[k]
    BY <1>2, StepIs, RewriteIs
  <2>2. Passed(k)
    BY <1>2, PassedNext
  <2> QED
    BY <2>1, <2>2 DEF DebuggingRelative
<1> QED
  BY <1>1, <1>2

\* A run redirects code to what it was asked for.
LEMMA OnlyAskedStep ==
  IInv /\ AskedOK /\ AssociationsFound /\ OnlyAskedInCode /\ [Next]_vars => OnlyAskedInCode'
<1> SUFFICES ASSUME IInv, AskedOK, AssociationsFound, OnlyAskedInCode, [Next]_vars
             PROVE  OnlyAskedInCode'
  OBVIOUS
<1>0. UNCHANGED <<symtab, relocs0, asked0>> /\ DOMAIN relocs' = DOMAIN relocs
  BY StepIs, RewriteIs
<1> SUFFICES ASSUME NEW k \in DOMAIN relocs, NEW q, q = relocs'[k],
                    q # relocs0[k], q.site \notin Debugging
             PROVE  /\ symtab[q.sym].name \in ToSet(asked0) \/ NoName \in ToSet(asked0)
                    /\ symtab[q.sym].shndx # q.site
  BY <1>0 DEF OnlyAskedInCode, Changed
<1>1. CASE q = relocs[k]
  BY <1>1 DEF OnlyAskedInCode, Changed
<1>2. CASE q # relocs[k]
  <2>1. RewriteReloc /\ k = cursor
    BY <1>2, StepIs, RewriteIs
  <2>2. /\ relocs[cursor].site = q.site
        /\ symtab[q.sym].shndx = symtab[relocs[cursor].sym].shndx
    BY <2>1, RewriteIs
  <2>3. symtab[relocs[cursor].sym].shndx # q.site /\ StandsIn(q.sym, Head(asked))
    BY <1>2, <2>1, <2>2, CodeRewritten
  <2>4. Head(asked) \in ToSet(asked0)
    BY <2>1, HeadIs DEF AskedOK, RewriteReloc
  <2> QED
    BY <2>2, <2>3, <2>4 DEF StandsIn
<1> QED
  BY <1>1, <1>2

\* To begin with no run has passed anything.
LEMMA RunsInvInit == Init => RunsInv
<1> SUFFICES ASSUME Init PROVE RunsInv
  OBVIOUS
<1>1. asked0 \in Seq(STRING) /\ asked = asked0 /\ pc = "start" /\ associated = <<>>
      /\ relocs = relocs0 /\ IInv
  BY InvocationsAssumption, IInvInit DEF Init, EmptyLists
<1>2. AskedOK
  <2>1. Len(asked0) \in Nat /\ \A j \in 1 .. Len(asked0) : Len(asked0) - Len(asked0) + j = j
    BY <1>1
  <2> QED
    BY <1>1, <2>1 DEF AskedOK
<1>3. SectionsFound /\ AssociationsFound
  BY <1>1 DEF SectionsFound, AssociationsFound
<1>4. \A k, n : ~PassedFor(n, k) /\ ~Passed(k)
  <2>1. Position = 1 /\ DOMAIN asked0 = 1 .. Len(asked0) /\ Len(asked0) \in Nat
    BY <1>1 DEF Position
  <2> QED
    BY <1>1, <2>1 DEF PassedFor, Passed, PassedNow
<1>5. CodeNamed /\ DebuggingRelative
  BY <1>4 DEF CodeNamed, DebuggingRelative
<1>6. OnlyAskedInCode
  BY <1>1 DEF OnlyAskedInCode, Changed
<1> QED
  BY <1>1, <1>2, <1>3, <1>5, <1>6 DEF RunsInv

\* The invariant across runs.
LEMMA AlwaysRunsInv == Spec => []RunsInv
<1>1. RunsInv /\ [Next]_vars => RunsInv'
  BY IInvStep, AskedStep, SectionsStep, AssociationsStep, CodeStep, DebuggingStep,
     OnlyAskedStep DEF RunsInv
<1> QED
  BY <1>1, RunsInvInit, PTL DEF Spec

\* Code is redirected to a symbol only if that symbol was asked for, and never
\* within a section (normrelocs.c:305-310), for every object and list of names.
THEOREM Only_AskedInCode == Spec => []OnlyAskedInCode
<1>1. RunsInv => OnlyAskedInCode
  BY DEF RunsInv
<1> QED
  BY <1>1, AlwaysRunsInv, PTL

\* No step takes a relocation of code away from an ordinary symbol: a run for a
\* further name leaves what an earlier run has named.
THEOREM Named_Once == Spec => NamedOnce
<1>1. RunsInv /\ [Next]_vars =>
        [\A k \in DOMAIN relocs :
           relocs'[k] # relocs[k] /\ relocs[k].site \notin Debugging =>
             symtab[relocs[k].sym].type = "SECTION" /\ symtab[relocs'[k].sym].type # "SECTION"]_vars
  <2> SUFFICES ASSUME RunsInv, [Next]_vars, NEW k \in DOMAIN relocs,
                      relocs'[k] # relocs[k], relocs[k].site \notin Debugging
               PROVE  /\ symtab[relocs[k].sym].type = "SECTION"
                      /\ symtab[relocs'[k].sym].type # "SECTION"
    OBVIOUS
  <2>1. RewriteReloc /\ k = cursor
    BY StepIs, RewriteIs DEF RunsInv
  <2> QED
    BY <2>1, CodeRewritten DEF RunsInv, StandsIn
<1> QED
  BY <1>1, AlwaysRunsInv, PTL DEF Spec, NamedOnce

\* As in every object file a compiler makes, a section symbol has a section.
SectionSymbolsHaveSections ==
  \A o \in Objects : \A i \in DOMAIN o.symtab :
    o.symtab[i].type = "SECTION" =>
      o.symtab[i].shndx # UNDEF /\ o.symtab[i].shndx <= LORESERVE

SymtabHasSections ==
  \A i \in DOMAIN symtab : symtab[i].type = "SECTION" =>
    symtab[i].shndx # UNDEF /\ symtab[i].shndx <= LORESERVE

\* In the end every run has passed every relocation.
LEMMA CrossReferencesFollow ==
  ASSUME RunsInv, SymtabHasSections
  PROVE  CrossReferencesNamed
<1> USE DEF RunsInv
<1> SUFFICES ASSUME pc = "done", NEW k \in DOMAIN relocs,
                    NEW s, s = symtab[relocs[k].sym]
             PROVE  /\ relocs[k].site \notin Debugging /\ s.type = "SECTION"
                         /\ s.shndx # relocs[k].site
                       => ~\E i \in DOMAIN symtab :
                             /\ symtab[i].name # "" /\ symtab[i].type # "SECTION"
                             /\ symtab[i].shndx = s.shndx /\ symtab[i].value = 0
                             /\ symtab[i].name \in ToSet(asked0) \/ NoName \in ToSet(asked0)
                    /\ relocs[k].site \in Debugging /\ asked0 # <<>>
                         /\ IsMetaReference(relocs[k])
                       => ~\E i \in DOMAIN symtab :
                             symtab[i].type = "SECTION" /\ symtab[i].shndx = s.shndx
  BY DEF CrossReferencesNamed
<1>1. Position = Len(asked0) + 1 /\ DOMAIN asked0 = 1 .. Len(asked0) /\ Len(asked0) \in Nat
  <2>1. Len(asked) = 0 /\ asked0 \in Seq(STRING)
    BY DEF AskedOK
  <2> QED
    BY <2>1 DEF Position
<1>2. ASSUME NEW i \in DOMAIN symtab, relocs[k].site \notin Debugging, s.type = "SECTION",
             s.shndx # relocs[k].site, symtab[i].name # "", symtab[i].type # "SECTION",
             symtab[i].shndx = s.shndx, symtab[i].value = 0,
             symtab[i].name \in ToSet(asked0) \/ NoName \in ToSet(asked0)
      PROVE  FALSE
  <2>1. PICK j \in DOMAIN asked0 : asked0[j] \in {NoName, symtab[i].name}
    BY <1>2 DEF ToSet
  <2>2. PassedFor(asked0[j], k) /\ asked0[j] \in STRING
    BY <1>1 DEF PassedFor, AskedOK
  <2>3. s.shndx # UNDEF /\ s.shndx <= LORESERVE
    BY <1>2 DEF SymtabHasSections, IInv, FileOK
  <2>4. StandsIn(i, asked0[j])
    BY <1>2, <2>1, <2>3 DEF StandsIn
  <2> QED
    BY <1>2, <2>2, <2>4 DEF CodeNamed
<1>3. ASSUME asked0 # <<>>, IsMetaReference(relocs[k])
      PROVE  ~\E i \in DOMAIN symtab : symtab[i].type = "SECTION" /\ symtab[i].shndx = s.shndx
  <2>1. Passed(k)
    <3>1. Len(asked0) # 0
      BY <1>3 DEF AskedOK
    <3> QED
      BY <1>1, <3>1 DEF Passed
  <2> QED
    BY <1>3, <2>1 DEF DebuggingRelative
<1> QED
  BY <1>2, <1>3

\* Once all names have been asked for, no section of code reaches another one
\* through its section symbol where a symbol asked for is at its start, though
\* each run goes over what the others have written; and no debugging section
\* names such a symbol (normrelocs.c:238-328).
THEOREM CrossReferences_Named ==
  ASSUME SectionSymbolsHaveSections
  PROVE  Spec => []CrossReferencesNamed
<1>1. Init => SymtabHasSections
  BY DEF Init, SymtabHasSections, SectionSymbolsHaveSections
<1>2. SymtabHasSections /\ [Next]_vars => SymtabHasSections'
  BY StepIs DEF SymtabHasSections
<1>3. RunsInv /\ SymtabHasSections => CrossReferencesNamed
  BY CrossReferencesFollow
<1> QED
  BY <1>1, <1>2, <1>3, AlwaysRunsInv, PTL DEF Spec
=============================================================================
