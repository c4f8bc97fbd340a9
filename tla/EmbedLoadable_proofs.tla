------------------------ MODULE EmbedLoadable_proofs ------------------------
(***************************************************************************)
(* Whatever is edited, fails and is made again, for all layouts, libraries *)
(* and page sizes: the embedded file is where it says, and nothing shifted *)
(* in part is taken for up to date.                                        *)
(***************************************************************************)
EXTENDS EmbedLoadable, Integers, WellFoundedInduction, SequenceTheorems, TLAPS

----------------------------------------------------------------------------
\* The remainders of a division, for a divisor that is not known: the solvers
\* have no theory of it beyond what division means.

\* Remainders do not differ by a multiple of the divisor.
LEMMA NoFactor ==
  ASSUME NEW m \in Nat \ {0}, NEW x \in Int,
         NEW r \in 0 .. m - 1, NEW s \in 0 .. m - 1, m * x = s - r
  PROVE  s = r
<1>1. CASE x >= 1
  <2>1. m * x >= m
    BY <1>1
  <2> QED
    BY <2>1
<1>2. CASE x =< -1
  <2>1. m * x =< -m
    BY <1>2
  <2> QED
    BY <2>1
<1>3. CASE x = 0
  BY <1>3
<1> QED
  BY <1>1, <1>2, <1>3

\* Divided by m, a leaves r.
Leaves(a, m, r) == r \in 0 .. m - 1 /\ \E q \in Int : a = m * q + r

\* A number leaves one remainder.
LEMMA RemainderUnique ==
  ASSUME NEW m \in Nat \ {0}, NEW a, NEW r, NEW s, Leaves(a, m, r), Leaves(a, m, s)
  PROVE  r = s
<1>1. PICK p \in Int : a = m * p + r
  BY DEF Leaves
<1>2. PICK q \in Int : a = m * q + s
  BY DEF Leaves
<1>3. r \in 0 .. m - 1 /\ s \in 0 .. m - 1
  BY DEF Leaves
<1>4. m * (p - q) = m * p - m * q /\ p - q \in Int
  OBVIOUS
<1>5. m * (p - q) = s - r
  BY <1>1, <1>2, <1>3, <1>4
<1> QED
  BY <1>3, <1>4, <1>5, NoFactor

\* The operator % gives the remainder.
LEMMA LeavesMod ==
  ASSUME NEW m \in Nat \ {0}, NEW a \in Int
  PROVE  Leaves(a, m, a % m)
<1>1. a = m * (a \div m) + (a % m) /\ a \div m \in Int /\ a % m \in 0 .. m - 1
  OBVIOUS
<1> QED
  BY <1>1 DEF Leaves

\* What is left is what the operator % gives.
LEMMA ModLeft ==
  ASSUME NEW m \in Nat \ {0}, NEW a \in Int, NEW r, Leaves(a, m, r)
  PROVE  a % m = r
<1>1. Leaves(a, m, a % m)
  BY LeavesMod
<1> DEFINE s == a % m
<1>2. Leaves(a, m, s)
  BY <1>1
<1> HIDE DEF s
<1>3. s = r
  BY <1>2, RemainderUnique
<1> QED
  BY <1>3 DEF s

\* Numbers that differ by a multiple of the divisor leave the same.
LEMMA MultiplesLeaveSame ==
  ASSUME NEW m \in Nat \ {0}, NEW a \in Int, NEW b \in Int, NEW r, Leaves(b, m, r),
         \E q \in Int : a = b + m * q
  PROVE  Leaves(a, m, r)
<1>0. PICK q \in Int : a = b + m * q
  OBVIOUS
<1>1. PICK p \in Int : b = m * p + r
  BY DEF Leaves
<1>2. m * (p + q) = m * p + m * q /\ p + q \in Int
  OBVIOUS
<1>3. r \in 0 .. m - 1
  BY DEF Leaves
<1>4. a = m * (p + q) + r
  BY <1>0, <1>1, <1>2, <1>3
<1> QED
  BY <1>2, <1>3, <1>4 DEF Leaves

\* Of m numbers in a row no two leave the same.
LEMMA NoTwoInARow ==
  ASSUME NEW m \in Nat \ {0}, NEW end \in Int, NEW r,
         NEW a \in end .. end + m - 1, NEW b \in end .. end + m - 1,
         Leaves(a, m, r), Leaves(b, m, r)
  PROVE  a = b
<1>1. PICK p \in Int : a = m * p + r
  BY DEF Leaves
<1>2. PICK s \in Int : b = m * s + r
  BY DEF Leaves
<1>3. m * (p - s) = m * p - m * s /\ p - s \in Int
  OBVIOUS
<1>4. r \in Int
  BY DEF Leaves
<1>5. m * (p - s) = (a - end) - (b - end)
  BY <1>1, <1>2, <1>3, <1>4
<1>6. a - end \in 0 .. m - 1 /\ b - end \in 0 .. m - 1
  OBVIOUS
<1>7. a - end = b - end
  BY <1>3, <1>5, <1>6, NoFactor
<1> QED
  BY <1>7

\* The least of some natural numbers is one of them.
LEMMA MinIsMember ==
  ASSUME NEW S, S \subseteq Nat, S # {}
  PROVE  Min(S) \in S
<1>1. PICK x \in S : \A y \in S : ~(<<y, x>> \in OpToRel(<, Nat))
  BY NatLessThanWellFounded, WFMin
<1>2. \A y \in S : x =< y
  <2> SUFFICES ASSUME NEW y \in S PROVE ~(y < x)
    OBVIOUS
  <2>1. y < x => <<y, x>> \in OpToRel(<, Nat)
    BY DEF OpToRel
  <2> QED
    BY <1>1, <2>1
<1>3. \E m \in S : \A y \in S : m =< y
  BY <1>2
<1> QED
  BY <1>3, Zenon DEF Min

----------------------------------------------------------------------------
\* The prediction is right: the search of predict-meta-offset.sh finds the very
\* offset at which the linker places what comes after the data segment.

\* The first offset from `end' on that leaves the remainder of a.
LEMMA SearchFindsPlace ==
  ASSUME NEW m \in Nat \ {0}, NEW end \in Nat, NEW a \in Nat
  PROVE  LET place == end + ((a + m - (end % m)) % m)
         IN  /\ place \in Nat
             /\ Min({o \in end .. end + m - 1 : o % m = a % m}) = place
<1> DEFINE r == end % m
           d == (a + m - r) % m
           place == end + d
           found == {o \in end .. end + m - 1 : o % m = a % m}
<1>1. Leaves(end, m, r)
  BY LeavesMod
<1> HIDE DEF r
<1>2. r \in Int
  BY <1>1 DEF Leaves
<1>3. Leaves(a + m - r, m, d)
  BY <1>2, LeavesMod
<1> HIDE DEF d
<1>4. place \in end .. end + m - 1 /\ place \in Nat
  BY <1>3 DEF Leaves
<1>5. \E q \in Int : place = a + m * q
  <2>1. PICK p \in Int : end = m * p + r
    BY <1>1 DEF Leaves
  <2>2. d \in Int /\ \E q \in Int : a + m - r = m * q + d
    BY <1>2, <1>3 DEF Leaves
  <2>2a. PICK q \in Int : a + m - r = m * q + d
    BY <2>2
  <2>3. m * (p + 1 - q) = m * p + m - m * q /\ p + 1 - q \in Int
    OBVIOUS
  <2>4. place = a + m * (p + 1 - q)
    BY <1>2, <2>1, <2>2, <2>2a, <2>3
  <2> QED
    BY <2>3, <2>4
<1> HIDE DEF place
<1> DEFINE t == a % m
<1>6. Leaves(a, m, t)
  BY LeavesMod
<1> HIDE DEF t
<1>7. Leaves(place, m, t)
  BY <1>4, <1>5, <1>6, MultiplesLeaveSame
<1>8. place \in found
  <2>1. place % m = t
    BY <1>4, <1>7, ModLeft
  <2> QED
    BY <1>4, <2>1 DEF t
<1>9. ASSUME NEW o \in found
      PROVE  o = place
  <2>1. o \in end .. end + m - 1 /\ o \in Int /\ o % m = t
    BY DEF t
  <2>2. Leaves(o, m, t)
    BY <2>1, LeavesMod
  <2> QED
    BY <1>4, <1>7, <2>1, <2>2, NoTwoInARow
<1>10. found \subseteq Nat
  OBVIOUS
<1> HIDE DEF found
<1>11. Min(found) = place
  BY <1>8, <1>9, <1>10, MinIsMember
<1> QED
  BY <1>4, <1>11 DEF place, found, d, r

\* The prediction of predict-meta-offset.sh agrees with the placement.
LEMMA PlacedInNat ==
  ASSUME NEW seg \in Segment
  PROVE  /\ Placed(seg) \in Nat /\ Placed(Relinked(seg)) \in Nat
         /\ Predicted(seg) = Placed(seg)
<1> USE PagesAssumption
<1>1. \A a \in Nat : RoundUp(a) \in Nat
  <2>1. \A a \in Nat : a \div CommonPageSize \in Nat
    OBVIOUS
  <2>2. \A n \in Nat : CommonPageSize * n \in Nat
    OBVIOUS
  <2>3. \A a \in Nat : CommonPageSize * (1 + a \div CommonPageSize) \in Nat
    BY <2>1, <2>2
  <2> QED
    BY <2>3 DEF RoundUp
<1>2. ASSUME NEW s \in Segment
      PROVE  Placed(s) \in Nat /\ Predicted(s) = Placed(s)
  <2> DEFINE end == s.offset + s.filesz
             address == RoundUp(s.vaddr + s.memsz)
  <2>1. end \in Nat /\ address \in Nat
    BY <1>1 DEF Segment
  <2>2. /\ Placed(s) = end + ((address + MaxPageSize - (end % MaxPageSize)) % MaxPageSize)
        /\ Predicted(s) = Min({o \in end .. end + MaxPageSize - 1 :
                                 o % MaxPageSize = address % MaxPageSize})
    BY DEF Placed, Predicted
  <2> HIDE DEF end, address
  <2> QED
    BY <2>1, <2>2, SearchFindsPlace
<1>3. Relinked(seg) \in Segment
  <2>1. CASE seg.tips
    <3>1. Relinked(seg) = [seg EXCEPT !.offset = seg.offset + CommonPageSize,
                                      !.vaddr = seg.vaddr + CommonPageSize]
      BY <2>1 DEF Relinked
    <3>2. seg.offset + CommonPageSize \in Nat /\ seg.vaddr + CommonPageSize \in Nat
      BY DEF Segment
    <3> QED
      BY <3>1, <3>2 DEF Segment
  <2>2. CASE ~seg.tips
    BY <2>2 DEF Relinked
  <2> QED
    BY <2>1, <2>2
<1> QED
  BY <1>2, <1>3

----------------------------------------------------------------------------
\* The inductive invariant.

FilesOK ==
  /\ main \in Layouts /\ lib \in Libraries
  /\ DOMAIN files = Targets
  /\ files.obj \in Layouts \cup {Absent} /\ files.so \in Libraries \cup {Absent}
  /\ files.shifted \in ShiftedLibrary \cup {Absent}
  /\ files.meta \in ShiftedLibrary \cup {Absent}
  /\ files.exe \in Program \cup {Absent}
  /\ older \subseteq Targets

ControlOK ==
  /\ at \in Targets \cup {"idle", "cp", "shift-elf"}
  /\ offset \in Nat /\ edits \in 0 .. MaxEdits
  /\ finished \in BOOLEAN /\ killed \in BOOLEAN /\ mispredicted \in BOOLEAN

CursorOK ==
  /\ at = "shift-elf" => cursor \in 1 .. Len(files.shifted.offsets) + 1
  /\ at # "shift-elf" => cursor = 1

Fresh(t) == files[t] # Absent /\ t \notin older

ShiftedBy(f, by) == [of |-> f, offsets |-> [k \in DOMAIN f |-> Shifted(f, k, by)]]

Shifts == {0} \cup {Predicted(l) : l \in Layouts}

\* make has come past a target only when it is up to date, and a target that it
\* has come past stays so until the next edit.
InOrder ==
  /\ at \in (Targets \ {"obj"}) \cup {"cp", "shift-elf"} \/ finished => Fresh("obj")
  /\ at \in {"shifted", "cp", "shift-elf", "meta", "exe"} \/ finished => Fresh("so")
  /\ at \in {"shift-elf", "meta", "exe"} \/ finished => Fresh("shifted")
  /\ at = "exe" \/ finished => Fresh("meta")
  /\ finished => Fresh("exe") /\ at = "idle"

\* An up-to-date target is made from what its prerequisites are, those that are
\* there: one that is made again makes this one older.
MadeFromPrerequisites ==
  /\ Fresh("obj") => files.obj = main
  /\ Fresh("so") => files.so = lib
  /\ /\ Fresh("shifted") /\ files.so # Absent /\ files.obj # Absent
     /\ at # "shift-elf" /\ ~killed /\ ~mispredicted
     => files.shifted = ShiftedBy(files.so, Predicted(files.obj))
  /\ Fresh("meta") /\ files.shifted # Absent => files.meta = files.shifted
  /\ Fresh("exe") /\ files.meta # Absent /\ files.obj # Absent
     => files.exe = [meta_offset |-> Placed(Relinked(files.obj)), embedded |-> files.meta]

\* While the rule for %-shifted.so runs.
MidShift ==
  /\ at \in {"cp", "shift-elf"} =>
       offset \in Shifts /\ (mispredicted \/ offset = Predicted(files.obj))
  /\ at = "shift-elf" =>
       files.shifted =
         [of |-> files.so,
          offsets |-> [k \in DOMAIN files.so |->
                         IF k < cursor THEN Shifted(files.so, k, offset) ELSE files.so[k]]]

\* What is there of %-shifted.so at other times is whole.
ShiftedWhole ==
  at # "shift-elf" /\ ~killed /\ files.shifted # Absent =>
    \E by \in Shifts : files.shifted = ShiftedBy(files.shifted.of, by)

IInv ==
  /\ FilesOK /\ ControlOK /\ CursorOK
  /\ InOrder /\ MadeFromPrerequisites /\ MidShift /\ ShiftedWhole

----------------------------------------------------------------------------
\* What is to be made again when a target changes.
LEMMA DependentsAre ==
  /\ Dependents("obj") = {"shifted", "exe"} /\ Dependents("so") = {"shifted"}
  /\ Dependents("shifted") = {"meta"} /\ Dependents("meta") = {"exe"}
  /\ Dependents("exe") = {}
  BY DEF Dependents, Targets, Prerequisites

\* An embedded file is shifted by a natural number.
LEMMA ShiftsInNat == Shifts \subseteq Nat
  BY PlacedInNat, LayoutsAssumption DEF Shifts

\* A library, shifted so far, is a file.
LEMMA ShiftedIsLibrary ==
  ASSUME NEW f \in Libraries, NEW by \in Nat, NEW n \in Nat
  PROVE  [of |-> f, offsets |-> [k \in DOMAIN f |->
            IF k < n THEN Shifted(f, k, by) ELSE f[k]]] \in ShiftedLibrary
<1> DEFINE g == [k \in DOMAIN f |-> IF k < n THEN Shifted(f, k, by) ELSE f[k]]
<1>1. f \in Seq(Nat)
  BY LibrariesAssumption
<1>2. DOMAIN f = 1 .. Len(f) /\ Len(f) \in Nat /\ \A k \in DOMAIN f : f[k] \in Nat
  BY <1>1
<1>3. \A k \in DOMAIN f : g[k] \in Nat
  BY <1>2 DEF Shifted
<1>4. g \in Seq(Nat)
  <2>1. DOMAIN g = 1 .. Len(f)
    BY <1>2
  <2>2. g \in [1 .. Len(f) -> Nat]
    BY <1>2, <1>3
  <2> QED
    BY <1>2, <2>2
<1> QED
  BY <1>4 DEF ShiftedLibrary

\* Before the first make there is no file.
LEMMA InitIInv == Init => IInv
<1> SUFFICES ASSUME Init PROVE IInv
  OBVIOUS
<1>1. \A t \in Targets : files[t] = Absent
  BY DEF Init
<1>2. FilesOK
  BY <1>1 DEF Init, FilesOK, Targets
<1>2a. ControlOK /\ CursorOK
  <2>1. 0 \in 0 .. MaxEdits
    BY EditsAssumption
  <2>2. /\ at = "idle" /\ offset = 0 /\ cursor = 1 /\ edits = 0
        /\ finished = FALSE /\ killed = FALSE /\ mispredicted = FALSE
    BY DEF Init
  <2>3. ControlOK
    BY <2>1, <2>2 DEF ControlOK
  <2> QED
    BY <2>2, <2>3 DEF CursorOK
<1>3. InOrder /\ MadeFromPrerequisites
  BY <1>1 DEF Init, InOrder, MadeFromPrerequisites, Fresh, Targets
<1>4. MidShift /\ ShiftedWhole
  BY <1>1 DEF Init, MidShift, ShiftedWhole, Targets
<1> QED
  BY <1>2, <1>2a, <1>3, <1>4 DEF IInv

\* Each line of a recipe, each failure and each edit keeps the invariant.
LEMMA NextIInv == IInv /\ [Next]_vars => IInv'
<1> SUFFICES ASSUME IInv, [Next]_vars PROVE IInv'
  OBVIOUS
<1> USE DEF IInv
<1>1. CASE Edit
  <2>1. /\ at = "idle" /\ edits < MaxEdits /\ edits' = edits + 1 /\ finished' = FALSE
        /\ main' \in Layouts /\ lib' \in Libraries /\ older' \subseteq Targets
        /\ UNCHANGED <<files, at, rule, faults>>
    BY <1>1 DEF Edit, FilesOK, Targets
  <2>1a. FilesOK'
    BY <2>1 DEF FilesOK
  <2>1b. ControlOK' /\ CursorOK'
    <3>1. edits + 1 \in 0 .. MaxEdits
      BY <2>1, EditsAssumption DEF ControlOK
    <3>2. ControlOK'
      BY <2>1, <3>1 DEF ControlOK, rule, faults
    <3> QED
      BY <2>1, <3>2 DEF CursorOK, rule
  <2>2. InOrder' /\ MadeFromPrerequisites'
    BY <1>1 DEF Edit, rule, faults, Targets, InOrder, MadeFromPrerequisites, Fresh
  <2>3. MidShift' /\ ShiftedWhole'
    BY <1>1 DEF Edit, rule, faults, MidShift, ShiftedWhole
  <2> QED
    BY <2>1a, <2>1b, <2>2, <2>3
<1>2. CASE Make
  <2>1. FilesOK' /\ ControlOK' /\ CursorOK'
    BY <1>2 DEF Make, FilesOK, ControlOK, CursorOK, rule, faults, sources, Targets
  <2>2. InOrder' /\ MadeFromPrerequisites'
    BY <1>2
    DEF Make, rule, faults, sources, Targets, InOrder, MadeFromPrerequisites, Fresh
  <2>3. MidShift' /\ ShiftedWhole'
    BY <1>2 DEF Make, rule, faults, sources, MidShift, ShiftedWhole
  <2> QED
    BY <2>1, <2>2, <2>3
<1>3. CASE UpToDate
  <2>0. /\ at \in Targets /\ Fresh(at)
        /\ at' = Following(at) /\ finished' = (at = "exe")
        /\ UNCHANGED <<sources, files, older, rule, faults>>
    BY <1>3 DEF UpToDate, OutOfDate, Fresh
  <2>1. FilesOK' /\ ControlOK' /\ CursorOK'
    BY <2>0
    DEF FilesOK, ControlOK, CursorOK, rule, faults, sources, Targets, Following
  <2>2. InOrder' /\ MadeFromPrerequisites'
    BY <2>0 DEF rule, faults, sources, Targets, Following, InOrder,
                MadeFromPrerequisites, Fresh
  <2>3. MidShift' /\ ShiftedWhole'
    BY <2>0 DEF rule, faults, sources, Targets, Following, MidShift, ShiftedWhole
  <2> QED
    BY <2>1, <2>2, <2>3
<1>4. CASE Build
  <2> DEFINE t == at
  <2>0. /\ t \in {"obj", "so", "meta", "exe"}
        /\ at' = Following(t) /\ finished' = (t = "exe")
        /\ files' = [files EXCEPT ![t] = Contents(t)]
        /\ older' = (older \ {t}) \cup Dependents(t)
        /\ UNCHANGED <<sources, rule, faults>>
    BY <1>4 DEF Build, Write, Targets
  <2>1. CASE t = "obj"
    <3>1. FilesOK' /\ ControlOK' /\ CursorOK'
      BY <2>0, <2>1, DependentsAre
      DEF FilesOK, ControlOK, CursorOK, rule, faults, sources, Targets, Following, Contents
    <3>2. InOrder' /\ MadeFromPrerequisites'
      BY <2>0, <2>1, DependentsAre, AbsentAssumption
      DEF FilesOK, rule, faults, sources, Targets, Following, Contents, InOrder,
          MadeFromPrerequisites, Fresh
    <3>3. MidShift' /\ ShiftedWhole'
      BY <2>0, <2>1 DEF FilesOK, rule, faults, sources, Targets, Following, Contents,
          MidShift, ShiftedWhole
    <3> QED
      BY <3>1, <3>2, <3>3
  <2>2. CASE t = "so"
    <3>1. FilesOK' /\ ControlOK' /\ CursorOK'
      BY <2>0, <2>2, DependentsAre
      DEF FilesOK, ControlOK, CursorOK, rule, faults, sources, Targets, Following, Contents
    <3>2. InOrder' /\ MadeFromPrerequisites'
      BY <2>0, <2>2, DependentsAre, AbsentAssumption
      DEF FilesOK, rule, faults, sources, Targets, Following, Contents, InOrder,
          MadeFromPrerequisites, Fresh
    <3>3. MidShift' /\ ShiftedWhole'
      BY <2>0, <2>2 DEF FilesOK, rule, faults, sources, Targets, Following, Contents,
          MidShift, ShiftedWhole
    <3> QED
      BY <3>1, <3>2, <3>3
  <2>3. CASE t = "meta"
    <3>1. FilesOK' /\ ControlOK' /\ CursorOK'
      BY <2>0, <2>3, DependentsAre
      DEF FilesOK, ControlOK, CursorOK, rule, faults, sources, Targets, Following, Contents
    <3>2. InOrder' /\ MadeFromPrerequisites'
      BY <2>0, <2>3, DependentsAre, AbsentAssumption
      DEF FilesOK, rule, faults, sources, Targets, Following, Contents, InOrder,
          MadeFromPrerequisites, Fresh
    <3>3. MidShift' /\ ShiftedWhole'
      BY <2>0, <2>3 DEF FilesOK, rule, faults, sources, Targets, Following, Contents,
          MidShift, ShiftedWhole
    <3> QED
      BY <3>1, <3>2, <3>3
  <2>4. CASE t = "exe"
    <3>0. Contents("exe") \in Program /\ files.meta \in ShiftedLibrary
      <4>1. files.obj \in Segment /\ files.meta \in ShiftedLibrary
        BY <2>0, <2>4, LayoutsAssumption DEF FilesOK, InOrder, Fresh, Targets
      <4>2. Placed(Relinked(files.obj)) \in Nat
        BY <4>1, PlacedInNat
      <4> QED
        BY <4>1, <4>2 DEF Contents, Program
    <3>1. FilesOK' /\ ControlOK' /\ CursorOK'
      BY <2>0, <2>4, <3>0, DependentsAre
      DEF FilesOK, ControlOK, CursorOK, rule, faults, sources, Targets, Following
    <3>2. InOrder' /\ MadeFromPrerequisites'
      BY <2>0, <2>4, <3>0, DependentsAre, AbsentAssumption
      DEF FilesOK, rule, faults, sources, Targets, Following, Contents, InOrder,
          MadeFromPrerequisites, Fresh
    <3>3. MidShift' /\ ShiftedWhole'
      BY <2>0, <2>4 DEF FilesOK, rule, faults, sources, Targets, Following, Contents,
          MidShift, ShiftedWhole
    <3> QED
      BY <3>1, <3>2, <3>3
  <2> QED
    BY <2>0, <2>1, <2>2, <2>3, <2>4
<1>5. CASE BuildFails
  <2>0. /\ at \in {"obj", "so", "meta", "exe"} /\ OutOfDate(at)
        /\ at' = "idle" /\ files' = [files EXCEPT ![at] = Absent]
        /\ UNCHANGED <<sources, rule, finished, faults, older>>
    BY <1>5 DEF BuildFails, Remove, Targets
  <2>1. FilesOK' /\ ControlOK' /\ CursorOK'
    BY <2>0 DEF FilesOK, ControlOK, CursorOK, rule, faults, sources, Targets
  <2>2. InOrder' /\ MadeFromPrerequisites'
    BY <2>0 DEF FilesOK, rule, faults, sources, Targets, InOrder, MadeFromPrerequisites, Fresh
  <2>3. MidShift' /\ ShiftedWhole'
    BY <2>0 DEF FilesOK, rule, faults, sources, Targets, MidShift, ShiftedWhole
  <2> QED
    BY <2>1, <2>2, <2>3
<1>6. CASE Predict
  <2>0. /\ at = "shifted" /\ at' = "cp" /\ offset' = Predicted(files.obj)
        /\ UNCHANGED <<sources, files, older, cursor, finished, faults>>
    BY <1>6 DEF Predict
  <2>1. files.obj \in Layouts /\ offset' \in Shifts
    BY <2>0 DEF InOrder, Fresh, FilesOK, Shifts, Targets
  <2>2. FilesOK' /\ ControlOK' /\ CursorOK'
    BY <2>0, <2>1, ShiftsInNat DEF FilesOK, ControlOK, CursorOK, faults, sources, Targets
  <2>3. InOrder' /\ MadeFromPrerequisites'
    BY <2>0 DEF FilesOK, faults, sources, Targets, InOrder, MadeFromPrerequisites, Fresh
  <2>4. MidShift' /\ ShiftedWhole'
    BY <2>0, <2>1 DEF FilesOK, faults, sources, Targets, MidShift, ShiftedWhole
  <2> QED
    BY <2>2, <2>3, <2>4
<1>7. CASE PredictFails
  <2>0. /\ at = "shifted" /\ at' = "cp" /\ offset' = 0 /\ mispredicted' = TRUE
        /\ UNCHANGED <<sources, files, older, cursor, finished, killed>>
    BY <1>7 DEF PredictFails
  <2>1. offset' \in Shifts
    BY <2>0 DEF Shifts
  <2>2. FilesOK' /\ ControlOK' /\ CursorOK'
    BY <2>0 DEF FilesOK, ControlOK, CursorOK, sources, Targets
  <2>3. InOrder' /\ MadeFromPrerequisites'
    BY <2>0 DEF FilesOK, sources, Targets, InOrder, MadeFromPrerequisites, Fresh
  <2>4. MidShift' /\ ShiftedWhole'
    BY <2>0, <2>1 DEF FilesOK, sources, Targets, MidShift, ShiftedWhole
  <2> QED
    BY <2>2, <2>3, <2>4
<1>8. CASE Cp
  <2>0. /\ at = "cp" /\ at' = "shift-elf" /\ cursor' = 1
        /\ files' = [files EXCEPT !["shifted"] = [of |-> files.so, offsets |-> files.so]]
        /\ older' = (older \ {"shifted"}) \cup {"meta"}
        /\ UNCHANGED <<sources, offset, finished, faults>>
    BY <1>8, DependentsAre DEF Cp, Write
  <2>1. files.so \in Libraries
    BY <2>0 DEF InOrder, Fresh, FilesOK
  <2>2. [of |-> files.so, offsets |-> files.so] \in ShiftedLibrary
    BY <2>1, LibrariesAssumption DEF ShiftedLibrary
  <2>3. FilesOK' /\ ControlOK'
    BY <2>0, <2>2 DEF FilesOK, ControlOK, faults, sources, Targets
  <2>4. CursorOK'
    BY <2>0, <2>1, LibrariesAssumption DEF FilesOK, CursorOK, Targets
  <2>5. InOrder' /\ MadeFromPrerequisites'
    BY <2>0, <2>2, AbsentAssumption
    DEF FilesOK, faults, sources, Targets, InOrder, MadeFromPrerequisites, Fresh
  <2>6. MidShift' /\ ShiftedWhole'
    <3>1. files.so = [k \in DOMAIN files.so |->
                        IF k < 1 THEN Shifted(files.so, k, offset) ELSE files.so[k]]
      BY <2>1, LibrariesAssumption
    <3> QED
      BY <2>0, <3>1 DEF FilesOK, faults, sources, Targets, MidShift, ShiftedWhole
  <2> QED
    BY <2>3, <2>4, <2>5, <2>6
<1>9. CASE ShiftElf
  <2> DEFINE n == Len(files.shifted.offsets)
             by == offset
             Part(m) == [of |-> files.so,
                         offsets |-> [k \in DOMAIN files.so |->
                            IF k < m THEN Shifted(files.so, k, by) ELSE files.so[k]]]
  <2>0. /\ at = "shift-elf" /\ files.so \in Libraries /\ files.shifted = Part(cursor)
        /\ by \in Nat /\ UNCHANGED <<sources, finished, faults>>
    BY <1>9, ShiftsInNat DEF ShiftElf, InOrder, Fresh, FilesOK, MidShift
  <2>1. /\ DOMAIN files.so = 1 .. Len(files.so) /\ Len(files.so) \in Nat
        /\ files.so \in Seq(Nat)
    BY <2>0, LibrariesAssumption
  <2>2. n = Len(files.so) /\ cursor \in 1 .. n + 1
    <3>1. files.shifted.offsets \in [1 .. Len(files.so) ->
                                        {files.shifted.offsets[k] : k \in 1 .. Len(files.so)}]
      BY <2>0, <2>1
    <3> QED
      BY <2>0, <2>1, <3>1 DEF CursorOK
  <2>3. CASE cursor <= n
    <3>1. /\ files' = [files EXCEPT !["shifted"] = Part(cursor + 1)]
          /\ older' = (older \ {"shifted"}) \cup {"meta"}
          /\ cursor' = cursor + 1 /\ UNCHANGED <<at, offset>>
      <4>1. /\ cursor \in DOMAIN files.so
            /\ files.shifted.offsets[cursor] = files.so[cursor]
        BY <2>0, <2>1, <2>2, <2>3
      <4>2. Shifted(files.shifted.offsets, cursor, by) = Shifted(files.so, cursor, by)
        BY <4>1 DEF Shifted
      <4>3. [files.shifted EXCEPT !.offsets[cursor] = Shifted(files.so, cursor, by)]
              = Part(cursor + 1)
        <5> DEFINE g == [files.shifted.offsets EXCEPT ![cursor] = Shifted(files.so, cursor, by)]
                   h == [k \in DOMAIN files.so |->
                           IF k < cursor + 1 THEN Shifted(files.so, k, by) ELSE files.so[k]]
                   off == [k \in DOMAIN files.so |->
                             IF k < cursor THEN Shifted(files.so, k, by) ELSE files.so[k]]
        <5>0. g = [off EXCEPT ![cursor] = Shifted(files.so, cursor, by)]
          BY <2>0
        <5>1. g = h
          <6>1. g = [k \in DOMAIN files.so |->
                       IF k = cursor THEN Shifted(files.so, cursor, by) ELSE off[k]]
            BY <5>0
          <6>2. ASSUME NEW k \in DOMAIN files.so
                PROVE  (IF k = cursor THEN Shifted(files.so, cursor, by) ELSE off[k]) = h[k]
            BY <2>1, <2>2
          <6> HIDE DEF off
          <6> QED
            BY <6>1, <6>2
        <5>2. [files.shifted EXCEPT !.offsets = g] = [of |-> files.so, offsets |-> g]
          BY <2>0
        <5> QED
          BY <5>1, <5>2
      <4> QED
        BY <1>9, <2>3, <4>2, <4>3, DependentsAre DEF ShiftElf, Write
    <3>2. Part(cursor + 1) \in ShiftedLibrary
      <4>1. cursor + 1 \in Nat
        BY <2>1, <2>2
      <4> QED
        BY <2>0, <4>1, ShiftedIsLibrary
    <3>3. FilesOK' /\ ControlOK'
      BY <2>0, <3>1, <3>2 DEF FilesOK, ControlOK, faults, sources, Targets
    <3>4. CursorOK'
      <4>1. files'.shifted = Part(cursor + 1)
        BY <3>1 DEF FilesOK, Targets
      <4>2. Len(files'.shifted.offsets) = n
        BY <2>1, <2>2, <4>1
      <4> QED
        BY <2>0, <2>2, <2>3, <3>1, <4>2 DEF CursorOK
    <3>5. InOrder' /\ MadeFromPrerequisites'
      BY <2>0, <3>1, <3>2, AbsentAssumption
      DEF FilesOK, faults, sources, Targets, InOrder, MadeFromPrerequisites, Fresh
    <3>6. MidShift' /\ ShiftedWhole'
      BY <2>0, <3>1 DEF FilesOK, faults, sources, Targets, MidShift, ShiftedWhole
    <3> QED
      BY <3>3, <3>4, <3>5, <3>6
  <2>4. CASE ~(cursor <= n)
    <3>1. /\ at' = "meta" /\ offset' = 0 /\ cursor' = 1 /\ UNCHANGED <<files, older>>
      BY <1>9, <2>4 DEF ShiftElf, RecipeEnds
    <3>2. FilesOK' /\ ControlOK' /\ CursorOK'
      BY <2>0, <3>1 DEF FilesOK, ControlOK, CursorOK, faults, sources, Targets
    <3>3. files.shifted = ShiftedBy(files.so, by)
      <4>1. \A k \in DOMAIN files.so : k < cursor
        BY <2>1, <2>2, <2>4
      <4>2. Part(cursor) = ShiftedBy(files.so, by)
        BY <4>1 DEF ShiftedBy
      <4> QED
        BY <2>0, <4>2
    <3>4. InOrder' /\ MadeFromPrerequisites'
      BY <2>0, <3>1, <3>3
      DEF FilesOK, faults, sources, Targets, InOrder, MadeFromPrerequisites, Fresh, MidShift
    <3>5. MidShift' /\ ShiftedWhole'
      BY <2>0, <3>1, <3>3
      DEF FilesOK, faults, sources, Targets, MidShift, ShiftedWhole, ShiftedBy
    <3> QED
      BY <3>2, <3>4, <3>5
  <2> QED
    BY <2>3, <2>4
<1>10. CASE ShiftFails
  <2>0. /\ at \in {"cp", "shift-elf"} /\ at' = "idle" /\ offset' = 0 /\ cursor' = 1
        /\ files' = [files EXCEPT !["shifted"] = Absent]
        /\ UNCHANGED <<sources, older, finished, faults>>
    BY <1>10 DEF ShiftFails, Remove, RecipeEnds
  <2>1. FilesOK' /\ ControlOK' /\ CursorOK'
    BY <2>0 DEF FilesOK, ControlOK, CursorOK, faults, sources, Targets
  <2>2. InOrder' /\ MadeFromPrerequisites'
    BY <2>0 DEF FilesOK, faults, sources, Targets, InOrder, MadeFromPrerequisites, Fresh
  <2>3. MidShift' /\ ShiftedWhole'
    BY <2>0 DEF FilesOK, faults, sources, Targets, MidShift, ShiftedWhole
  <2> QED
    BY <2>1, <2>2, <2>3
<1>11. CASE Kill
  <2>0. /\ at # "idle" /\ at' = "idle" /\ killed' = TRUE /\ offset' = 0 /\ cursor' = 1
        /\ UNCHANGED <<sources, files, older, finished, mispredicted>>
    BY <1>11 DEF Kill, RecipeEnds
  <2>1. FilesOK' /\ ControlOK' /\ CursorOK'
    BY <2>0 DEF FilesOK, ControlOK, CursorOK, sources, Targets
  <2>2. InOrder' /\ MadeFromPrerequisites'
    BY <2>0 DEF FilesOK, sources, Targets, InOrder, MadeFromPrerequisites, Fresh
  <2>3. MidShift' /\ ShiftedWhole'
    BY <2>0 DEF FilesOK, sources, Targets, MidShift, ShiftedWhole
  <2> QED
    BY <2>1, <2>2, <2>3
<1>12. CASE UNCHANGED vars
  BY <1>12 DEF vars, FilesOK, ControlOK, CursorOK, InOrder, MadeFromPrerequisites,
               MidShift, ShiftedWhole, Fresh
<1> QED
  BY <1>1, <1>2, <1>3, <1>4, <1>5, <1>6, <1>7, <1>8, <1>9, <1>10, <1>11, <1>12 DEF Next

\* The types of the variables, from which the invariant is built.
LEMMA IInvTypeOK == IInv => TypeOK
<1> SUFFICES ASSUME IInv PROVE TypeOK
  OBVIOUS
<1>1. cursor \in 1 .. (IF at = "shift-elf" THEN Len(files.shifted.offsets) + 1 ELSE 1)
  BY DEF IInv, CursorOK
<1> QED
  BY <1>1 DEF IInv, FilesOK, ControlOK, TypeOK

\* Whatever fails, no make leaves a copy of the library that is shifted in part or
\* twice (rules.mk:17-19), unless it is killed; and every file is well formed.
THEOREM Files_Sound == Spec => []FilesSound
<1>1. IInv => FilesSound
  <2> SUFFICES ASSUME IInv PROVE FilesSound
    OBVIOUS
  <2>1. ShiftedOnceOrAbsent
    <3>1. SUFFICES ASSUME at = "idle", ~killed, files.shifted # Absent
                   PROVE  \E by \in Shifts :
                            files.shifted.offsets =
                              [k \in DOMAIN files.shifted.of |-> Shifted(files.shifted.of, k, by)]
      BY DEF ShiftedOnceOrAbsent, Shifts
    <3>2. PICK by \in Shifts : files.shifted = ShiftedBy(files.shifted.of, by)
      BY <3>1 DEF IInv, ShiftedWhole
    <3> DEFINE f == files.shifted.of
    <3>3. ShiftedBy(f, by).offsets = [k \in DOMAIN f |-> Shifted(f, k, by)]
      BY DEF ShiftedBy
    <3> QED
      BY <3>2, <3>3
  <2> QED
    BY <2>1, IInvTypeOK DEF FilesSound
<1> QED
  BY <1>1, InitIInv, NextIInv, PTL DEF Spec

\* Once make has come to its end, after any edits and failures, the program holds
\* the current library where its program header says, and what the library's
\* headers say counts from the start of the program (rules.mk:17-22): the one
\* prediction agrees with the other link for all layouts and page sizes.
THEOREM Embedded_WhereItSays == Spec => []EmbeddedWhereItSays
<1>1. IInv => EmbeddedWhereItSays
  <2> SUFFICES ASSUME IInv, finished, ~killed, ~mispredicted, ~main.tips
               PROVE  LET e == files.exe.embedded
                      IN  /\ e.of = lib
                          /\ \A k \in DOMAIN lib :
                               k > 2 \/ lib[k] # 0 => e.offsets[k] = files.exe.meta_offset + lib[k]
    BY DEF EmbeddedWhereItSays
  <2> USE DEF IInv
  <2>1. at = "idle" /\ \A t \in Targets : Fresh(t)
    BY DEF InOrder, Targets
  <2>2. files.obj = main /\ files.so = lib /\ \A t \in Targets : files[t] # Absent
    BY <2>1 DEF MadeFromPrerequisites, Fresh, Targets
  <2>3. files.meta = ShiftedBy(lib, Predicted(main))
    BY <2>1, <2>2 DEF MadeFromPrerequisites, Targets
  <2>4. files.exe = [meta_offset |-> Placed(Relinked(main)), embedded |-> files.meta]
    BY <2>1, <2>2 DEF MadeFromPrerequisites, Targets
  <2>5. Relinked(main) = main
    BY DEF Relinked
  <2>6. /\ Predicted(main) = Placed(main) /\ Placed(main) \in Nat
        /\ \A k \in DOMAIN lib : lib[k] \in Nat /\ k \in Nat
    <3>1. main \in Segment /\ lib \in Seq(Nat)
      BY LayoutsAssumption, LibrariesAssumption DEF FilesOK
    <3> QED
      BY <3>1, PlacedInNat
  <2>7. ASSUME NEW k \in DOMAIN lib, k > 2 \/ lib[k] # 0
        PROVE  files.exe.embedded.offsets[k] = files.exe.meta_offset + lib[k]
    <3>1. files.exe.embedded.offsets[k] = Shifted(lib, k, Predicted(main))
      BY <2>3, <2>4 DEF ShiftedBy
    <3>2. Shifted(lib, k, Predicted(main)) = lib[k] + Placed(main)
      BY <2>6, <2>7 DEF Shifted
    <3> QED
      BY <2>4, <2>5, <2>6, <3>1, <3>2
  <2>8. files.exe.embedded.of = lib
    BY <2>3, <2>4 DEF ShiftedBy
  <2> QED
    BY <2>7, <2>8
<1> QED
  BY <1>1, InitIInv, NextIInv, PTL DEF Spec
=============================================================================
