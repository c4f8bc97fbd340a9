------------------------- MODULE XwrapPlugin_proofs -------------------------
(***************************************************************************)
(* The xwrap plugin serves every symbol it was asked to wrap in one way    *)
(* and no symbol in two, leaves the job's files as they are but for those  *)
(* it has to replace, and restarts the linker at most once for each of its *)
(* criteria: for every command line that ld accepts and whatever the files *)
(* define.  What enumerate_input_files reads is right for every such line: *)
(* inductions over its words, by way of the first word to go wrong.  And   *)
(* classify_input_objects finds in the files it names the members of every *)
(* archive it walks, and gives back what it opened and mapped.             *)
(***************************************************************************)
EXTENDS XwrapPlugin, Classify, Integers, SequenceTheorems, FiniteSetTheorems,
        WellFoundedInduction, TLAPS

----------------------------------------------------------------------------
\* Least and greatest numbers.

\* A set of numbers that is not empty has a least one.
LEMMA LeastIsMember ==
  ASSUME NEW S, S \subseteq Nat, S # {}
  PROVE  \E m \in S : \A y \in S : m =< y
<1>1. PICK x \in S : \A y \in S : ~(<<y, x>> \in OpToRel(<, Nat))
  BY NatLessThanWellFounded, WFMin
<1>2. \A y \in S : x =< y
  <2> SUFFICES ASSUME NEW y \in S PROVE ~(y < x)
    OBVIOUS
  <2>1. y < x => <<y, x>> \in OpToRel(<, Nat)
    BY DEF OpToRel
  <2> QED
    BY <1>1, <2>1
<1> QED
  BY <1>2

\* A bounded one that is not empty has a greatest one.
LEMMA MaxIsMember ==
  ASSUME NEW n \in Nat, NEW S, S \subseteq 0 .. n, S # {}
  PROVE  Max(S) \in S /\ \A y \in S : y =< Max(S)
<1> DEFINE T == {n - y : y \in S}
<1>1. T \subseteq Nat /\ T # {}
  OBVIOUS
<1>2. PICK m \in T : \A y \in T : m =< y
  <2> HIDE DEF T
  <2> QED
    BY <1>1, LeastIsMember
<1>3. PICK x \in S : m = n - x
  BY <1>2
<1>4. \A y \in S : x >= y
  <2> SUFFICES ASSUME NEW y \in S PROVE x >= y
    OBVIOUS
  <2>1. n - y \in T
    OBVIOUS
  <2>2. n - x <= n - y
    BY <1>2, <1>3, <2>1
  <2>3. x \in 0 .. n /\ y \in 0 .. n
    OBVIOUS
  <2> QED
    BY <2>2, <2>3
<1>5. Max(S) \in S /\ \A y \in S : Max(S) >= y
  <2>1. \E z \in S : \A y \in S : z >= y
    BY <1>4
  <2> QED
    BY <2>1, Zenon DEF Max
<1>6. Max(S) \in 0 .. n /\ \A y \in S : y \in 0 .. n
  BY <1>5
<1> QED
  BY <1>5, <1>6

\* A set of numbers up to n that lacks the first, and with each the one before,
\* is empty: how a claim about every number up to n is proved here.
LEMMA NoFirst ==
  ASSUME NEW n \in Nat, NEW Bad, Bad \subseteq 0 .. n, 0 \notin Bad,
         \A i \in 1 .. n : i \in Bad => i - 1 \in Bad
  PROVE  Bad = {}
<1> SUFFICES ASSUME Bad # {} PROVE FALSE
  OBVIOUS
<1>1. Bad \subseteq Nat
  OBVIOUS
<1>2. PICK m \in Bad : \A y \in Bad : m =< y
  BY <1>1, LeastIsMember
<1>3. m \in 1 .. n /\ ~(m =< m - 1)
  <2>1. m \in 0 .. n /\ m # 0
    OBVIOUS
  <2> QED
    BY <2>1
<1> QED
  BY <1>2, <1>3

\* g is the function that rule G makes from the value start.
Makes(g, n, S, start, G) ==
  /\ g \in [0 .. n -> S] /\ g[0] = start
  /\ \A i \in 1 .. n : g[i] = G[i][g[i - 1]]

\* A rule that makes each value from the one before makes a function.
LEMMA RecursionExists ==
  ASSUME NEW n \in Nat, NEW S, NEW start \in S, NEW G \in [1 .. n -> [S -> S]]
  PROVE  \E g : Makes(g, n, S, start, G)
<1> DEFINE Upto(k) == \E g \in [0 .. k -> S] :
                        g[0] = start /\ \A i \in 1 .. k : g[i] = G[i][g[i - 1]]
           Bad == {k \in 0 .. n : ~Upto(k)}
<1>1. Upto(0)
  <2> DEFINE g == [k \in 0 .. 0 |-> start]
  <2>1. g \in [0 .. 0 -> S] /\ g[0] = start
    OBVIOUS
  <2>2. \A i \in 1 .. 0 : g[i] = G[i][g[i - 1]]
    OBVIOUS
  <2> QED
    BY <2>1, <2>2
<1>2. ASSUME NEW k \in 1 .. n, Upto(k - 1) PROVE Upto(k)
  <2>1. PICK g \in [0 .. k - 1 -> S] :
          g[0] = start /\ \A i \in 1 .. k - 1 : g[i] = G[i][g[i - 1]]
    BY <1>2
  <2> DEFINE next == G[k][g[k - 1]]
             h == [j \in 0 .. k |-> IF j < k THEN g[j] ELSE next]
  <2>2. next \in S
    <3>1. k - 1 \in 0 .. k - 1
      OBVIOUS
    <3>2. g[k - 1] \in S
      BY <2>1, <3>1
    <3> QED
      BY <3>2
  <2> HIDE DEF next
  <2>3. h \in [0 .. k -> S]
    <3>1. ASSUME NEW j \in 0 .. k PROVE (IF j < k THEN g[j] ELSE next) \in S
      <4>1. j < k => j \in 0 .. k - 1
        OBVIOUS
      <4> QED
        BY <2>1, <2>2, <4>1
    <3> QED
      BY <3>1
  <2>4. h[0] = start
    <3>1. 0 \in 0 .. k /\ 0 < k
      OBVIOUS
    <3> QED
      BY <2>1, <3>1
  <2>5. ASSUME NEW i \in 1 .. k PROVE h[i] = G[i][h[i - 1]]
    <3>1. i \in 0 .. k /\ i - 1 \in 0 .. k /\ i - 1 < k
      OBVIOUS
    <3>2. h[i - 1] = g[i - 1]
      BY <3>1
    <3>3. CASE i < k
      <4>1. i \in 1 .. k - 1
        BY <3>3
      <4>2. h[i] = g[i]
        BY <3>1, <3>3
      <4> HIDE DEF h
      <4> QED
        BY <2>1, <3>2, <4>1, <4>2
    <3>4. CASE ~(i < k)
      <4>1. i = k
        BY <3>4
      <4>2. h[i] = next
        BY <3>1, <3>4
      <4> HIDE DEF h
      <4> QED
        BY <3>2, <4>1, <4>2 DEF next
    <3> QED
      BY <3>3, <3>4
  <2> HIDE DEF h
  <2> QED
    BY <2>3, <2>4, <2>5
<1> HIDE DEF Upto
<1>3. Bad \subseteq 0 .. n /\ 0 \notin Bad
  BY <1>1
<1>4. ASSUME NEW i \in 1 .. n, i \in Bad PROVE i - 1 \in Bad
  BY <1>2, <1>4
<1>5. Bad = {}
  <2> HIDE DEF Bad
  <2> QED
    BY <1>3, <1>4, NoFirst
<1>6. Upto(n)
  BY <1>5
<1> QED
  BY <1>6 DEF Upto, Makes

----------------------------------------------------------------------------
\* What the loop of enumerate_input_files comes to.

\* A library option stands for one path at most.
LEMMA ResolveType ==
  ASSUME NEW dirs \in Seq(STRING), NEW name \in STRING, NEW static \in BOOLEAN
  PROVE  Resolve(dirs, name, static) \in Seq(STRING)
<1> DEFINE hits == {i \in DOMAIN dirs : Found(dirs[i], name, static) # {}}
           dir == dirs[Max(hits)]
           first == IF ".so" \in Found(dir, name, static) THEN ".so" ELSE ".a"
<1>1. CASE hits = {}
  BY <1>1 DEF Resolve
<1>2. CASE hits # {}
  <2>1. Max(hits) \in hits
    <3>1. hits \subseteq 1 .. Len(dirs) /\ Len(dirs) \in Nat
      <4>1. hits \subseteq DOMAIN dirs
        OBVIOUS
      <4> HIDE DEF hits
      <4> QED
        BY <4>1
    <3> HIDE DEF hits
    <3> QED
      BY <1>2, <3>1, 1 .. Len(dirs) \subseteq 0 .. Len(dirs), MaxIsMember
  <2>2. Found(dir, name, static) # {}
    BY <2>1
  <2> HIDE DEF hits, dir
  <2>3. <<dir, name, first>> \in DOMAIN LibFile
    BY <2>2 DEF Found
  <2>4. LibFile[<<dir, name, first>>] \in STRING
    BY <2>3, LibFileAssumption
  <2>5. Resolve(dirs, name, static) = <<LibFile[<<dir, name, first>>]>>
    BY <1>2 DEF Resolve, hits, dir
  <2> HIDE DEF first
  <2> QED
    BY <2>4, <2>5
<1> QED
  BY <1>1, <1>2

\* The argument of an option is a string.
LEMMA GetArgType ==
  ASSUME NEW c \in Seq(Word), NEW i \in DOMAIN c
  PROVE  GetArg(c, i) \in STRING
<1>1. c[i] \in Word /\ (i < Len(c) => c[i + 1] \in Word)
  <2> HIDE DEF Word
  <2>1. i \in 1 .. Len(c) /\ Len(c) \in Nat /\ c \in [1 .. Len(c) -> Word]
    OBVIOUS
  <2>2. i < Len(c) => i + 1 \in 1 .. Len(c)
    BY <2>1
  <2> QED
    BY <2>1, <2>2
<1>2. c[i].arg \in STRING /\ (i < Len(c) => c[i + 1].arg \in STRING)
  BY <1>1 DEF Word
<1> QED
  BY <1>2, StringsAssumption DEF GetArg

\* A round of the loop, at a word that it does not skip.
Round(c, st, i) ==
  IF st.dashdash \/ ~IsOption(c[i]) THEN [st EXCEPT !.files = Append(@, c[i])]
  ELSE IF c[i] = Opt("--") THEN [st EXCEPT !.dashdash = TRUE]
  ELSE AnOption(st, c, i)

\* Each round keeps the types.
LEMMA ScanIs ==
  ASSUME NEW c \in Seq(Word), NEW st \in ScanState, NEW i \in DOMAIN c
  PROVE  Scan(c, i)[st] = IF st.skip THEN [st EXCEPT !.skip = FALSE] ELSE Round(c, st, i)
BY DEF Scan, Round

\* What an option makes of each part of the state.
StaticAt(st, c, i) == (st.static \/ c[i].opt \in StaticOpts) /\ c[i].opt \notin DynamicOpts
DirsAt(st, c, i) == IF c[i].opt = "-L" THEN Append(st.dirs, GetArg(c, i)) ELSE st.dirs
LibAt(st, c, i) ==
  IF c[i].opt = "-l" THEN Resolve(DirsAt(st, c, i), GetArg(c, i), StaticAt(st, c, i)) ELSE <<>>
SkipAt(st, c, i) == LibAt(st, c, i) = <<>> /\ IsDiscrete(c[i]) /\ c[i].opt \in OptsWithArg
PathsAt(st, c, i) == [k \in DOMAIN LibAt(st, c, i) |-> Plain(LibAt(st, c, i)[k])]

OptionMade(st, c, i) ==
  [st EXCEPT !.skip = SkipAt(st, c, i), !.static = StaticAt(st, c, i),
             !.dirs = DirsAt(st, c, i), !.files = st.files \o PathsAt(st, c, i)]

\* An option adds to the directories and the files.
LEMMA AnOptionIs ==
  ASSUME NEW c \in Seq(Word), NEW st \in ScanState, NEW i \in DOMAIN c
  PROVE  /\ AnOption(st, c, i) = OptionMade(st, c, i)
         /\ AnOption(st, c, i) \in ScanState
         /\ AnOption(st, c, i).skip <=> SkipAt(st, c, i)
         /\ AnOption(st, c, i).dashdash <=> st.dashdash
         /\ PathsAt(st, c, i) \in Seq(Word)
<1> DEFINE w == c[i]
           static == StaticAt(st, c, i)
           dirs == DirsAt(st, c, i)
           lib == LibAt(st, c, i)
           skip == SkipAt(st, c, i)
           paths == PathsAt(st, c, i)
<1>1. /\ st.static \in BOOLEAN /\ st.dashdash \in BOOLEAN /\ st.dirs \in Seq(STRING)
      /\ st.files \in Seq(Word)
  BY DEF ScanState
<1>2. static \in BOOLEAN /\ skip \in BOOLEAN
  BY DEF StaticAt, SkipAt
<1>3. dirs \in Seq(STRING)
  <2>1. ASSUME NEW a \in STRING PROVE Append(st.dirs, a) \in Seq(STRING)
    BY <1>1
  <2>2. Append(st.dirs, GetArg(c, i)) \in Seq(STRING)
    BY <2>1, GetArgType
  <2> QED
    BY <1>1, <2>2, Zenon DEF DirsAt
<1>4. lib \in Seq(STRING)
  <2>1. GetArg(c, i) \in STRING
    BY GetArgType
  <2>2. Resolve(DirsAt(st, c, i), GetArg(c, i), StaticAt(st, c, i)) \in Seq(STRING)
    BY <1>2, <1>3, <2>1, ResolveType
  <2>3. <<>> \in Seq(STRING)
    OBVIOUS
  <2> QED
    BY <2>2, <2>3, Zenon DEF LibAt
<1>5. paths \in Seq(Word)
  <2> HIDE DEF lib
  <2> HIDE DEF paths
  <2>1. \A k \in DOMAIN lib : Plain(lib[k]) \in Word
    <3>1. ASSUME NEW k \in DOMAIN lib PROVE lib[k] \in STRING
      BY <1>4
    <3> QED
      BY <3>1, StringsAssumption DEF Plain, Word
  <2> HIDE DEF Word
  <2>2. DOMAIN lib = 1 .. Len(lib) /\ Len(lib) \in Nat
    BY <1>4
  <2>3. paths = [k \in DOMAIN lib |-> Plain(lib[k])]
    BY DEF PathsAt, paths, lib
  <2> QED
    BY <2>1, <2>2, <2>3
<1>6. st.files \o paths \in Seq(Word)
  <2> HIDE DEF paths, Word
  <2> QED
    BY <1>1, <1>5
<1>7. AnOption(st, c, i) = [st EXCEPT !.skip = skip, !.static = static, !.dirs = dirs,
                                      !.files = st.files \o paths]
  BY DEF AnOption, StaticAt, DirsAt, LibAt, SkipAt, PathsAt
<1> HIDE DEF skip, static, dirs, paths, lib
<1>8. AnOption(st, c, i) \in ScanState
  BY <1>1, <1>2, <1>3, <1>6, <1>7 DEF ScanState
<1>9. (AnOption(st, c, i).skip <=> skip) /\ (AnOption(st, c, i).dashdash <=> st.dashdash)
  BY <1>2, <1>7 DEF ScanState
<1>10. AnOption(st, c, i) = OptionMade(st, c, i)
  BY <1>7 DEF OptionMade, skip, static, dirs, paths
<1> QED
  BY <1>5, <1>8, <1>9, <1>10 DEF skip, paths

\* So a round keeps the types.
LEMMA ScanType ==
  ASSUME NEW c \in Seq(Word), NEW st \in ScanState, NEW i \in DOMAIN c
  PROVE  Round(c, st, i) \in ScanState /\ Scan(c, i)[st] \in ScanState
<1>1. AnOption(st, c, i) \in ScanState
  BY AnOptionIs
<1>2. c[i] \in Word /\ st.files \in Seq(Word)
  BY DEF ScanState
<1>3. Append(st.files, c[i]) \in Seq(Word)
  <2> HIDE DEF Word
  <2> QED
    BY <1>2
<1>4. [st EXCEPT !.files = Append(st.files, c[i])] \in ScanState
  BY <1>3 DEF ScanState
<1>5. [st EXCEPT !.dashdash = TRUE] \in ScanState /\ [st EXCEPT !.skip = FALSE] \in ScanState
  BY DEF ScanState
<1>6. Round(c, st, i) \in ScanState
  BY <1>1, <1>4, <1>5 DEF Round
<1> QED
  BY <1>5, <1>6, ScanIs

\* There is a function that the loop computes.
LEMMA ScanExists ==
  ASSUME NEW c \in Seq(Word)
  PROVE  \E g \in [0 .. Len(c) -> ScanState] :
           g[0] = Start /\ \A i \in DOMAIN c : g[i] = Scan(c, i)[g[i - 1]]
<1> DEFINE G == [i \in 1 .. Len(c) |-> Scan(c, i)]
<1>1. Len(c) \in Nat /\ DOMAIN c = 1 .. Len(c)
  OBVIOUS
<1>2. Start \in ScanState
  BY DEF Start, ScanState
<1>3. ASSUME NEW i \in 1 .. Len(c) PROVE Scan(c, i) \in [ScanState -> ScanState]
  <2>1. \A st \in ScanState : Scan(c, i)[st] \in ScanState
    BY <1>1, ScanType
  <2>2. Scan(c, i) = [st \in ScanState |-> Scan(c, i)[st]]
    BY DEF Scan
  <2> QED
    BY <2>1, <2>2
<1>4. G \in [1 .. Len(c) -> [ScanState -> ScanState]]
  BY <1>3
<1>5. PICK g : Makes(g, Len(c), ScanState, Start, G)
  <2> HIDE DEF G
  <2> QED
    BY <1>1, <1>2, <1>4, RecursionExists
<1> QED
  BY <1>1, <1>5 DEF Makes

\* It is the one that Scanned names.
LEMMA ScannedIs ==
  ASSUME NEW c \in Seq(Word)
  PROVE  /\ Scanned(c) \in [0 .. Len(c) -> ScanState]
         /\ Scanned(c)[0] = Start
         /\ \A i \in DOMAIN c : Scanned(c)[i] = Scan(c, i)[Scanned(c)[i - 1]]
<1> DEFINE Loop(f) == [i \in 0 .. Len(c) |-> IF i = 0 THEN Start ELSE Scan(c, i)[f[i - 1]]]
<1>1. Len(c) \in Nat /\ DOMAIN c = 1 .. Len(c)
  OBVIOUS
<1>2. PICK g \in [0 .. Len(c) -> ScanState] :
        g[0] = Start /\ \A i \in DOMAIN c : g[i] = Scan(c, i)[g[i - 1]]
  BY ScanExists
<1>3. g = Loop(g)
  <2>1. ASSUME NEW i \in 0 .. Len(c)
        PROVE  g[i] = IF i = 0 THEN Start ELSE Scan(c, i)[g[i - 1]]
    <3>1. i # 0 => i \in DOMAIN c
      BY <1>1
    <3> QED
      BY <1>2, <3>1
  <2> QED
    BY <1>2, <2>1
<1>4. Scanned(c) = CHOOSE f : f = Loop(f)
  BY DEF Scanned
<1>5. Scanned(c) = Loop(Scanned(c))
  <2> HIDE DEF Loop
  <2> QED
    BY <1>3, <1>4
<1>6. /\ Scanned(c)[0] = Start
      /\ \A i \in DOMAIN c : Scanned(c)[i] = Scan(c, i)[Scanned(c)[i - 1]]
  <2>1. 0 \in 0 .. Len(c) /\ \A i \in DOMAIN c : i \in 0 .. Len(c) /\ i # 0
    BY <1>1
  <2> QED
    BY <1>5, <2>1
<1>7. Scanned(c) = g
  <2> DEFINE f == Scanned(c)
             Bad == {i \in 0 .. Len(c) : f[i] # g[i]}
  <2>1. f = [i \in 0 .. Len(c) |-> f[i]]
    BY <1>5
  <2> HIDE DEF f
  <2>2. Bad \subseteq 0 .. Len(c) /\ 0 \notin Bad
    BY <1>2, <1>6 DEF f
  <2>3. ASSUME NEW i \in 1 .. Len(c), i \in Bad PROVE i - 1 \in Bad
    <3>1. i \in DOMAIN c /\ i - 1 \in 0 .. Len(c)
      BY <1>1
    <3> QED
      BY <1>2, <1>6, <2>3, <3>1 DEF f
  <2>4. Bad = {}
    <3> HIDE DEF Bad
    <3> QED
      BY <1>1, <2>2, <2>3, NoFirst
  <2> QED
    BY <1>2, <2>1, <2>4
<1> QED
  BY <1>2, <1>6, <1>7

----------------------------------------------------------------------------
\* Command lines that ld accepts, and what becomes of them.

\* A line as the plugin meets it.
Good(c) == c \in Seq(Word) /\ WellFormed(c) /\ Opt("--") \notin ToSet(c)

\* The words of c behind the first are in d, m places further on, each with its
\* argument.
CarriedOver(c, d, m) ==
  \A i \in 2 .. Len(c) :
    /\ i + m \in DOMAIN d /\ d[i + m] = c[i]
    /\ c[i].opt \in LdOptsWithArg => GetArg(d, i + m) = GetArg(c, i)

\* What that says of each word.
LEMMA GoodIs ==
  ASSUME NEW c, Good(c)
  PROVE  /\ c \in Seq(Word) /\ Len(c) \in Nat /\ Len(c) >= 1 /\ DOMAIN c = 1 .. Len(c)
         /\ ~IsOption(c[1])
         /\ \A i \in DOMAIN c :
              /\ c[i] \in Word /\ c[i] # Opt("--")
              /\ IsOption(c[i]) /\ IsDiscrete(c[i]) /\ c[i].opt \in LdOptsWithArg
                   => i < Len(c) /\ ~IsOption(c[i + 1])
<1>1. c \in Seq(Word) /\ c # <<>> /\ ~IsOption(c[1])
  BY DEF Good, WellFormed
<1>2. Len(c) \in Nat /\ Len(c) >= 1 /\ DOMAIN c = 1 .. Len(c)
  <2> HIDE DEF Word
  <2> QED
    BY <1>1
<1>3. \A i \in DOMAIN c : c[i] \in Word /\ c[i] # Opt("--")
  <2> HIDE DEF Word
  <2>1. \A i \in DOMAIN c : c[i] \in Word
    BY <1>1
  <2> QED
    BY <2>1 DEF Good, ToSet
<1> QED
  BY <1>1, <1>2, <1>3 DEF Good, WellFormed

\* The loop never meets a "--".
LEMMA NoDashdash ==
  ASSUME NEW c, Good(c)
  PROVE  \A i \in 0 .. Len(c) : ~Scanned(c)[i].dashdash
<1> DEFINE Bad == {i \in 0 .. Len(c) : Scanned(c)[i].dashdash}
<1>1. /\ c \in Seq(Word) /\ Len(c) \in Nat /\ DOMAIN c = 1 .. Len(c)
      /\ \A i \in DOMAIN c : c[i] # Opt("--")
  BY GoodIs
<1>2. /\ Scanned(c) \in [0 .. Len(c) -> ScanState] /\ Scanned(c)[0] = Start
      /\ \A i \in DOMAIN c : Scanned(c)[i] = Scan(c, i)[Scanned(c)[i - 1]]
  BY <1>1, ScannedIs
<1>3. ASSUME NEW i \in DOMAIN c, ~Scanned(c)[i - 1].dashdash PROVE ~Scanned(c)[i].dashdash
  <2> DEFINE st == Scanned(c)[i - 1]
  <2>1. st \in ScanState
    <3>1. i - 1 \in 0 .. Len(c)
      BY <1>1
    <3> QED
      BY <1>2, <3>1
  <2>2. /\ Scanned(c)[i] = IF st.skip THEN [st EXCEPT !.skip = FALSE] ELSE Round(c, st, i)
        /\ ~st.dashdash
    BY <1>1, <1>2, <1>3, <2>1, ScanIs
  <2> HIDE DEF st
  <2>3. ~[st EXCEPT !.skip = FALSE].dashdash /\ ~[st EXCEPT !.files = Append(@, c[i])].dashdash
    BY <2>1, <2>2 DEF ScanState
  <2>4. ~AnOption(st, c, i).dashdash
    BY <1>1, <2>1, <2>2, AnOptionIs
  <2>5. ~Round(c, st, i).dashdash
    BY <1>1, <2>2, <2>3, <2>4 DEF Round
  <2> QED
    BY <2>2, <2>3, <2>5
<1>4. 0 \notin Bad /\ Bad \subseteq 0 .. Len(c)
  BY <1>2 DEF Start
<1>5. ASSUME NEW i \in 1 .. Len(c), i \in Bad PROVE i - 1 \in Bad
  <2>1. i \in DOMAIN c /\ i - 1 \in 0 .. Len(c)
    BY <1>1
  <2> QED
    BY <1>3, <1>5, <2>1
<1>6. Bad = {}
  <2> HIDE DEF Bad
  <2> QED
    BY <1>1, <1>4, <1>5, NoFirst
<1> QED
  BY <1>6

\* So a round takes a word for a file or looks at an option, and only an option
\* that is given its argument apart has the next word skipped.
LEMMA GoodRound ==
  ASSUME NEW c, Good(c), NEW i \in DOMAIN c
  PROVE  LET st == Scanned(c)[i - 1] IN
         /\ st \in ScanState /\ Scanned(c)[i] \in ScanState
         /\ i = 1 => st = Start /\ Scanned(c)[i] = [Start EXCEPT !.skip = FALSE]
         /\ Scanned(c)[i] = IF st.skip THEN [st EXCEPT !.skip = FALSE]
                            ELSE IF ~IsOption(c[i]) THEN [st EXCEPT !.files = Append(@, c[i])]
                            ELSE AnOption(st, c, i)
         /\ Scanned(c)[i].skip =>
              i > 1 /\ IsOption(c[i]) /\ IsDiscrete(c[i]) /\ c[i].opt \in OptsWithArg
<1> DEFINE st == Scanned(c)[i - 1]
<1>1. /\ c \in Seq(Word) /\ Len(c) \in Nat /\ DOMAIN c = 1 .. Len(c) /\ c[i] # Opt("--")
  BY GoodIs
<1>2. i - 1 \in 0 .. Len(c) /\ i \in 0 .. Len(c) /\ (i = 1 => i - 1 = 0) /\ i >= 1 /\ i \in Nat
  BY <1>1
<1>3. /\ st \in ScanState /\ Scanned(c)[i] \in ScanState /\ Scanned(c)[0] = Start
      /\ Scanned(c)[i] = Scan(c, i)[st]
  BY <1>1, <1>2, ScannedIs
<1>4. ~st.dashdash
  BY <1>2, NoDashdash
<1>5. Scanned(c)[i] = IF st.skip THEN [st EXCEPT !.skip = FALSE] ELSE Round(c, st, i)
  BY <1>1, <1>3, ScanIs
<1>6. i = 1 => st = Start /\ Scanned(c)[i] = [Start EXCEPT !.skip = FALSE]
  <2> SUFFICES ASSUME i = 1 PROVE st = Start /\ Scanned(c)[i] = [Start EXCEPT !.skip = FALSE]
    OBVIOUS
  <2>1. i - 1 = 0
    BY <1>2
  <2>2. st = Start
    BY <1>3, <2>1
  <2>3. st.skip
    BY <2>2 DEF Start
  <2> HIDE DEF st
  <2> QED
    BY <1>5, <2>2, <2>3
<1> HIDE DEF st
<1>7. Round(c, st, i) = IF ~IsOption(c[i]) THEN [st EXCEPT !.files = Append(@, c[i])]
                        ELSE AnOption(st, c, i)
  BY <1>1, <1>4 DEF Round
<1>8. Scanned(c)[i].skip => i > 1 /\ IsOption(c[i]) /\ IsDiscrete(c[i]) /\ c[i].opt \in OptsWithArg
  <2>1. ~[st EXCEPT !.skip = FALSE].skip /\ [st EXCEPT !.files = Append(@, c[i])].skip = st.skip
    BY <1>3 DEF ScanState
  <2>2. AnOption(st, c, i).skip => IsDiscrete(c[i]) /\ c[i].opt \in OptsWithArg
    <3>1. AnOption(st, c, i).skip <=> SkipAt(st, c, i)
      BY <1>1, <1>3, AnOptionIs
    <3> QED
      BY <3>1 DEF SkipAt
  <2>3. Scanned(c)[i].skip => ~st.skip /\ IsOption(c[i]) /\ Scanned(c)[i] = AnOption(st, c, i)
    BY <1>5, <1>7, <2>1
  <2>4. i = 1 => ~Scanned(c)[i].skip
    BY <1>6, <2>1 DEF Start
  <2> QED
    BY <1>2, <2>2, <2>3, <2>4
<1> QED
  BY <1>3, <1>5, <1>6, <1>7, <1>8 DEF st

\* The state as it is behind files F.
Behind(F, st) == [st EXCEPT !.files = F \o @]

\* Concatenation of words is associative.
LEMMA WordsAssociate ==
  \A s, t, u \in Seq(Word) : (s \o t) \o u = s \o (t \o u)
OBVIOUS

\* It differs in the files alone.
LEMMA BehindIs ==
  ASSUME NEW st \in ScanState, NEW F \in Seq(Word)
  PROVE  /\ Behind(F, st) \in ScanState
         /\ (Behind(F, st).skip <=> st.skip) /\ (Behind(F, st).static <=> st.static)
         /\ Behind(F, st).dirs = st.dirs /\ Behind(F, st).files = F \o st.files
         /\ st.files \in Seq(Word) /\ F \o st.files \in Seq(Word)
<1>1. st.files \in Seq(Word)
  BY DEF ScanState
<1>2. F \o st.files \in Seq(Word)
  <2> HIDE DEF Word
  <2> QED
    BY <1>1, ConcatProperties
<1> QED
  BY <1>1, <1>2 DEF Behind, ScanState

\* An option that is carried over does to the state what it did.
LEMMA OptionCarriedOver ==
  ASSUME NEW c \in Seq(Word), NEW d \in Seq(Word), NEW i \in DOMAIN c, NEW j \in DOMAIN d,
         NEW st \in ScanState, NEW F \in Seq(Word), d[j] = c[i],
         c[i].opt \in LdOptsWithArg => GetArg(d, j) = GetArg(c, i)
  PROVE  AnOption(Behind(F, st), d, j) = Behind(F, AnOption(st, c, i))
<1> DEFINE tt == Behind(F, st)
<1>1. /\ tt \in ScanState /\ (tt.static <=> st.static) /\ tt.dirs = st.dirs
      /\ tt.files = F \o st.files /\ st.files \in Seq(Word)
  BY BehindIs
<1> HIDE DEF tt
<1>2. (StaticAt(tt, d, j) <=> StaticAt(st, c, i)) /\ DirsAt(tt, d, j) = DirsAt(st, c, i)
  BY <1>1 DEF StaticAt, DirsAt, LdOptsWithArg, OptsWithArg
<1>3. StaticAt(tt, d, j) = StaticAt(st, c, i)
  <2>1. StaticAt(tt, d, j) \in BOOLEAN /\ StaticAt(st, c, i) \in BOOLEAN
    BY DEF StaticAt
  <2> QED
    BY <1>2, <2>1
<1>4. LibAt(tt, d, j) = LibAt(st, c, i)
  <2>1. c[i].opt = "-l" => GetArg(d, j) = GetArg(c, i)
    BY DEF LdOptsWithArg, OptsWithArg
  <2>2. CASE c[i].opt = "-l"
    BY <1>2, <1>3, <2>1, <2>2 DEF LibAt
  <2>3. CASE c[i].opt # "-l"
    BY <2>3 DEF LibAt
  <2> QED
    BY <2>2, <2>3
<1>5. SkipAt(tt, d, j) = SkipAt(st, c, i) /\ PathsAt(tt, d, j) = PathsAt(st, c, i)
  BY <1>4 DEF SkipAt, PathsAt
<1>6. /\ AnOption(st, c, i) = OptionMade(st, c, i) /\ PathsAt(st, c, i) \in Seq(Word)
      /\ AnOption(tt, d, j) = OptionMade(tt, d, j)
  BY <1>1, AnOptionIs
<1>7. tt.files \o PathsAt(tt, d, j) = F \o (st.files \o PathsAt(st, c, i))
  <2>1. (F \o st.files) \o PathsAt(st, c, i) = F \o (st.files \o PathsAt(st, c, i))
    BY <1>1, <1>6, WordsAssociate, Zenon
  <2> QED
    BY <1>1, <1>5, <2>1
<1>8. OptionMade(tt, d, j) = [tt EXCEPT !.skip = SkipAt(st, c, i), !.static = StaticAt(st, c, i),
         !.dirs = DirsAt(st, c, i), !.files = F \o (st.files \o PathsAt(st, c, i))]
  BY <1>2, <1>3, <1>5, <1>7 DEF OptionMade
<1>9. OptionMade(tt, d, j) = Behind(F, OptionMade(st, c, i))
  BY <1>8 DEF OptionMade, ScanState, Behind, tt
<1> QED
  BY <1>6, <1>9 DEF tt

\* Any word does.
LEMMA RoundCarriedOver ==
  ASSUME NEW c, Good(c), NEW d, Good(d), NEW m \in Nat, NEW F \in Seq(Word),
         CarriedOver(c, d, m), NEW i \in 2 .. Len(c),
         Scanned(d)[i - 1 + m] = Behind(F, Scanned(c)[i - 1])
  PROVE  Scanned(d)[i + m] = Behind(F, Scanned(c)[i])
<1> DEFINE st == Scanned(c)[i - 1]
           j == i + m
           tt == Scanned(d)[j - 1]
<1> SUFFICES Scanned(d)[j] = Behind(F, Scanned(c)[i])
  OBVIOUS
<1>1. i \in DOMAIN c /\ c \in Seq(Word) /\ d \in Seq(Word) /\ c[i] \in Word
  BY GoodIs
<1>2. j \in DOMAIN d /\ d[j] = c[i] /\ (c[i].opt \in LdOptsWithArg => GetArg(d, j) = GetArg(c, i))
  BY DEF CarriedOver
<1>3. /\ st \in ScanState
      /\ Scanned(c)[i] = IF st.skip THEN [st EXCEPT !.skip = FALSE]
                         ELSE IF ~IsOption(c[i]) THEN [st EXCEPT !.files = Append(@, c[i])]
                         ELSE AnOption(st, c, i)
  BY <1>1, GoodRound
<1>4. tt = Behind(F, st)
  BY <1>1
<1> HIDE DEF st, j, tt
<1>5. Scanned(d)[j] = IF tt.skip THEN [tt EXCEPT !.skip = FALSE]
                      ELSE IF ~IsOption(d[j]) THEN [tt EXCEPT !.files = Append(@, d[j])]
                      ELSE AnOption(tt, d, j)
  BY <1>2, GoodRound DEF tt
<1>6. /\ tt \in ScanState /\ (tt.skip <=> st.skip) /\ tt.files = F \o st.files
      /\ st.files \in Seq(Word) /\ F \o st.files \in Seq(Word)
  BY <1>3, <1>4, BehindIs
<1>7. CASE st.skip
  <2>1. [tt EXCEPT !.skip = FALSE] = Behind(F, [st EXCEPT !.skip = FALSE])
    BY <1>3, <1>4 DEF ScanState, Behind
  <2> QED
    BY <1>3, <1>5, <1>6, <1>7, <2>1
<1>8. CASE ~st.skip /\ ~IsOption(c[i])
  <2>1. F \o Append(st.files, c[i]) = Append(F \o st.files, c[i])
    <3> HIDE DEF Word
    <3>1. Append(st.files, c[i]) = st.files \o <<c[i]>> /\ <<c[i]>> \in Seq(Word)
      BY <1>1, <1>6, AppendIsConcat
    <3>2. Append(F \o st.files, c[i]) = (F \o st.files) \o <<c[i]>>
      BY <1>1, <1>6, AppendIsConcat
    <3>3. (F \o st.files) \o <<c[i]>> = F \o (st.files \o <<c[i]>>)
      BY <1>6, <3>1, WordsAssociate, Zenon
    <3> QED
      BY <3>1, <3>2, <3>3
  <2>2. [tt EXCEPT !.files = Append(tt.files, c[i])]
          = Behind(F, [st EXCEPT !.files = Append(st.files, c[i])])
    BY <1>3, <1>4, <1>6, <2>1 DEF ScanState, Behind
  <2> QED
    BY <1>2, <1>3, <1>5, <1>6, <1>8, <2>2
<1>9. CASE ~st.skip /\ IsOption(c[i])
  <2>1. AnOption(tt, d, j) = Behind(F, AnOption(st, c, i))
    BY <1>1, <1>2, <1>3, <1>4, OptionCarriedOver
  <2> QED
    BY <1>2, <1>3, <1>5, <1>6, <1>9, <2>1
<1> QED
  BY <1>7, <1>8, <1>9

\* And so do all of them.
LEMMA ScanCarriedOver ==
  ASSUME NEW c, Good(c), NEW d, Good(d), NEW m \in Nat, NEW F \in Seq(Word),
         CarriedOver(c, d, m), Scanned(d)[1 + m] = Behind(F, Scanned(c)[1])
  PROVE  \A i \in 1 .. Len(c) : Scanned(d)[i + m] = Behind(F, Scanned(c)[i])
<1> DEFINE Bad == {i \in 1 .. Len(c) : Scanned(d)[i + m] # Behind(F, Scanned(c)[i])}
<1>1. Bad = {}
  <2> SUFFICES ASSUME Bad # {} PROVE FALSE
    OBVIOUS
  <2>1. Bad \subseteq Nat
    OBVIOUS
  <2> HIDE DEF Bad
  <2>2. PICK n \in Bad : \A y \in Bad : n =< y
    BY <2>1, LeastIsMember
  <2>3. n \in 1 .. Len(c) /\ Scanned(d)[n + m] # Behind(F, Scanned(c)[n])
    BY <2>2 DEF Bad
  <2>4. n # 1
    BY <2>3
  <2>5. n \in 2 .. Len(c) /\ n - 1 \in 1 .. Len(c) /\ ~(n =< n - 1)
    BY <2>3, <2>4
  <2>6. Scanned(d)[n - 1 + m] = Behind(F, Scanned(c)[n - 1])
    BY <2>2, <2>5 DEF Bad
  <2> QED
    BY <2>3, <2>5, <2>6, RoundCarriedOver
<1> QED
  BY <1>1

----------------------------------------------------------------------------
\* The fix-ups, and what they do to good lines.

\* What a criterion appends: options by themselves, each with a plain argument
\* behind it, and each of the two kinds that the plugin gives.
Trailer(t) ==
  /\ t \in Seq(Word)
  /\ \A k \in DOMAIN t :
       IF k % 2 = 1 THEN k < Len(t) /\ t[k] \in {Opt("-z"), Opt("--wrap")}
       ELSE t[k] = Plain(t[k].arg)

\* The words of a line with more words at its end.
LEMMA AppendedWords ==
  ASSUME NEW c, Good(c), NEW t \in Seq(Word)
  PROVE  LET d == Argv(c \o t) IN
         /\ d \in Seq(Word) /\ Len(d) = Len(c) + Len(t) /\ Len(t) \in Nat
         /\ d[1] = Exe
         /\ \A i \in 2 .. Len(c) : d[i] = c[i]
         /\ \A k \in 1 .. Len(t) : d[Len(c) + k] = t[k]
<1> DEFINE e == c \o t
           d == Argv(e)
<1>1. c \in Seq(Word) /\ Len(c) \in Nat /\ Len(c) >= 1 /\ DOMAIN c = 1 .. Len(c)
  BY GoodIs
<1>2. Exe \in Word
  BY ExeAssumption
<1> HIDE DEF Word
<1>3. /\ e \in Seq(Word) /\ Len(e) = Len(c) + Len(t) /\ Len(t) \in Nat
      /\ \A i \in 1 .. Len(c) : e[i] = c[i]
      /\ \A k \in 1 .. Len(t) : e[Len(c) + k] = t[k]
  BY <1>1
<1> HIDE DEF e
<1>4. /\ d \in Seq(Word) /\ Len(d) = Len(e) /\ d[1] = Exe
      /\ \A i \in 2 .. Len(e) : d[i] = e[i]
  BY <1>1, <1>2, <1>3 DEF Argv
<1> HIDE DEF d
<1>5. \A i \in 2 .. Len(c) : i \in 2 .. Len(e) /\ i \in 1 .. Len(c)
  BY <1>1, <1>3
<1>6. \A k \in 1 .. Len(t) : Len(c) + k \in 2 .. Len(e)
  BY <1>1, <1>3
<1> QED
  BY <1>3, <1>4, <1>5, <1>6 DEF d, e

\* The words of a line with one more in the second place.
LEMMA InsertedWords ==
  ASSUME NEW c, Good(c), NEW w \in Word
  PROVE  LET d == Argv(InsertAt(c, 2, w)) IN
         /\ d \in Seq(Word) /\ Len(d) = Len(c) + 1
         /\ d[1] = Exe /\ d[2] = w
         /\ \A i \in 2 .. Len(c) : d[i + 1] = c[i]
<1> DEFINE e == InsertAt(c, 2, w)
           d == Argv(e)
           front == SubSeq(c, 1, 1)
           rest == SubSeq(c, 2, Len(c))
<1>1. c \in Seq(Word) /\ Len(c) \in Nat /\ Len(c) >= 1 /\ DOMAIN c = 1 .. Len(c)
  BY GoodIs
<1>2. Exe \in Word
  BY ExeAssumption
<1> HIDE DEF Word
<1>3. e = front \o <<w>> \o rest
  BY DEF InsertAt
<1>4. front \in Seq(Word) /\ Len(front) = 1
  BY <1>1, SubSeqProperties
<1>5. rest \in Seq(Word) /\ Len(rest) = Len(c) - 1 /\ \A i \in 1 .. Len(c) - 1 : rest[i] = c[i + 1]
  BY <1>1, SubSeqProperties
<1> HIDE DEF front, rest
<1>6. /\ front \o <<w>> \in Seq(Word) /\ Len(front \o <<w>>) = 2
      /\ (front \o <<w>>)[2] = w
  <2>1. <<w>> \in Seq(Word) /\ Len(<<w>>) = 1 /\ <<w>>[1] = w
    OBVIOUS
  <2>2. 2 \in 1 .. 2 /\ ~(2 <= 1) /\ 2 - 1 = 1 /\ 1 + 1 = 2
    OBVIOUS
  <2> QED
    BY <1>4, <2>1, <2>2, ConcatProperties
<1> DEFINE g == front \o <<w>>
<1> HIDE DEF g
<1>7. /\ e \in Seq(Word) /\ Len(e) = Len(c) + 1 /\ e[2] = w
      /\ \A i \in 1 .. Len(c) - 1 : e[2 + i] = rest[i]
  <2>1. g \in Seq(Word) /\ Len(g) = 2 /\ g[2] = w /\ e = g \o rest
    BY <1>3, <1>6 DEF g
  <2>2. /\ g \o rest \in Seq(Word) /\ Len(g \o rest) = 2 + (Len(c) - 1)
        /\ \A i \in 1 .. 2 + (Len(c) - 1) :
             (g \o rest)[i] = IF i <= 2 THEN g[i] ELSE rest[i - 2]
    BY <1>5, <2>1, ConcatProperties
  <2> HIDE DEF e
  <2>3. 2 + (Len(c) - 1) = Len(c) + 1 /\ 2 \in 1 .. Len(c) + 1
    BY <1>1
  <2>4. ASSUME NEW i \in 1 .. Len(c) - 1 PROVE e[2 + i] = rest[i]
    <3>1. 2 + i \in 1 .. Len(c) + 1 /\ ~(2 + i <= 2) /\ (2 + i) - 2 = i
      BY <1>1
    <3> QED
      BY <2>1, <2>2, <2>3, <3>1
  <2> QED
    BY <2>1, <2>2, <2>3, <2>4
<1> HIDE DEF e
<1>8. /\ d \in Seq(Word) /\ Len(d) = Len(e) /\ d[1] = Exe
      /\ \A i \in 2 .. Len(e) : d[i] = e[i]
  BY <1>1, <1>2, <1>7 DEF Argv
<1> HIDE DEF d
<1>9. ASSUME NEW i \in 2 .. Len(c) PROVE d[i + 1] = c[i]
  <2>1. i - 1 \in 1 .. Len(c) - 1 /\ 2 + (i - 1) = i + 1 /\ i + 1 \in 2 .. Len(e) /\ (i - 1) + 1 = i
    BY <1>1, <1>7
  <2> QED
    BY <1>5, <1>7, <1>8, <2>1
<1>10. 2 \in 2 .. Len(e)
  BY <1>1, <1>7
<1> QED
  BY <1>7, <1>8, <1>9, <1>10 DEF d, e

\* Words carried over keep their arguments.
LEMMA WordsCarriedOver ==
  ASSUME NEW c, Good(c), NEW d \in Seq(Word), NEW m \in Nat,
         Len(d) >= Len(c) + m, \A i \in 2 .. Len(c) : d[i + m] = c[i]
  PROVE  CarriedOver(c, d, m)
<1>1. /\ Len(c) \in Nat /\ Len(c) >= 1 /\ DOMAIN c = 1 .. Len(c)
      /\ Len(d) \in Nat /\ DOMAIN d = 1 .. Len(d)
      /\ \A i \in DOMAIN c : IsOption(c[i]) /\ IsDiscrete(c[i]) /\ c[i].opt \in LdOptsWithArg
                               => i < Len(c)
  BY GoodIs
<1> SUFFICES ASSUME NEW i \in 2 .. Len(c)
             PROVE  /\ i + m \in DOMAIN d /\ d[i + m] = c[i]
                    /\ c[i].opt \in LdOptsWithArg => GetArg(d, i + m) = GetArg(c, i)
  BY DEF CarriedOver
<1>2. i + m \in DOMAIN d /\ i \in DOMAIN c /\ i \in Nat
  BY <1>1
<1>3. ASSUME c[i].opt \in LdOptsWithArg PROVE GetArg(d, i + m) = GetArg(c, i)
  <2>1. CASE ~IsDiscrete(c[i])
    BY <2>1 DEF GetArg
  <2>2. CASE IsDiscrete(c[i])
    <3>1. IsOption(c[i])
      BY <1>3 DEF LdOptsWithArg, OptsWithArg, IsOption
    <3>2. i < Len(c)
      BY <1>1, <1>2, <1>3, <2>2, <3>1
    <3>3. i + 1 \in 2 .. Len(c) /\ (i + 1) + m = (i + m) + 1 /\ i + m < Len(d)
      <4> DEFINE n == Len(c)
                 l == Len(d)
      <4>1. n \in Nat /\ l \in Nat /\ i \in Nat /\ i >= 2 /\ m \in Nat /\ i < n /\ l >= n + m
        BY <1>1, <3>2
      <4> HIDE DEF n, l
      <4>2. i + 1 \in 2 .. n /\ (i + 1) + m = (i + m) + 1 /\ i + m < l
        BY ONLY <4>1
      <4> QED
        BY <4>2 DEF n, l
    <3>4. d[(i + m) + 1] = c[i + 1]
      BY <3>3
    <3> QED
      BY <2>2, <3>2, <3>3, <3>4 DEF GetArg
  <2> QED
    BY <2>1, <2>2
<1> QED
  BY <1>2, <1>3

\* A line with a trailer is good.
LEMMA AppendedGood ==
  ASSUME NEW c, Good(c), NEW t, Trailer(t)
  PROVE  LET d == Argv(c \o t) IN
         Good(d) /\ CarriedOver(c, d, 0)
<1> DEFINE d == Argv(c \o t)
           n == Len(c)
<1>1. /\ n \in Nat /\ n >= 1 /\ DOMAIN c = 1 .. n
      /\ \A i \in DOMAIN c :
              /\ c[i] \in Word /\ c[i] # Opt("--")
              /\ IsOption(c[i]) /\ IsDiscrete(c[i]) /\ c[i].opt \in LdOptsWithArg
                   => i < Len(c) /\ ~IsOption(c[i + 1])
  BY GoodIs
<1>2. t \in Seq(Word) /\ DOMAIN t = 1 .. Len(t)
  <2> HIDE DEF Word
  <2> QED
    BY DEF Trailer
<1>3. /\ d \in Seq(Word) /\ Len(d) = n + Len(t) /\ Len(t) \in Nat
      /\ d[1] = Exe
      /\ \A i \in 2 .. Len(c) : d[i] = c[i]
      /\ \A k \in 1 .. Len(t) : d[n + k] = t[k]
  BY <1>2, AppendedWords
<1> HIDE DEF d
<1>4. CarriedOver(c, d, 0)
  <2>1. Len(d) >= Len(c) + 0 /\ \A i \in 2 .. Len(c) : d[i + 0] = c[i]
    BY <1>1, <1>3
  <2> QED
    BY <1>3, <2>1, WordsCarriedOver
<1>5. DOMAIN d = 1 .. Len(d) /\ Len(d) \in Nat /\ d # <<>>
  <2> HIDE DEF Word
  <2>1. DOMAIN d = 1 .. Len(d) /\ Len(d) \in Nat
    BY <1>3
  <2> QED
    BY <1>1, <1>3, <2>1
<1>6. ~IsOption(d[1]) /\ d[1] # Opt("--")
  <2>1. IsOption(Opt("--")) /\ ~IsOption(Exe)
    BY ExeAssumption DEF Opt, IsOption
  <2> QED
    BY <1>3, <2>1
<1>7. ASSUME NEW k \in 1 .. Len(t)
      PROVE  /\ t[k] # Opt("--")
             /\ IsOption(t[k]) => k < Len(t) /\ ~IsOption(t[k + 1])
  <2>1. CASE k % 2 = 1
    <3>1. k < Len(t) /\ t[k] \in {Opt("-z"), Opt("--wrap")}
      BY <1>2, <2>1 DEF Trailer
    <3>2. k + 1 \in DOMAIN t /\ ~((k + 1) % 2 = 1)
      <4>1. k \in Nat /\ k + 1 \in 1 .. Len(t)
        BY <1>3, <3>1
      <4>2. ~((k + 1) % 2 = 1)
        BY <2>1, <4>1
      <4> QED
        BY <1>2, <4>1, <4>2
    <3>3. t[k + 1] = Plain(t[k + 1].arg)
      BY <3>2 DEF Trailer
    <3>4. ~IsOption(Plain(t[k + 1].arg))
      BY DEF Plain, IsOption
    <3>5. Opt("-z") # Opt("--") /\ Opt("--wrap") # Opt("--")
      BY DEF Opt
    <3> QED
      BY <3>1, <3>3, <3>4, <3>5
  <2>2. CASE ~(k % 2 = 1)
    <3>1. t[k] = Plain(t[k].arg)
      BY <1>2, <2>2 DEF Trailer
    <3>2. Plain(t[k].arg).opt = "" /\ Opt("--").opt # ""
      BY DEF Plain, Opt
    <3> QED
      BY <3>1, <3>2 DEF IsOption
  <2> QED
    BY <2>1, <2>2
<1>8. ASSUME NEW i \in DOMAIN d
      PROVE  /\ d[i] # Opt("--")
             /\ IsOption(d[i]) /\ IsDiscrete(d[i]) /\ d[i].opt \in LdOptsWithArg
                  => i < Len(d) /\ ~IsOption(d[i + 1])
  <2>1. i \in 1 .. n + Len(t)
    BY <1>3, <1>5
  <2>2. CASE i = 1
    BY <1>6, <2>2
  <2>3. CASE i \in 2 .. n
    <3>1. d[i] = c[i] /\ i \in DOMAIN c /\ i <= n
      BY <1>1, <1>3, <2>3
    <3>2. i < n => i + 1 \in 2 .. Len(c) /\ i < Len(d)
      BY <1>1, <1>3, <2>3
    <3>3. i < n => d[i + 1] = c[i + 1]
      BY <1>3, <3>2
    <3> QED
      BY <1>1, <3>1, <3>2, <3>3
  <2>4. CASE i > n
    <3>1. i - n \in 1 .. Len(t) /\ n + (i - n) = i
      BY <1>1, <1>3, <2>1, <2>4
    <3>2. d[i] = t[i - n]
      BY <1>3, <3>1
    <3>3. i - n < Len(t) => /\ (i - n) + 1 \in 1 .. Len(t) /\ n + ((i - n) + 1) = i + 1
                            /\ i < Len(d)
      BY <1>1, <1>3, <2>1, <3>1
    <3>4. i - n < Len(t) => d[i + 1] = t[(i - n) + 1]
      BY <1>3, <3>3
    <3> QED
      BY <1>7, <3>1, <3>2, <3>3, <3>4
  <2>5. i = 1 \/ i \in 2 .. n \/ i > n
    BY <1>1, <2>1
  <2> QED
    BY <2>2, <2>3, <2>4, <2>5
<1>9. WellFormed(d)
  BY <1>5, <1>6, <1>8 DEF WellFormed
<1>10. Good(d)
  BY <1>3, <1>8, <1>9 DEF Good, ToSet
<1> QED
  BY <1>4, <1>10 DEF d

\* So is a line with a descriptor in the second place.
LEMMA InsertedGood ==
  ASSUME NEW c, Good(c), NEW n \in Nat
  PROVE  LET d == Argv(InsertAt(c, 2, FdPath(n))) IN
         Good(d) /\ CarriedOver(c, d, 1)
<1> DEFINE w == FdPath(n)
           d == Argv(InsertAt(c, 2, w))
<1>1. /\ Len(c) \in Nat /\ Len(c) >= 1 /\ DOMAIN c = 1 .. Len(c)
      /\ \A i \in DOMAIN c :
              /\ c[i] \in Word /\ c[i] # Opt("--")
              /\ IsOption(c[i]) /\ IsDiscrete(c[i]) /\ c[i].opt \in LdOptsWithArg
                   => i < Len(c) /\ ~IsOption(c[i + 1])
  BY GoodIs
<1>2. w \in Word /\ ~IsOption(w) /\ w # Opt("--")
  BY StringsAssumption DEF FdPath, Word, IsOption, Opt
<1> HIDE DEF w
<1>3. /\ d \in Seq(Word) /\ Len(d) = Len(c) + 1 /\ d[1] = Exe /\ d[2] = w
      /\ \A i \in 2 .. Len(c) : d[i + 1] = c[i]
  BY <1>2, InsertedWords
<1> HIDE DEF d
<1>4. CarriedOver(c, d, 1)
  <2>1. Len(d) >= Len(c) + 1
    BY <1>1, <1>3
  <2> QED
    BY <1>3, <2>1, WordsCarriedOver
<1>5. DOMAIN d = 1 .. Len(d) /\ Len(d) \in Nat /\ d # <<>>
  <2> HIDE DEF Word
  <2>1. DOMAIN d = 1 .. Len(d) /\ Len(d) \in Nat
    BY <1>3
  <2> QED
    BY <1>1, <1>3, <2>1
<1>6. ~IsOption(d[1]) /\ d[1] # Opt("--")
  <2>1. IsOption(Opt("--")) /\ ~IsOption(Exe)
    BY ExeAssumption DEF Opt, IsOption
  <2> QED
    BY <1>3, <2>1
<1>7. ASSUME NEW i \in DOMAIN d
      PROVE  /\ d[i] # Opt("--")
             /\ IsOption(d[i]) /\ IsDiscrete(d[i]) /\ d[i].opt \in LdOptsWithArg
                  => i < Len(d) /\ ~IsOption(d[i + 1])
  <2>1. CASE i = 1
    BY <1>6, <2>1
  <2>2. CASE i = 2
    BY <1>2, <1>3, <2>2
  <2>3. CASE i - 1 \in 2 .. Len(c)
    <3>1. d[i] = c[i - 1] /\ i - 1 \in DOMAIN c
      <4>1. (i - 1) + 1 = i
        BY <1>5
      <4> QED
        BY <1>1, <1>3, <2>3, <4>1
    <3>2. i - 1 < Len(c) => i \in 2 .. Len(c) /\ i < Len(d) /\ (i - 1) + 1 = i
      BY <1>1, <1>3, <1>5, <2>3
    <3>3. i - 1 < Len(c) => d[i + 1] = c[(i - 1) + 1]
      BY <1>3, <3>2
    <3> QED
      BY <1>1, <3>1, <3>2, <3>3
  <2>4. i = 1 \/ i = 2 \/ i - 1 \in 2 .. Len(c)
    BY <1>1, <1>3, <1>5
  <2> QED
    BY <2>1, <2>2, <2>3, <2>4
<1>8. WellFormed(d)
  BY <1>5, <1>6, <1>7 DEF WellFormed
<1>9. Good(d)
  BY <1>3, <1>7, <1>8 DEF Good, ToSet
<1> QED
  BY <1>4, <1>9 DEF d, w

\* What is appended adds no files.
LEMMA AppendedFiles ==
  ASSUME NEW c, Good(c), NEW t, Trailer(t)
  PROVE  InputFiles(Argv(c \o t)) = InputFiles(c)
<1> DEFINE d == Argv(c \o t)
           n == Len(c)
           F == Scanned(c)[n].files
           Fine(k) == Scanned(d)[n + k].files = F /\ (Scanned(d)[n + k].skip <=> k % 2 = 1)
<1>1. Good(d) /\ CarriedOver(c, d, 0)
  BY AppendedGood
<1>2. t \in Seq(Word) /\ DOMAIN t = 1 .. Len(t) /\ Len(t) \in Nat
  <2> HIDE DEF Word
  <2> QED
    BY DEF Trailer
<1>3. /\ d \in Seq(Word) /\ Len(d) = n + Len(t)
      /\ \A k \in 1 .. Len(t) : d[n + k] = t[k]
  BY <1>2, AppendedWords
<1>4. /\ n \in Nat /\ n >= 1 /\ DOMAIN c = 1 .. n /\ c \in Seq(Word)
      /\ \A i \in DOMAIN c :
              IsOption(c[i]) /\ IsDiscrete(c[i]) /\ c[i].opt \in LdOptsWithArg => i < Len(c)
  BY GoodIs
<1> HIDE DEF d
<1>5. DOMAIN d = 1 .. n + Len(t)
  BY <1>1, <1>3, GoodIs
<1>6. 1 \in DOMAIN c /\ n \in DOMAIN c /\ 1 \in DOMAIN d
  BY <1>2, <1>4, <1>5
<1>7. \A st \in ScanState : Behind(<<>>, st) = st
  <2> SUFFICES ASSUME NEW st \in ScanState PROVE Behind(<<>>, st) = st
    OBVIOUS
  <2>1. <<>> \o st.files = st.files
    <3>1. st.files \in Seq(Word)
      BY DEF ScanState
    <3> HIDE DEF Word
    <3> QED
      BY <3>1, ConcatEmptySeq
  <2> QED
    BY <2>1 DEF Behind, ScanState
<1>8. Scanned(d)[n] = Scanned(c)[n] /\ Scanned(c)[n] \in ScanState
  <2>1. Scanned(d)[1] = Scanned(c)[1]
    <3>1. /\ Scanned(c)[1] = [Start EXCEPT !.skip = FALSE]
          /\ Scanned(d)[1] = [Start EXCEPT !.skip = FALSE]
      BY <1>1, <1>6, GoodRound
    <3> QED
      BY <3>1
  <2>2. \A i \in DOMAIN c : Scanned(c)[i] \in ScanState
    BY GoodRound
  <2>3. Scanned(d)[1 + 0] = Behind(<<>>, Scanned(c)[1])
    BY <1>6, <1>7, <2>1, <2>2
  <2>4. <<>> \in Seq(Word)
    OBVIOUS
  <2>5. \A i \in 1 .. n : Scanned(d)[i + 0] = Behind(<<>>, Scanned(c)[i])
    <3>1. 0 \in Nat
      OBVIOUS
    <3> QED
      BY <1>1, <2>3, <2>4, <3>1, ScanCarriedOver
  <2>6. n + 0 = n /\ n \in 1 .. n
    BY <1>4
  <2> QED
    BY <1>6, <1>7, <2>2, <2>5, <2>6
<1>9. Fine(0)
  <2>1. ~Scanned(c)[n].skip
    <3>1. Scanned(c)[n].skip => IsOption(c[n]) /\ IsDiscrete(c[n]) /\ c[n].opt \in OptsWithArg
      BY <1>6, GoodRound
    <3>2. ~(n < n)
      BY <1>4
    <3> QED
      BY <1>4, <1>6, <3>1, <3>2 DEF LdOptsWithArg
  <2>2. n + 0 = n /\ ~(0 % 2 = 1)
    BY <1>4
  <2> QED
    BY <1>8, <2>1, <2>2
<1> HIDE DEF F
<1>10. ASSUME NEW k \in 0 .. Len(t) - 1, Fine(k) PROVE Fine(k + 1)
  <2> DEFINE j == n + (k + 1)
             st == Scanned(d)[j - 1]
  <2>1. j \in DOMAIN d /\ j - 1 = n + k /\ k \in Nat /\ k + 1 \in 1 .. Len(t)
    BY <1>2, <1>4, <1>5
  <2>2. d[j] = t[k + 1] /\ d[j] \in Word
    <3>1. d[j] = t[k + 1]
      BY <1>3, <2>1
    <3>2. \A i \in DOMAIN d : d[i] \in Word
      BY <1>1, GoodIs
    <3> QED
      BY <2>1, <3>1, <3>2
  <2>3. st.files = F /\ (st.skip <=> k % 2 = 1)
    BY <1>10, <2>1
  <2>4. /\ st \in ScanState /\ Scanned(d)[j] \in ScanState
        /\ Scanned(d)[j] = IF st.skip THEN [st EXCEPT !.skip = FALSE]
                           ELSE IF ~IsOption(d[j]) THEN [st EXCEPT !.files = Append(@, d[j])]
                           ELSE AnOption(st, d, j)
    BY <1>1, <2>1, GoodRound
  <2> SUFFICES Scanned(d)[j].files = F /\ (Scanned(d)[j].skip <=> (k + 1) % 2 = 1)
    OBVIOUS
  <2> HIDE DEF j, st
  <2>5. CASE k % 2 = 1
    <3>1. ~((k + 1) % 2 = 1)
      BY <2>1, <2>5
    <3>2. Scanned(d)[j] = [st EXCEPT !.skip = FALSE]
      BY <2>3, <2>4, <2>5
    <3>3. Scanned(d)[j].files = F /\ ~Scanned(d)[j].skip
      BY <2>3, <2>4, <3>2 DEF ScanState
    <3> QED
      BY <3>1, <3>3
  <2>6. CASE ~(k % 2 = 1)
    <3>1. (k + 1) % 2 = 1
      BY <2>1, <2>6
    <3>2. d[j] \in {Opt("-z"), Opt("--wrap")}
      BY <1>2, <2>1, <2>2, <3>1 DEF Trailer
    <3>3. /\ IsOption(d[j]) /\ IsDiscrete(d[j]) /\ d[j].opt \in OptsWithArg
          /\ d[j].opt # "-l"
      <4>1. ASSUME NEW o \in {"-z", "--wrap"}, d[j] = Opt(o)
            PROVE  /\ IsOption(d[j]) /\ IsDiscrete(d[j]) /\ d[j].opt \in OptsWithArg
                   /\ d[j].opt # "-l"
        <5>1. Opt(o).opt = o /\ Opt(o).arg = ""
          BY DEF Opt
        <5>2. o # "" /\ o \in OptsWithArg /\ o # "-l"
          BY <4>1 DEF OptsWithArg
        <5>3. d[j].opt = o /\ d[j].arg = ""
          BY <4>1, <5>1, Zenon
        <5> QED
          BY <5>2, <5>3, Zenon DEF IsOption, IsDiscrete
      <4> QED
        BY <3>2, <4>1
    <3>4. Scanned(d)[j] = AnOption(st, d, j)
      BY <2>3, <2>4, <2>6, <3>3
    <3>5. LibAt(st, d, j) = <<>>
      BY <3>3 DEF LibAt
    <3>6. SkipAt(st, d, j)
      BY <3>3, <3>5 DEF SkipAt
    <3>7. AnOption(st, d, j) = OptionMade(st, d, j) /\ (AnOption(st, d, j).skip <=> SkipAt(st, d, j))
      BY <1>3, <2>1, <2>4, AnOptionIs
    <3>8. PathsAt(st, d, j) = <<>>
      BY <3>5 DEF PathsAt
    <3>9. st.files \o PathsAt(st, d, j) = st.files
      <4>1. st.files \in Seq(Word)
        BY <2>4 DEF ScanState
      <4> HIDE DEF Word
      <4> QED
        BY <3>8, <4>1, ConcatEmptySeq
    <3>10. OptionMade(st, d, j).files = st.files
      BY <2>4, <3>9 DEF OptionMade, ScanState
    <3> QED
      BY <2>3, <3>1, <3>4, <3>6, <3>7, <3>10
  <2> QED
    BY <2>5, <2>6
<1> HIDE DEF Fine
<1>11. \A k \in 0 .. Len(t) : Fine(k)
  <2> DEFINE Bad == {k \in 0 .. Len(t) : ~Fine(k)}
  <2>1. Bad \subseteq 0 .. Len(t) /\ 0 \notin Bad
    BY <1>9
  <2>2. ASSUME NEW k \in 1 .. Len(t), k \in Bad PROVE k - 1 \in Bad
    <3>1. k - 1 \in 0 .. Len(t) - 1 /\ k - 1 \in 0 .. Len(t) /\ (k - 1) + 1 = k
      BY <1>2
    <3>2. ~Fine(k)
      BY <2>2
    <3>3. ~Fine(k - 1)
      BY <1>10, <3>1, <3>2
    <3> QED
      BY <3>1, <3>3
  <2> HIDE DEF Bad
  <2>3. Bad = {}
    BY <1>2, <2>1, <2>2, NoFirst
  <2> QED
    BY <2>3 DEF Bad
<1>12. Fine(Len(t))
  BY <1>2, <1>11
<1> QED
  BY <1>3, <1>12 DEF Fine, InputFiles, EnumerateInputFiles, d, F

\* A descriptor in the second place comes before all files.
LEMMA InsertedFiles ==
  ASSUME NEW c, Good(c), NEW n \in Nat
  PROVE  InputFiles(Argv(InsertAt(c, 2, FdPath(n)))) = <<FdPath(n)>> \o InputFiles(c)
<1> DEFINE w == FdPath(n)
           d == Argv(InsertAt(c, 2, w))
<1>1. Good(d) /\ CarriedOver(c, d, 1)
  BY InsertedGood
<1>2. w \in Word /\ ~IsOption(w) /\ <<w>> \in Seq(Word)
  <2>1. w \in Word /\ ~IsOption(w)
    BY StringsAssumption DEF FdPath, Word, IsOption, Opt
  <2> HIDE DEF Word, w
  <2> QED
    BY <2>1
<1>3. Len(c) \in Nat /\ Len(c) >= 1 /\ DOMAIN c = 1 .. Len(c)
  BY GoodIs
<1> HIDE DEF w
<1>4. Len(d) = Len(c) + 1 /\ d[2] = w
  BY <1>2, InsertedWords
<1> HIDE DEF d
<1>5. 1 \in DOMAIN c /\ Len(c) \in 1 .. Len(c) /\ 1 \in DOMAIN d /\ 2 \in DOMAIN d
  BY <1>1, <1>3, <1>4, GoodIs
<1>6. /\ Scanned(c)[1] = [Start EXCEPT !.skip = FALSE]
      /\ Scanned(d)[1] = [Start EXCEPT !.skip = FALSE]
  BY <1>1, <1>5, GoodRound
<1>7. Scanned(d)[2] = Behind(<<w>>, Scanned(c)[1])
  <2> DEFINE st == [Start EXCEPT !.skip = FALSE]
  <2>1. 2 - 1 = 1
    OBVIOUS
  <2>2. Scanned(d)[2] = IF st.skip THEN [st EXCEPT !.skip = FALSE]
                        ELSE IF ~IsOption(d[2]) THEN [st EXCEPT !.files = Append(@, d[2])]
                        ELSE AnOption(st, d, 2)
    <3>1. Scanned(d)[2 - 1] = st
      BY <1>6, <2>1
    <3> HIDE DEF st
    <3> QED
      BY <1>1, <1>5, <3>1, GoodRound
  <2>3. ~st.skip
    BY DEF Start
  <2>4. st.files = <<>>
    BY DEF Start
  <2>5. Append(<<>>, w) = <<w>> \o <<>>
    <3> HIDE DEF Word
    <3>1. <<w>> \o <<>> = <<w>> /\ <<>> \in Seq(Word)
      BY <1>2, ConcatEmptySeq
    <3> QED
      BY <3>1
  <2> HIDE DEF st
  <2>6. Scanned(d)[2] = [st EXCEPT !.files = <<w>> \o st.files]
    BY <1>2, <1>4, <2>2, <2>3, <2>4, <2>5
  <2> QED
    BY <1>6, <2>6 DEF Behind, st
<1>8. \A i \in 1 .. Len(c) : Scanned(d)[i + 1] = Behind(<<w>>, Scanned(c)[i])
  <2>1. 1 + 1 = 2 /\ 1 \in Nat
    OBVIOUS
  <2>2. Scanned(d)[1 + 1] = Behind(<<w>>, Scanned(c)[1])
    BY <1>7, <2>1
  <2> QED
    BY <1>1, <1>2, <2>1, <2>2, ScanCarriedOver
<1>9. Scanned(d)[Len(d)] = Behind(<<w>>, Scanned(c)[Len(c)])
  BY <1>4, <1>5, <1>8
<1>10. Scanned(c)[Len(c)] \in ScanState
  BY <1>3, <1>5, GoodRound
<1>11. Behind(<<w>>, Scanned(c)[Len(c)]).files = <<w>> \o Scanned(c)[Len(c)].files
  BY <1>2, <1>10, BehindIs
<1> QED
  BY <1>9, <1>11 DEF InputFiles, EnumerateInputFiles, d, w

\* What the plugin reads off a line is there when its words are carried over.
LEMMA CarriedReadings ==
  ASSUME NEW c, Good(c), NEW d \in Seq(Word), NEW m \in Nat, CarriedOver(c, d, m)
  PROVE  /\ Options(c) \subseteq Options(d)
         /\ CmdlineWrapped(c) \subseteq CmdlineWrapped(d)
         /\ HasSubseq(c, Muldefs) => HasSubseq(d, Muldefs)
<1>1. /\ Len(c) \in Nat /\ Len(c) >= 1 /\ DOMAIN c = 1 .. Len(c) /\ ~IsOption(c[1])
      /\ Len(d) \in Nat /\ DOMAIN d = 1 .. Len(d)
  <2>1. Len(d) \in Nat /\ DOMAIN d = 1 .. Len(d)
    <3> HIDE DEF Word
    <3> QED
      OBVIOUS
  <2> QED
    BY <2>1, GoodIs
<1>2. ASSUME NEW i \in DOMAIN c, IsOption(c[i])
      PROVE  /\ i \in 2 .. Len(c) /\ i + m \in DOMAIN d /\ d[i + m] = c[i]
             /\ c[i].opt \in LdOptsWithArg => GetArg(d, i + m) = GetArg(c, i)
  <2>1. i \in 2 .. Len(c)
    BY <1>1, <1>2
  <2> QED
    BY <2>1 DEF CarriedOver
<1>3. ASSUME NEW x \in Options(c) PROVE x \in Options(d)
  <2>1. PICK i \in DOMAIN c : c[i].opt = "-plugin-opt" /\ x = GetArg(c, i)
    BY DEF Options
  <2>2. IsOption(c[i]) /\ c[i].opt \in LdOptsWithArg
    BY <2>1 DEF IsOption, LdOptsWithArg, OptsWithArg
  <2>3. i + m \in DOMAIN d /\ d[i + m] = c[i] /\ GetArg(d, i + m) = x
    BY <1>2, <2>1, <2>2
  <2> QED
    BY <2>1, <2>3 DEF Options
<1>4. ASSUME NEW x \in CmdlineWrapped(c) PROVE x \in CmdlineWrapped(d)
  <2>1. PICK i \in DOMAIN c : c[i] = Opt("--wrap") /\ x = GetArg(c, i)
    BY DEF CmdlineWrapped, Arguments
  <2>2. IsOption(c[i]) /\ c[i].opt \in LdOptsWithArg
    <3>1. Opt("--wrap").opt = "--wrap"
      BY DEF Opt
    <3> QED
      BY <2>1, <3>1 DEF IsOption, LdOptsWithArg, OptsWithArg
  <2>3. i + m \in DOMAIN d /\ d[i + m] = c[i] /\ GetArg(d, i + m) = x
    BY <1>2, <2>1, <2>2
  <2> QED
    BY <2>1, <2>3 DEF CmdlineWrapped, Arguments
<1>5. ASSUME HasSubseq(c, Muldefs) PROVE HasSubseq(d, Muldefs)
  <2>1. Len(Muldefs) = 2 /\ DOMAIN Muldefs = 1 .. 2 /\ Muldefs[1] = Opt("-z")
    BY DEF Muldefs
  <2>2. PICK i \in 1 .. Len(c) : /\ i + Len(Muldefs) - 1 <= Len(c)
                                 /\ \A k \in DOMAIN Muldefs : c[i + k - 1] = Muldefs[k]
    BY <1>5 DEF HasSubseq
  <2>3. i + 1 <= Len(c) /\ 1 \in 1 .. 2 /\ 2 \in 1 .. 2 /\ i + 1 - 1 = i /\ i + 2 - 1 = i + 1
        /\ i \in DOMAIN c
    BY <1>1, <2>1, <2>2
  <2>4. c[i] = Opt("-z") /\ c[i + 1] = Muldefs[2]
    BY <2>1, <2>2, <2>3
  <2>5. IsOption(c[i])
    <3>1. IsOption(Opt("-z"))
      BY DEF Opt, IsOption
    <3> QED
      BY <2>4, <3>1
  <2>6. i \in 2 .. Len(c) /\ i + 1 \in 2 .. Len(c) /\ (i + 1) + m = (i + m) + 1
    BY <1>1, <1>2, <2>3, <2>5
  <2>7. /\ i + m \in DOMAIN d /\ d[i + m] = Muldefs[1]
        /\ (i + m) + 1 \in DOMAIN d /\ d[(i + m) + 1] = Muldefs[2]
    BY <2>1, <2>4, <2>6 DEF CarriedOver
  <2> DEFINE j == i + m
  <2> HIDE DEF j
  <2>8. j \in DOMAIN d /\ d[j] = Muldefs[1] /\ j + 1 \in DOMAIN d /\ d[j + 1] = Muldefs[2]
    BY <2>7 DEF j
  <2>9. j \in 1 .. Len(d) /\ j + Len(Muldefs) - 1 <= Len(d) /\ j + 1 - 1 = j /\ j + 2 - 1 = j + 1
    BY <1>1, <2>1, <2>8
  <2>10. \A k \in DOMAIN Muldefs : k = 1 \/ k = 2
    BY <2>1
  <2>11. \A k \in DOMAIN Muldefs : d[j + k - 1] = Muldefs[k]
    BY <2>8, <2>9, <2>10
  <2> QED
    BY <2>9, <2>11 DEF HasSubseq
<1> QED
  BY <1>3, <1>4, <1>5

\* A trailer gives no options to the plugin, and those of --wrap that it says.
LEMMA AppendedReadings ==
  ASSUME NEW c, Good(c), NEW t, Trailer(t)
  PROVE  LET d == Argv(c \o t) IN
         /\ Options(d) = Options(c)
         /\ CmdlineWrapped(c) \subseteq CmdlineWrapped(d)
         /\ \A k \in DOMAIN t : t[k] = Opt("--wrap") => t[k + 1].arg \in CmdlineWrapped(d)
         /\ \A x \in CmdlineWrapped(d) \ CmdlineWrapped(c) :
              \E k \in DOMAIN t : k < Len(t) /\ k % 2 = 1 /\ t[k] = Opt("--wrap") /\ x = t[k + 1].arg
<1> DEFINE d == Argv(c \o t)
           n == Len(c)
<1>1. Good(d) /\ CarriedOver(c, d, 0)
  BY AppendedGood
<1>2. t \in Seq(Word) /\ DOMAIN t = 1 .. Len(t) /\ Len(t) \in Nat
  <2> HIDE DEF Word
  <2> QED
    BY DEF Trailer
<1>3. /\ d \in Seq(Word) /\ Len(d) = n + Len(t)
      /\ d[1] = Exe
      /\ \A k \in 1 .. Len(t) : d[n + k] = t[k]
  BY <1>2, AppendedWords
<1>4. n \in Nat /\ n >= 1 /\ DOMAIN c = 1 .. n
  BY GoodIs
<1> HIDE DEF d
<1>5. DOMAIN d = 1 .. n + Len(t)
  BY <1>1, <1>3, GoodIs
<1>6. Options(c) \subseteq Options(d) /\ CmdlineWrapped(c) \subseteq CmdlineWrapped(d)
  <2>1. 0 \in Nat
    OBVIOUS
  <2> QED
    BY <1>1, <1>3, <2>1, CarriedReadings
<1>7. ASSUME NEW k \in DOMAIN t, IsOption(t[k])
      PROVE  /\ k % 2 = 1 /\ k < Len(t) /\ t[k] \in {Opt("-z"), Opt("--wrap")}
             /\ n + k \in DOMAIN d /\ d[n + k] = t[k] /\ GetArg(d, n + k) = t[k + 1].arg
  <2>1. k % 2 = 1
    <3>1. ~IsOption(Plain(t[k].arg))
      BY DEF Plain, IsOption
    <3> QED
      BY <1>7, <3>1 DEF Trailer
  <2>2. k < Len(t) /\ t[k] \in {Opt("-z"), Opt("--wrap")}
    BY <2>1 DEF Trailer
  <2>3. /\ n + k \in DOMAIN d /\ k \in 1 .. Len(t) /\ k + 1 \in 1 .. Len(t)
        /\ n + k < Len(d) /\ n + (k + 1) = (n + k) + 1
    BY <1>2, <1>3, <1>4, <1>5, <2>2
  <2>4. d[n + k] = t[k] /\ d[(n + k) + 1] = t[k + 1]
    BY <1>3, <2>3
  <2>5. IsDiscrete(t[k])
    <3>1. IsDiscrete(Opt("-z")) /\ IsDiscrete(Opt("--wrap"))
      BY DEF Opt, IsDiscrete
    <3> QED
      BY <2>2, <3>1
  <2>6. GetArg(d, n + k) = t[k + 1].arg
    <3> DEFINE j == n + k
    <3> HIDE DEF j
    <3>1. d[j] = t[k] /\ d[j + 1] = t[k + 1] /\ j < Len(d)
      BY <2>3, <2>4 DEF j
    <3> SUFFICES GetArg(d, j) = t[k + 1].arg
      BY DEF j
    <3> QED
      BY <2>5, <3>1 DEF GetArg
  <2> QED
    BY <2>1, <2>2, <2>3, <2>4, <2>6
<1>8. ASSUME NEW i \in DOMAIN d, IsOption(d[i])
      PROVE  \/ /\ i \in DOMAIN c /\ d[i] = c[i]
                /\ c[i].opt \in LdOptsWithArg => GetArg(d, i) = GetArg(c, i)
             \/ \E k \in DOMAIN t : i = n + k /\ d[i] = t[k]
  <2>1. i # 1
    BY <1>3, <1>8, ExeAssumption
  <2>2. i \in 2 .. n \/ i - n \in 1 .. Len(t)
    BY <1>2, <1>4, <1>5, <2>1
  <2>3. CASE i \in 2 .. n
    <3>1. i + 0 = i /\ i \in DOMAIN c
      BY <1>4, <2>3
    <3> QED
      BY <1>1, <2>3, <3>1 DEF CarriedOver
  <2>4. CASE i - n \in 1 .. Len(t)
    <3>1. n + (i - n) = i
      BY <1>4, <1>5
    <3> QED
      BY <1>2, <1>3, <2>4, <3>1
  <2> QED
    BY <2>2, <2>3, <2>4
<1>9. IsOption(Opt("--wrap")) /\ Opt("--wrap").opt = "--wrap" /\ Opt("-z").opt = "-z"
      /\ {"-plugin-opt", "--wrap"} \subseteq LdOptsWithArg
  BY DEF Opt, IsOption, LdOptsWithArg, OptsWithArg
<1>10. ASSUME NEW x \in Options(d) PROVE x \in Options(c)
  <2>1. PICK i \in DOMAIN d : d[i].opt = "-plugin-opt" /\ x = GetArg(d, i)
    BY DEF Options
  <2>2. IsOption(d[i])
    BY <2>1 DEF IsOption
  <2>3. CASE \E k \in DOMAIN t : i = n + k /\ d[i] = t[k]
    <3>1. PICK k \in DOMAIN t : i = n + k /\ d[i] = t[k]
      BY <2>3
    <3>2. t[k] \in {Opt("-z"), Opt("--wrap")}
      BY <1>7, <2>2, <3>1
    <3> QED
      BY <1>9, <2>1, <3>1, <3>2
  <2>4. CASE /\ i \in DOMAIN c /\ d[i] = c[i]
             /\ c[i].opt \in LdOptsWithArg => GetArg(d, i) = GetArg(c, i)
    BY <1>9, <2>1, <2>4 DEF Options
  <2> QED
    BY <1>8, <2>2, <2>3, <2>4
<1>11. ASSUME NEW k \in DOMAIN t, t[k] = Opt("--wrap") PROVE t[k + 1].arg \in CmdlineWrapped(d)
  BY <1>7, <1>9, <1>11 DEF CmdlineWrapped, Arguments
<1>12. ASSUME NEW x \in CmdlineWrapped(d), x \notin CmdlineWrapped(c)
       PROVE  \E k \in DOMAIN t : k < Len(t) /\ k % 2 = 1 /\ t[k] = Opt("--wrap") /\ x = t[k + 1].arg
  <2>1. PICK i \in DOMAIN d : d[i] = Opt("--wrap") /\ x = GetArg(d, i)
    BY DEF CmdlineWrapped, Arguments
  <2>2. IsOption(d[i])
    BY <1>9, <2>1
  <2>3. CASE \E k \in DOMAIN t : i = n + k /\ d[i] = t[k]
    <3>1. PICK k \in DOMAIN t : i = n + k /\ d[i] = t[k]
      BY <2>3
    <3>2. k % 2 = 1 /\ k < Len(t) /\ GetArg(d, n + k) = t[k + 1].arg
      BY <1>7, <2>2, <3>1
    <3> QED
      BY <2>1, <3>1, <3>2
  <2>4. CASE /\ i \in DOMAIN c /\ d[i] = c[i]
             /\ c[i].opt \in LdOptsWithArg => GetArg(d, i) = GetArg(c, i)
    <3>1. c[i] = Opt("--wrap") /\ x = GetArg(c, i)
      BY <1>9, <2>1, <2>4
    <3>2. x \in CmdlineWrapped(c)
      BY <2>4, <3>1 DEF CmdlineWrapped, Arguments
    <3> QED
      BY <1>12, <3>2
  <2> QED
    BY <1>8, <2>2, <2>3, <2>4
<1>13. Options(d) = Options(c)
  BY <1>6, <1>10
<1> QED
  BY <1>6, <1>11, <1>12, <1>13 DEF d

\* A descriptor in the second place gives none.
LEMMA InsertedReadings ==
  ASSUME NEW c, Good(c), NEW n \in Nat
  PROVE  LET d == Argv(InsertAt(c, 2, FdPath(n))) IN
         Options(d) = Options(c) /\ CmdlineWrapped(d) = CmdlineWrapped(c)
<1> DEFINE w == FdPath(n)
           d == Argv(InsertAt(c, 2, w))
<1>1. Good(d) /\ CarriedOver(c, d, 1)
  BY InsertedGood
<1>2. w \in Word /\ ~IsOption(w)
  BY StringsAssumption DEF FdPath, Word, IsOption, Opt
<1>3. Len(c) \in Nat /\ Len(c) >= 1 /\ DOMAIN c = 1 .. Len(c)
  BY GoodIs
<1> HIDE DEF w
<1>4. Len(d) = Len(c) + 1 /\ d[1] = Exe /\ d[2] = w /\ d \in Seq(Word)
  BY <1>2, InsertedWords
<1> HIDE DEF d
<1>5. DOMAIN d = 1 .. Len(c) + 1
  BY <1>1, <1>4, GoodIs
<1>6. Options(c) \subseteq Options(d) /\ CmdlineWrapped(c) \subseteq CmdlineWrapped(d)
  <2>1. 1 \in Nat
    OBVIOUS
  <2> QED
    BY <1>1, <1>4, <2>1, CarriedReadings
<1>7. ASSUME NEW i \in DOMAIN d, IsOption(d[i])
      PROVE  /\ i - 1 \in DOMAIN c /\ d[i] = c[i - 1]
             /\ c[i - 1].opt \in LdOptsWithArg => GetArg(d, i) = GetArg(c, i - 1)
  <2>1. i # 1 /\ i # 2
    BY <1>2, <1>4, <1>7, ExeAssumption
  <2>2. i - 1 \in 2 .. Len(c) /\ (i - 1) + 1 = i /\ i - 1 \in DOMAIN c
    BY <1>3, <1>5, <2>1
  <2> QED
    BY <1>1, <2>2 DEF CarriedOver
<1>8. IsOption(Opt("--wrap")) /\ Opt("--wrap").opt = "--wrap"
      /\ {"-plugin-opt", "--wrap"} \subseteq LdOptsWithArg
  BY DEF Opt, IsOption, LdOptsWithArg, OptsWithArg
<1>9. ASSUME NEW x \in Options(d) PROVE x \in Options(c)
  <2>1. PICK i \in DOMAIN d : d[i].opt = "-plugin-opt" /\ x = GetArg(d, i)
    BY DEF Options
  <2>2. IsOption(d[i])
    BY <2>1 DEF IsOption
  <2>3. i - 1 \in DOMAIN c /\ c[i - 1].opt = "-plugin-opt" /\ x = GetArg(c, i - 1)
    BY <1>7, <1>8, <2>1, <2>2
  <2> QED
    BY <2>3 DEF Options
<1>10. ASSUME NEW x \in CmdlineWrapped(d) PROVE x \in CmdlineWrapped(c)
  <2>1. PICK i \in DOMAIN d : d[i] = Opt("--wrap") /\ x = GetArg(d, i)
    BY DEF CmdlineWrapped, Arguments
  <2>2. i - 1 \in DOMAIN c /\ c[i - 1] = Opt("--wrap") /\ x = GetArg(c, i - 1)
    BY <1>7, <1>8, <2>1
  <2> QED
    BY <2>2 DEF CmdlineWrapped, Arguments
<1> QED
  BY <1>6, <1>9, <1>10 DEF d, w

----------------------------------------------------------------------------
\* What the files of a line define, and which symbols are to be listed.

\* Input files are words.
LEMMA InputFilesType ==
  ASSUME NEW c, Good(c)
  PROVE  InputFiles(c) \in Seq(Word)
<1>1. Len(c) \in DOMAIN c
  BY GoodIs
<1>2. Scanned(c)[Len(c)] \in ScanState
  BY <1>1, GoodRound
<1> QED
  BY <1>2 DEF InputFiles, EnumerateInputFiles, ScanState

\* The path of a descriptor names no file of the job.
LEMMA DescriptorsDefineNothing ==
  ASSUME NEW c, NEW n
  PROVE  XwrappedDefinedIn(c, FdPath(n).arg) = {}
<1>1. FdPath(n).arg = ""
  BY DEF FdPath
<1> QED
  BY <1>1, FilesAssumption DEF XwrappedDefinedIn

\* So one in front changes nothing of what the files define.
LEMMA LocalKept ==
  ASSUME NEW c, Good(c), NEW d, Good(d), Options(d) = Options(c),
         \/ InputFiles(d) = InputFiles(c)
         \/ \E n \in Nat : InputFiles(d) = <<FdPath(n)>> \o InputFiles(c)
  PROVE  /\ AllXwrappedDefined(d) = AllXwrappedDefined(c)
         /\ \A f : XwrappedDefinedIn(d, f) = XwrappedDefinedIn(c, f)
<1>1. \A f : XwrappedDefinedIn(d, f) = XwrappedDefinedIn(c, f)
  BY DEF XwrappedDefinedIn
<1>2. ASSUME NEW x \in AllXwrappedDefined(c) PROVE x \in AllXwrappedDefined(d)
  <2>1. PICK w \in ToSet(InputFiles(c)) : x \in XwrappedDefinedIn(c, w.arg)
    BY DEF AllXwrappedDefined
  <2>2. w \in ToSet(InputFiles(d))
    <3>1. CASE InputFiles(d) = InputFiles(c)
      BY <3>1
    <3>2. CASE \E n \in Nat : InputFiles(d) = <<FdPath(n)>> \o InputFiles(c)
      <4>1. PICK n \in Nat : InputFiles(d) = <<FdPath(n)>> \o InputFiles(c)
        BY <3>2
      <4>2. FdPath(n) \in Word
        BY StringsAssumption DEF FdPath, Word
      <4>3. InputFiles(c) \in Seq(Word)
        BY InputFilesType
      <4> DEFINE s == InputFiles(c)
                 e == InputFiles(d)
                 v == FdPath(n)
      <4> HIDE DEF s, e, v, Word
      <4>4. PICK i \in DOMAIN s : s[i] = w
        BY DEF ToSet, s
      <4>5. v \in Word /\ s \in Seq(Word) /\ e = <<v>> \o s
        BY <4>1, <4>2, <4>3 DEF s, e, v
      <4>6. i + 1 \in DOMAIN e /\ e[i + 1] = s[i]
        BY <4>5
      <4> QED
        BY <4>4, <4>6 DEF ToSet, e
    <3> QED
      BY <3>1, <3>2
  <2> QED
    BY <1>1, <2>1, <2>2 DEF AllXwrappedDefined
<1>3. ASSUME NEW x \in AllXwrappedDefined(d) PROVE x \in AllXwrappedDefined(c)
  <2>1. PICK w \in ToSet(InputFiles(d)) : x \in XwrappedDefinedIn(d, w.arg)
    BY DEF AllXwrappedDefined
  <2>2. w \in ToSet(InputFiles(c))
    <3>1. CASE InputFiles(d) = InputFiles(c)
      BY <3>1
    <3>2. CASE \E n \in Nat : InputFiles(d) = <<FdPath(n)>> \o InputFiles(c)
      <4>1. PICK n \in Nat : InputFiles(d) = <<FdPath(n)>> \o InputFiles(c)
        BY <3>2
      <4>2. FdPath(n) \in Word
        BY StringsAssumption DEF FdPath, Word
      <4>3. InputFiles(c) \in Seq(Word)
        BY InputFilesType
      <4>4. w # FdPath(n)
        BY <2>1, DescriptorsDefineNothing
      <4> DEFINE s == InputFiles(c)
                 e == InputFiles(d)
                 v == FdPath(n)
      <4> HIDE DEF s, e, v, Word
      <4>5. PICK i \in DOMAIN e : e[i] = w
        BY DEF ToSet, e
      <4>6. v \in Word /\ s \in Seq(Word) /\ e = <<v>> \o s /\ w # v
        BY <4>1, <4>2, <4>3, <4>4 DEF s, e, v
      <4>7. i - 1 \in DOMAIN s /\ e[i] = s[i - 1]
        BY <4>5, <4>6
      <4> QED
        BY <4>5, <4>7 DEF ToSet, s
    <3> QED
      BY <3>1, <3>2
  <2> QED
    BY <1>1, <2>1, <2>2 DEF AllXwrappedDefined
<1> QED
  BY <1>1, <1>2, <1>3

\* The symbols to wrap are finitely many strings, and only these are looked for.
LEMMA OptionsFinite ==
  ASSUME NEW c, Good(c)
  PROVE  /\ IsFiniteSet(Options(c)) /\ Options(c) \subseteq STRING
         /\ AllXwrappedDefined(c) \subseteq Options(c)
         /\ IsFiniteSet(MissingWraps(c)) /\ MissingWraps(c) \subseteq Options(c)
<1> DEFINE S == {j \in DOMAIN c : c[j].opt = "-plugin-opt"}
           f == [i \in S |-> GetArg(c, i)]
<1>1. c \in Seq(Word) /\ Len(c) \in Nat /\ DOMAIN c = 1 .. Len(c)
  BY GoodIs
<1>2. IsFiniteSet(DOMAIN c)
  <2>1. 1 \in Int /\ Len(c) \in Int
    BY <1>1
  <2>2. IsFiniteSet(1 .. Len(c))
    BY <2>1, FS_Interval
  <2> QED
    BY <1>1, <2>2
<1>3. IsFiniteSet(S)
  <2>1. S \in SUBSET DOMAIN c
    OBVIOUS
  <2> HIDE DEF S
  <2> QED
    BY <1>2, <2>1, FS_Subset
<1>4. Options(c) = {GetArg(c, i) : i \in S}
  BY DEF Options
<1>5. f \in Surjection(S, Options(c))
  BY <1>4 DEF Surjection
<1> HIDE DEF f
<1>6. IsFiniteSet(Options(c))
  <2> HIDE DEF S
  <2> QED
    BY <1>3, <1>5, FS_Surjection
<1>7. Options(c) \subseteq STRING
  BY <1>1, <1>4, GetArgType
<1>8. AllXwrappedDefined(c) \subseteq Options(c)
  BY DEF AllXwrappedDefined, XwrappedDefinedIn
<1>9. MissingWraps(c) \in SUBSET Options(c)
  BY DEF MissingWraps
<1>10. IsFiniteSet(MissingWraps(c))
  BY <1>6, <1>9, FS_Subset
<1> QED
  BY <1>6, <1>7, <1>8, <1>9, <1>10

\* A finite set written as a sequence has all its members.
LEMMA ListedIs ==
  ASSUME NEW S, IsFiniteSet(S)
  PROVE  LET s == SetToSeq(S) IN
         /\ s \in [1 .. Cardinality(S) -> S] /\ Cardinality(S) \in Nat
         /\ Len(s) = Cardinality(S)
         /\ \A x \in S : \E k \in 1 .. Cardinality(S) : s[k] = x
<1> DEFINE n == Cardinality(S)
           s == SetToSeq(S)
<1>1. n \in Nat /\ ExistsBijection(1 .. n, S)
  BY FS_CardinalityType
<1>2. PICK g : g \in [1 .. n -> S] /\ IsInjective(g)
  BY <1>1 DEF ExistsBijection, Bijection, Injection, IsInjective
<1>3. s \in [1 .. n -> S] /\ IsInjective(s)
  <2>1. s = CHOOSE f \in [1 .. n -> S] : IsInjective(f)
    BY DEF SetToSeq
  <2> HIDE DEF s
  <2> QED
    BY <1>2, <2>1
<1> HIDE DEF s
<1>4. s \in Injection(1 .. n, S)
  BY <1>3 DEF Injection, IsInjective
<1>5. IsFiniteSet(1 .. n) /\ Cardinality(1 .. n) = n
  <2>1. 1 \in Int /\ n \in Int
    BY <1>1
  <2>2. IsFiniteSet(1 .. n) /\ Cardinality(1 .. n) = IF 1 > n THEN 0 ELSE n - 1 + 1
    BY <2>1, FS_Interval
  <2> HIDE DEF n
  <2> QED
    BY <1>1, <2>2
<1>6. s \in Surjection(1 .. n, S)
  BY <1>4, <1>5, FS_Injection
<1>7. Len(s) = n
  <2> HIDE DEF n
  <2>1. DOMAIN s = 1 .. n
    BY <1>3
  <2>2. s \in Seq(S)
    BY <1>1, <1>3
  <2> QED
    BY <1>1, <2>1, <2>2
<1> QED
  BY <1>1, <1>3, <1>6, <1>7 DEF Surjection, s

\* What the wraps criterion appends is a trailer with a --wrap for each symbol.
WrapWords(c) ==
  [k \in 1 .. 2 * Len(SetToSeq(MissingWraps(c))) |->
     IF k % 2 = 1 THEN Opt("--wrap") ELSE Plain(SetToSeq(MissingWraps(c))[k \div 2])]

\* It has all that are missing, and no others.
LEMMA WrapWordsIs ==
  ASSUME NEW c, Good(c)
  PROVE  /\ WithWraps(c) = c \o WrapWords(c) /\ Trailer(WrapWords(c))
         /\ \A x \in MissingWraps(c) : \E k \in DOMAIN WrapWords(c) :
              WrapWords(c)[k] = Opt("--wrap") /\ WrapWords(c)[k + 1].arg = x
         /\ \A k \in DOMAIN WrapWords(c) :
              k < Len(WrapWords(c)) /\ k % 2 = 1 => WrapWords(c)[k + 1].arg \in MissingWraps(c)
<1> DEFINE M == MissingWraps(c)
           s == SetToSeq(M)
           n == Cardinality(M)
           t == WrapWords(c)
<1>1. IsFiniteSet(M) /\ M \subseteq STRING
  BY OptionsFinite
<1> HIDE DEF M
<1>2. /\ s \in [1 .. n -> M] /\ n \in Nat /\ Len(s) = n
      /\ \A x \in M : \E k \in 1 .. n : s[k] = x
  BY <1>1, ListedIs
<1>3. t = [k \in 1 .. 2 * Len(s) |-> IF k % 2 = 1 THEN Opt("--wrap") ELSE Plain(s[k \div 2])]
  BY DEF WrapWords, M
<1>4. WithWraps(c) = c \o t
  BY DEF WithWraps, WrapWords
<1> HIDE DEF s, n, t
<1>5. DOMAIN t = 1 .. 2 * n
  BY <1>2, <1>3
<1>6. ASSUME NEW k \in 1 .. 2 * n, ~(k % 2 = 1)
      PROVE  k \div 2 \in 1 .. n
  BY <1>2, <1>6
<1>7. ASSUME NEW k \in DOMAIN t
      PROVE  /\ t[k] \in Word
             /\ k % 2 = 1 => k < 2 * n /\ t[k] = Opt("--wrap")
             /\ ~(k % 2 = 1) => t[k] = Plain(s[k \div 2]) /\ s[k \div 2] \in M
  <2>1. k \in 1 .. 2 * n /\ k \in 1 .. 2 * Len(s)
    BY <1>2, <1>5
  <2>2. CASE k % 2 = 1
    <3>1. t[k] = Opt("--wrap")
      BY <1>3, <2>1, <2>2
    <3>2. Opt("--wrap") \in Word
      BY StringsAssumption DEF Opt, Word
    <3>3. k < 2 * n
      BY <1>2, <2>1, <2>2
    <3> QED
      BY <2>2, <3>1, <3>2, <3>3
  <2>3. CASE ~(k % 2 = 1)
    <3>1. t[k] = Plain(s[k \div 2])
      BY <1>3, <2>1, <2>3
    <3>2. s[k \div 2] \in M
      BY <1>2, <1>6, <2>1, <2>3
    <3>3. Plain(s[k \div 2]) \in Word
      BY <1>1, <3>2, StringsAssumption DEF Plain, Word
    <3> QED
      BY <2>3, <3>1, <3>2, <3>3
  <2> QED
    BY <2>2, <2>3
<1>8. t \in Seq(Word) /\ Len(t) = 2 * n
  <2>1. \A k \in 1 .. 2 * n : t[k] \in Word
    BY <1>5, <1>7
  <2> HIDE DEF Word
  <2>2. t \in [1 .. 2 * n -> Word]
    <3>1. t = [k \in 1 .. 2 * n |-> t[k]]
      BY <1>2, <1>3
    <3> QED
      BY <2>1, <3>1
  <2>3. 2 * n \in Nat
    BY <1>2
  <2>4. t \in Seq(Word)
    BY <2>2, <2>3
  <2> QED
    BY <1>5, <2>3, <2>4
<1>9. \A k \in DOMAIN t : ~(k % 2 = 1) => t[k] = Plain(t[k].arg)
  <2> SUFFICES ASSUME NEW k \in DOMAIN t, ~(k % 2 = 1) PROVE t[k] = Plain(t[k].arg)
    OBVIOUS
  <2>1. t[k] = Plain(s[k \div 2])
    BY <1>7
  <2>2. Plain(s[k \div 2]).arg = s[k \div 2]
    BY DEF Plain
  <2> QED
    BY <2>1, <2>2
<1>10. Trailer(t)
  BY <1>7, <1>8, <1>9 DEF Trailer
<1>11. ASSUME NEW x \in M PROVE \E k \in DOMAIN t : t[k] = Opt("--wrap") /\ t[k + 1].arg = x
  <2>1. PICK q \in 1 .. n : s[q] = x
    BY <1>2
  <2>2. /\ 2 * q - 1 \in 1 .. 2 * n /\ (2 * q - 1) % 2 = 1
        /\ (2 * q - 1) + 1 \in 1 .. 2 * n /\ ~(((2 * q - 1) + 1) % 2 = 1)
        /\ ((2 * q - 1) + 1) \div 2 = q
    BY <1>2
  <2>3. t[2 * q - 1] = Opt("--wrap") /\ t[(2 * q - 1) + 1] = Plain(s[q])
    BY <1>5, <1>7, <2>2
  <2>4. Plain(s[q]).arg = x
    BY <2>1 DEF Plain
  <2> QED
    BY <1>5, <2>2, <2>3, <2>4
<1>12. ASSUME NEW k \in DOMAIN t, k < Len(t), k % 2 = 1 PROVE t[k + 1].arg \in M
  <2>1. k + 1 \in DOMAIN t /\ ~((k + 1) % 2 = 1)
    BY <1>2, <1>5, <1>8, <1>12
  <2>2. t[k + 1] = Plain(s[(k + 1) \div 2]) /\ s[(k + 1) \div 2] \in M
    BY <1>7, <2>1
  <2>3. Plain(s[(k + 1) \div 2]).arg = s[(k + 1) \div 2]
    BY DEF Plain
  <2> QED
    BY <2>2, <2>3
<1> QED
  BY <1>4, <1>10, <1>11, <1>12 DEF t, M

----------------------------------------------------------------------------
\* The contract of the criteria.

\* A line of an image with descriptors open: none, or a script in front.
Fit(c, open) ==
  /\ Good(c) /\ open \in {{}, {3}}
  /\ open = {3} => Len(c) >= 2 /\ c[2] = FdPath(3)

\* A line d with files in front of those of line c, options and files the same.
SameJob(c, d, front) ==
  /\ InputFiles(d) = front \o InputFiles(c)
  /\ Options(d) = Options(c) /\ AllXwrappedDefined(d) = AllXwrappedDefined(c)
  /\ CmdlineWrapped(c) \subseteq CmdlineWrapped(d)
  /\ CmdlineWrapped(d) \subseteq CmdlineWrapped(c) \cup (Options(c) \ AllXwrappedDefined(c))

\* Nothing in front is nothing.
LEMMA NoFront ==
  ASSUME NEW c, Good(c)
  PROVE  <<>> \o InputFiles(c) = InputFiles(c)
<1>1. InputFiles(c) \in Seq(Word)
  BY InputFilesType
<1> HIDE DEF Word
<1> QED
  BY <1>1, ConcatEmptySeq

\* The first descriptor to be had is 3.
LEMMA LowestIs ==
  LowestFree({}) = 3
<1>1. Cardinality({}) = 0
  BY FS_EmptySet
<1>2. 3 .. 3 + 0 = {3} /\ 3 .. 3 - 1 = {}
  OBVIOUS
<1> QED
  BY <1>1, <1>2 DEF LowestFree

\* A trailer leaves the job as it is, and a criterion that was content remains so.
LEMMA AppendedFit ==
  ASSUME NEW c, NEW open, Fit(c, open), NEW t, Trailer(t),
         \A k \in DOMAIN t : k < Len(t) /\ k % 2 = 1 /\ t[k] = Opt("--wrap")
                               => t[k + 1].arg \in MissingWraps(c)
  PROVE  LET d == Argv(c \o t) IN
         /\ Fit(d, open) /\ d[1] = Exe /\ SameJob(c, d, <<>>)
         /\ \A k \in ToSet(Criteria) : ~Wants(k, c, open) => ~Wants(k, d, open)
<1> DEFINE d == Argv(c \o t)
<1>1. Good(c) /\ Good(d) /\ CarriedOver(c, d, 0)
  BY AppendedGood DEF Fit
<1>2. InputFiles(d) = InputFiles(c) /\ InputFiles(d) = <<>> \o InputFiles(c)
  <2>1. InputFiles(d) = InputFiles(c)
    BY <1>1, AppendedFiles
  <2> HIDE DEF d
  <2> QED
    BY <1>1, <2>1, NoFront
<1>3. /\ Options(d) = Options(c) /\ CmdlineWrapped(c) \subseteq CmdlineWrapped(d)
      /\ \A x \in CmdlineWrapped(d) \ CmdlineWrapped(c) :
           \E k \in DOMAIN t : k < Len(t) /\ k % 2 = 1 /\ t[k] = Opt("--wrap") /\ x = t[k + 1].arg
  BY <1>1, AppendedReadings
<1>4. /\ t \in Seq(Word) /\ d \in Seq(Word) /\ Len(d) = Len(c) + Len(t) /\ Len(t) \in Nat
      /\ d[1] = Exe /\ \A i \in 2 .. Len(c) : d[i] = c[i]
  BY <1>1, AppendedWords DEF Trailer
<1>5. Len(c) \in Nat
  BY <1>1, GoodIs
<1> HIDE DEF d
<1>6. AllXwrappedDefined(d) = AllXwrappedDefined(c)
  BY <1>1, <1>2, <1>3, LocalKept
<1>7. \A x \in CmdlineWrapped(d) \ CmdlineWrapped(c) : x \in MissingWraps(c)
  BY <1>3
<1>8. SameJob(c, d, <<>>)
  BY <1>2, <1>3, <1>6, <1>7 DEF SameJob, MissingWraps
<1>9. Len(c) >= 2 => Len(d) >= 2 /\ d[2] = c[2]
  <2>1. Len(c) >= 2 => 2 \in 2 .. Len(c) /\ Len(d) >= 2
    BY <1>4, <1>5
  <2> QED
    BY <1>4, <2>1
<1>10. Fit(d, open)
  BY <1>1, <1>9 DEF Fit
<1>11. HasSubseq(c, Muldefs) => HasSubseq(d, Muldefs)
  <2>1. 0 \in Nat
    OBVIOUS
  <2> QED
    BY <1>1, <1>4, <2>1, CarriedReadings
<1>12. MissingWraps(c) = {} => MissingWraps(d) = {}
  BY <1>3, <1>6 DEF MissingWraps
<1>13. HasLdscript(c, open) => HasLdscript(d, open)
  BY <1>9 DEF HasLdscript
<1>14. ASSUME NEW k \in ToSet(Criteria), ~Wants(k, c, open) PROVE ~Wants(k, d, open)
  <2>1. k \in {"muldefs", "wraps", "ldscript"}
    BY DEF ToSet, Criteria
  <2>2. CASE k = "muldefs"
    BY <1>11, <1>14, <2>2 DEF Wants
  <2>3. CASE k = "wraps"
    BY <1>12, <1>14, <2>3 DEF Wants
  <2>4. CASE k = "ldscript"
    BY <1>6, <1>13, <1>14, <2>4 DEF Wants
  <2> QED
    BY <2>1, <2>2, <2>3, <2>4
<1> QED
  BY <1>4, <1>8, <1>10, <1>14 DEF d

\* "-z muldefs" does what the muldefs criterion asks for.
LEMMA MuldefsFixes ==
  ASSUME NEW c, NEW open, Fit(c, open)
  PROVE  LET d == Argv(c \o Muldefs) IN
         /\ Fit(d, open) /\ d[1] = Exe /\ SameJob(c, d, <<>>)
         /\ HasSubseq(d, Muldefs)
         /\ \A k \in ToSet(Criteria) : ~Wants(k, c, open) => ~Wants(k, d, open)
<1> DEFINE d == Argv(c \o Muldefs)
<1>1. /\ Len(Muldefs) = 2 /\ DOMAIN Muldefs = 1 .. 2
      /\ Muldefs[1] = Opt("-z") /\ Muldefs[2] = Plain("muldefs")
  BY DEF Muldefs
<1>2. Opt("-z") \in Word /\ Plain("muldefs") \in Word /\ Plain("muldefs").arg = "muldefs"
  BY StringsAssumption DEF Opt, Plain, Word
<1>3. Opt("-z") # Opt("--wrap")
  <2>1. Opt("-z").opt = "-z" /\ Opt("--wrap").opt = "--wrap"
    BY DEF Opt
  <2> QED
    BY <2>1
<1>4. Muldefs \in Seq(Word)
  <2> HIDE DEF Word
  <2> QED
    BY <1>2 DEF Muldefs
<1>5. \A k \in 1 .. 2 : (k = 1 \/ k = 2) /\ (k % 2 = 1 <=> k = 1) /\ (k = 1 => k < 2)
  OBVIOUS
<1>6. Trailer(Muldefs)
  BY <1>1, <1>2, <1>4, <1>5 DEF Trailer
<1>7. \A k \in DOMAIN Muldefs : k < Len(Muldefs) /\ k % 2 = 1 /\ Muldefs[k] = Opt("--wrap")
                                  => Muldefs[k + 1].arg \in MissingWraps(c)
  BY <1>1, <1>3, <1>5
<1>8. /\ Fit(d, open) /\ d[1] = Exe /\ SameJob(c, d, <<>>)
      /\ \A k \in ToSet(Criteria) : ~Wants(k, c, open) => ~Wants(k, d, open)
  BY <1>6, <1>7, AppendedFit
<1>9. HasSubseq(d, Muldefs)
  <2>1. /\ Len(d) = Len(c) + 2 /\ Len(c) \in Nat
        /\ \A k \in 1 .. 2 : d[Len(c) + k] = Muldefs[k]
    <3>1. Good(c)
      BY DEF Fit
    <3>2. /\ Len(d) = Len(c) + Len(Muldefs)
          /\ \A k \in 1 .. Len(Muldefs) : d[Len(c) + k] = Muldefs[k]
      BY <1>4, <3>1, AppendedWords
    <3> HIDE DEF d
    <3> QED
      BY <1>1, <3>1, <3>2, GoodIs
  <2> HIDE DEF d
  <2> DEFINE i == Len(c) + 1
  <2>2. /\ i \in 1 .. Len(d) /\ i + Len(Muldefs) - 1 <= Len(d)
        /\ \A k \in 1 .. 2 : i + k - 1 = Len(c) + k
    BY <1>1, <2>1
  <2>3. \A k \in DOMAIN Muldefs : d[i + k - 1] = Muldefs[k]
    BY <1>1, <2>1, <2>2
  <2> QED
    BY <2>2, <2>3 DEF HasSubseq
<1> QED
  BY <1>8, <1>9 DEF d

\* The --wrap options do what the wraps criterion asks for.
LEMMA WrapsFix ==
  ASSUME NEW c, NEW open, Fit(c, open)
  PROVE  LET d == Argv(WithWraps(c)) IN
         /\ Fit(d, open) /\ d[1] = Exe /\ SameJob(c, d, <<>>)
         /\ MissingWraps(d) = {}
         /\ \A k \in ToSet(Criteria) : ~Wants(k, c, open) => ~Wants(k, d, open)
<1> DEFINE t == WrapWords(c)
           d == Argv(c \o t)
<1>1. Good(c)
  BY DEF Fit
<1>2. /\ WithWraps(c) = c \o t /\ Trailer(t)
      /\ \A x \in MissingWraps(c) : \E k \in DOMAIN t : t[k] = Opt("--wrap") /\ t[k + 1].arg = x
      /\ \A k \in DOMAIN t : k < Len(t) /\ k % 2 = 1 => t[k + 1].arg \in MissingWraps(c)
  BY <1>1, WrapWordsIs
<1> HIDE DEF t
<1>3. /\ Fit(d, open) /\ d[1] = Exe /\ SameJob(c, d, <<>>)
      /\ \A k \in ToSet(Criteria) : ~Wants(k, c, open) => ~Wants(k, d, open)
  BY <1>2, AppendedFit
<1>4. \A k \in DOMAIN t : t[k] = Opt("--wrap") => t[k + 1].arg \in CmdlineWrapped(d)
  BY <1>1, <1>2, AppendedReadings
<1> HIDE DEF d
<1>5. MissingWraps(c) \subseteq CmdlineWrapped(d)
  BY <1>2, <1>4
<1>6. MissingWraps(d) = {}
  BY <1>3, <1>5 DEF MissingWraps, SameJob
<1> QED
  BY <1>2, <1>3, <1>6 DEF d

\* The descriptor of the script does what the ldscript criterion asks for.
LEMMA ScriptFixes ==
  ASSUME NEW c, Good(c)
  PROVE  LET d == Argv(InsertAt(c, 2, FdPath(3))) IN
         /\ Fit(d, {3}) /\ d[1] = Exe /\ SameJob(c, d, <<FdPath(3)>>)
         /\ HasLdscript(d, {3})
         /\ \A k \in ToSet(Criteria) : ~Wants(k, c, {}) => ~Wants(k, d, {3})
<1> DEFINE d == Argv(InsertAt(c, 2, FdPath(3)))
<1>1. Good(d) /\ CarriedOver(c, d, 1)
  BY InsertedGood
<1>2. InputFiles(d) = <<FdPath(3)>> \o InputFiles(c)
  BY InsertedFiles
<1>3. Options(d) = Options(c) /\ CmdlineWrapped(d) = CmdlineWrapped(c)
  BY InsertedReadings
<1>4. FdPath(3) \in Word /\ FdPath(3).fd = 3
  BY StringsAssumption DEF FdPath, Word
<1>5. d \in Seq(Word) /\ Len(d) = Len(c) + 1 /\ d[1] = Exe /\ d[2] = FdPath(3)
  BY <1>4, InsertedWords
<1>6. Len(c) \in Nat /\ Len(c) >= 1
  BY GoodIs
<1> HIDE DEF d
<1>7. Len(d) >= 2
  BY <1>5, <1>6
<1>8. AllXwrappedDefined(d) = AllXwrappedDefined(c)
  BY <1>1, <1>2, <1>3, LocalKept
<1>9. Fit(d, {3})
  BY <1>1, <1>5, <1>7 DEF Fit
<1>10. SameJob(c, d, <<FdPath(3)>>)
  BY <1>2, <1>3, <1>8 DEF SameJob
<1>11. HasLdscript(d, {3})
  BY <1>4, <1>5, <1>7 DEF HasLdscript
<1>12. HasSubseq(c, Muldefs) => HasSubseq(d, Muldefs)
  <2>1. 1 \in Nat
    OBVIOUS
  <2> QED
    BY <1>1, <1>5, <2>1, CarriedReadings
<1>13. MissingWraps(d) = MissingWraps(c)
  BY <1>3, <1>8 DEF MissingWraps
<1>14. ASSUME NEW k \in ToSet(Criteria), ~Wants(k, c, {}) PROVE ~Wants(k, d, {3})
  <2>1. k \in {"muldefs", "wraps", "ldscript"}
    BY DEF ToSet, Criteria
  <2>2. CASE k = "muldefs"
    BY <1>12, <1>14, <2>2 DEF Wants
  <2>3. CASE k = "wraps"
    BY <1>13, <1>14, <2>3 DEF Wants
  <2>4. CASE k = "ldscript"
    BY <1>11, <2>4 DEF Wants
  <2> QED
    BY <2>1, <2>2, <2>3, <2>4
<1> QED
  BY <1>5, <1>9, <1>10, <1>11, <1>14 DEF d

\* The contract: what a criterion asks for is done, once and for all, and no
\* criterion asks for what another did.
LEMMA FixContract ==
  ASSUME NEW c, NEW open, Fit(c, open), NEW k \in ToSet(Criteria), Wants(k, c, open)
  PROVE  LET d == Argv(FixedUp(k, c, open))
             now == NewFds(k, open)
         IN
         /\ Fit(d, now) /\ d[1] = Exe
         /\ SameJob(c, d, IF k = "ldscript" THEN <<FdPath(3)>> ELSE <<>>)
         /\ ~Wants(k, d, now)
         /\ \A q \in ToSet(Criteria) : ~Wants(q, c, open) => ~Wants(q, d, now)
         /\ k # "ldscript" => now = open
         /\ k = "ldscript" => open = {} /\ now = {3}
<1>1. Good(c) /\ open \in {{}, {3}}
  BY DEF Fit
<1>2. k \in {"muldefs", "wraps", "ldscript"}
  BY DEF ToSet, Criteria
<1>3. CASE k = "muldefs"
  <2>1. FixedUp(k, c, open) = c \o Muldefs /\ NewFds(k, open) = open
    BY <1>3 DEF FixedUp, NewFds
  <2>2. \A d : HasSubseq(d, Muldefs) => ~Wants(k, d, open)
    BY <1>3 DEF Wants
  <2> QED
    BY <1>3, <2>1, <2>2, MuldefsFixes
<1>4. CASE k = "wraps"
  <2>1. FixedUp(k, c, open) = WithWraps(c) /\ NewFds(k, open) = open
    BY <1>4 DEF FixedUp, NewFds
  <2>2. \A d : MissingWraps(d) = {} => ~Wants(k, d, open)
    BY <1>4 DEF Wants
  <2> QED
    BY <1>4, <2>1, <2>2, WrapsFix
<1>5. CASE k = "ldscript"
  <2>1. open = {}
    <3>1. ~HasLdscript(c, open)
      BY <1>5 DEF Wants
    <3>2. FdPath(3).fd = 3
      BY DEF FdPath
    <3>3. open = {3} => HasLdscript(c, open)
      BY <3>2 DEF Fit, HasLdscript
    <3> QED
      BY <1>1, <3>1, <3>3
  <2>2. FixedUp(k, c, open) = InsertAt(c, 2, FdPath(3)) /\ NewFds(k, open) = {3}
    BY <1>5, <2>1, LowestIs DEF FixedUp, NewFds
  <2>3. \A d : HasLdscript(d, {3}) => ~Wants(k, d, {3})
    BY <1>5 DEF Wants
  <2> QED
    BY <1>1, <1>5, <2>1, <2>2, <2>3, ScriptFixes
<1> QED
  BY <1>2, <1>3, <1>4, <1>5

----------------------------------------------------------------------------
\* The files that ld links are among those that the plugin looks into.

\* What LdFiles comes to after each number of words.
LdUpto(cmd) ==
  LET upto[i \in 0 .. Len(cmd)] ==
        IF i = 0 THEN <<>>
        ELSE IF IsInputFile(cmd, i) THEN Append(upto[i - 1], cmd[i]) ELSE upto[i - 1]
  IN  upto

\* It is a list of words, which grows by the input files.
LEMMA LdUptoIs ==
  ASSUME NEW c \in Seq(Word)
  PROVE  /\ LdUpto(c) \in [0 .. Len(c) -> Seq(Word)] /\ LdUpto(c)[0] = <<>>
         /\ \A i \in DOMAIN c :
              LdUpto(c)[i] = IF IsInputFile(c, i) THEN Append(LdUpto(c)[i - 1], c[i])
                             ELSE LdUpto(c)[i - 1]
<1> DEFINE n == Len(c)
           Loop(f) == [i \in 0 .. n |->
                         IF i = 0 THEN <<>>
                         ELSE IF IsInputFile(c, i) THEN Append(f[i - 1], c[i]) ELSE f[i - 1]]
           G == [i \in 1 .. n |->
                   [s \in Seq(Word) |-> IF IsInputFile(c, i) THEN Append(s, c[i]) ELSE s]]
           L == LdUpto(c)
<1>1. n \in Nat /\ DOMAIN c = 1 .. n /\ \A i \in 1 .. n : c[i] \in Word
  <2> HIDE DEF Word
  <2> QED
    OBVIOUS
<1>2. G \in [1 .. n -> [Seq(Word) -> Seq(Word)]] /\ <<>> \in Seq(Word)
  <2> HIDE DEF Word, n
  <2>1. ASSUME NEW i \in 1 .. n, NEW s \in Seq(Word)
        PROVE  (IF IsInputFile(c, i) THEN Append(s, c[i]) ELSE s) \in Seq(Word)
    BY <1>1
  <2> QED
    BY <2>1
<1> HIDE DEF n
<1>3. PICK g : g \in [0 .. n -> Seq(Word)] /\ g[0] = <<>> /\ \A i \in 1 .. n : g[i] = G[i][g[i - 1]]
  <2>1. \E g : Makes(g, n, Seq(Word), <<>>, G)
    <3> HIDE DEF G, Word
    <3> QED
      BY <1>1, <1>2, RecursionExists
  <2> HIDE DEF G, Word
  <2> QED
    BY <2>1 DEF Makes
<1>4. ASSUME NEW i \in 1 .. n
      PROVE  /\ g[i] = IF IsInputFile(c, i) THEN Append(g[i - 1], c[i]) ELSE g[i - 1]
             /\ i \in 0 .. n /\ i # 0 /\ i - 1 \in 0 .. n
  <2>1. i \in 0 .. n /\ i # 0 /\ i - 1 \in 0 .. n
    BY <1>1
  <2>2. g[i - 1] \in Seq(Word)
    BY <1>3, <2>1
  <2>3. g[i] = G[i][g[i - 1]]
    BY <1>3
  <2> HIDE DEF Word
  <2> QED
    BY <2>1, <2>2, <2>3
<1> HIDE DEF G
<1>5. g = Loop(g)
  <2>1. ASSUME NEW i \in 0 .. n
        PROVE  g[i] = IF i = 0 THEN <<>>
                      ELSE IF IsInputFile(c, i) THEN Append(g[i - 1], c[i]) ELSE g[i - 1]
    <3>1. i # 0 => i \in 1 .. n
      BY <1>1
    <3> QED
      BY <1>3, <1>4, <3>1
  <2> HIDE DEF Word
  <2> QED
    BY <1>3, <2>1
<1>6. L = CHOOSE f : f = Loop(f)
  BY DEF LdUpto, n
<1>7. L = Loop(L)
  <2> HIDE DEF Loop, L
  <2> QED
    BY <1>5, <1>6
<1> HIDE DEF L
<1>8. /\ L[0] = <<>> /\ DOMAIN L = 0 .. n
      /\ \A i \in 1 .. n : L[i] = IF IsInputFile(c, i) THEN Append(L[i - 1], c[i]) ELSE L[i - 1]
  <2>1. 0 \in 0 .. n /\ \A i \in 1 .. n : i \in 0 .. n /\ i # 0
    BY <1>1
  <2> QED
    BY <1>7, <2>1
<1>9. \A i \in 0 .. n : L[i] = g[i]
  <2> DEFINE Bad == {i \in 0 .. n : L[i] # g[i]}
  <2>1. Bad \subseteq 0 .. n /\ 0 \notin Bad
    BY <1>3, <1>8
  <2>2. ASSUME NEW i \in 1 .. n, i \in Bad PROVE i - 1 \in Bad
    BY <1>4, <1>8, <2>2
  <2> HIDE DEF Bad
  <2>3. Bad = {}
    BY <1>1, <2>1, <2>2, NoFirst
  <2> QED
    BY <2>3 DEF Bad
<1>10. L \in [0 .. n -> Seq(Word)]
  <2>1. L = [i \in 0 .. n |-> L[i]]
    BY <1>7
  <2> HIDE DEF Word
  <2> QED
    BY <1>3, <1>9, <2>1
<1> QED
  BY <1>1, <1>8, <1>10 DEF n, L

\* So every file that ld links is an input file to the plugin.
LEMMA LdFilesAreInputs ==
  ASSUME NEW c, Good(c)
  PROVE  /\ LdFiles(c) \in Seq(Word)
         /\ \A k \in DOMAIN LdFiles(c) : LdFiles(c)[k] \in ToSet(InputFiles(c))
<1> DEFINE n == Len(c)
           L == LdUpto(c)
           F(i) == Scanned(c)[i].files
           In(i) == \A k \in DOMAIN L[i] : \E q \in DOMAIN F(i) : L[i][k] = F(i)[q]
<1>1. /\ c \in Seq(Word) /\ n \in Nat /\ n >= 1 /\ DOMAIN c = 1 .. n
      /\ \A i \in DOMAIN c : c[i] \in Word
  BY GoodIs
<1>2. /\ L \in [0 .. n -> Seq(Word)] /\ L[0] = <<>>
      /\ \A i \in DOMAIN c : L[i] = IF IsInputFile(c, i) THEN Append(L[i - 1], c[i]) ELSE L[i - 1]
  BY <1>1, LdUptoIs
<1>3. LdFiles(c) = L[n]
  BY DEF LdFiles, LdUpto
<1> HIDE DEF L
<1>4. In(0)
  BY <1>2
<1>5. ASSUME NEW i \in 1 .. n, In(i - 1) PROVE In(i)
  <2> DEFINE st == Scanned(c)[i - 1]
  <2>1. i - 1 \in 0 .. n /\ i \in DOMAIN c
    BY <1>1
  <2>2. /\ st \in ScanState
        /\ Scanned(c)[i] = IF st.skip THEN [st EXCEPT !.skip = FALSE]
                           ELSE IF ~IsOption(c[i]) THEN [st EXCEPT !.files = Append(@, c[i])]
                           ELSE AnOption(st, c, i)
    BY <2>1, GoodRound
  <2>3. IsInputFile(c, i) => ~st.skip /\ ~IsOption(c[i])
    <3> SUFFICES ASSUME IsInputFile(c, i), st.skip PROVE FALSE
      BY DEF IsInputFile
    <3>1. i > 1 /\ ~IsArgument(c, i)
      BY DEF IsInputFile
    <3>2. i - 1 \in DOMAIN c
      BY <1>1, <3>1
    <3>3. /\ i - 1 > 1 /\ IsOption(c[i - 1]) /\ IsDiscrete(c[i - 1])
          /\ c[i - 1].opt \in OptsWithArg
      BY <3>2, GoodRound
    <3>4. i > 2
      BY <1>1, <3>3
    <3> QED
      BY <3>1, <3>3, <3>4 DEF IsArgument, LdOptsWithArg
  <2>4. st.files \in Seq(Word) /\ L[i - 1] \in Seq(Word) /\ c[i] \in Word
    BY <1>1, <1>2, <2>1, <2>2 DEF ScanState
  <2>5. \E u \in Seq(Word) :
          F(i) = st.files \o u /\ (IsInputFile(c, i) => u = <<c[i]>>)
    <3>1. CASE st.skip
      <4>1. F(i) = st.files
        BY <2>2, <3>1 DEF ScanState
      <4>2. st.files \o <<>> = st.files /\ <<>> \in Seq(Word)
        <5> HIDE DEF Word, st
        <5> QED
          BY <2>4, ConcatEmptySeq
      <4> HIDE DEF st, F
      <4> QED
        BY <2>3, <3>1, <4>1, <4>2
    <3>2. CASE ~st.skip /\ ~IsOption(c[i])
      <4>1. F(i) = Append(st.files, c[i])
        BY <2>2, <3>2 DEF ScanState
      <4>2. Append(st.files, c[i]) = st.files \o <<c[i]>> /\ <<c[i]>> \in Seq(Word)
        <5> HIDE DEF Word, st
        <5> QED
          BY <2>4, AppendIsConcat
      <4> HIDE DEF st, F
      <4> QED
        BY <4>1, <4>2
    <3>3. CASE ~st.skip /\ IsOption(c[i])
      <4>1. Scanned(c)[i] = AnOption(st, c, i)
        BY <2>2, <3>3
      <4>2. AnOption(st, c, i) = OptionMade(st, c, i) /\ PathsAt(st, c, i) \in Seq(Word)
        BY <1>1, <2>1, <2>2, AnOptionIs
      <4>3. OptionMade(st, c, i).files = st.files \o PathsAt(st, c, i)
        BY <2>2 DEF OptionMade, ScanState
      <4>4. F(i) = st.files \o PathsAt(st, c, i)
        BY <4>1, <4>2, <4>3
      <4> HIDE DEF st, F
      <4> QED
        BY <2>3, <3>3, <4>2, <4>4
    <3> QED
      BY <3>1, <3>2, <3>3
  <2>6. PICK u \in Seq(Word) :
          F(i) = st.files \o u /\ (IsInputFile(c, i) => u = <<c[i]>>)
    BY <2>5
  <2> DEFINE s == st.files
             m == L[i - 1]
             now == F(i)
  <2>7. \A k \in DOMAIN m : \E q \in DOMAIN s : m[k] = s[q]
    BY <1>5
  <2> HIDE DEF s, m, now, Word, In
  <2>8. s \in Seq(Word) /\ m \in Seq(Word) /\ now = s \o u /\ c[i] \in Word
    BY <2>4, <2>6 DEF s, m, now
  <2>9. \A q \in DOMAIN s : q \in DOMAIN now /\ now[q] = s[q]
    BY <2>8
  <2>10. \A k \in DOMAIN L[i] : \E q \in DOMAIN now : L[i][k] = now[q]
    <3>1. CASE IsInputFile(c, i)
      <4>1. L[i] = Append(m, c[i])
        BY <1>2, <2>1, <3>1 DEF m
      <4>2. u = <<c[i]>>
        BY <2>6, <3>1
      <4>3. Len(s) + 1 \in DOMAIN now /\ now[Len(s) + 1] = c[i]
        BY <2>8, <4>2
      <4>4. \A k \in DOMAIN Append(m, c[i]) :
              (k \in DOMAIN m /\ Append(m, c[i])[k] = m[k]) \/ Append(m, c[i])[k] = c[i]
        BY <2>8
      <4> QED
        BY <2>7, <2>9, <4>1, <4>3, <4>4
    <3>2. CASE ~IsInputFile(c, i)
      <4>1. L[i] = m
        BY <1>2, <2>1, <3>2 DEF m
      <4> QED
        BY <2>7, <2>9, <4>1
    <3> QED
      BY <3>1, <3>2
  <2> QED
    BY <2>10 DEF In, now
<1> HIDE DEF In
<1>6. \A i \in 0 .. n : In(i)
  <2> DEFINE Bad == {i \in 0 .. n : ~In(i)}
  <2>1. Bad \subseteq 0 .. n /\ 0 \notin Bad
    BY <1>4
  <2>2. ASSUME NEW i \in 1 .. n, i \in Bad PROVE i - 1 \in Bad
    <3>1. i - 1 \in 0 .. n
      BY <1>1
    <3> QED
      BY <1>5, <2>2, <3>1
  <2> HIDE DEF Bad
  <2>3. Bad = {}
    BY <1>1, <2>1, <2>2, NoFirst
  <2> QED
    BY <2>3 DEF Bad
<1>7. n \in 0 .. n
  BY <1>1
<1>8. In(n) /\ L[n] \in Seq(Word)
  BY <1>2, <1>6, <1>7
<1>9. InputFiles(c) = F(n)
  BY DEF InputFiles, EnumerateInputFiles
<1> HIDE DEF F
<1> QED
  BY <1>3, <1>8, <1>9 DEF In, ToSet

----------------------------------------------------------------------------
\* Selections of files, and lists of temporaries.

\* The place of k among those of S.
Rank(S, k) == Cardinality({j \in S : j <= k})

\* It is one of as many places as S has members.
LEMMA RankIs ==
  ASSUME NEW n \in Nat, NEW S, S \subseteq 1 .. n, NEW k \in S
  PROVE  Rank(S, k) \in 1 .. Cardinality(S) /\ Cardinality(S) \in Nat
<1> DEFINE T == {j \in S : j <= k}
<1>1. IsFiniteSet(S)
  <2>1. 1 \in Int /\ n \in Int
    OBVIOUS
  <2>2. IsFiniteSet(1 .. n)
    BY <2>1, FS_Interval, Zenon
  <2> QED
    BY <2>2, FS_Subset
<1>2. k \in T /\ T \in SUBSET S
  <2>1. k \in 1 .. n
    OBVIOUS
  <2> QED
    BY <2>1
<1> HIDE DEF T
<1>3. IsFiniteSet(T) /\ Cardinality(T) <= Cardinality(S)
  BY <1>1, <1>2, FS_Subset
<1>4. Cardinality(S) \in Nat /\ Cardinality(T) \in Nat
  BY <1>1, <1>3, FS_CardinalityType
<1>5. Cardinality(T) # 0
  BY <1>2, <1>3, FS_EmptySet
<1> QED
  BY <1>3, <1>4, <1>5 DEF Rank, T

\* The next place of a sequence extends a selection.
LEMMA SelectionGrows ==
  ASSUME NEW A, NEW part \in Seq(A), NEW seq, NEW n \in Nat, NEW S, S \subseteq 1 .. n,
         IsSelection(part, seq, S), NEW e \in A, e = seq[n + 1]
  PROVE  IsSelection(Append(part, e), seq, S \cup {n + 1})
<1> DEFINE T == S \cup {n + 1}
           more == Append(part, e)
<1>1. IsFiniteSet(S) /\ Cardinality(S) \in Nat
  <2>1. 1 \in Int /\ n \in Int
    OBVIOUS
  <2>2. IsFiniteSet(1 .. n)
    BY <2>1, FS_Interval, Zenon
  <2> QED
    BY <2>2, FS_Subset, FS_CardinalityType
<1>2. n + 1 \notin S
  OBVIOUS
<1>3. Cardinality(T) = Cardinality(S) + 1
  BY <1>1, <1>2, FS_AddElement
<1>4. Len(part) = Cardinality(S) /\ \A k \in S : part[Rank(S, k)] = seq[k]
  BY DEF IsSelection, Rank
<1>5. /\ Len(more) = Len(part) + 1 /\ more[Len(part) + 1] = e
      /\ \A i \in 1 .. Len(part) : more[i] = part[i]
  BY AppendProperties
<1>6. ASSUME NEW k \in S PROVE more[Rank(T, k)] = seq[k]
  <2>1. {j \in T : j <= k} = {j \in S : j <= k}
    <3>1. k \in 1 .. n
      OBVIOUS
    <3>2. ~(n + 1 <= k)
      BY <3>1
    <3> QED
      BY <3>2
  <2>2. Rank(T, k) = Rank(S, k)
    BY <2>1 DEF Rank
  <2>3. Rank(S, k) \in 1 .. Len(part)
    BY <1>4, RankIs
  <2> QED
    BY <1>4, <1>5, <2>2, <2>3
<1>7. more[Rank(T, n + 1)] = seq[n + 1]
  <2>1. {j \in T : j <= n + 1} = T
    <3>1. \A j \in S : j <= n + 1
      <4>1. \A j \in 1 .. n : j <= n + 1
        OBVIOUS
      <4> QED
        BY <4>1
    <3>2. n + 1 <= n + 1
      OBVIOUS
    <3> QED
      BY <3>1, <3>2
  <2>2. Rank(T, n + 1) = Len(part) + 1
    BY <1>3, <1>4, <2>1 DEF Rank
  <2> QED
    BY <1>5, <2>2
<1>8. Len(more) = Cardinality(T)
  BY <1>3, <1>4, <1>5
<1> HIDE DEF more
<1>9. \A k \in T : more[Rank(T, k)] = seq[k]
  BY <1>6, <1>7
<1> QED
  BY <1>8, <1>9 DEF IsSelection, Rank, more

\* Nothing is a selection of nothing.
LEMMA SelectionStarts ==
  ASSUME NEW seq
  PROVE  IsSelection(<<>>, seq, {})
<1>1. Cardinality({}) = 0
  BY FS_EmptySet
<1> QED
  BY <1>1 DEF IsSelection

\* A temporary, as TypeOK has it, and the scripts of a list of them.
Temp == [kind : {"ldscript", "copy", "relinked"}, of : Word, syms : SUBSET STRING, by : Word]
ScriptsOf(t) == {i \in DOMAIN t : t[i].kind = "ldscript"}

\* Temporaries are added behind those there are.
LEMMA TempsGrow ==
  ASSUME NEW t \in Seq(Temp), NEW u \in Seq(Temp)
  PROVE  /\ t \o u \in Seq(Temp) /\ DOMAIN t \subseteq DOMAIN (t \o u)
         /\ \A i \in DOMAIN t : (t \o u)[i] = t[i]
         /\ Seq(DOMAIN t) \subseteq Seq(DOMAIN (t \o u))
         /\ Seq([file : Word, temp : DOMAIN t]) \subseteq Seq([file : Word, temp : DOMAIN (t \o u)])
         /\ (\A i \in DOMAIN u : u[i].kind # "ldscript") => ScriptsOf(t \o u) = ScriptsOf(t)
         /\ Len(u) = 1 /\ u[1].kind = "ldscript"
              => /\ ScriptsOf(t \o u) = ScriptsOf(t) \cup {Len(t) + 1}
                 /\ Len(t) + 1 \in DOMAIN (t \o u) /\ (t \o u)[Len(t) + 1] = u[1]
         /\ Len(u) = 1 => Len(t) + 1 \in DOMAIN (t \o u) /\ (t \o u)[Len(t) + 1] = u[1]
<1> DEFINE v == t \o u
<1>1. /\ Len(t) \in Nat /\ Len(u) \in Nat /\ DOMAIN t = 1 .. Len(t) /\ DOMAIN u = 1 .. Len(u)
      /\ v \in Seq(Temp) /\ Len(v) = Len(t) + Len(u) /\ DOMAIN v = 1 .. Len(v)
      /\ \A i \in 1 .. Len(t) : v[i] = t[i]
      /\ \A i \in 1 .. Len(u) : v[Len(t) + i] = u[i]
  <2> HIDE DEF Temp
  <2> QED
    OBVIOUS
<1> HIDE DEF v
<1>2. DOMAIN t \subseteq DOMAIN v
  BY <1>1
<1>3. Seq(DOMAIN t) \subseteq Seq(DOMAIN v)
  <2> DEFINE A == DOMAIN t
             B == DOMAIN v
  <2>1. A \subseteq B
    BY <1>2
  <2> HIDE DEF A, B
  <2>2. Seq(A) \subseteq Seq(B)
    BY <2>1
  <2> QED
    BY <2>2 DEF A, B
<1>4. Seq([file : Word, temp : DOMAIN t]) \subseteq Seq([file : Word, temp : DOMAIN v])
  <2> DEFINE A == [file : Word, temp : DOMAIN t]
             B == [file : Word, temp : DOMAIN v]
  <2>1. A \subseteq B
    <3> HIDE DEF Word
    <3> QED
      BY <1>2
  <2> HIDE DEF A, B
  <2>2. Seq(A) \subseteq Seq(B)
    BY <2>1
  <2> QED
    BY <2>2 DEF A, B
<1>5. ASSUME NEW i \in DOMAIN v
      PROVE  (i \in DOMAIN t /\ v[i] = t[i]) \/ \E k \in DOMAIN u : i = Len(t) + k /\ v[i] = u[k]
  <2>1. i \in 1 .. Len(t) \/ (i - Len(t) \in 1 .. Len(u) /\ Len(t) + (i - Len(t)) = i)
    BY <1>1
  <2> QED
    BY <1>1, <2>1
<1>6. ASSUME \A i \in DOMAIN u : u[i].kind # "ldscript" PROVE ScriptsOf(v) = ScriptsOf(t)
  <2>1. \A i \in ScriptsOf(v) : i \in ScriptsOf(t)
    BY <1>5, <1>6 DEF ScriptsOf
  <2>2. \A i \in ScriptsOf(t) : i \in ScriptsOf(v)
    BY <1>1, <1>2 DEF ScriptsOf
  <2> QED
    BY <2>1, <2>2
<1>7. ASSUME Len(u) = 1 PROVE Len(t) + 1 \in DOMAIN v /\ v[Len(t) + 1] = u[1]
  BY <1>1, <1>7
<1>8. ASSUME Len(u) = 1, u[1].kind = "ldscript"
      PROVE  ScriptsOf(v) = ScriptsOf(t) \cup {Len(t) + 1}
  <2>1. \A k \in DOMAIN u : k = 1
    BY <1>1, <1>8
  <2>2. \A i \in ScriptsOf(v) : i \in ScriptsOf(t) \/ i = Len(t) + 1
    BY <1>5, <2>1 DEF ScriptsOf
  <2>3. \A i \in ScriptsOf(t) : i \in ScriptsOf(v)
    BY <1>1, <1>2 DEF ScriptsOf
  <2>4. Len(t) + 1 \in ScriptsOf(v)
    BY <1>7, <1>8 DEF ScriptsOf
  <2> QED
    BY <2>2, <2>3, <2>4
<1> QED
  BY <1>1, <1>2, <1>3, <1>4, <1>6, <1>7, <1>8 DEF v

----------------------------------------------------------------------------
\* The inductive invariant.

\* What the user's own line defines, and what is in front of its files now.
Local0 == AllXwrappedDefined(cmdline0)
InFront == IF fds = {} THEN <<>> ELSE <<FdPath(3)>>

\* The job is the user's, with at most a script in front, and with --wrap for
\* none but the symbols that no object of it defines.
JobOK ==
  /\ Good(cmdline0) /\ Good(cmdline)
  /\ InputFiles(cmdline) = InFront \o InputFiles(cmdline0)
  /\ Options(cmdline) = Options(cmdline0)
  /\ AllXwrappedDefined(cmdline) = Local0
  /\ AddedWraps \subseteq Options(cmdline0) \ Local0

\* There is no script before the ldscript criterion restarts the linker, and
\* just one afterwards, which stands first and lists what the objects define.
ScriptOK ==
  /\ fds \in {{}, {3}}
  /\ fds = {} => \/ Scripts = {}
                 \/ status = "exec_failed" /\ pc = "ldscript" /\ \E i \in DOMAIN temps : Scripts = {i}
  /\ fds = {3} => /\ \E i \in DOMAIN temps : Scripts = {i}
                  /\ Len(cmdline) >= 2 /\ cmdline[2] = FdPath(3) /\ cmdline[1] = Exe
  /\ \A i \in Scripts : temps[i].of = FdPath(3) /\ temps[i].syms = Local0

\* A criterion that has restarted the linker is content ever after, and so is one
\* that the constructor has got past.
ContentOK ==
  /\ status # "guard_abort"
  /\ status = "running" => \A c \in env : ~Wants(c, cmdline, fds)
  /\ pc # "muldefs" => ~Wants("muldefs", cmdline, fds)
  /\ pc \notin {"muldefs", "wraps"} => ~Wants("wraps", cmdline, fds)
  /\ Loaded => ~Wants("ldscript", cmdline, fds)

\* The files offered so far, and those of them that are to be replaced.
Offered == 1 .. Len(LdFiles(cmdline)) - Len(todo)
Gone == {k \in Offered : ToReplace(LdFiles(cmdline)[k]) # {}}
Claims == [k \in DOMAIN claimed |-> claimed[k].file]

\* The files are offered in order, each is kept or claimed, and what is claimed
\* has been relinked with all its definitions normalised.
ClaimsOK ==
  /\ ~Loaded => todo = <<>> /\ kept = <<>> /\ claimed = <<>> /\ added = <<>>
  /\ Loaded =>
       /\ Len(todo) <= Len(LdFiles(cmdline))
       /\ \A k \in DOMAIN todo : todo[k] = LdFiles(cmdline)[Len(LdFiles(cmdline)) - Len(todo) + k]
       /\ IsSelection(kept, LdFiles(cmdline), Offered \ Gone)
       /\ IsSelection(Claims, LdFiles(cmdline), Gone)
       /\ \A k \in DOMAIN kept :
            kept[k] \in ToSet(InputFiles(cmdline)) /\ ToReplace(kept[k]) = {}
       /\ \A k \in DOMAIN claimed :
            /\ claimed[k].file \in ToSet(InputFiles(cmdline)) /\ ToReplace(claimed[k].file) # {}
            /\ temps[claimed[k].temp] = Relinked(claimed[k].file, ToReplace(claimed[k].file))
  /\ pc \in {"linking", "done"} =>
       todo = <<>> /\ added = [k \in DOMAIN claimed |-> claimed[k].temp]

IInv == TypeOK /\ JobOK /\ ScriptOK /\ ContentOK /\ ClaimsOK

\* What the invariant says of the command line.
LEMMA LineFits ==
  ASSUME IInv
  PROVE  /\ Fit(cmdline, fds) /\ Good(cmdline) /\ cmdline \in Seq(Word)
         /\ cmdline[1] \in Word /\ Len(cmdline) >= 1 /\ Len(cmdline) \in Nat
         /\ Local0 \subseteq STRING /\ AllXwrappedDefined(cmdline) = Local0
         /\ FdPath(3) \in Word /\ Exe \in Word
<1>1. Good(cmdline) /\ Good(cmdline0) /\ AllXwrappedDefined(cmdline) = Local0
  BY DEF IInv, JobOK
<1>2. Fit(cmdline, fds)
  BY <1>1 DEF IInv, ScriptOK, Fit
<1>3. cmdline \in Seq(Word) /\ Len(cmdline) >= 1 /\ Len(cmdline) \in Nat /\ cmdline[1] \in Word
  BY <1>1, GoodIs
<1>4. Local0 \subseteq STRING
  BY <1>1, OptionsFinite
<1>5. FdPath(3) \in Word
  BY StringsAssumption DEF FdPath, Word
<1> QED
  BY <1>1, <1>2, <1>3, <1>4, <1>5, ExeAssumption

\* What a criterion leaves under TMPDIR: the ldscript, or nothing.
LEMMA NewTempsIs ==
  ASSUME IInv, NEW k \in ToSet(Criteria), Wants(k, cmdline, fds)
  PROVE  LET u == NewTemps(k, cmdline, fds) IN
         /\ u \in Seq(Temp)
         /\ k # "ldscript" => u = <<>>
         /\ k = "ldscript" => /\ fds = {} /\ Len(u) = 1 /\ u[1].kind = "ldscript"
                              /\ u[1].of = FdPath(3) /\ u[1].syms = Local0
<1>1. /\ Fit(cmdline, fds) /\ Local0 \subseteq STRING /\ AllXwrappedDefined(cmdline) = Local0
      /\ FdPath(3) \in Word /\ Exe \in Word
  BY LineFits
<1>2. CASE k # "ldscript"
  <2>1. NewTemps(k, cmdline, fds) = <<>>
    BY <1>2 DEF NewTemps
  <2>2. <<>> \in Seq(Temp)
    OBVIOUS
  <2> QED
    BY <1>2, <2>1, <2>2
<1>3. CASE k = "ldscript"
  <2>1. fds = {}
    BY <1>1, <1>3, FixContract
  <2> DEFINE s == [kind |-> "ldscript", of |-> FdPath(3), syms |-> Local0, by |-> Exe]
  <2>2. NewTemps(k, cmdline, fds) = <<s>>
    BY <1>1, <1>3, <2>1, LowestIs DEF NewTemps
  <2>3. s \in Temp
    <3>1. Local0 \in SUBSET STRING
      BY <1>1
    <3> HIDE DEF Word
    <3> QED
      BY <1>1, <3>1 DEF Temp
  <2>4. s.kind = "ldscript" /\ s.of = FdPath(3) /\ s.syms = Local0
    OBVIOUS
  <2> HIDE DEF s
  <2>5. <<s>> \in Seq(Temp) /\ Len(<<s>>) = 1 /\ <<s>>[1] = s
    BY <2>3
  <2> QED
    BY <1>3, <2>1, <2>2, <2>4, <2>5
<1> QED
  BY <1>2, <1>3

\* The invariant holds of what the user starts.
LEMMA InitOK ==
  Init => IInv
<1> SUFFICES ASSUME Init PROVE IInv
  OBVIOUS
<1>1. /\ cmdline \in InitialCmdlines /\ cmdline0 = cmdline /\ env = {}
      /\ pc = "muldefs" /\ status = "running" /\ fds = {} /\ temps = <<>>
      /\ todo = <<>> /\ kept = <<>> /\ claimed = <<>> /\ added = <<>>
  BY DEF Init
<1>2. Good(cmdline)
  BY <1>1, InitialCmdlinesAssumption DEF Good
<1>3. TypeOK
  <2>1. cmdline \in Seq(Word)
    BY <1>2 DEF Good
  <2>2. "muldefs" \in ToSet(Criteria)
    BY DEF ToSet, Criteria
  <2>3. \A S : <<>> \in Seq(S)
    OBVIOUS
  <2> HIDE DEF Word
  <2> QED
    BY <1>1, <2>1, <2>2, <2>3 DEF TypeOK
<1>4. JobOK
  <2>1. <<>> \o InputFiles(cmdline) = InputFiles(cmdline)
    BY <1>2, NoFront
  <2> QED
    BY <1>1, <1>2, <2>1 DEF JobOK, InFront, Local0, AddedWraps
<1>5. ScriptOK
  <2>1. Scripts = {}
    BY <1>1 DEF Scripts
  <2> QED
    BY <1>1, <2>1 DEF ScriptOK
<1>6. ContentOK
  BY <1>1 DEF ContentOK, Loaded
<1>7. ClaimsOK
  BY <1>1 DEF ClaimsOK, Loaded
<1> QED
  BY <1>3, <1>4, <1>5, <1>6, <1>7 DEF IInv

\* A criterion that is content.
LEMMA ContentKeeps ==
  ASSUME IInv, Content
  PROVE  IInv'
<1>1. /\ status = "running" /\ pc \in {"muldefs", "wraps", "ldscript"}
      /\ ~Wants(pc, cmdline, fds)
      /\ pc' = CASE pc = "muldefs" -> "wraps"
                 [] pc = "wraps" -> "ldscript"
                 [] pc = "ldscript" -> "claiming"
      /\ todo' = IF pc = "ldscript" THEN LdFiles(cmdline) ELSE todo
      /\ UNCHANGED <<cmdline, cmdline0, env, status, fds, temps, kept, claimed, added>>
  BY DEF Content, Loading, loadVars
<1>2. /\ pc = "muldefs" => pc' = "wraps"
      /\ pc = "wraps" => pc' = "ldscript"
      /\ pc = "ldscript" => pc' = "claiming"
  BY <1>1
<1>3. LdFiles(cmdline) \in Seq(Word)
  BY LineFits, LdFilesAreInputs
<1>4. TypeOK'
  <2>1. TypeOK
    BY DEF IInv
  <2>2. pc' \in ToSet(Criteria) \cup {"claiming", "linking", "done"}
    BY <1>1, <1>2 DEF ToSet, Criteria
  <2>3. todo' \in Seq(Word)
    BY <1>1, <1>3, <2>1 DEF TypeOK
  <2> HIDE DEF Word
  <2> QED
    BY <1>1, <2>1, <2>2, <2>3 DEF TypeOK
<1>5. JobOK'
  BY <1>1 DEF IInv, JobOK, InFront, Local0, AddedWraps
<1>6. ScriptOK'
  BY <1>1 DEF IInv, ScriptOK, Scripts, Local0
<1>7. ContentOK'
  BY <1>1, <1>2 DEF IInv, ContentOK, Loaded
<1>8. ClaimsOK'
  <2>1. /\ ~Loaded /\ todo = <<>> /\ kept = <<>> /\ claimed = <<>> /\ added = <<>>
    BY <1>1 DEF Loaded, IInv, ClaimsOK
  <2>2. CASE pc # "ldscript"
    <3>1. ~Loaded'
      BY <1>1, <1>2, <2>2 DEF Loaded
    <3>2. todo' = <<>>
      BY <1>1, <2>1, <2>2
    <3> QED
      BY <1>1, <2>1, <3>1, <3>2 DEF ClaimsOK, Loaded
  <2>3. CASE pc = "ldscript"
    <3> DEFINE L == LdFiles(cmdline)
    <3>1. pc' = "claiming" /\ todo' = L /\ cmdline' = cmdline /\ kept' = <<>> /\ claimed' = <<>> /\ added' = <<>>
      BY <1>1, <1>2, <2>1, <2>3
    <3>2. Len(L) \in Nat /\ Len(L) - Len(L) = 0
      <4> HIDE DEF Word, L
      <4>1. Len(L) \in Nat
        BY <1>3 DEF L
      <4> QED
        BY <4>1
    <3>3. Offered' = {} /\ Gone' = {}
      <4>1. Offered' = 1 .. Len(L) - Len(L)
        BY <3>1 DEF Offered
      <4>2. 1 .. 0 = {}
        OBVIOUS
      <4>3. Offered' = {}
        BY <3>2, <4>1, <4>2
      <4> QED
        BY <4>3 DEF Gone
    <3>4. Claims' = <<>>
      BY <3>1 DEF Claims
    <3>5. IsSelection(<<>>, L, {})
      BY SelectionStarts
    <3>6. \A k \in DOMAIN L : L[k] = L[Len(L) - Len(L) + k]
      <4> HIDE DEF Word, L
      <4>1. DOMAIN L = 1 .. Len(L)
        BY <1>3 DEF L
      <4>2. \A k \in 1 .. Len(L) : 0 + k = k
        BY <3>2
      <4> QED
        BY <3>2, <4>1, <4>2
    <3> HIDE DEF L
    <3>7. LdFiles(cmdline)' = L
      BY <3>1 DEF L
    <3>8. Len(todo)' <= Len(L)
      BY <3>1, <3>2
    <3>9. \A k \in DOMAIN todo' : todo'[k] = L[Len(L) - Len(todo') + k]
      BY <3>1, <3>6
    <3>10. IsSelection(kept, LdFiles(cmdline), Offered \ Gone)'
      <4>1. Offered' \ Gone' = {}
        BY <3>3
      <4> QED
        BY <3>1, <3>5, <3>7, <4>1
    <3>11. IsSelection(Claims, LdFiles(cmdline), Gone)'
      BY <3>3, <3>4, <3>5, <3>7
    <3>12. DOMAIN kept' = {} /\ DOMAIN claimed' = {}
      BY <3>1
    <3> QED
      BY <3>1, <3>7, <3>8, <3>9, <3>10, <3>11, <3>12 DEF ClaimsOK, Loaded
  <2> QED
    BY <2>2, <2>3
<1> QED
  BY <1>4, <1>5, <1>6, <1>7, <1>8 DEF IInv

\* A criterion that asks for a restart has not asked before.
LEMMA RestartIsFirst ==
  ASSUME IInv, Loading, Wants(pc, cmdline, fds)
  PROVE  /\ pc \in ToSet(Criteria) /\ pc \notin env
         /\ ~Loaded /\ status = "running"
         /\ fds = {} => Scripts = {}
<1>1. pc \in {"muldefs", "wraps", "ldscript"} /\ status = "running"
  BY DEF Loading
<1>2. pc \in ToSet(Criteria)
  BY <1>1 DEF ToSet, Criteria
<1> QED
  BY <1>1, <1>2 DEF IInv, ContentOK, ScriptOK, Loaded

\* A new image.
LEMMA ReexecKeeps ==
  ASSUME IInv, Loading, Wants(pc, cmdline, fds), Reexec
  PROVE  IInv'
<1> DEFINE d == Argv(FixedUp(pc, cmdline, fds))
           u == NewTemps(pc, cmdline, fds)
           front == IF pc = "ldscript" THEN <<FdPath(3)>> ELSE <<>>
<1>1. /\ env' = env \cup {pc} /\ cmdline' = d /\ fds' = NewFds(pc, fds)
      /\ temps' = temps \o u /\ pc' = "muldefs"
      /\ UNCHANGED <<cmdline0, status, todo, kept, claimed, added>>
  BY DEF Reexec, linkVars
<1>2. /\ pc \in ToSet(Criteria) /\ pc \notin env /\ ~Loaded /\ status = "running"
      /\ fds = {} => Scripts = {}
  BY RestartIsFirst
<1>3. Fit(cmdline, fds) /\ AllXwrappedDefined(cmdline) = Local0 /\ FdPath(3) \in Word
  BY LineFits
<1>4. /\ Fit(d, fds') /\ d[1] = Exe /\ SameJob(cmdline, d, front)
      /\ ~Wants(pc, d, fds')
      /\ \A q \in ToSet(Criteria) : ~Wants(q, cmdline, fds) => ~Wants(q, d, fds')
      /\ pc # "ldscript" => fds' = fds
      /\ pc = "ldscript" => fds = {} /\ fds' = {3}
  BY <1>1, <1>2, <1>3, FixContract
<1>5. /\ u \in Seq(Temp)
      /\ pc # "ldscript" => u = <<>>
      /\ pc = "ldscript" => /\ fds = {} /\ Len(u) = 1 /\ u[1].kind = "ldscript"
                            /\ u[1].of = FdPath(3) /\ u[1].syms = Local0
  BY <1>2, NewTempsIs
<1> HIDE DEF d, u
<1>6. TypeOK /\ temps \in Seq(Temp)
  <2>1. TypeOK
    BY DEF IInv
  <2> QED
    BY <2>1 DEF TypeOK, Temp
<1>7. /\ temps' \in Seq(Temp) /\ DOMAIN temps \subseteq DOMAIN temps'
      /\ \A i \in DOMAIN temps : temps'[i] = temps[i]
      /\ (\A i \in DOMAIN u : u[i].kind # "ldscript") => ScriptsOf(temps') = ScriptsOf(temps)
      /\ Len(u) = 1 /\ u[1].kind = "ldscript"
           => /\ ScriptsOf(temps') = ScriptsOf(temps) \cup {Len(temps) + 1}
              /\ Len(temps) + 1 \in DOMAIN temps' /\ temps'[Len(temps) + 1] = u[1]
  BY <1>1, <1>5, <1>6, TempsGrow
<1>8. todo = <<>> /\ kept = <<>> /\ claimed = <<>> /\ added = <<>>
  BY <1>2 DEF IInv, ClaimsOK
<1>9. TypeOK'
  <2>1. cmdline' \in Seq(Word)
    BY <1>1, <1>4 DEF Fit, Good
  <2>2. env' \subseteq ToSet(Criteria) /\ pc' \in ToSet(Criteria)
    <3>1. "muldefs" \in ToSet(Criteria)
      BY DEF ToSet, Criteria
    <3> QED
      BY <1>1, <1>2, <1>6, <3>1 DEF TypeOK
  <2>3. fds' \in SUBSET Nat
    BY <1>4 DEF Fit
  <2>4. temps' \in Seq([kind : {"ldscript", "copy", "relinked"}, of : Word,
                        syms : SUBSET STRING, by : Word])
    BY <1>7 DEF Temp
  <2>5. \A S : <<>> \in Seq(S)
    OBVIOUS
  <2>6. status' \in {"running", "guard_abort", "exec_failed", "aborted"} /\ cmdline0' \in Seq(Word)
    BY <1>1, <1>6 DEF TypeOK
  <2> HIDE DEF Word
  <2> QED
    BY <1>1, <1>8, <2>1, <2>2, <2>3, <2>4, <2>5, <2>6 DEF TypeOK
<1>10. JobOK'
  <2>1. /\ Good(cmdline0) /\ Good(cmdline)
        /\ InputFiles(cmdline) = InFront \o InputFiles(cmdline0)
        /\ Options(cmdline) = Options(cmdline0)
        /\ AddedWraps \subseteq Options(cmdline0) \ Local0
    BY DEF IInv, JobOK
  <2>2. /\ InputFiles(d) = front \o InputFiles(cmdline)
        /\ Options(d) = Options(cmdline) /\ AllXwrappedDefined(d) = AllXwrappedDefined(cmdline)
        /\ CmdlineWrapped(d) \subseteq CmdlineWrapped(cmdline) \cup (Options(cmdline) \ AllXwrappedDefined(cmdline))
    BY <1>4 DEF SameJob
  <2>3. InputFiles(d) = InFront' \o InputFiles(cmdline0)
    <3>1. CASE pc = "ldscript"
      <4>1. InFront = <<>> /\ InFront' = <<FdPath(3)>>
        BY <1>4, <3>1 DEF InFront
      <4>2. InputFiles(cmdline) = InputFiles(cmdline0)
        BY <2>1, <4>1, NoFront
      <4> QED
        BY <2>2, <3>1, <4>1, <4>2
    <3>2. CASE pc # "ldscript"
      <4>1. InFront' = InFront
        BY <1>4, <3>2 DEF InFront
      <4>2. InputFiles(d) = InputFiles(cmdline)
        BY <2>1, <2>2, <3>2, NoFront
      <4> QED
        BY <2>1, <4>1, <4>2
    <3> QED
      BY <3>1, <3>2
  <2>4. AddedWraps' \subseteq Options(cmdline0) \ Local0
    <3>1. AddedWraps' = CmdlineWrapped(d) \ CmdlineWrapped(cmdline0)
      BY <1>1 DEF AddedWraps
    <3>2. AddedWraps = CmdlineWrapped(cmdline) \ CmdlineWrapped(cmdline0)
      BY DEF AddedWraps
    <3> QED
      BY <1>3, <2>1, <2>2, <3>1, <3>2
  <2>5. Good(d) /\ AllXwrappedDefined(d) = Local0 /\ Local0' = Local0
    BY <1>1, <1>3, <1>4, <2>2 DEF Fit, Local0
  <2> QED
    BY <1>1, <2>1, <2>2, <2>3, <2>4, <2>5 DEF JobOK
<1>11. ScriptOK'
  <2>1. Scripts = ScriptsOf(temps) /\ Scripts' = ScriptsOf(temps')
    BY DEF Scripts, ScriptsOf
  <2>2. Local0' = Local0
    BY <1>1 DEF Local0
  <2>3. fds' \in {{}, {3}} /\ (fds' = {3} => Len(cmdline') >= 2 /\ cmdline'[2] = FdPath(3) /\ cmdline'[1] = Exe)
    BY <1>1, <1>4 DEF Fit
  <2>4. \A i \in Scripts : i \in DOMAIN temps
    BY DEF Scripts
  <2>5. CASE pc = "ldscript"
    <3>1. Scripts = {} /\ fds' = {3}
      BY <1>2, <1>4, <2>5
    <3>2. Scripts' = {Len(temps) + 1} /\ Len(temps) + 1 \in DOMAIN temps'
          /\ temps'[Len(temps) + 1].of = FdPath(3) /\ temps'[Len(temps) + 1].syms = Local0
      BY <1>5, <1>7, <2>1, <2>5, <3>1
    <3> QED
      BY <2>2, <2>3, <3>1, <3>2 DEF ScriptOK
  <2>6. CASE pc # "ldscript"
    <3>1. u = <<>> /\ fds' = fds
      BY <1>4, <1>5, <2>6
    <3>2. Scripts' = Scripts
      BY <1>7, <2>1, <3>1
    <3>3. /\ fds = {3} => \E i \in DOMAIN temps : Scripts = {i}
          /\ \A i \in Scripts : temps[i].of = FdPath(3) /\ temps[i].syms = Local0
      BY DEF IInv, ScriptOK
    <3>4. \A i \in Scripts' : temps'[i].of = FdPath(3) /\ temps'[i].syms = Local0'
      BY <1>7, <2>2, <2>4, <3>2, <3>3
    <3>5. fds' = {} => Scripts' = {}
      BY <1>2, <3>1, <3>2
    <3>6. fds' = {3} => \E i \in DOMAIN temps' : Scripts' = {i}
      BY <1>7, <3>1, <3>2, <3>3
    <3> QED
      BY <2>3, <3>4, <3>5, <3>6 DEF ScriptOK
  <2> QED
    BY <2>5, <2>6
<1>12. ContentOK'
  <2>1. \A c \in env : c \in ToSet(Criteria) /\ ~Wants(c, cmdline, fds)
    BY <1>2, <1>6 DEF TypeOK, IInv, ContentOK
  <2>2. \A c \in env' : ~Wants(c, d, fds')
    BY <1>1, <1>4, <2>1
  <2> QED
    BY <1>1, <1>2, <2>2 DEF ContentOK, Loaded
<1>13. ClaimsOK'
  BY <1>1, <1>8 DEF ClaimsOK, Loaded
<1> QED
  BY <1>9, <1>10, <1>11, <1>12, <1>13 DEF IInv

\* A criterion that asks for a restart: the guard is never there already.
LEMMA RestartKeeps ==
  ASSUME IInv, Restart
  PROVE  IInv'
<1>1. Loading /\ Wants(pc, cmdline, fds) /\ (IF pc \in env THEN AbortOnGuard ELSE Reexec)
  BY DEF Restart
<1>2. pc \notin env
  BY <1>1, RestartIsFirst
<1> QED
  BY <1>1, <1>2, ReexecKeeps

\* No new image.
LEMMA ExecFailsKeeps ==
  ASSUME IInv, ExecFails
  PROVE  IInv'
<1> DEFINE u == NewTemps(pc, cmdline, fds)
<1>1. /\ Loading /\ Wants(pc, cmdline, fds)
      /\ env' = env \cup {pc} /\ temps' = temps \o u /\ status' = "exec_failed"
      /\ UNCHANGED <<cmdline, cmdline0, fds, pc, todo, kept, claimed, added>>
  BY DEF ExecFails, linkVars
<1>2. /\ pc \in ToSet(Criteria) /\ ~Loaded /\ status = "running"
      /\ fds = {} => Scripts = {}
  BY <1>1, RestartIsFirst
<1>3. /\ u \in Seq(Temp)
      /\ pc # "ldscript" => u = <<>>
      /\ pc = "ldscript" => /\ fds = {} /\ Len(u) = 1 /\ u[1].kind = "ldscript"
                            /\ u[1].of = FdPath(3) /\ u[1].syms = Local0
  BY <1>1, <1>2, NewTempsIs
<1> HIDE DEF u
<1>4. TypeOK /\ temps \in Seq(Temp)
  <2>1. TypeOK
    BY DEF IInv
  <2> QED
    BY <2>1 DEF TypeOK, Temp
<1>5. /\ temps' \in Seq(Temp) /\ DOMAIN temps \subseteq DOMAIN temps'
      /\ \A i \in DOMAIN temps : temps'[i] = temps[i]
      /\ (\A i \in DOMAIN u : u[i].kind # "ldscript") => ScriptsOf(temps') = ScriptsOf(temps)
      /\ Len(u) = 1 /\ u[1].kind = "ldscript"
           => /\ ScriptsOf(temps') = ScriptsOf(temps) \cup {Len(temps) + 1}
              /\ Len(temps) + 1 \in DOMAIN temps' /\ temps'[Len(temps) + 1] = u[1]
  BY <1>1, <1>3, <1>4, TempsGrow
<1>6. todo = <<>> /\ kept = <<>> /\ claimed = <<>> /\ added = <<>>
  BY <1>2 DEF IInv, ClaimsOK
<1>7. TypeOK'
  <2>1. temps' \in Seq([kind : {"ldscript", "copy", "relinked"}, of : Word,
                        syms : SUBSET STRING, by : Word])
    BY <1>5 DEF Temp
  <2>2. \A S : <<>> \in Seq(S)
    OBVIOUS
  <2>3. env' \subseteq ToSet(Criteria)
    BY <1>1, <1>2, <1>4 DEF TypeOK
  <2> HIDE DEF Word
  <2> QED
    BY <1>1, <1>4, <1>6, <2>1, <2>2, <2>3 DEF TypeOK
<1>8. JobOK'
  BY <1>1 DEF IInv, JobOK, InFront, Local0, AddedWraps
<1>9. ScriptOK'
  <2>1. Scripts = ScriptsOf(temps) /\ Scripts' = ScriptsOf(temps')
    BY DEF Scripts, ScriptsOf
  <2>2. Local0' = Local0
    BY <1>1 DEF Local0
  <2>3. /\ fds \in {{}, {3}}
        /\ fds = {3} => /\ \E i \in DOMAIN temps : Scripts = {i}
                        /\ Len(cmdline) >= 2 /\ cmdline[2] = FdPath(3) /\ cmdline[1] = Exe
        /\ \A i \in Scripts : temps[i].of = FdPath(3) /\ temps[i].syms = Local0
    BY DEF IInv, ScriptOK
  <2>4. \A i \in Scripts : i \in DOMAIN temps
    BY DEF Scripts
  <2>5. CASE pc = "ldscript"
    <3>1. Scripts = {} /\ fds = {}
      BY <1>2, <1>3, <2>5
    <3>2. Scripts' = {Len(temps) + 1} /\ Len(temps) + 1 \in DOMAIN temps'
          /\ temps'[Len(temps) + 1].of = FdPath(3) /\ temps'[Len(temps) + 1].syms = Local0
      BY <1>3, <1>5, <2>1, <2>5, <3>1
    <3>3. fds' = {} /\ status' = "exec_failed" /\ pc' = "ldscript"
      BY <1>1, <2>5, <3>1
    <3> QED
      BY <2>2, <3>2, <3>3 DEF ScriptOK
  <2>6. CASE pc # "ldscript"
    <3>1. u = <<>>
      BY <1>3, <2>6
    <3>2. Scripts' = Scripts
      BY <1>5, <2>1, <3>1
    <3>3. \A i \in Scripts' : temps'[i].of = FdPath(3) /\ temps'[i].syms = Local0'
      BY <1>5, <2>2, <2>3, <2>4, <3>2
    <3>4. fds' = {} => Scripts' = {}
      BY <1>1, <1>2, <3>2
    <3>5. fds' = {3} => \E i \in DOMAIN temps' : Scripts' = {i}
      BY <1>1, <1>5, <2>3, <3>2
    <3> QED
      BY <1>1, <2>3, <3>3, <3>4, <3>5 DEF ScriptOK
  <2> QED
    BY <2>5, <2>6
<1>10. ContentOK'
  BY <1>1, <1>2 DEF IInv, ContentOK, Loaded
<1>11. ClaimsOK'
  BY <1>1, <1>2, <1>6 DEF ClaimsOK, Loaded
<1> QED
  BY <1>7, <1>8, <1>9, <1>10, <1>11 DEF IInv

\* No temporary to be had for the script.
LEMMA NoTempFileKeeps ==
  ASSUME IInv, NoTempFile
  PROVE  IInv'
<1>1. /\ Loading /\ pc = "ldscript" /\ Wants(pc, cmdline, fds) /\ status' = "aborted"
      /\ UNCHANGED <<cmdline, cmdline0, env, fds, pc, temps, todo, kept, claimed, added>>
  BY DEF NoTempFile, loadVars, linkVars
<1>2. ~Loaded /\ status = "running" /\ (fds = {} => Scripts = {})
  BY <1>1, RestartIsFirst
<1>3. TypeOK'
  <2>1. TypeOK
    BY DEF IInv
  <2> HIDE DEF Word
  <2> QED
    BY <1>1, <2>1 DEF TypeOK
<1>4. JobOK'
  BY <1>1 DEF IInv, JobOK, InFront, Local0, AddedWraps
<1>5. ScriptOK'
  BY <1>1, <1>2 DEF IInv, ScriptOK, Scripts, Local0
<1>6. ContentOK'
  BY <1>1, <1>2 DEF IInv, ContentOK, Loaded
<1>7. ClaimsOK'
  BY <1>1, <1>2 DEF IInv, ClaimsOK, Loaded
<1> QED
  BY <1>3, <1>4, <1>5, <1>6, <1>7 DEF IInv

\* What is to be replaced in a file are symbols.
LEMMA ToReplaceIs ==
  ASSUME NEW w
  PROVE  ToReplace(w) \in SUBSET STRING
BY FilesAssumption DEF ToReplace, XwrappedDefinedIn

\* The file that is offered next.
LEMMA NextOffered ==
  ASSUME IInv, Claiming
  PROVE  LET L == LdFiles(cmdline)
             n == Len(L) - Len(todo)
             w == Head(todo)
             rest == Tail(todo)
         IN
         /\ n \in Nat /\ Offered = 1 .. n /\ 1 .. n + 1 = (1 .. n) \cup {n + 1}
         /\ w \in Word /\ w = L[n + 1] /\ w \in ToSet(InputFiles(cmdline))
         /\ rest \in Seq(Word) /\ Len(rest) <= Len(L) /\ Len(L) - Len(rest) = n + 1
         /\ \A k \in DOMAIN rest : rest[k] = L[Len(L) - Len(rest) + k]
<1> DEFINE L == LdFiles(cmdline)
           n == Len(L) - Len(todo)
           w == Head(todo)
           rest == Tail(todo)
<1>1. /\ Len(todo) <= Len(L) /\ todo # <<>> /\ todo \in Seq(Word)
      /\ \A k \in DOMAIN todo : todo[k] = L[Len(L) - Len(todo) + k]
  BY DEF IInv, ClaimsOK, Claiming, Loaded, TypeOK
<1>2. L \in Seq(Word) /\ \A k \in DOMAIN L : L[k] \in ToSet(InputFiles(cmdline))
  BY LineFits, LdFilesAreInputs
<1>3. /\ Len(L) \in Nat /\ DOMAIN L = 1 .. Len(L)
      /\ Len(todo) \in Nat /\ Len(todo) >= 1 /\ DOMAIN todo = 1 .. Len(todo)
      /\ w = todo[1] /\ w \in Word
      /\ rest \in Seq(Word) /\ Len(rest) = Len(todo) - 1 /\ DOMAIN rest = 1 .. Len(rest)
      /\ \A k \in 1 .. Len(rest) : rest[k] = todo[k + 1]
  <2> HIDE DEF Word, L
  <2> QED
    BY <1>1, <1>2
<1> HIDE DEF L, w, rest
<1>4. n \in Nat /\ n + 1 \in DOMAIN L /\ 1 .. n + 1 = (1 .. n) \cup {n + 1}
  BY <1>1, <1>3
<1>5. w = L[n + 1] /\ w \in ToSet(InputFiles(cmdline))
  <2>1. 1 \in DOMAIN todo
    BY <1>3
  <2>2. w = L[n + 1]
    BY <1>1, <1>3, <2>1
  <2> QED
    BY <1>2, <1>4, <2>2
<1>6. Len(rest) <= Len(L) /\ Len(L) - Len(rest) = n + 1
  BY <1>1, <1>3
<1>7. \A k \in DOMAIN rest : rest[k] = L[Len(L) - Len(rest) + k]
  <2> SUFFICES ASSUME NEW k \in DOMAIN rest PROVE rest[k] = L[Len(L) - Len(rest) + k]
    OBVIOUS
  <2>1. k \in 1 .. Len(rest) /\ k + 1 \in DOMAIN todo
        /\ Len(L) - Len(rest) + k = Len(L) - Len(todo) + (k + 1)
    BY <1>3
  <2> QED
    BY <1>1, <1>3, <2>1
<1>8. Offered = 1 .. n
  BY DEF Offered, L
<1> QED
  BY <1>3, <1>4, <1>5, <1>6, <1>7, <1>8 DEF L, w, rest

\* While the link goes on, the job and its script stay as they are, whatever
\* stand-ins are added.
LEMMA LinkFrame ==
  ASSUME IInv, Loaded, Loaded', UNCHANGED <<cmdline, cmdline0, env, fds>>,
         NEW u \in Seq(Temp), temps' = temps \o u, \A i \in DOMAIN u : u[i].kind # "ldscript",
         status' # "guard_abort", status' = "running" => status = "running"
  PROVE  /\ JobOK' /\ ScriptOK' /\ ContentOK'
         /\ temps' \in Seq(Temp) /\ DOMAIN temps \subseteq DOMAIN temps'
         /\ \A i \in DOMAIN temps : temps'[i] = temps[i]
         /\ Seq(DOMAIN temps) \subseteq Seq(DOMAIN temps')
         /\ Seq([file : Word, temp : DOMAIN temps]) \subseteq Seq([file : Word, temp : DOMAIN temps'])
<1>1. temps \in Seq(Temp)
  <2>1. TypeOK
    BY DEF IInv
  <2> QED
    BY <2>1 DEF TypeOK, Temp
<1>2. /\ temps' \in Seq(Temp) /\ DOMAIN temps \subseteq DOMAIN temps'
      /\ \A i \in DOMAIN temps : temps'[i] = temps[i]
      /\ Seq(DOMAIN temps) \subseteq Seq(DOMAIN temps')
      /\ Seq([file : Word, temp : DOMAIN temps]) \subseteq Seq([file : Word, temp : DOMAIN temps'])
      /\ ScriptsOf(temps') = ScriptsOf(temps)
  BY <1>1, TempsGrow
<1>3. JobOK'
  BY DEF IInv, JobOK, InFront, Local0, AddedWraps
<1>4. ScriptOK'
  <2>1. Scripts' = Scripts
    BY <1>2 DEF Scripts, ScriptsOf
  <2>2. Local0' = Local0
    BY DEF Local0
  <2>3. /\ fds \in {{}, {3}}
        /\ fds = {} => Scripts = {}
        /\ fds = {3} => /\ \E i \in DOMAIN temps : Scripts = {i}
                        /\ Len(cmdline) >= 2 /\ cmdline[2] = FdPath(3) /\ cmdline[1] = Exe
        /\ \A i \in Scripts : temps[i].of = FdPath(3) /\ temps[i].syms = Local0
    BY DEF IInv, ScriptOK, Loaded
  <2>4. \A i \in Scripts : i \in DOMAIN temps
    BY DEF Scripts
  <2>5. \A i \in Scripts' : temps'[i].of = FdPath(3) /\ temps'[i].syms = Local0'
    BY <1>2, <2>1, <2>2, <2>3, <2>4
  <2>6. fds = {3} => \E i \in DOMAIN temps' : Scripts' = {i}
    BY <1>2, <2>1, <2>3
  <2> QED
    BY <2>1, <2>3, <2>5, <2>6 DEF ScriptOK
<1>5. ContentOK'
  BY DEF IInv, ContentOK, Loaded
<1> QED
  BY <1>2, <1>3, <1>4, <1>5

\* No stand-ins are added.
LEMMA NothingAdded ==
  ASSUME IInv
  PROVE  <<>> \in Seq(Temp) /\ temps = temps \o <<>> /\ \A i \in DOMAIN <<>> : <<>>[i].kind # "ldscript"
<1>1. temps \in Seq(Temp)
  <2>1. TypeOK
    BY DEF IInv
  <2> QED
    BY <2>1 DEF TypeOK, Temp
<1> HIDE DEF Temp
<1>2. temps \o <<>> = temps
  BY <1>1, ConcatEmptySeq
<1> QED
  BY <1>2

\* A file left to the linker.
LEMMA LeaveKeeps ==
  ASSUME IInv, LeaveToLinker
  PROVE  IInv'
<1> DEFINE L == LdFiles(cmdline)
           n == Len(L) - Len(todo)
           w == Head(todo)
           rest == Tail(todo)
<1>1. /\ Claiming /\ ToReplace(w) = {} /\ todo' = rest /\ kept' = Append(kept, w)
      /\ UNCHANGED <<cmdline, cmdline0, env, fds, pc, status, temps, claimed, added>>
  BY DEF LeaveToLinker, loadVars
<1>2. status = "running" /\ pc = "claiming" /\ Loaded /\ Loaded'
  BY <1>1 DEF Claiming, Loaded
<1>3. /\ n \in Nat /\ Offered = 1 .. n /\ 1 .. n + 1 = (1 .. n) \cup {n + 1}
      /\ w \in Word /\ w = L[n + 1] /\ w \in ToSet(InputFiles(cmdline))
      /\ rest \in Seq(Word) /\ Len(rest) <= Len(L) /\ Len(L) - Len(rest) = n + 1
      /\ \A k \in DOMAIN rest : rest[k] = L[Len(L) - Len(rest) + k]
  BY <1>1, NextOffered
<1>4. TypeOK
  BY DEF IInv
<1>5. /\ IsSelection(kept, L, Offered \ Gone) /\ IsSelection(Claims, L, Gone)
      /\ \A k \in DOMAIN kept : kept[k] \in ToSet(InputFiles(cmdline)) /\ ToReplace(kept[k]) = {}
      /\ \A k \in DOMAIN claimed :
            /\ claimed[k].file \in ToSet(InputFiles(cmdline)) /\ ToReplace(claimed[k].file) # {}
            /\ temps[claimed[k].temp] = Relinked(claimed[k].file, ToReplace(claimed[k].file))
  BY <1>2 DEF IInv, ClaimsOK
<1>6. L' = L
  BY <1>1
<1> HIDE DEF L, w, rest
<1>7. TypeOK'
  <2>1. kept' \in Seq(Word)
    <3>1. kept \in Seq(Word)
      BY <1>4 DEF TypeOK
    <3> HIDE DEF Word
    <3> QED
      BY <1>1, <1>3, <3>1
  <2> HIDE DEF Word
  <2> QED
    BY <1>1, <1>3, <1>4, <2>1 DEF TypeOK
<1>8. JobOK' /\ ScriptOK' /\ ContentOK'
  <2>1. UNCHANGED <<cmdline, cmdline0, env, fds>> /\ temps' = temps \o <<>>
        /\ status' # "guard_abort" /\ (status' = "running" => status = "running")
    BY <1>1, <1>2, NothingAdded
  <2> QED
    BY <1>2, <2>1, NothingAdded, LinkFrame
<1>9. \A v : ToReplace(v)' = ToReplace(v)
  BY <1>1 DEF ToReplace
<1>10. Offered' = 1 .. n + 1
  BY <1>1, <1>3, <1>6 DEF Offered, L
<1>11. Gone' = Gone
  <2>1. Gone = {k \in 1 .. n : ToReplace(L[k]) # {}}
    BY <1>3 DEF Gone, L
  <2>2. Gone' = {k \in 1 .. n + 1 : ToReplace(L[k]) # {}}
    BY <1>1, <1>6, <1>10 DEF Gone, L, ToReplace
  <2>3. ToReplace(L[n + 1]) = {}
    BY <1>1, <1>3
  <2> HIDE DEF n
  <2> QED
    BY <1>3, <2>1, <2>2, <2>3
<1>12. Offered' \ Gone' = (Offered \ Gone) \cup {n + 1}
  <2>1. Gone \subseteq 1 .. n
    BY <1>3 DEF Gone
  <2>2. n + 1 \notin 1 .. n
    BY <1>3
  <2> HIDE DEF n
  <2> QED
    BY <1>3, <1>10, <1>11, <2>1, <2>2
<1>13. IsSelection(Append(kept, w), L, (Offered \ Gone) \cup {n + 1})
  <2>1. kept \in Seq(Word)
    BY <1>4 DEF TypeOK
  <2>2. Offered \ Gone \subseteq 1 .. n
    BY <1>3
  <2> HIDE DEF Word, n
  <2> QED
    BY <1>3, <1>5, <2>1, <2>2, SelectionGrows
<1>14. \A k \in DOMAIN kept' : kept'[k] \in ToSet(InputFiles(cmdline)) /\ ToReplace(kept'[k]) = {}
  <2>1. kept \in Seq(Word)
    BY <1>4 DEF TypeOK
  <2>2. \A k \in DOMAIN kept' : (k \in DOMAIN kept /\ kept'[k] = kept[k]) \/ kept'[k] = w
    <3> HIDE DEF Word
    <3> QED
      BY <1>1, <1>3, <2>1
  <2> QED
    BY <1>1, <1>3, <1>5, <2>2
<1>15. ClaimsOK'
  <2> HIDE DEF n
  <2>1. Len(todo)' <= Len(LdFiles(cmdline))'
    BY <1>1, <1>3, <1>6 DEF L
  <2>2. (\A k \in DOMAIN todo : todo[k] = LdFiles(cmdline)[Len(LdFiles(cmdline)) - Len(todo) + k])'
    BY <1>1, <1>3, <1>6 DEF L
  <2>3. IsSelection(kept, LdFiles(cmdline), Offered \ Gone)'
    BY <1>1, <1>6, <1>12, <1>13 DEF L
  <2>4. Claims' = Claims
    BY <1>1 DEF Claims
  <2>5. IsSelection(Claims, LdFiles(cmdline), Gone)'
    BY <1>5, <1>6, <1>11, <2>4 DEF L
  <2>6. (\A k \in DOMAIN kept :
            kept[k] \in ToSet(InputFiles(cmdline)) /\ ToReplace(kept[k]) = {})'
    BY <1>1, <1>9, <1>14
  <2>7. (\A k \in DOMAIN claimed :
            /\ claimed[k].file \in ToSet(InputFiles(cmdline)) /\ ToReplace(claimed[k].file) # {}
            /\ temps[claimed[k].temp] = Relinked(claimed[k].file, ToReplace(claimed[k].file)))'
    <3>1. \A v, s : Relinked(v, s)' = Relinked(v, s)
      BY <1>1 DEF Relinked
    <3> QED
      BY <1>1, <1>5, <1>9, <3>1
  <2>8. pc' \notin {"linking", "done"}
    BY <1>1, <1>2
  <2> QED
    BY <1>2, <2>1, <2>2, <2>3, <2>5, <2>6, <2>7, <2>8 DEF ClaimsOK
<1> QED
  BY <1>7, <1>8, <1>15 DEF IInv

\* A file replaced by its stand-in.
LEMMA ClaimKeeps ==
  ASSUME IInv, Claim
  PROVE  IInv'
<1> DEFINE L == LdFiles(cmdline)
           n == Len(L) - Len(todo)
           w == Head(todo)
           rest == Tail(todo)
           s == Relinked(w, ToReplace(w))
           new == [file |-> w, temp |-> Len(temps) + 1]
<1>1. /\ Claiming /\ ToReplace(w) # {} /\ todo' = rest
      /\ temps' = Append(temps, s) /\ claimed' = Append(claimed, new)
      /\ UNCHANGED <<cmdline, cmdline0, env, fds, pc, status, kept, added>>
  BY DEF Claim, loadVars
<1>2. status = "running" /\ pc = "claiming" /\ Loaded /\ Loaded'
  BY <1>1 DEF Claiming, Loaded
<1>3. /\ n \in Nat /\ Offered = 1 .. n /\ 1 .. n + 1 = (1 .. n) \cup {n + 1}
      /\ w \in Word /\ w = L[n + 1] /\ w \in ToSet(InputFiles(cmdline))
      /\ rest \in Seq(Word) /\ Len(rest) <= Len(L) /\ Len(L) - Len(rest) = n + 1
      /\ \A k \in DOMAIN rest : rest[k] = L[Len(L) - Len(rest) + k]
  BY <1>1, NextOffered
<1>4. TypeOK
  BY DEF IInv
<1>5. /\ IsSelection(kept, L, Offered \ Gone) /\ IsSelection(Claims, L, Gone)
      /\ \A k \in DOMAIN kept : kept[k] \in ToSet(InputFiles(cmdline)) /\ ToReplace(kept[k]) = {}
      /\ \A k \in DOMAIN claimed :
            /\ claimed[k].file \in ToSet(InputFiles(cmdline)) /\ ToReplace(claimed[k].file) # {}
            /\ temps[claimed[k].temp] = Relinked(claimed[k].file, ToReplace(claimed[k].file))
  BY <1>2 DEF IInv, ClaimsOK
<1>6. L' = L
  BY <1>1
<1>7. s \in Temp /\ s.kind # "ldscript"
  <2>1. ToReplace(w) \in SUBSET STRING
    BY ToReplaceIs
  <2>2. cmdline[1] \in Word
    BY LineFits
  <2> HIDE DEF w, Word
  <2> QED
    BY <1>3, <2>1, <2>2 DEF Relinked, Temp
<1> HIDE DEF L, w, rest, s
<1>8. /\ temps \in Seq(Temp) /\ <<s>> \in Seq(Temp) /\ temps' = temps \o <<s>>
      /\ Len(<<s>>) = 1 /\ <<s>>[1] = s /\ \A i \in DOMAIN <<s>> : <<s>>[i].kind # "ldscript"
  <2>1. temps \in Seq(Temp)
    BY <1>4 DEF TypeOK, Temp
  <2> HIDE DEF Temp
  <2>2. Append(temps, s) = temps \o <<s>>
    BY <1>7, <2>1, AppendIsConcat
  <2> QED
    BY <1>1, <1>7, <2>1, <2>2
<1>9. /\ JobOK' /\ ScriptOK' /\ ContentOK'
      /\ temps' \in Seq(Temp) /\ DOMAIN temps \subseteq DOMAIN temps'
      /\ \A i \in DOMAIN temps : temps'[i] = temps[i]
      /\ Seq(DOMAIN temps) \subseteq Seq(DOMAIN temps')
      /\ Seq([file : Word, temp : DOMAIN temps]) \subseteq Seq([file : Word, temp : DOMAIN temps'])
  <2>1. UNCHANGED <<cmdline, cmdline0, env, fds>>
        /\ status' # "guard_abort" /\ (status' = "running" => status = "running")
    BY <1>1, <1>2
  <2> QED
    BY <1>2, <1>8, <2>1, LinkFrame
<1>10. Len(temps) + 1 \in DOMAIN temps' /\ temps'[Len(temps) + 1] = s
  BY <1>8, TempsGrow
<1>11. new \in [file : Word, temp : DOMAIN temps'] /\ new.file = w /\ new.temp = Len(temps) + 1
  <2> HIDE DEF Word
  <2> QED
    BY <1>3, <1>10
<1> HIDE DEF new
<1>12. claimed \in Seq([file : Word, temp : DOMAIN temps])
       /\ claimed \in Seq([file : Word, temp : DOMAIN temps'])
  BY <1>4, <1>9 DEF TypeOK
<1>13. /\ claimed' \in Seq([file : Word, temp : DOMAIN temps'])
       /\ DOMAIN claimed = 1 .. Len(claimed) /\ DOMAIN claimed' = 1 .. Len(claimed) + 1
       /\ Len(claimed) \in Nat
       /\ \A k \in DOMAIN claimed : claimed'[k] = claimed[k] /\ claimed[k].temp \in DOMAIN temps
                                    /\ claimed[k].file \in Word
       /\ claimed'[Len(claimed) + 1] = new
  <2> DEFINE C == [file : Word, temp : DOMAIN temps]
             C2 == [file : Word, temp : DOMAIN temps']
  <2>1. claimed \in Seq(C) /\ claimed \in Seq(C2) /\ new \in C2 /\ claimed' = Append(claimed, new)
    BY <1>1, <1>11, <1>12
  <2>2. \A x \in C : x.temp \in DOMAIN temps /\ x.file \in Word
    <3> HIDE DEF Word
    <3> QED
      OBVIOUS
  <2> HIDE DEF C, C2
  <2>3. \A k \in DOMAIN claimed : claimed[k] \in C
    BY <2>1
  <2>4. /\ claimed' \in Seq(C2)
        /\ DOMAIN claimed = 1 .. Len(claimed) /\ DOMAIN claimed' = 1 .. Len(claimed) + 1
        /\ Len(claimed) \in Nat
        /\ \A k \in DOMAIN claimed : claimed'[k] = claimed[k]
        /\ claimed'[Len(claimed) + 1] = new
    BY <2>1
  <2> QED
    BY <2>2, <2>3, <2>4 DEF C2
<1>14. TypeOK'
  <2>1. added' \in Seq(DOMAIN temps')
    BY <1>1, <1>4, <1>9 DEF TypeOK
  <2>2. temps' \in Seq([kind : {"ldscript", "copy", "relinked"}, of : Word,
                        syms : SUBSET STRING, by : Word])
    BY <1>9 DEF Temp
  <2> HIDE DEF Word
  <2> QED
    BY <1>1, <1>3, <1>4, <1>13, <2>1, <2>2 DEF TypeOK
<1>15. \A v : ToReplace(v)' = ToReplace(v)
  BY <1>1 DEF ToReplace
<1>16. Offered' = 1 .. n + 1
  BY <1>1, <1>3, <1>6 DEF Offered, L
<1>17. Gone' = Gone \cup {n + 1} /\ Gone \subseteq 1 .. n
  <2>1. Gone = {k \in 1 .. n : ToReplace(L[k]) # {}}
    BY <1>3 DEF Gone, L
  <2>2. Gone' = {k \in 1 .. n + 1 : ToReplace(L[k]) # {}}
    BY <1>1, <1>6, <1>16 DEF Gone, L, ToReplace
  <2>3. ToReplace(L[n + 1]) # {}
    BY <1>1, <1>3
  <2> HIDE DEF n
  <2> QED
    BY <1>3, <2>1, <2>2, <2>3
<1>18. Offered' \ Gone' = Offered \ Gone
  <2>1. n + 1 \notin 1 .. n
    BY <1>3
  <2> HIDE DEF n
  <2> QED
    BY <1>3, <1>16, <1>17, <2>1
<1>19. Claims \in Seq(Word) /\ Claims' = Append(Claims, w)
  <2>1. Claims = [k \in 1 .. Len(claimed) |-> claimed[k].file]
    BY <1>13 DEF Claims
  <2>2. Claims' = [k \in 1 .. Len(claimed) + 1 |-> claimed'[k].file]
    BY <1>13 DEF Claims
  <2>3. Claims \in [1 .. Len(claimed) -> Word]
    <3> HIDE DEF Word
    <3> QED
      BY <1>13, <2>1
  <2> HIDE DEF Word
  <2>4. Claims \in Seq(Word) /\ Len(Claims) = Len(claimed)
    <3>1. Claims \in Seq(Word)
      BY <1>13, <2>3
    <3>2. DOMAIN Claims = 1 .. Len(claimed)
      BY <2>3
    <3> QED
      BY <1>13, <3>1, <3>2
  <2>5. ASSUME NEW k \in 1 .. Len(claimed) + 1 PROVE Claims'[k] = Append(Claims, w)[k]
    <3>1. CASE k \in DOMAIN claimed
      <4>1. Claims'[k] = claimed[k].file /\ Claims[k] = claimed[k].file
        BY <1>13, <2>1, <2>2, <3>1
      <4>2. Append(Claims, w)[k] = Claims[k]
        BY <1>3, <1>13, <2>4, <3>1, AppendProperties
      <4> QED
        BY <4>1, <4>2
    <3>2. CASE k \notin DOMAIN claimed
      <4>1. k = Len(claimed) + 1
        BY <1>13, <3>2
      <4>2. Claims'[k] = w
        BY <1>11, <1>13, <2>2, <4>1
      <4>3. Append(Claims, w)[k] = w
        BY <1>3, <2>4, <4>1, AppendProperties
      <4> QED
        BY <4>2, <4>3
    <3> QED
      BY <3>1, <3>2
  <2>6. Append(Claims, w) \in Seq(Word) /\ Len(Append(Claims, w)) = Len(claimed) + 1
    BY <1>3, <2>4, AppendProperties
  <2>7. Append(Claims, w) = [k \in 1 .. Len(claimed) + 1 |-> Append(Claims, w)[k]]
    <3> DEFINE e == Append(Claims, w)
    <3> HIDE DEF e
    <3>1. e \in Seq(Word) /\ Len(e) = Len(claimed) + 1
      BY <2>6 DEF e
    <3>2. e = [k \in 1 .. Len(claimed) + 1 |-> e[k]]
      BY <3>1
    <3> QED
      BY <3>2 DEF e
  <2>8. Claims' = [k \in 1 .. Len(claimed) + 1 |-> Claims'[k]]
    BY <2>2
  <2> QED
    BY <2>4, <2>5, <2>7, <2>8
<1>20. IsSelection(Append(Claims, w), L, Gone \cup {n + 1})
  <2> HIDE DEF Word, n
  <2> QED
    BY <1>3, <1>5, <1>17, <1>19, SelectionGrows
<1>21. ASSUME NEW k \in DOMAIN claimed'
       PROVE  /\ claimed'[k].file \in ToSet(InputFiles(cmdline)) /\ ToReplace(claimed'[k].file) # {}
              /\ temps'[claimed'[k].temp] = Relinked(claimed'[k].file, ToReplace(claimed'[k].file))
  <2>1. CASE k \in DOMAIN claimed
    <3>1. claimed'[k] = claimed[k] /\ temps'[claimed[k].temp] = temps[claimed[k].temp]
      BY <1>9, <1>13, <2>1
    <3> QED
      BY <1>5, <2>1, <3>1
  <2>2. CASE k \notin DOMAIN claimed
    <3>1. k = Len(claimed) + 1
      BY <1>13, <2>2
    <3>2. claimed'[k] = new
      BY <1>13, <3>1
    <3>3. temps'[claimed'[k].temp] = s /\ claimed'[k].file = w
      BY <1>10, <1>11, <3>2
    <3> QED
      BY <1>1, <1>3, <3>3 DEF s
  <2> QED
    BY <2>1, <2>2
<1>22. ClaimsOK'
  <2> HIDE DEF n
  <2>1. Len(todo)' <= Len(LdFiles(cmdline))'
    BY <1>1, <1>3, <1>6 DEF L
  <2>2. (\A k \in DOMAIN todo : todo[k] = LdFiles(cmdline)[Len(LdFiles(cmdline)) - Len(todo) + k])'
    BY <1>1, <1>3, <1>6 DEF L
  <2>3. IsSelection(kept, LdFiles(cmdline), Offered \ Gone)'
    BY <1>1, <1>5, <1>6, <1>18 DEF L
  <2>4. IsSelection(Claims, LdFiles(cmdline), Gone)'
    BY <1>6, <1>17, <1>19, <1>20 DEF L
  <2>5. (\A k \in DOMAIN kept :
            kept[k] \in ToSet(InputFiles(cmdline)) /\ ToReplace(kept[k]) = {})'
    BY <1>1, <1>5, <1>15
  <2>6. (\A k \in DOMAIN claimed :
            /\ claimed[k].file \in ToSet(InputFiles(cmdline)) /\ ToReplace(claimed[k].file) # {}
            /\ temps[claimed[k].temp] = Relinked(claimed[k].file, ToReplace(claimed[k].file)))'
    <3>1. \A v, S : Relinked(v, S)' = Relinked(v, S)
      BY <1>1 DEF Relinked
    <3> QED
      BY <1>1, <1>15, <1>21, <3>1
  <2>7. pc' \notin {"linking", "done"}
    BY <1>1, <1>2
  <2> QED
    BY <1>2, <2>1, <2>2, <2>3, <2>4, <2>5, <2>6, <2>7 DEF ClaimsOK
<1> QED
  BY <1>9, <1>14, <1>22 DEF IInv

\* What has been claimed stays so when temporaries are added or the stage changes.
LEMMA ClaimsStay ==
  ASSUME IInv, Loaded, Loaded', UNCHANGED <<cmdline, todo, kept, claimed>>,
         DOMAIN temps \subseteq DOMAIN temps', \A i \in DOMAIN temps : temps'[i] = temps[i],
         pc' \in {"linking", "done"} =>
           todo = <<>> /\ added' = [k \in DOMAIN claimed |-> claimed[k].temp]
  PROVE  ClaimsOK'
<1>1. \A k \in DOMAIN claimed : claimed[k].temp \in DOMAIN temps
  <2> DEFINE C == [file : Word, temp : DOMAIN temps]
  <2>1. claimed \in Seq(C)
    BY DEF IInv, TypeOK
  <2>2. \A x \in C : x.temp \in DOMAIN temps
    <3> HIDE DEF Word
    <3> QED
      OBVIOUS
  <2> HIDE DEF C
  <2> QED
    BY <2>1, <2>2
<1>2. \A v : ToReplace(v)' = ToReplace(v)
  BY DEF ToReplace
<1>3. \A v, S : Relinked(v, S)' = Relinked(v, S)
  BY DEF Relinked
<1>4. Offered' = Offered /\ Claims' = Claims
  BY DEF Offered, Claims
<1>5. Gone' = Gone
  BY <1>4 DEF Gone, ToReplace
<1>6. (\A k \in DOMAIN claimed :
          /\ claimed[k].file \in ToSet(InputFiles(cmdline)) /\ ToReplace(claimed[k].file) # {}
          /\ temps[claimed[k].temp] = Relinked(claimed[k].file, ToReplace(claimed[k].file)))'
  <2>1. \A k \in DOMAIN claimed :
          /\ claimed[k].file \in ToSet(InputFiles(cmdline)) /\ ToReplace(claimed[k].file) # {}
          /\ temps[claimed[k].temp] = Relinked(claimed[k].file, ToReplace(claimed[k].file))
    BY DEF IInv, ClaimsOK
  <2> QED
    BY <1>1, <1>2, <1>3, <2>1
<1>7. (\A k \in DOMAIN kept :
          kept[k] \in ToSet(InputFiles(cmdline)) /\ ToReplace(kept[k]) = {})'
  <2>1. \A k \in DOMAIN kept : kept[k] \in ToSet(InputFiles(cmdline)) /\ ToReplace(kept[k]) = {}
    BY DEF IInv, ClaimsOK
  <2> QED
    BY <1>2, <2>1
<1> QED
  BY <1>4, <1>5, <1>6, <1>7 DEF IInv, ClaimsOK

\* A step of the handler that fails.
LEMMA ClaimFailsKeeps ==
  ASSUME IInv, ClaimFails
  PROVE  IInv'
<1> DEFINE w == Head(todo)
           syms == ToReplace(w)
           Leavings == {<<>>} \cup {<<Copy(w, S)>> : S \in SUBSET syms}
                         \cup {<<Copy(w, syms), Relinked(w, S)>> : S \in {{}, syms}}
<1>1. /\ Claiming /\ status' = "aborted"
      /\ \E left \in Leavings : temps' = temps \o left
      /\ UNCHANGED <<cmdline, cmdline0, env, fds, pc, todo, kept, claimed, added>>
  BY DEF ClaimFails, loadVars, linkVars
<1>2. pc = "claiming" /\ Loaded /\ Loaded'
  BY <1>1 DEF Claiming, Loaded
<1>3. w \in Word
  BY <1>1, NextOffered
<1>4. syms \in SUBSET STRING
  BY ToReplaceIs
<1>5. cmdline[1] \in Word /\ Exe \in Word
  BY LineFits
<1> HIDE DEF w, syms
<1>6. ASSUME NEW S \in SUBSET syms PROVE Copy(w, S) \in Temp /\ Copy(w, S).kind # "ldscript"
  <2>1. S \in SUBSET STRING
    BY <1>4
  <2> HIDE DEF Word
  <2> QED
    BY <1>3, <1>5, <2>1 DEF Copy, Temp
<1>7. ASSUME NEW S \in {{}, syms} PROVE Relinked(w, S) \in Temp /\ Relinked(w, S).kind # "ldscript"
  <2>1. S \in SUBSET STRING
    BY <1>4
  <2> HIDE DEF Word
  <2> QED
    BY <1>3, <1>5, <2>1 DEF Relinked, Temp
<1>8. PICK u \in Seq(Temp) : temps' = temps \o u /\ \A i \in DOMAIN u : u[i].kind # "ldscript"
  <2>1. PICK left \in Leavings : temps' = temps \o left
    BY <1>1
  <2> SUFFICES left \in Seq(Temp) /\ \A i \in DOMAIN left : left[i].kind # "ldscript"
    BY <2>1
  <2>2. CASE left = <<>>
    BY <2>2
  <2>3. CASE left \in {<<Copy(w, syms), Relinked(w, S)>> : S \in {{}, syms}}
    <3>0. PICK S \in {{}, syms} : left = <<Copy(w, syms), Relinked(w, S)>>
      BY <2>3
    <3> DEFINE a == Copy(w, syms)
               b == Relinked(w, S)
    <3>1. a \in Temp /\ b \in Temp /\ a.kind # "ldscript" /\ b.kind # "ldscript" /\ left = <<a, b>>
      BY <1>6, <1>7, <3>0
    <3> HIDE DEF a, b, Temp
    <3>2. \A i \in DOMAIN left : left[i] = a \/ left[i] = b
      BY <3>1
    <3> QED
      BY <3>1, <3>2
  <2>4. CASE left \in {<<Copy(w, S)>> : S \in SUBSET syms}
    <3>1. PICK S \in SUBSET syms : left = <<Copy(w, S)>>
      BY <2>4
    <3> DEFINE a == Copy(w, S)
    <3>2. a \in Temp /\ a.kind # "ldscript" /\ left = <<a>>
      BY <1>6, <3>1
    <3> HIDE DEF a, Temp
    <3>3. \A i \in DOMAIN left : left[i] = a
      BY <3>2
    <3> QED
      BY <3>2, <3>3
  <2> QED
    BY <2>2, <2>3, <2>4
<1>9. /\ JobOK' /\ ScriptOK' /\ ContentOK'
      /\ temps' \in Seq(Temp) /\ DOMAIN temps \subseteq DOMAIN temps'
      /\ \A i \in DOMAIN temps : temps'[i] = temps[i]
      /\ Seq(DOMAIN temps) \subseteq Seq(DOMAIN temps')
      /\ Seq([file : Word, temp : DOMAIN temps]) \subseteq Seq([file : Word, temp : DOMAIN temps'])
  <2>1. UNCHANGED <<cmdline, cmdline0, env, fds>>
        /\ status' # "guard_abort" /\ (status' = "running" => status = "running")
    BY <1>1
  <2> QED
    BY <1>2, <1>8, <2>1, LinkFrame
<1>10. TypeOK'
  <2>1. TypeOK
    BY DEF IInv
  <2>2. added' \in Seq(DOMAIN temps') /\ claimed' \in Seq([file : Word, temp : DOMAIN temps'])
    BY <1>1, <1>9, <2>1 DEF TypeOK
  <2>3. temps' \in Seq([kind : {"ldscript", "copy", "relinked"}, of : Word,
                        syms : SUBSET STRING, by : Word])
    BY <1>9 DEF Temp
  <2> HIDE DEF Word
  <2> QED
    BY <1>1, <2>1, <2>2, <2>3 DEF TypeOK
<1>11. ClaimsOK'
  <2>1. UNCHANGED <<cmdline, todo, kept, claimed>> /\ pc' \notin {"linking", "done"}
    BY <1>1, <1>2
  <2> QED
    BY <1>2, <1>9, <2>1, ClaimsStay
<1> QED
  BY <1>9, <1>10, <1>11 DEF IInv

\* The stand-ins are added to the link.
LEMMA AllSymbolsReadKeeps ==
  ASSUME IInv, AllSymbolsRead
  PROVE  IInv'
<1>1. /\ status = "running" /\ pc = "claiming" /\ todo = <<>> /\ pc' = "linking"
      /\ added' = [k \in DOMAIN claimed |-> claimed[k].temp]
      /\ UNCHANGED <<cmdline, cmdline0, env, fds, status, temps, todo, kept, claimed>>
  BY DEF AllSymbolsRead, loadVars
<1>2. Loaded /\ Loaded'
  BY <1>1 DEF Loaded
<1>3. JobOK' /\ ScriptOK' /\ ContentOK'
  <2>1. UNCHANGED <<cmdline, cmdline0, env, fds>> /\ temps' = temps \o <<>>
        /\ status' # "guard_abort" /\ (status' = "running" => status = "running")
    BY <1>1, NothingAdded
  <2> QED
    BY <1>2, <2>1, NothingAdded, LinkFrame
<1>4. TypeOK'
  <2>1. TypeOK
    BY DEF IInv
  <2>2. added' \in Seq(DOMAIN temps)
    <3> DEFINE C == [file : Word, temp : DOMAIN temps]
               D == DOMAIN temps
    <3>1. claimed \in Seq(C)
      BY <2>1 DEF TypeOK
    <3>2. \A x \in C : x.temp \in D
      <4> HIDE DEF Word
      <4> QED
        OBVIOUS
    <3> HIDE DEF C, D
    <3>3. DOMAIN claimed = 1 .. Len(claimed) /\ Len(claimed) \in Nat
          /\ \A k \in 1 .. Len(claimed) : claimed[k].temp \in D
      BY <3>1, <3>2
    <3>4. added' = [k \in 1 .. Len(claimed) |-> claimed[k].temp]
      BY <1>1, <3>3
    <3>5. added' \in [1 .. Len(claimed) -> D]
      BY <3>3, <3>4
    <3>6. added' \in Seq(D)
      BY <3>3, <3>5
    <3> QED
      BY <3>6 DEF D
  <2> HIDE DEF Word
  <2> QED
    BY <1>1, <2>1, <2>2 DEF TypeOK
<1>5. ClaimsOK'
  <2>1. /\ UNCHANGED <<cmdline, todo, kept, claimed>> /\ DOMAIN temps \subseteq DOMAIN temps'
        /\ \A i \in DOMAIN temps : temps'[i] = temps[i]
    BY <1>1
  <2> QED
    BY <1>1, <1>2, <2>1, ClaimsStay
<1> QED
  BY <1>3, <1>4, <1>5 DEF IInv

\* The end of the link.
LEMMA CleanupKeeps ==
  ASSUME IInv, Cleanup
  PROVE  IInv'
<1>1. /\ status = "running" /\ pc = "linking" /\ pc' = "done"
      /\ UNCHANGED <<cmdline, cmdline0, env, fds, status, temps, todo, kept, claimed, added>>
  BY DEF Cleanup, loadVars, linkVars
<1>2. Loaded /\ Loaded'
  BY <1>1 DEF Loaded
<1>3. JobOK' /\ ScriptOK' /\ ContentOK'
  <2>1. UNCHANGED <<cmdline, cmdline0, env, fds>> /\ temps' = temps \o <<>>
        /\ status' # "guard_abort" /\ (status' = "running" => status = "running")
    BY <1>1, NothingAdded
  <2> QED
    BY <1>2, <2>1, NothingAdded, LinkFrame
<1>4. TypeOK'
  <2>1. TypeOK
    BY DEF IInv
  <2> HIDE DEF Word
  <2> QED
    BY <1>1, <2>1 DEF TypeOK
<1>5. ClaimsOK'
  <2>1. /\ UNCHANGED <<cmdline, todo, kept, claimed>> /\ DOMAIN temps \subseteq DOMAIN temps'
        /\ \A i \in DOMAIN temps : temps'[i] = temps[i]
    BY <1>1
  <2>2. todo = <<>> /\ added' = [k \in DOMAIN claimed |-> claimed[k].temp]
    BY <1>1 DEF IInv, ClaimsOK
  <2> QED
    BY <1>2, <2>1, <2>2, ClaimsStay
<1> QED
  BY <1>3, <1>4, <1>5 DEF IInv

\* Every step keeps the invariant.
LEMMA StepOK ==
  IInv /\ [Next]_vars => IInv'
<1> SUFFICES ASSUME IInv, [Next]_vars PROVE IInv'
  OBVIOUS
<1>1. CASE UNCHANGED vars
  <2>1. UNCHANGED <<cmdline, cmdline0, env, pc, status, fds, temps, todo, kept, claimed, added>>
    BY <1>1 DEF vars
  <2>2. TypeOK'
    BY <2>1 DEF IInv, TypeOK
  <2>3. JobOK'
    BY <2>1 DEF IInv, JobOK, InFront, Local0, AddedWraps
  <2>4. ScriptOK'
    BY <2>1 DEF IInv, ScriptOK, Scripts, Local0
  <2>5. ContentOK'
    BY <2>1 DEF IInv, ContentOK, Loaded
  <2>6. ClaimsOK'
    BY <2>1 DEF IInv, ClaimsOK, Loaded, Offered, Gone, Claims, ToReplace, Relinked
  <2> QED
    BY <2>2, <2>3, <2>4, <2>5, <2>6 DEF IInv
<1>2. CASE Next
  BY <1>2, ContentKeeps, RestartKeeps, ExecFailsKeeps, NoTempFileKeeps, LeaveKeeps,
     ClaimKeeps, ClaimFailsKeeps, AllSymbolsReadKeeps, CleanupKeeps DEF Next
<1> QED
  BY <1>1, <1>2

\* So it holds of every behaviour of the plugin, fair or not.
LEMMA AlwaysIInv ==
  Spec => []IInv
BY InitOK, StepOK, PTL DEF Spec

----------------------------------------------------------------------------
\* What the invariant says.

\* There is a script when the constructor has done its work for a symbol that an
\* object defines, and it is in front.
LEMMA ScriptWhenLoaded ==
  ASSUME IInv, Loaded
  PROVE  /\ fds = {} => Scripts = {} /\ Local0 = {}
         /\ fds = {3} => /\ \E i \in DOMAIN temps : Scripts = {i}
                         /\ InputFiles(cmdline) = <<FdPath(3)>> \o InputFiles(cmdline0)
                         /\ cmdline[1] = Exe
         /\ fds \in {{}, {3}}
<1>1. /\ fds \in {{}, {3}}
      /\ fds = {} => Scripts = {}
      /\ fds = {3} => \E i \in DOMAIN temps : Scripts = {i} /\ cmdline[1] = Exe
  BY DEF IInv, ScriptOK, Loaded
<1>2. fds = {} => Local0 = {}
  <2>1. ~Wants("ldscript", cmdline, fds) /\ AllXwrappedDefined(cmdline) = Local0
    BY DEF IInv, ContentOK, JobOK
  <2>2. AllXwrappedDefined(cmdline) = {} \/ HasLdscript(cmdline, fds)
    BY <2>1 DEF Wants
  <2> QED
    BY <2>1, <2>2 DEF HasLdscript
<1>3. fds = {3} => InputFiles(cmdline) = <<FdPath(3)>> \o InputFiles(cmdline0)
  BY DEF IInv, JobOK, InFront
<1> QED
  BY <1>1, <1>2, <1>3

\* When onload returns, every symbol to wrap is served in one of the two ways
\* (xwrap-ldplugin.cpp:360-520).
THEOREM Every_Symbol_Served ==
  Spec => []EverySymbolServed
<1>1. IInv => EverySymbolServed
  <2> SUFFICES ASSUME IInv, Loaded
               PROVE  LET local == AllXwrappedDefined(cmdline)
                      IN  /\ HasSubseq(cmdline, Muldefs)
                          /\ Options(cmdline) = Options(cmdline0)
                          /\ Options(cmdline) \ local \subseteq CmdlineWrapped(cmdline)
                          /\ local # {} => \E i \in Scripts : /\ temps[i].syms = local
                                                              /\ temps[i].of = Head(InputFiles(cmdline))
    BY DEF EverySymbolServed
  <2>1. HasSubseq(cmdline, Muldefs)
    <3>1. ~Wants("muldefs", cmdline, fds)
      BY DEF IInv, ContentOK, Loaded
    <3> QED
      BY <3>1 DEF Wants
  <2>2. MissingWraps(cmdline) = {}
    <3>1. ~Wants("wraps", cmdline, fds)
      BY DEF IInv, ContentOK, Loaded
    <3> QED
      BY <3>1 DEF Wants
  <2>3. Options(cmdline) = Options(cmdline0) /\ AllXwrappedDefined(cmdline) = Local0 /\ Good(cmdline0)
    BY DEF IInv, JobOK
  <2>4. ASSUME Local0 # {}
        PROVE  \E i \in Scripts : temps[i].syms = Local0 /\ temps[i].of = Head(InputFiles(cmdline))
    <3>1. /\ \E i \in DOMAIN temps : Scripts = {i}
          /\ InputFiles(cmdline) = <<FdPath(3)>> \o InputFiles(cmdline0)
      BY <2>4, ScriptWhenLoaded
    <3>2. \A i \in Scripts : temps[i].of = FdPath(3) /\ temps[i].syms = Local0
      BY DEF IInv, ScriptOK
    <3>3. Head(InputFiles(cmdline)) = FdPath(3)
      <4>1. FdPath(3) \in Word /\ InputFiles(cmdline0) \in Seq(Word)
        BY <2>3, LineFits, InputFilesType
      <4> DEFINE v == FdPath(3)
                 s == InputFiles(cmdline0)
                 e == InputFiles(cmdline)
      <4> HIDE DEF v, s, e, Word
      <4>2. v \in Word /\ s \in Seq(Word) /\ e = <<v>> \o s
        BY <3>1, <4>1 DEF v, s, e
      <4>3. Head(e) = v
        BY <4>2
      <4> QED
        BY <4>3 DEF v, e
    <3> QED
      BY <3>1, <3>2, <3>3
  <2> QED
    BY <2>1, <2>2, <2>3, <2>4 DEF MissingWraps
<1> QED
  BY <1>1, AlwaysIInv, PTL

\* No symbol is redirected by the script and by a --wrap of the plugin's
\* (xwrap-ldplugin.cpp:404).
THEOREM No_Double_Redirect ==
  Spec => []NoDoubleRedirect
<1>1. IInv => NoDoubleRedirect
  BY DEF IInv, JobOK, ScriptOK, NoDoubleRedirect
<1> QED
  BY <1>1, AlwaysIInv, PTL

\* However often the line is rewritten, the job links the user's files, in the
\* user's order, behind a script if one is open.
THEOREM Inputs_Preserved ==
  Spec => []InputsPreserved
<1>1. IInv => InputsPreserved
  <2> SUFFICES ASSUME IInv
               PROVE  \E front \in {<<>>} \cup {<<FdPath(n)>> : n \in fds} :
                        InputFiles(cmdline) = front \o InputFiles(cmdline0)
    BY DEF InputsPreserved
  <2>1. InputFiles(cmdline) = InFront \o InputFiles(cmdline0) /\ fds \in {{}, {3}}
    BY DEF IInv, JobOK, ScriptOK
  <2>2. InFront \in {<<>>} \cup {<<FdPath(n)>> : n \in fds}
    BY <2>1 DEF InFront
  <2> QED
    BY <2>1, <2>2
<1> QED
  BY <1>1, AlwaysIInv, PTL

\* The state is well formed, and a link leaves at most one script behind, which is
\* open when it loads (xwrap-ldplugin.cpp:478).
THEOREM Temps_Sound ==
  Spec => []TempsSound
<1>1. IInv => TempsSound
  <2> SUFFICES ASSUME IInv PROVE TypeOK /\ OneScript
    BY DEF TempsSound
  <2>1. Scripts = {} \/ \E i \in DOMAIN temps : Scripts = {i}
    BY DEF IInv, ScriptOK
  <2>2. Cardinality(Scripts) <= 1
    <3>1. Cardinality(Scripts) = 0 \/ Cardinality(Scripts) = 1
      BY <2>1, FS_EmptySet, FS_Singleton
    <3> QED
      BY <3>1
  <2>3. Loaded => \A i \in Scripts : temps[i].of.fd \in fds
    <3>1. \A i \in Scripts : temps[i].of = FdPath(3)
      BY DEF IInv, ScriptOK
    <3>2. Loaded => Scripts = {} \/ fds = {3}
      BY ScriptWhenLoaded
    <3>3. FdPath(3).fd = 3
      BY DEF FdPath
    <3> QED
      BY <3>1, <3>2, <3>3
  <2> QED
    BY <2>2, <2>3 DEF OneScript, IInv
<1> QED
  BY <1>1, AlwaysIInv, PTL

\* The criteria keep to what restart_criterion asks of them, and so the abort of
\* restart-self.hh:146 does not happen.
THEOREM Keeps_Fix_Contract ==
  Spec => []KeepsFixContract
<1>1. IInv => KeepsFixContract
  <2> SUFFICES ASSUME IInv PROVE KeepsFixContract
    OBVIOUS
  <2>1. status # "guard_abort"
    BY DEF IInv, ContentOK
  <2>2. Fit(cmdline, fds)
    BY LineFits
  <2>3. ASSUME NEW c \in ToSet(Criteria), Wants(c, cmdline, fds)
        PROVE  /\ ~Wants(c, Argv(FixedUp(c, cmdline, fds)), NewFds(c, fds))
               /\ \A d \in ToSet(Criteria) : ~Wants(d, cmdline, fds) =>
                    ~Wants(d, Argv(FixedUp(c, cmdline, fds)), NewFds(c, fds))
    BY <2>2, <2>3, FixContract
  <2> QED
    BY <2>1, <2>3 DEF KeepsFixContract
<1> QED
  BY <1>1, AlwaysIInv, PTL

\* What a file defines of the symbols to wrap is what the script redefines of it.
LEMMA ReplacedIsLocal ==
  ASSUME IInv, NEW w \in ToSet(InputFiles(cmdline)), NEW i \in Scripts
  PROVE  /\ ToReplace(w) = {} /\ w.arg \in DOMAIN FileKind /\ FileKind[w.arg] = "object"
              => Defines[w.arg] \cap temps[i].syms = {}
         /\ ToReplace(w) # {} => ToReplace(w) = Defines[w.arg] \cap temps[i].syms
<1>1. temps[i].syms = AllXwrappedDefined(cmdline) /\ Good(cmdline)
  BY DEF IInv, JobOK, ScriptOK
<1>2. ToReplace(w) = XwrappedDefinedIn(cmdline, w.arg)
  BY DEF ToReplace
<1>3. XwrappedDefinedIn(cmdline, w.arg) \subseteq AllXwrappedDefined(cmdline)
  BY DEF AllXwrappedDefined
<1>4. AllXwrappedDefined(cmdline) \subseteq Options(cmdline)
  BY <1>1, OptionsFinite
<1>5. CASE w.arg \in DOMAIN FileKind /\ FileKind[w.arg] = "object"
  <2>1. ToReplace(w) = Defines[w.arg] \cap Options(cmdline)
    BY <1>2, <1>5 DEF XwrappedDefinedIn
  <2>2. Defines[w.arg] \cap Options(cmdline) \subseteq temps[i].syms
    BY <1>1, <1>2, <1>3, <2>1
  <2> QED
    BY <1>1, <1>4, <2>1, <2>2
<1>6. CASE ~(w.arg \in DOMAIN FileKind /\ FileKind[w.arg] = "object")
  BY <1>2, <1>6 DEF XwrappedDefinedIn
<1> QED
  BY <1>5, <1>6

\* What ends up linked is each file or its replacement, in order; no object is
\* kept that defines what the script redefines, and each replacement has had all
\* of that normalised by the linker that links.
THEOREM Every_Definition_Replaced ==
  Spec => []EveryDefinitionReplaced
<1>1. IInv => EveryDefinitionReplaced
  <2> DEFINE files == LdFiles(cmdline)
             gone == {k \in DOMAIN files : \E j \in DOMAIN claimed : claimed[j].file = files[k]}
             of == [k \in DOMAIN added |-> temps[added[k]].of]
  <2> SUFFICES ASSUME IInv, pc \in {"linking", "done"}
               PROVE
    /\ IsSelection(kept, files, DOMAIN files \ gone)
    /\ IsSelection(of, files, gone)
    /\ \A i \in Scripts : \A k \in DOMAIN kept :
         kept[k].arg \in DOMAIN FileKind /\ FileKind[kept[k].arg] = "object"
           => Defines[kept[k].arg] \cap temps[i].syms = {}
    /\ \A i \in Scripts : \A k \in DOMAIN added :
         /\ temps[added[k]].kind = "relinked" /\ temps[added[k]].by = Exe
         /\ temps[added[k]].syms = Defines[temps[added[k]].of.arg] \cap temps[i].syms
    BY DEF EveryDefinitionReplaced
  <2>1. Loaded
    BY DEF Loaded
  <2>2. /\ todo = <<>> /\ added = [k \in DOMAIN claimed |-> claimed[k].temp]
        /\ IsSelection(kept, files, Offered \ Gone)
        /\ IsSelection(Claims, files, Gone)
        /\ \A k \in DOMAIN kept :
             kept[k] \in ToSet(InputFiles(cmdline)) /\ ToReplace(kept[k]) = {}
        /\ \A k \in DOMAIN claimed :
             /\ claimed[k].file \in ToSet(InputFiles(cmdline)) /\ ToReplace(claimed[k].file) # {}
             /\ temps[claimed[k].temp] = Relinked(claimed[k].file, ToReplace(claimed[k].file))
    BY <2>1 DEF IInv, ClaimsOK
  <2>3. files \in Seq(Word)
    BY LineFits, LdFilesAreInputs
  <2>4. Offered = DOMAIN files /\ DOMAIN files = 1 .. Len(files) /\ Len(files) \in Nat
    <3> HIDE DEF Word, files
    <3>1. DOMAIN files = 1 .. Len(files) /\ Len(files) \in Nat
      BY <2>3
    <3>2. Len(files) - Len(todo) = Len(files)
      BY <2>2, <3>1
    <3> QED
      BY <3>1, <3>2 DEF Offered, files
  <2>5. DOMAIN claimed = 1 .. Len(claimed) /\ Len(claimed) \in Nat
    <3> DEFINE C == [file : Word, temp : DOMAIN temps]
    <3>1. claimed \in Seq(C)
      BY DEF IInv, TypeOK
    <3> HIDE DEF C
    <3> QED
      BY <3>1
  <2>6. Gone = gone
    <3>1. ASSUME NEW k \in gone PROVE k \in Gone
      <4>1. k \in DOMAIN files /\ \E j \in DOMAIN claimed : claimed[j].file = files[k]
        OBVIOUS
      <4> QED
        BY <2>2, <2>4, <4>1 DEF Gone
    <3>2. ASSUME NEW k \in Gone PROVE k \in gone
      <4>1. Gone \subseteq 1 .. Len(files) /\ k \in DOMAIN files
        BY <2>4 DEF Gone
      <4>2. Len(Claims) = Cardinality(Gone) /\ Claims[Rank(Gone, k)] = files[k]
        BY <2>2 DEF IsSelection, Rank
      <4>3. Rank(Gone, k) \in 1 .. Len(Claims)
        <5> HIDE DEF files
        <5> QED
          BY <2>4, <4>1, <4>2, RankIs
      <4>4. Len(Claims) = Len(claimed)
        <5>1. Claims = [j \in 1 .. Len(claimed) |-> claimed[j].file]
          BY <2>5 DEF Claims
        <5>2. Claims \in Seq({claimed[j].file : j \in 1 .. Len(claimed)})
          BY <2>5, <5>1
        <5>3. DOMAIN Claims = 1 .. Len(claimed)
          BY <5>1
        <5> DEFINE X == {claimed[j].file : j \in 1 .. Len(claimed)}
                   s == Claims
                   n == Len(claimed)
        <5>4. s \in Seq(X) /\ DOMAIN s = 1 .. n /\ n \in Nat
          BY <2>5, <5>2, <5>3
        <5> HIDE DEF X, s, n
        <5>5. Len(s) = n
          BY <5>4
        <5> QED
          BY <5>5 DEF s, n
      <4>5. Rank(Gone, k) \in DOMAIN claimed
        BY <2>5, <4>3, <4>4
      <4>6. claimed[Rank(Gone, k)].file = files[k]
        BY <4>2, <4>5 DEF Claims
      <4> QED
        BY <4>1, <4>5, <4>6
    <3> QED
      BY <3>1, <3>2
  <2>7. ASSUME NEW k \in DOMAIN claimed
        PROVE  /\ k \in DOMAIN added
               /\ temps[added[k]] = Relinked(claimed[k].file, ToReplace(claimed[k].file))
    BY <2>2
  <2>8. \A v, S : /\ Relinked(v, S).of = v /\ Relinked(v, S).syms = S
                  /\ Relinked(v, S).kind = "relinked" /\ Relinked(v, S).by = cmdline[1]
    BY DEF Relinked
  <2>9. of = Claims
    <3>1. DOMAIN added = DOMAIN claimed
      BY <2>2
    <3>2. \A k \in DOMAIN claimed : temps[added[k]].of = claimed[k].file
      BY <2>7, <2>8
    <3> QED
      BY <3>1, <3>2 DEF Claims
  <2>10. IsSelection(kept, files, DOMAIN files \ gone)
    BY <2>2, <2>4, <2>6
  <2>11. IsSelection(of, files, gone)
    BY <2>2, <2>6, <2>9
  <2>12. ASSUME NEW i \in Scripts, NEW k \in DOMAIN kept,
                kept[k].arg \in DOMAIN FileKind, FileKind[kept[k].arg] = "object"
         PROVE  Defines[kept[k].arg] \cap temps[i].syms = {}
    BY <2>2, <2>12, ReplacedIsLocal
  <2>13. ASSUME NEW i \in Scripts, NEW k \in DOMAIN added
         PROVE  /\ temps[added[k]].kind = "relinked" /\ temps[added[k]].by = Exe
                /\ temps[added[k]].syms = Defines[temps[added[k]].of.arg] \cap temps[i].syms
    <3> DEFINE v == claimed[k].file
    <3>1. k \in DOMAIN claimed
      BY <2>2
    <3>2. /\ temps[added[k]].of = v /\ temps[added[k]].syms = ToReplace(v)
          /\ temps[added[k]].kind = "relinked" /\ temps[added[k]].by = cmdline[1]
      BY <2>7, <2>8, <3>1
    <3>3. v \in ToSet(InputFiles(cmdline)) /\ ToReplace(v) # {}
      BY <2>2, <3>1
    <3>4. ToReplace(v) = Defines[v.arg] \cap temps[i].syms
      <4> HIDE DEF v
      <4> QED
        BY <3>3, ReplacedIsLocal
    <3>5. cmdline[1] = Exe
      BY <2>1, ScriptWhenLoaded
    <3> QED
      BY <3>2, <3>4, <3>5
  <2> HIDE DEF files, gone, of
  <2> QED
    BY <2>10, <2>11, <2>12, <2>13
<1> QED
  BY <1>1, AlwaysIInv, PTL

----------------------------------------------------------------------------
\* The constructor implements the protocol of restart-self.hh.

\* The criterion at a stage of the constructor is the one that pc names.
LEMMA StageIsPc ==
  ASSUME pc \in {"muldefs", "wraps", "ldscript"}
  PROVE  Stage \in 1 .. 3 /\ Criteria[Stage] = pc
  BY DEF Stage, Criteria

\* The criterion is content: the abstract constructor goes on.
LEMMA ContentRefines ==
  ASSUME Content
  PROVE  R!Continue
<1>1. /\ pc \in {"muldefs", "wraps", "ldscript"} /\ status = "running"
      /\ ~Wants(pc, cmdline, fds)
      /\ Stage' = Stage + 1
      /\ UNCHANGED <<cmdline, fds, env, status>>
  BY DEF Content, Loading, loadVars, Stage
<1>2. Restarts' = Restarts
  BY <1>1 DEF Restarts
<1> QED
  BY <1>1, <1>2, StageIsPc DEF R!Continue, R!Criteria

\* A guard is in the abstract state when it is in the environment.
LEMMA GuardIsSet ==
  ASSUME pc \in {"muldefs", "wraps", "ldscript"}
  PROVE  /\ Stage \in {c \in 1 .. 3 : Criteria[c] \in env} <=> pc \in env
         /\ {c \in 1 .. 3 : Criteria[c] \in env \cup {pc}}
              = {c \in 1 .. 3 : Criteria[c] \in env} \cup {Stage}
<1>1. Stage \in 1 .. 3 /\ Criteria[Stage] = pc
  BY StageIsPc
<1>2. \A c \in 1 .. 3 : Criteria[c] = pc => c = Stage
  BY DEF Criteria, Stage
<1> QED
  BY <1>1, <1>2

\* A restart puts one guard more in the environment, and is counted by it.
LEMMA RestartIsCounted ==
  ASSUME IInv, status = "running", status' = "running", pc \notin env, env' = env \cup {pc}
  PROVE  Restarts' = Restarts + 1
<1>1. IsFiniteSet(env)
  <2>1. env \subseteq {"muldefs", "wraps", "ldscript"}
    BY DEF IInv, TypeOK, ToSet, Criteria
  <2>2. IsFiniteSet((({} \cup {"muldefs"}) \cup {"wraps"}) \cup {"ldscript"})
    BY FS_EmptySet, FS_AddElement
  <2>3. (({} \cup {"muldefs"}) \cup {"wraps"}) \cup {"ldscript"}
          = {"muldefs", "wraps", "ldscript"}
    OBVIOUS
  <2> QED
    BY <2>1, <2>2, <2>3, FS_Subset
<1>2. Restarts = Cardinality(env) /\ Restarts' = Cardinality(env \cup {pc})
  <2>1. env \ {} = env /\ env' \ {} = env \cup {pc}
    OBVIOUS
  <2> QED
    BY <2>1 DEF Restarts
<1> QED
  BY <1>1, <1>2, FS_AddElement

\* A restart, or the abort on a guard, is one of the protocol.
LEMMA RestartRefines ==
  ASSUME IInv, IInv', Restart
  PROVE  R!Trigger
<1>1. /\ pc \in {"muldefs", "wraps", "ldscript"} /\ status = "running"
      /\ Wants(pc, cmdline, fds)
  BY DEF Restart, Loading
<1>2. Stage \in 1 .. 3 /\ Criteria[Stage] = pc
  BY <1>1, StageIsPc
<1>3. CASE pc \in env
  <2>1. AbortOnGuard
    BY <1>3 DEF Restart
  <2>2. /\ status' = "guard_abort" /\ Stage' = Stage
        /\ UNCHANGED <<cmdline, fds, env>>
    BY <2>1 DEF AbortOnGuard, loadVars, Stage
  <2>3. R!AbortOnGuard
    <3>1. Restarts' = Restarts
      BY <1>1, <2>2 DEF Restarts
    <3> QED
      BY <1>1, <2>2, <3>1 DEF R!AbortOnGuard
  <2> QED
    BY <1>1, <1>2, <1>3, <2>3, GuardIsSet DEF R!Trigger, R!Criteria
<1>4. CASE pc \notin env
  <2>1. Reexec
    BY <1>4 DEF Restart
  <2>2. /\ cmdline' = Argv(FixedUp(pc, cmdline, fds)) /\ fds' = NewFds(pc, fds)
        /\ env' = env \cup {pc} /\ status' = status
        /\ Stage' = 1
    BY <2>1 DEF Reexec, Stage
  <2>3. cmdline' \in Seq(Word) /\ fds' \in SUBSET Nat
    BY DEF IInv, TypeOK
  <2>4. R!Reexec
    <3>1. Restarts' = Restarts + 1
      BY <1>1, <1>4, <2>2, RestartIsCounted
    <3> QED
      BY <1>1, <1>2, <2>2, <2>3, <3>1, GuardIsSet DEF R!Reexec
  <2> QED
    BY <1>1, <1>2, <1>4, <2>4, GuardIsSet DEF R!Trigger, R!Criteria
<1> QED
  BY <1>3, <1>4

\* A failed execve() is one of the protocol.
LEMMA ExecFailsRefines ==
  ASSUME ExecFails
  PROVE  R!ExecFails
<1>1. /\ pc \in {"muldefs", "wraps", "ldscript"} /\ status = "running"
      /\ Wants(pc, cmdline, fds) /\ pc \notin env
      /\ env' = env \cup {pc} /\ status' = "exec_failed"
      /\ UNCHANGED <<cmdline, fds, pc>> /\ Stage' = Stage
  BY DEF ExecFails, Loading, Stage
<1>2. Stage \in 1 .. 3 /\ Criteria[Stage] = pc
  BY <1>1, StageIsPc
<1>3. Restarts' = Restarts
  <2>1. (env \cup {pc}) \ {pc} = env \ {}
    BY <1>1
  <2> QED
    BY <1>1, <2>1 DEF Restarts
<1> QED
  BY <1>1, <1>2, <1>3, GuardIsSet DEF R!ExecFails, R!Criteria

\* Nothing that the protocol sees happens after the constructor, nor when it has
\* no temporary file.
LEMMA OthersRefine ==
  ASSUME \/ NoTempFile \/ LeaveToLinker \/ Claim \/ ClaimFails \/ AllSymbolsRead \/ Cleanup
         \/ UNCHANGED vars
  PROVE  UNCHANGED R!vars
<1>1. CASE UNCHANGED vars
  BY <1>1 DEF vars, R!vars, Stage, Restarts
<1>2. CASE NoTempFile
  BY <1>2 DEF NoTempFile, Loading, loadVars, R!vars, Stage, Restarts
<1>3. CASE LeaveToLinker \/ Claim
  BY <1>3 DEF LeaveToLinker, Claim, loadVars, R!vars, Stage, Restarts
<1>4. CASE ClaimFails
  BY <1>4 DEF ClaimFails, Claiming, loadVars, R!vars, Stage, Restarts
<1>5. CASE AllSymbolsRead \/ Cleanup
  BY <1>5 DEF AllSymbolsRead, Cleanup, loadVars, R!vars, Stage, Restarts
<1> QED
  BY <1>1, <1>2, <1>3, <1>4, <1>5

\* The constructor, its re-executions and its failures are those of the protocol
\* of restart-self.hh, for its three criteria and whatever the job.
THEOREM Refines_RestartSelf ==
  Spec => RefinesRestartSelf
<1>1. Init => R!Init
  <2> SUFFICES ASSUME Init PROVE R!Init
    OBVIOUS
  <2>1. /\ cmdline \in InitialCmdlines /\ env = {} /\ fds = {}
        /\ status = "running" /\ Stage = 1
    BY DEF Init, Stage
  <2>2. Restarts = 0
    <3>1. env \ {} = {}
      BY <2>1
    <3> QED
      BY <2>1, <3>1, FS_EmptySet DEF Restarts
  <2> QED
    BY <2>1, <2>2 DEF R!Init
<1>2. IInv /\ IInv' /\ [Next]_vars => [R!Next]_R!vars
  <2> SUFFICES ASSUME IInv, IInv', [Next]_vars PROVE [R!Next]_R!vars
    OBVIOUS
  <2>1. CASE Content
    BY <2>1, ContentRefines DEF R!Next
  <2>2. CASE Restart
    BY <2>2, RestartRefines DEF R!Next
  <2>3. CASE ExecFails
    BY <2>3, ExecFailsRefines DEF R!Next
  <2>4. CASE \/ NoTempFile \/ LeaveToLinker \/ Claim \/ ClaimFails \/ AllSymbolsRead \/ Cleanup
             \/ UNCHANGED vars
    BY <2>4, OthersRefine
  <2> QED
    BY <2>1, <2>2, <2>3, <2>4 DEF Next
<1> QED
  BY <1>1, <1>2, AlwaysIInv, PTL DEF Spec, RefinesRestartSelf, R!Spec

----------------------------------------------------------------------------
\* What makes the reading of the files correct, for every line.

\* Lines of which these are stated are good ones.
LEMMA GoodLine ==
  ASSUME NEW c \in Seq(Word), WellFormed(c), ~Occurs(c, "--")
  PROVE  Good(c)
<1>1. Opt("--").opt = "--"
  BY DEF Opt
<1>2. \A i \in DOMAIN c : c[i] # Opt("--")
  BY <1>1 DEF Occurs
<1>3. Opt("--") \notin ToSet(c)
  BY <1>2 DEF ToSet
<1> QED
  BY <1>3 DEF Good

\* After a line's last word the loop expects no argument.
LEMMA NothingExpected ==
  ASSUME NEW c, Good(c)
  PROVE  Len(c) \in DOMAIN c /\ Scanned(c)[Len(c)] \in ScanState /\ ~Scanned(c)[Len(c)].skip
<1> DEFINE n == Len(c)
<1>1. /\ n \in Nat /\ n >= 1 /\ DOMAIN c = 1 .. n
      /\ \A i \in DOMAIN c :
           IsOption(c[i]) /\ IsDiscrete(c[i]) /\ c[i].opt \in LdOptsWithArg => i < n
  BY GoodIs
<1>2. n \in DOMAIN c /\ ~(n < n)
  BY <1>1
<1>3. Scanned(c)[n] \in ScanState
      /\ (Scanned(c)[n].skip => IsOption(c[n]) /\ IsDiscrete(c[n]) /\ c[n].opt \in OptsWithArg)
  BY <1>2, GoodRound
<1> QED
  BY <1>1, <1>2, <1>3 DEF LdOptsWithArg

\* The loop comes to the same on lines that begin alike, argv[0] aside.
LEMMA SameBeginning ==
  ASSUME NEW c, Good(c), NEW d, Good(d), Len(d) >= Len(c), \A i \in 2 .. Len(c) : d[i] = c[i]
  PROVE  Scanned(d)[Len(c)] = Scanned(c)[Len(c)]
<1> DEFINE n == Len(c)
<1>1. /\ n \in Nat /\ n >= 1 /\ DOMAIN c = 1 .. n /\ c \in Seq(Word)
      /\ Len(d) \in Nat /\ DOMAIN d = 1 .. Len(d) /\ d \in Seq(Word)
  BY GoodIs
<1>2. CarriedOver(c, d, 0)
  <2>1. Len(d) >= Len(c) + 0 /\ \A i \in 2 .. Len(c) : d[i + 0] = c[i]
    BY <1>1
  <2>2. 0 \in Nat
    OBVIOUS
  <2> QED
    BY <1>1, <2>1, <2>2, WordsCarriedOver
<1>3. 1 \in DOMAIN c /\ 1 \in DOMAIN d /\ n \in 1 .. n /\ n + 0 = n /\ 1 + 0 = 1
  BY <1>1
<1>4. \A st \in ScanState : Behind(<<>>, st) = st
  <2> SUFFICES ASSUME NEW st \in ScanState PROVE Behind(<<>>, st) = st
    OBVIOUS
  <2>1. <<>> \o st.files = st.files
    <3>1. st.files \in Seq(Word)
      BY DEF ScanState
    <3> HIDE DEF Word
    <3> QED
      BY <3>1, ConcatEmptySeq
  <2> QED
    BY <2>1 DEF Behind, ScanState
<1>5. Scanned(d)[1] = Scanned(c)[1] /\ \A i \in DOMAIN c : Scanned(c)[i] \in ScanState
  <2>1. /\ Scanned(c)[1] = [Start EXCEPT !.skip = FALSE]
        /\ Scanned(d)[1] = [Start EXCEPT !.skip = FALSE]
    BY <1>3, GoodRound
  <2>2. \A i \in DOMAIN c : Scanned(c)[i] \in ScanState
    BY GoodRound
  <2> QED
    BY <2>1, <2>2
<1>6. Scanned(d)[1 + 0] = Behind(<<>>, Scanned(c)[1])
  BY <1>3, <1>4, <1>5
<1>7. <<>> \in Seq(Word) /\ 0 \in Nat
  OBVIOUS
<1>8. \A i \in 1 .. n : Scanned(d)[i + 0] = Behind(<<>>, Scanned(c)[i])
  <2> DEFINE F == <<>>
             m == 0
  <2>1. /\ F \in Seq(Word) /\ m \in Nat /\ CarriedOver(c, d, m)
        /\ Scanned(d)[1 + m] = Behind(F, Scanned(c)[1])
    BY <1>2, <1>6, <1>7
  <2> HIDE DEF F, m
  <2>2. \A i \in 1 .. Len(c) : Scanned(d)[i + m] = Behind(F, Scanned(c)[i])
    BY <2>1, ScanCarriedOver
  <2> QED
    BY <2>2 DEF F, m
<1> QED
  BY <1>1, <1>3, <1>4, <1>5, <1>8

\* argv[0] is not looked at.
LEMMA FirstWordUnread ==
  ASSUME NEW d, Good(d), NEW e \in Seq(Word), Len(e) = Len(d), ~IsOption(e[1]),
         \A i \in 2 .. Len(d) : e[i] = d[i]
  PROVE  InputFiles(e) = InputFiles(d)
<1>1. /\ Len(d) \in Nat /\ Len(d) >= 1 /\ DOMAIN d = 1 .. Len(d) /\ DOMAIN e = 1 .. Len(e)
      /\ \A i \in DOMAIN d :
           /\ d[i] # Opt("--")
           /\ IsOption(d[i]) /\ IsDiscrete(d[i]) /\ d[i].opt \in LdOptsWithArg
                => i < Len(d) /\ ~IsOption(d[i + 1])
  <2>1. DOMAIN e = 1 .. Len(e)
    <3> HIDE DEF Word
    <3> QED
      OBVIOUS
  <2> QED
    BY <2>1, GoodIs
<1>2. \A i \in DOMAIN e : i = 1 \/ (i \in DOMAIN d /\ i \in 2 .. Len(d))
  BY <1>1
<1>3. ~IsOption(e[1]) /\ e # <<>>
  <2>1. Len(e) >= 1
    BY <1>1
  <2> HIDE DEF Word
  <2> QED
    BY <2>1
<1>4. WellFormed(e)
  <2>1. ASSUME NEW i \in DOMAIN e, IsOption(e[i]), IsDiscrete(e[i]), e[i].opt \in LdOptsWithArg
        PROVE  i < Len(e) /\ ~IsOption(e[i + 1])
    <3>1. i \in DOMAIN d /\ i \in 2 .. Len(d) /\ e[i] = d[i]
      BY <1>2, <1>3, <2>1
    <3>2. i < Len(d) /\ ~IsOption(d[i + 1])
      BY <1>1, <2>1, <3>1
    <3>3. i + 1 \in 2 .. Len(d)
      BY <1>1, <3>1, <3>2
    <3> QED
      BY <3>2, <3>3
  <2> QED
    BY <1>3, <2>1 DEF WellFormed
<1>5. Opt("--") \notin ToSet(e)
  <2>1. Opt("--").opt = "--"
    BY DEF Opt
  <2>2. \A i \in DOMAIN e : e[i] # Opt("--")
    BY <1>1, <1>2, <1>3, <2>1 DEF IsOption
  <2> QED
    BY <2>2 DEF ToSet
<1>6. Good(e)
  BY <1>4, <1>5 DEF Good
<1>7. Scanned(e)[Len(d)] = Scanned(d)[Len(d)]
  BY <1>1, <1>6, SameBeginning
<1> QED
  BY <1>7 DEF InputFiles, EnumerateInputFiles

\* A line with one more word in the second place begins as it did.
LEMMA InsertedSecond ==
  ASSUME NEW S, NEW c \in Seq(S), Len(c) >= 1, NEW w \in S
  PROVE  /\ InsertAt(c, 2, w) \in Seq(S) /\ Len(InsertAt(c, 2, w)) >= 1
         /\ InsertAt(c, 2, w)[1] = c[1]
<1> DEFINE front == SubSeq(c, 1, 1)
           rest == SubSeq(c, 2, Len(c))
<1>1. front \in Seq(S) /\ Len(front) = 1 /\ front[1] = c[1] /\ rest \in Seq(S)
  BY SubSeqProperties
<1>2. InsertAt(c, 2, w) = front \o <<w>> \o rest
  BY DEF InsertAt
<1> HIDE DEF front, rest
<1>3. /\ front \o <<w>> \in Seq(S) /\ Len(front \o <<w>>) = 2
      /\ (front \o <<w>>)[1] = front[1]
  <2>1. <<w>> \in Seq(S) /\ Len(<<w>>) = 1
    OBVIOUS
  <2>2. /\ front \o <<w>> \in Seq(S) /\ Len(front \o <<w>>) = Len(front) + Len(<<w>>)
        /\ \A i \in 1 .. Len(front) + Len(<<w>>) :
             (front \o <<w>>)[i] = IF i <= Len(front) THEN front[i] ELSE <<w>>[i - Len(front)]
    BY <1>1, <2>1, ConcatProperties, Zenon
  <2>3. 1 \in 1 .. Len(front) + Len(<<w>>) /\ 1 <= Len(front) /\ Len(front) + Len(<<w>>) = 2
    BY <1>1, <2>1
  <2> QED
    BY <2>2, <2>3
<1> DEFINE g == front \o <<w>>
<1> HIDE DEF g
<1>4. g \in Seq(S) /\ Len(g) = 2 /\ g[1] = c[1]
  BY <1>1, <1>3 DEF g
<1>5. g \o rest \in Seq(S) /\ Len(g \o rest) >= 1 /\ (g \o rest)[1] = g[1]
  <2>1. Len(rest) \in Nat
    BY <1>1
  <2>2. /\ g \o rest \in Seq(S) /\ Len(g \o rest) = Len(g) + Len(rest)
        /\ \A i \in 1 .. Len(g) + Len(rest) :
             (g \o rest)[i] = IF i <= Len(g) THEN g[i] ELSE rest[i - Len(g)]
    <3>1. g \in Seq(S) /\ rest \in Seq(S)
      BY <1>1, <1>4
    <3> QED
      BY <3>1, ConcatProperties
  <2>3. 1 \in 1 .. Len(g) + Len(rest) /\ 1 <= Len(g) /\ Len(g) + Len(rest) >= 1
    BY <1>4, <2>1
  <2> QED
    BY <2>2, <2>3
<1> QED
  BY <1>2, <1>4, <1>5 DEF g

\* What a plugin appends to a line or puts in front of its files when it restarts
\* the linker leaves the input files as they are, library searches included
\* (cmdline.hh:35-141): the inductions of AppendedFiles and InsertedFiles, and
\* argv[0] does not matter.
THEOREM Rewrites_KeepInputs ==
  \A c \in Seq(Word), a \in STRING, fd \in Nat : RewritesKeepThem(c, a, fd)
<1> SUFFICES ASSUME NEW c \in Seq(Word), NEW a \in STRING, NEW fd \in Nat,
                    WellFormed(c), ~Occurs(c, "--")
             PROVE  /\ \A o \in {"-z", "--wrap"} :
                         InputFiles(c \o <<Opt(o), Plain(a)>>) = InputFiles(c)
                    /\ InputFiles(InsertAt(c, 2, FdPath(fd))) = <<FdPath(fd)>> \o InputFiles(c)
  BY DEF RewritesKeepThem, InputFiles
<1>1. Good(c)
  BY GoodLine
<1>2. Len(c) \in Nat /\ Len(c) >= 1 /\ DOMAIN c = 1 .. Len(c) /\ ~IsOption(c[1])
  BY <1>1, GoodIs
<1>3. ASSUME NEW e \in Seq(Word), Len(e) >= 1, e[1] = c[1], Good(Argv(e))
      PROVE  InputFiles(e) = InputFiles(Argv(e))
  <2> DEFINE d == Argv(e)
  <2>1. Len(e) \in Nat /\ DOMAIN e = 1 .. Len(e)
    <3> HIDE DEF Word
    <3> QED
      OBVIOUS
  <2>2. Len(d) = Len(e) /\ \A i \in 2 .. Len(e) : d[i] = e[i]
    <3> HIDE DEF Word
    <3> QED
      BY <1>3, <2>1, ExeAssumption DEF Argv
  <2> HIDE DEF d
  <2> QED
    BY <1>2, <1>3, <2>2, FirstWordUnread DEF d
<1>4. ASSUME NEW o \in {"-z", "--wrap"}
      PROVE  InputFiles(c \o <<Opt(o), Plain(a)>>) = InputFiles(c)
  <2> DEFINE t == <<Opt(o), Plain(a)>>
             e == c \o t
  <2>1. Trailer(t)
    <3>1. Opt(o) \in Word /\ Plain(a) \in Word /\ Plain(a).arg = a
      BY StringsAssumption DEF Opt, Plain, Word
    <3>2. Len(t) = 2 /\ DOMAIN t = {1, 2} /\ t[1] = Opt(o) /\ t[2] = Plain(a)
      OBVIOUS
    <3>3. t \in Seq(Word)
      <4> HIDE DEF Word
      <4> QED
        BY <3>1
    <3>4. 1 % 2 = 1 /\ ~(2 % 2 = 1)
      OBVIOUS
    <3> HIDE DEF t
    <3> QED
      BY <3>1, <3>2, <3>3, <3>4 DEF Trailer
  <2>2. InputFiles(Argv(e)) = InputFiles(c) /\ Good(Argv(e))
    BY <1>1, <2>1, AppendedFiles, AppendedGood
  <2>3. e \in Seq(Word) /\ Len(e) >= 1 /\ e[1] = c[1]
    <3>1. t \in Seq(Word)
      BY <2>1 DEF Trailer
    <3> HIDE DEF Word, t
    <3> QED
      BY <1>2, <3>1
  <2> QED
    BY <1>3, <2>2, <2>3
<1>5. InputFiles(InsertAt(c, 2, FdPath(fd))) = <<FdPath(fd)>> \o InputFiles(c)
  <2> DEFINE w == FdPath(fd)
             e == InsertAt(c, 2, w)
  <2>1. InputFiles(Argv(e)) = <<w>> \o InputFiles(c) /\ Good(Argv(e))
    BY <1>1, InsertedFiles, InsertedGood
  <2>2. w \in Word
    BY StringsAssumption DEF FdPath, Word
  <2>3. e \in Seq(Word) /\ Len(e) >= 1 /\ e[1] = c[1]
    <3> HIDE DEF Word, w, e
    <3>1. InsertAt(c, 2, w) \in Seq(Word) /\ Len(InsertAt(c, 2, w)) >= 1
          /\ InsertAt(c, 2, w)[1] = c[1]
      <4>1. c \in Seq(Word) /\ Len(c) >= 1 /\ w \in Word
        BY <1>2, <2>2
      <4> QED
        BY ONLY <4>1, InsertedSecond
    <3> QED
      BY <3>1 DEF e
  <2> QED
    BY <1>3, <2>1, <2>3
<1> QED
  BY <1>4, <1>5

\* The plugin's loop and ld's reading come to the same files, word by word, on
\* lines without a library search or an option only ld knows.
LEMMA ReadAlike ==
  ASSUME NEW c, Good(c),
         \A i \in DOMAIN c : c[i].opt # "-l" /\ c[i].opt \notin LdOptsWithArg \ OptsWithArg
  PROVE  Scanned(c)[Len(c)].files = LdUpto(c)[Len(c)]
<1> DEFINE n == Len(c)
           L == LdUpto(c)
           Takes(i) == /\ i > 1 /\ IsOption(c[i]) /\ IsDiscrete(c[i])
                       /\ c[i].opt \in LdOptsWithArg
           Alike(i) == /\ Scanned(c)[i].files = L[i]
                       /\ i > 0 => (Scanned(c)[i].skip <=> Takes(i))
<1>1. /\ c \in Seq(Word) /\ n \in Nat /\ n >= 1 /\ DOMAIN c = 1 .. n /\ ~IsOption(c[1])
      /\ \A i \in DOMAIN c :
           /\ c[i] \in Word
           /\ IsOption(c[i]) /\ IsDiscrete(c[i]) /\ c[i].opt \in LdOptsWithArg
                => i < n /\ ~IsOption(c[i + 1])
  BY GoodIs
<1>2. /\ L \in [0 .. n -> Seq(Word)] /\ L[0] = <<>>
      /\ \A i \in DOMAIN c : L[i] = IF IsInputFile(c, i) THEN Append(L[i - 1], c[i]) ELSE L[i - 1]
  BY <1>1, LdUptoIs
<1> HIDE DEF L
<1>3. Alike(0)
  <2>1. Scanned(c)[0] = Start /\ ~(0 > 0)
    BY <1>1, ScannedIs
  <2> QED
    BY <1>2, <2>1 DEF Start
<1>4. ASSUME NEW i \in 1 .. n, Alike(i - 1) PROVE Alike(i)
  <2> DEFINE st == Scanned(c)[i - 1]
             now == Scanned(c)[i]
  <2>1. /\ i - 1 \in 0 .. n /\ i \in DOMAIN c /\ (i # 1 => i - 1 > 0 /\ i > 1 /\ i - 1 \in DOMAIN c)
        /\ i > 0 /\ (i - 1) + 1 = i /\ (i > 2 <=> i - 1 > 1) /\ ~(1 > 1)
    BY <1>1
  <2>2. /\ st \in ScanState /\ now \in ScanState
        /\ i = 1 => st = Start /\ now = [Start EXCEPT !.skip = FALSE]
        /\ now = IF st.skip THEN [st EXCEPT !.skip = FALSE]
                 ELSE IF ~IsOption(c[i]) THEN [st EXCEPT !.files = Append(@, c[i])]
                 ELSE AnOption(st, c, i)
    BY <2>1, GoodRound
  <2>3. L[i] = IF IsInputFile(c, i) THEN Append(st.files, c[i]) ELSE st.files
    BY <1>2, <1>4, <2>1
  <2> HIDE DEF st, now
  <2>4. CASE i = 1
    <3>1. now.files = st.files /\ ~now.skip
      BY <2>2, <2>4 DEF Start
    <3>2. ~IsInputFile(c, i) /\ ~Takes(i)
      BY <2>1, <2>4 DEF IsInputFile
    <3> QED
      BY <2>3, <3>1, <3>2 DEF now
  <2>5. CASE i # 1 /\ st.skip
    <3>1. now.files = st.files /\ ~now.skip
      BY <2>2, <2>5 DEF ScanState
    <3>2. Takes(i - 1)
      BY <1>4, <2>1, <2>5 DEF st
    <3>3. IsArgument(c, i)
      BY <2>1, <3>2 DEF IsArgument
    <3>4. ~IsOption(c[i])
      BY <1>1, <2>1, <2>5, <3>2
    <3> QED
      BY <2>3, <3>1, <3>3, <3>4 DEF IsInputFile, now
  <2>6. CASE i # 1 /\ ~st.skip /\ ~IsOption(c[i])
    <3>1. now.files = Append(st.files, c[i]) /\ ~now.skip
      BY <2>2, <2>6 DEF ScanState
    <3>2. ~Takes(i - 1)
      BY <1>4, <2>1, <2>6 DEF st
    <3>3. ~IsArgument(c, i)
      BY <2>1, <3>2 DEF IsArgument
    <3> QED
      BY <2>1, <2>3, <2>6, <3>1, <3>3 DEF IsInputFile, now
  <2>7. CASE i # 1 /\ ~st.skip /\ IsOption(c[i])
    <3>1. now = OptionMade(st, c, i) /\ PathsAt(st, c, i) \in Seq(Word)
          /\ (now.skip <=> SkipAt(st, c, i))
      BY <1>1, <2>1, <2>2, <2>7, AnOptionIs
    <3>2. LibAt(st, c, i) = <<>>
      BY <2>1 DEF LibAt
    <3>3. PathsAt(st, c, i) = <<>>
      <4>1. DOMAIN PathsAt(st, c, i) = {}
        BY <3>2 DEF PathsAt
      <4> DEFINE u == PathsAt(st, c, i)
      <4> HIDE DEF u, Word
      <4> QED
        BY <3>1, <4>1 DEF u
    <3>4. now.files = st.files
      <4>1. now.files = st.files \o PathsAt(st, c, i) /\ st.files \in Seq(Word)
        BY <2>2, <3>1 DEF OptionMade, ScanState
      <4> DEFINE u == st.files
      <4> HIDE DEF u, Word
      <4>2. u \in Seq(Word) /\ now.files = u \o <<>>
        BY <3>3, <4>1 DEF u
      <4>3. now.files = u
        BY <4>2, ConcatEmptySeq
      <4> QED
        BY <4>3 DEF u
    <3>5. now.skip <=> Takes(i)
      BY <2>1, <2>7, <3>1, <3>2 DEF SkipAt, LdOptsWithArg
    <3>6. ~IsInputFile(c, i)
      BY <2>7 DEF IsInputFile
    <3> QED
      BY <2>3, <3>4, <3>5, <3>6 DEF now
  <2> QED
    BY <2>4, <2>5, <2>6, <2>7
<1> HIDE DEF Alike
<1>5. \A i \in 0 .. n : Alike(i)
  <2> DEFINE Bad == {i \in 0 .. n : ~Alike(i)}
  <2>1. Bad \subseteq 0 .. n /\ 0 \notin Bad
    BY <1>3
  <2>2. ASSUME NEW i \in 1 .. n, i \in Bad PROVE i - 1 \in Bad
    <3>1. i - 1 \in 0 .. n
      BY <1>1
    <3> QED
      BY <1>4, <2>2, <3>1
  <2> HIDE DEF Bad
  <2>3. Bad = {}
    BY <1>1, <2>1, <2>2, NoFirst
  <2> QED
    BY <2>3 DEF Bad
<1>6. n \in 0 .. n
  BY <1>1
<1>7. Alike(n)
  BY <1>5, <1>6
<1> QED
  BY <1>7 DEF Alike, L

\* enumerate_input_files takes for input files what ld does, on every line whose
\* options it knows (cmdline.hh:35-141): by the first word after which the two
\* would differ.
THEOREM Inputs_AsLd ==
  \A c \in Seq(Word) : ReadsAsLd(c)
<1> SUFFICES ASSUME NEW c \in Seq(Word), WellFormed(c), ~Occurs(c, "-l"), ~Occurs(c, "--"),
                    \A o \in LdOptsWithArg \ OptsWithArg : ~Occurs(c, o)
             PROVE  EnumerateInputFiles(c) = LdFiles(c)
  BY DEF ReadsAsLd
<1>1. Good(c)
  BY GoodLine
<1>2. \A i \in DOMAIN c : c[i].opt # "-l" /\ c[i].opt \notin LdOptsWithArg \ OptsWithArg
  BY DEF Occurs
<1>3. Scanned(c)[Len(c)].files = LdUpto(c)[Len(c)]
  BY <1>1, <1>2, ReadAlike
<1>4. LdFiles(c) = LdUpto(c)[Len(c)]
  BY DEF LdFiles, LdUpto
<1> QED
  BY <1>3, <1>4 DEF EnumerateInputFiles

\* A library option stands for a file of that name in one of the directories, if
\* one has it.
LEMMA ResolveIs ==
  ASSUME NEW dirs \in Seq(STRING), NEW name \in STRING, NEW static \in BOOLEAN
  PROVE  IF \A i \in DOMAIN dirs : Found(dirs[i], name, static) = {}
         THEN Resolve(dirs, name, static) = <<>>
         ELSE \E i \in DOMAIN dirs : \E s \in Found(dirs[i], name, static) :
                Resolve(dirs, name, static) = <<LibFile[<<dirs[i], name, s>>]>>
<1> DEFINE hits == {i \in DOMAIN dirs : Found(dirs[i], name, static) # {}}
           dir == dirs[Max(hits)]
           first == IF ".so" \in Found(dir, name, static) THEN ".so" ELSE ".a"
<1>1. CASE hits = {}
  BY <1>1 DEF Resolve
<1>2. CASE hits # {}
  <2>1. Max(hits) \in hits
    <3>1. hits \subseteq DOMAIN dirs
      OBVIOUS
    <3> HIDE DEF hits
    <3>2. hits \subseteq 1 .. Len(dirs) /\ Len(dirs) \in Nat
      BY <3>1
    <3> QED
      BY <1>2, <3>2, 1 .. Len(dirs) \subseteq 0 .. Len(dirs), MaxIsMember
  <2>2. Found(dir, name, static) # {}
    BY <2>1
  <2>3. first \in Found(dir, name, static)
    <3> HIDE DEF dir
    <3>1. Found(dir, name, static) \subseteq {".so", ".a"}
      BY DEF Found
    <3> QED
      BY <2>2, <3>1
  <2>4. Resolve(dirs, name, static) = <<LibFile[<<dir, name, first>>]>>
    BY <1>2 DEF Resolve
  <2>5. Max(hits) \in DOMAIN dirs
    BY <2>1
  <2>6. ~\A i \in DOMAIN dirs : Found(dirs[i], name, static) = {}
    BY <2>2, <2>5
  <2> HIDE DEF hits, first
  <2> QED
    BY <2>3, <2>4, <2>5, <2>6
<1> QED
  BY <1>1, <1>2

\* Every option is looked at, so the loop knows the binding mode set last and the
\* directories named so far.
LEMMA SearchState ==
  ASSUME NEW c, Good(c), NEW i \in DOMAIN c
  PROVE  LET st == Scanned(c)[i - 1] IN
         /\ Scanned(c)[i].static = StaticAt(st, c, i)
         /\ Scanned(c)[i].dirs = DirsAt(st, c, i)
<1> DEFINE st == Scanned(c)[i - 1]
           now == Scanned(c)[i]
<1>1. /\ c \in Seq(Word) /\ Len(c) \in Nat /\ DOMAIN c = 1 .. Len(c) /\ ~IsOption(c[1])
      /\ \A j \in DOMAIN c :
           IsOption(c[j]) /\ IsDiscrete(c[j]) /\ c[j].opt \in LdOptsWithArg
             => j < Len(c) /\ ~IsOption(c[j + 1])
  BY GoodIs
<1>2. /\ st \in ScanState
      /\ now = IF st.skip THEN [st EXCEPT !.skip = FALSE]
               ELSE IF ~IsOption(c[i]) THEN [st EXCEPT !.files = Append(@, c[i])]
               ELSE AnOption(st, c, i)
  BY GoodRound
<1>3. st.skip => ~IsOption(c[i])
  <2>1. CASE i = 1
    BY <1>1, <2>1
  <2>2. CASE i # 1
    <3>1. i - 1 \in DOMAIN c /\ (i - 1) + 1 = i
      BY <1>1, <2>2
    <3>2. st.skip => IsOption(c[i - 1]) /\ IsDiscrete(c[i - 1]) /\ c[i - 1].opt \in OptsWithArg
      BY <3>1, GoodRound
    <3> QED
      BY <1>1, <3>1, <3>2 DEF LdOptsWithArg
  <2> QED
    BY <2>1, <2>2
<1>4. CASE ~IsOption(c[i])
  <2> HIDE DEF st, now
  <2>1. now.static = st.static /\ now.dirs = st.dirs /\ st.static \in BOOLEAN
    BY <1>2, <1>4 DEF ScanState
  <2>2. StaticAt(st, c, i) = st.static /\ DirsAt(st, c, i) = st.dirs
    BY <1>4, <2>1 DEF IsOption, StaticAt, DirsAt, StaticOpts, DynamicOpts
  <2> QED
    BY <2>1, <2>2 DEF st, now
<1>5. CASE IsOption(c[i])
  <2>1. now = OptionMade(st, c, i)
    BY <1>1, <1>2, <1>3, <1>5, AnOptionIs
  <2> HIDE DEF st, now
  <2>2. now.static = StaticAt(st, c, i) /\ now.dirs = DirsAt(st, c, i)
    BY <1>2, <2>1 DEF OptionMade, ScanState
  <2> QED
    BY <2>2 DEF st, now
<1> QED
  BY <1>4, <1>5

\* A list with one more member.
LEMMA AppendedOne ==
  ASSUME NEW S, NEW l \in Seq(S), NEW x \in S
  PROVE  /\ Append(l, x) \in Seq(S) /\ Len(Append(l, x)) = Len(l) + 1
         /\ Append(l, x)[Len(l) + 1] = x
         /\ \A k \in 1 .. Len(l) : Append(l, x)[k] = l[k]
BY AppendProperties

\* The mode that the first i words ask for, and the directories they name.
StaticUpto(c, i) ==
  \E j \in 1 .. i : /\ c[j].opt \in StaticOpts
                    /\ \A k \in 1 .. i : k > j => c[k].opt \notin DynamicOpts
SearchedUpto(c, i) == {GetArg(c, j) : j \in {k \in 1 .. i : c[k].opt = "-L"}}

\* The loop knows these after each word.
LEMMA SearchKnown ==
  ASSUME NEW c, Good(c)
  PROVE  LET st == Scanned(c)[Len(c)] IN
         /\ st.static <=> StaticUpto(c, Len(c))
         /\ \A a : a \in SearchedUpto(c, Len(c)) <=> \E k \in DOMAIN st.dirs : st.dirs[k] = a
<1> DEFINE n == Len(c)
           Known(i) ==
             /\ Scanned(c)[i].static <=> StaticUpto(c, i)
             /\ \A a : a \in SearchedUpto(c, i)
                         <=> \E k \in DOMAIN Scanned(c)[i].dirs : Scanned(c)[i].dirs[k] = a
<1>1. c \in Seq(Word) /\ n \in Nat /\ n >= 1 /\ DOMAIN c = 1 .. n
  BY GoodIs
<1>2. Known(0)
  <2>1. Scanned(c)[0] = Start
    BY <1>1, ScannedIs
  <2>2. ~Start.static /\ DOMAIN Start.dirs = {}
    BY DEF Start
  <2>3. 1 .. 0 = {}
    OBVIOUS
  <2>4. ~StaticUpto(c, 0) /\ \A a : a \notin SearchedUpto(c, 0)
    BY <2>3 DEF StaticUpto, SearchedUpto
  <2> QED
    BY <2>1, <2>2, <2>4
<1>3. ASSUME NEW i \in 1 .. n, Known(i - 1) PROVE Known(i)
  <2> DEFINE st == Scanned(c)[i - 1]
             now == Scanned(c)[i]
  <2>1. i \in DOMAIN c /\ i \in Nat /\ i >= 1
    BY <1>1
  <2>2. now.static = StaticAt(st, c, i) /\ now.dirs = DirsAt(st, c, i) /\ st \in ScanState
    BY <2>1, SearchState, GoodRound
  <2>3. GetArg(c, i) \in STRING
    BY <1>1, <2>1, GetArgType
  <2> HIDE DEF st, now
  <2>4. st.static \in BOOLEAN /\ st.dirs \in Seq(STRING)
    BY <2>2 DEF ScanState
  <2>5. \A j \in 1 .. i : j = i \/ j \in 1 .. i - 1
    BY <2>1
  <2>6. i \in 1 .. i /\ ~(i > i) /\ \A j \in 1 .. i - 1 : j \in 1 .. i /\ i > j /\ ~(j > i)
    BY <2>1
  <2>7. StaticUpto(c, i) <=>
          (StaticUpto(c, i - 1) \/ c[i].opt \in StaticOpts) /\ c[i].opt \notin DynamicOpts
    <3>1. \A o \in StaticOpts : o \notin DynamicOpts
      BY DEF StaticOpts, DynamicOpts
    <3>2. ASSUME StaticUpto(c, i)
          PROVE  (StaticUpto(c, i - 1) \/ c[i].opt \in StaticOpts) /\ c[i].opt \notin DynamicOpts
      <4>1. PICK j \in 1 .. i : /\ c[j].opt \in StaticOpts
                                /\ \A k \in 1 .. i : k > j => c[k].opt \notin DynamicOpts
        BY <3>2 DEF StaticUpto
      <4>2. CASE j = i
        BY <3>1, <4>1, <4>2
      <4>3. CASE j \in 1 .. i - 1
        <5>1. c[i].opt \notin DynamicOpts
          BY <2>6, <4>1, <4>3
        <5>2. \A k \in 1 .. i - 1 : k > j => c[k].opt \notin DynamicOpts
          BY <2>6, <4>1
        <5> QED
          BY <4>1, <4>3, <5>1, <5>2 DEF StaticUpto
      <4> QED
        BY <2>5, <4>2, <4>3
    <3>3. ASSUME c[i].opt \in StaticOpts PROVE StaticUpto(c, i)
      <4>1. \A k \in 1 .. i : ~(k > i)
        BY <2>1
      <4> QED
        BY <2>6, <3>3, <4>1 DEF StaticUpto
    <3>4. ASSUME StaticUpto(c, i - 1), c[i].opt \notin DynamicOpts PROVE StaticUpto(c, i)
      <4>1. PICK j \in 1 .. i - 1 :
              /\ c[j].opt \in StaticOpts
              /\ \A k \in 1 .. i - 1 : k > j => c[k].opt \notin DynamicOpts
        BY <3>4 DEF StaticUpto
      <4>2. \A k \in 1 .. i : k > j => c[k].opt \notin DynamicOpts
        BY <2>5, <3>4, <4>1
      <4> QED
        BY <2>6, <4>1, <4>2 DEF StaticUpto
    <3> QED
      BY <3>2, <3>3, <3>4
  <2>8. now.static <=> StaticUpto(c, i)
    BY <1>3, <2>2, <2>4, <2>7 DEF st, StaticAt
  <2>9. \A a : a \in SearchedUpto(c, i) <=>
          a \in SearchedUpto(c, i - 1) \/ (c[i].opt = "-L" /\ a = GetArg(c, i))
    BY <2>5, <2>6 DEF SearchedUpto
  <2>10. \A a : (\E k \in DOMAIN now.dirs : now.dirs[k] = a) <=>
           (\E k \in DOMAIN st.dirs : st.dirs[k] = a) \/ (c[i].opt = "-L" /\ a = GetArg(c, i))
    <3>1. CASE c[i].opt # "-L"
      BY <2>2, <3>1 DEF DirsAt
    <3>2. CASE c[i].opt = "-L"
      <4> DEFINE d == st.dirs
                 x == GetArg(c, i)
      <4>1. now.dirs = Append(d, x)
        BY <2>2, <3>2 DEF DirsAt
      <4> HIDE DEF d, x
      <4>2. d \in Seq(STRING) /\ x \in STRING
        BY <2>3, <2>4 DEF d, x
      <4>3. /\ DOMAIN Append(d, x) = 1 .. Len(d) + 1 /\ Len(d) \in Nat /\ DOMAIN d = 1 .. Len(d)
            /\ Append(d, x)[Len(d) + 1] = x /\ \A k \in 1 .. Len(d) : Append(d, x)[k] = d[k]
        <5> DEFINE T == STRING
        <5>0. d \in Seq(T) /\ x \in T
          BY <4>2
        <5> HIDE DEF T
        <5>1. /\ Append(d, x) \in Seq(T) /\ Len(Append(d, x)) = Len(d) + 1
              /\ \A k \in 1 .. Len(d) : Append(d, x)[k] = d[k]
              /\ Append(d, x)[Len(d) + 1] = x
          BY <5>0, AppendedOne
        <5>2. DOMAIN Append(d, x) = 1 .. Len(Append(d, x))
          BY <5>1
        <5>3. Len(d) \in Nat /\ DOMAIN d = 1 .. Len(d)
          BY <4>2
        <5> QED
          BY <5>1, <5>2, <5>3
      <4>4. /\ Len(d) + 1 \in 1 .. Len(d) + 1
            /\ \A k \in 1 .. Len(d) + 1 : k \in 1 .. Len(d) \/ k = Len(d) + 1
            /\ \A k \in 1 .. Len(d) : k \in 1 .. Len(d) + 1
        BY <4>3
      <4>5. \A a : (\E k \in DOMAIN Append(d, x) : Append(d, x)[k] = a)
                     <=> (\E k \in DOMAIN d : d[k] = a) \/ a = x
        BY <4>3, <4>4
      <4> QED
        BY <3>2, <4>1, <4>5 DEF d, x
    <3> QED
      BY <3>1, <3>2
  <2> QED
    BY <1>3, <2>8, <2>9, <2>10 DEF st, now
<1> HIDE DEF Known
<1>4. \A i \in 0 .. n : Known(i)
  <2> DEFINE Bad == {i \in 0 .. n : ~Known(i)}
  <2>1. Bad \subseteq 0 .. n /\ 0 \notin Bad
    BY <1>2
  <2>2. ASSUME NEW i \in 1 .. n, i \in Bad PROVE i - 1 \in Bad
    <3>1. i - 1 \in 0 .. n
      BY <1>1
    <3> QED
      BY <1>3, <2>2, <3>1
  <2> HIDE DEF Bad
  <2>3. Bad = {}
    BY <1>1, <2>1, <2>2, NoFirst
  <2> QED
    BY <2>3 DEF Bad
<1>5. n \in 0 .. n
  BY <1>1
<1>6. Known(n)
  BY <1>4, <1>5
<1> QED
  BY <1>6 DEF Known

\* A library option is a word.
LEMMA LibraryWord ==
  ASSUME NEW name \in STRING
  PROVE  Joined("-l", name) \in Word
<1>1. "-l" \in STRING /\ 0 \in Nat
  BY StringsAssumption
<1> QED
  BY <1>1 DEF Joined, Word

\* Nothing is made of an empty list.
LEMMA ListOfNone ==
  ASSUME NEW l, l = <<>>
  PROVE  [k \in DOMAIN l |-> Plain(l[k])] = <<>>
<1>1. DOMAIN l = {}
  OBVIOUS
<1> QED
  BY <1>1

\* What is made of a list of one member.
LEMMA ListOfOne ==
  ASSUME NEW p, NEW l, l = <<p>>
  PROVE  [k \in DOMAIN l |-> Plain(l[k])] = <<Plain(p)>>
<1>1. DOMAIN l = 1 .. 1 /\ l[1] = p
  OBVIOUS
<1> DEFINE m == [k \in DOMAIN l |-> Plain(l[k])]
           q == Plain(p)
<1>2. m = [k \in 1 .. 1 |-> q]
  BY <1>1
<1> HIDE DEF q
<1> QED
  BY <1>2

\* A line with a library option behind it.
LEMMA SearchAppended ==
  ASSUME NEW c, Good(c), NEW w \in Word, w.opt = "-l", ~IsDiscrete(w)
  PROVE  LET d == Append(c, w) IN
         /\ Good(d) /\ Len(d) = Len(c) + 1 /\ d[Len(c) + 1] = w
         /\ \A i \in 1 .. Len(c) : d[i] = c[i]
<1> DEFINE d == Append(c, w)
           n == Len(c)
<1>1. /\ c \in Seq(Word) /\ n \in Nat /\ n >= 1 /\ DOMAIN c = 1 .. n /\ ~IsOption(c[1])
      /\ \A i \in DOMAIN c :
           /\ c[i] # Opt("--")
           /\ IsOption(c[i]) /\ IsDiscrete(c[i]) /\ c[i].opt \in LdOptsWithArg
                => i < n /\ ~IsOption(c[i + 1])
  BY GoodIs
<1>2. w # Opt("--")
  <2>1. Opt("--").opt = "--"
    BY DEF Opt
  <2> QED
    BY <2>1
<1> HIDE DEF n
<1>3. /\ d \in Seq(Word) /\ Len(d) = n + 1 /\ DOMAIN d = 1 .. n + 1 /\ d[n + 1] = w
      /\ \A i \in 1 .. n : d[i] = c[i]
  <2> HIDE DEF Word
  <2>1. /\ d \in Seq(Word) /\ Len(d) = n + 1 /\ d[n + 1] = w
        /\ \A i \in 1 .. n : d[i] = c[i]
    <3>1. c \in Seq(Word) /\ w \in Word /\ Len(c) = n
      BY <1>1 DEF n
    <3> QED
      BY ONLY <3>1, AppendProperties DEF d
  <2>2. DOMAIN d = 1 .. Len(d)
    <3> HIDE DEF d
    <3> QED
      BY <2>1
  <2> QED
    BY <2>1, <2>2
<1> HIDE DEF d
<1>4. /\ 1 \in 1 .. n /\ \A i \in 1 .. n + 1 : i \in 1 .. n \/ i = n + 1
      /\ \A i \in 1 .. n : i < n => i + 1 \in 1 .. n /\ i < n + 1
  BY <1>1
<1>5. WellFormed(d)
  <2>1. d # <<>>
    <3>1. Len(d) # 0
      BY <1>1, <1>3
    <3> HIDE DEF Word
    <3> QED
      BY <1>3, <3>1
  <2>2. ~IsOption(d[1])
    BY <1>1, <1>3, <1>4
  <2>3. ASSUME NEW i \in DOMAIN d, IsOption(d[i]), IsDiscrete(d[i]), d[i].opt \in LdOptsWithArg
        PROVE  i < Len(d) /\ ~IsOption(d[i + 1])
    <3>1. i \in 1 .. n /\ d[i] = c[i]
      BY <1>2, <1>3, <1>4, <2>3
    <3>2. i < n /\ ~IsOption(c[i + 1])
      BY <1>1, <2>3, <3>1
    <3> QED
      BY <1>3, <1>4, <3>1, <3>2
  <2> QED
    BY <2>1, <2>2, <2>3 DEF WellFormed
<1>6. Opt("--") \notin ToSet(d)
  <2>1. \A i \in DOMAIN d : d[i] # Opt("--")
    BY <1>1, <1>2, <1>3, <1>4
  <2> QED
    BY <2>1 DEF ToSet
<1> QED
  BY <1>3, <1>5, <1>6 DEF Good, d, n

\* A library option adds at most one file: one that exists for that name in a
\* directory searched so far, an archive when the binding mode set last before it is
\* static (cmdline.hh:79-119): by what the loop knows when it comes to the option.
THEOREM Libraries_FromSearchPath ==
  \A c \in Seq(Word), name \in STRING \ {""} : SearchedFor(c, name)
<1>a. SUFFICES ASSUME NEW c, NEW name, c \in Seq(Word), name \in STRING \ {""}
               PROVE  SearchedFor(c, name)
  OBVIOUS
<1>b. SUFFICES ASSUME WellFormed(c), ~Occurs(c, "--") PROVE SearchedFor(c, name)
  BY Zenon DEF SearchedFor
<1> DEFINE n == Len(c)
           w == Joined("-l", name)
           d == Append(c, w)
           st == Scanned(c)[n]
           before == EnumerateInputFiles(c)
           after == EnumerateInputFiles(d)
           lib == Resolve(st.dirs, name, st.static)
           static == \E i \in DOMAIN c :
                       /\ c[i].opt \in StaticOpts
                       /\ \A j \in DOMAIN c : j > i => c[j].opt \notin DynamicOpts
           searched == {GetArg(c, i) : i \in {j \in DOMAIN c : c[j].opt = "-L"}}
           hits == {k \in DOMAIN LibFile : /\ k[1] \in searched /\ k[2] = name
                                           /\ static => k[3] = ".a"}
<1>1. Good(c)
  BY <1>a, <1>b, GoodLine
<1>2. c \in Seq(Word) /\ n \in Nat /\ n >= 1 /\ DOMAIN c = 1 .. n
  BY <1>1, GoodIs
<1>3. st \in ScanState /\ ~st.skip
  BY <1>1, NothingExpected
<1>4. Good(d) /\ Len(d) = n + 1 /\ d[n + 1] = w /\ \A i \in 1 .. n : d[i] = c[i]
  <2>1. w \in Word /\ w.opt = "-l" /\ ~IsDiscrete(w)
    <3>1. w = [opt |-> "-l", arg |-> name, fd |-> 0]
      BY DEF Joined
    <3>2. name \in STRING /\ name # ""
      BY <1>a
    <3>3. w \in Word
      BY <3>2, LibraryWord
    <3> HIDE DEF w
    <3>4. w.opt = "-l" /\ w.arg = name
      BY <3>1
    <3> QED
      BY <3>2, <3>3, <3>4 DEF IsDiscrete
  <2> HIDE DEF w
  <2> QED
    BY <1>1, <2>1, SearchAppended
<1> HIDE DEF d, n
<1>5. d \in Seq(Word) /\ n + 1 \in DOMAIN d /\ (n + 1) - 1 = n /\ ~(n + 1 < Len(d))
  <2>1. d \in Seq(Word) /\ DOMAIN d = 1 .. Len(d)
    BY <1>4, GoodIs
  <2> QED
    BY <1>2, <1>4, <2>1
<1>6. Scanned(d)[n] = st
  <2>1. Len(d) >= n /\ \A i \in 2 .. n : i \in 1 .. n
    BY <1>2, <1>4
  <2> QED
    BY <1>1, <1>4, <2>1, SameBeginning DEF n
<1>7. w.opt = "-l" /\ w.arg = name /\ IsOption(w) /\ ~IsDiscrete(w)
  BY <1>a DEF Joined, IsOption, IsDiscrete
<1> HIDE DEF w, st
<1>8. Scanned(d)[n + 1] = OptionMade(st, d, n + 1) /\ PathsAt(st, d, n + 1) \in Seq(Word)
  <2>1. Scanned(d)[n + 1] = AnOption(st, d, n + 1)
    <3>1. Scanned(d)[n + 1] = IF st.skip THEN [st EXCEPT !.skip = FALSE]
                              ELSE IF ~IsOption(w) THEN [st EXCEPT !.files = Append(@, w)]
                              ELSE AnOption(st, d, n + 1)
      <4>1. Good(d) /\ n + 1 \in DOMAIN d /\ d[n + 1] = w /\ Scanned(d)[(n + 1) - 1] = st
        BY <1>4, <1>5, <1>6
      <4> QED
        BY ONLY <4>1, GoodRound
    <3> QED
      BY <1>3, <1>7, <3>1
  <2> QED
    BY <1>3, <1>5, <2>1, AnOptionIs
<1>9. st.static \in BOOLEAN /\ st.dirs \in Seq(STRING) /\ st.files \in Seq(Word)
  BY <1>3 DEF ScanState
<1>10. LibAt(st, d, n + 1) = lib
  <2>1. GetArg(d, n + 1) = name
    BY <1>4, <1>7 DEF GetArg
  <2>2. DirsAt(st, d, n + 1) = st.dirs
    BY <1>4, <1>7 DEF DirsAt
  <2>3. StaticAt(st, d, n + 1) = st.static
    BY <1>4, <1>7, <1>9 DEF StaticAt, StaticOpts, DynamicOpts
  <2> QED
    BY <1>4, <1>7, <2>1, <2>2, <2>3 DEF LibAt
<1>11. before = st.files /\ after = st.files \o PathsAt(st, d, n + 1)
  <2>1. OptionMade(st, d, n + 1).files = st.files \o PathsAt(st, d, n + 1)
    BY <1>3 DEF OptionMade, ScanState
  <2> QED
    BY <1>4, <1>8, <2>1 DEF EnumerateInputFiles, st, n
<1>12. /\ st.static <=> static
       /\ \A a : a \in searched <=> \E k \in DOMAIN st.dirs : st.dirs[k] = a
  BY <1>1, <1>2, SearchKnown DEF StaticUpto, SearchedUpto, st, n
<1> HIDE DEF static, searched
<1>13. \A i \in DOMAIN st.dirs : \A s \in Found(st.dirs[i], name, st.static) :
         <<st.dirs[i], name, s>> \in hits
  BY <1>12 DEF Found
<1>14. \A k \in hits : \E i \in DOMAIN st.dirs : k[3] \in Found(st.dirs[i], name, st.static)
  <2> SUFFICES ASSUME NEW k \in hits
               PROVE  \E i \in DOMAIN st.dirs : k[3] \in Found(st.dirs[i], name, st.static)
    OBVIOUS
  <2>1. k \in DOMAIN LibFile /\ k[1] \in searched /\ k[2] = name /\ (static => k[3] = ".a")
    OBVIOUS
  <2>2. k = <<k[1], k[2], k[3]>> /\ k[3] \in {".so", ".a"}
    <3>1. k \in STRING \X STRING \X {".so", ".a"}
      BY <2>1, LibFileAssumption
    <3> QED
      BY ONLY <3>1
  <2>3. PICK i \in DOMAIN st.dirs : st.dirs[i] = k[1]
    BY <1>12, <2>1
  <2>4. <<st.dirs[i], name, k[3]>> \in DOMAIN LibFile
    BY <2>1, <2>2, <2>3
  <2> QED
    BY <1>12, <2>1, <2>2, <2>4 DEF Found
<1> HIDE DEF hits
<1>15. IF \A i \in DOMAIN st.dirs : Found(st.dirs[i], name, st.static) = {}
       THEN lib = <<>>
       ELSE \E i \in DOMAIN st.dirs : \E s \in Found(st.dirs[i], name, st.static) :
              lib = <<LibFile[<<st.dirs[i], name, s>>]>>
  BY <1>a, <1>b, <1>9, ResolveIs
<1>16. IF hits = {} THEN lib = <<>> ELSE \E k \in hits : lib = <<LibFile[k]>>
  <2>1. CASE hits = {}
    BY <1>13, <1>15, <2>1
  <2>2. CASE hits # {}
    <3>1. ~\A i \in DOMAIN st.dirs : Found(st.dirs[i], name, st.static) = {}
      BY <1>14, <2>2
    <3>2. PICK i \in DOMAIN st.dirs :
            \E e \in Found(st.dirs[i], name, st.static) : lib = <<LibFile[<<st.dirs[i], name, e>>]>>
      BY <1>15, <3>1
    <3> QED
      BY <1>13, <2>2, <3>2
  <2> QED
    BY <2>1, <2>2
<1> HIDE DEF lib
<1> DEFINE u == PathsAt(st, d, n + 1)
           s == st.files
<1>17. /\ lib = <<>> => u = <<>>
       /\ \A k \in hits : lib = <<LibFile[k]>> => u = <<Plain(LibFile[k])>>
  <2>1. u = [k \in DOMAIN lib |-> Plain(lib[k])]
    BY <1>10 DEF PathsAt
  <2> HIDE DEF u
  <2>2. lib = <<>> => u = <<>>
    BY <2>1, ListOfNone
  <2>3. ASSUME NEW p, lib = <<p>> PROVE u = <<Plain(p)>>
    BY <2>1, <2>3, ListOfOne
  <2> QED
    BY <2>2, <2>3
<1>18. /\ s \in Seq(Word) /\ u \in Seq(Word) /\ before = s /\ after = s \o u
  BY <1>8, <1>9, <1>11
<1> HIDE DEF u, s, before, after, Word
<1>19. IF hits = {} THEN after = before
       ELSE \E k \in hits : after = Append(before, Plain(LibFile[k]))
  <2>1. CASE hits = {}
    <3>1. u = <<>>
      BY <1>16, <1>17, <2>1
    <3>2. s \o <<>> = s
      BY <1>18, ConcatEmptySeq
    <3> QED
      BY <1>18, <2>1, <3>1, <3>2
  <2>2. CASE hits # {}
    <3>1. PICK k \in hits : lib = <<LibFile[k]>>
      BY <1>16, <2>2
    <3> DEFINE p == Plain(LibFile[k])
    <3> HIDE DEF p
    <3>2. u = <<p>>
      BY <1>17, <3>1 DEF p
    <3>3. p \in Word
      <4>1. Len(u) = 1 /\ u[1] = p
        BY ONLY <3>2
      <4>2. u \in Seq(Word)
        BY <1>18
      <4> QED
        BY ONLY <4>1, <4>2
    <3>4. Append(s, p) = s \o <<p>>
      BY <1>18, <3>3, AppendIsConcat
    <3> QED
      BY <1>18, <2>2, <3>2, <3>4 DEF p
  <2> QED
    BY <2>1, <2>2
<1> QED
  BY <1>19 DEF SearchedFor, before, after, d, w, hits, searched, static, n
----------------------------------------------------------------------------
\* The walk of an archive.

\* A mapping has room for its file, and is not empty unless the file is.
LEMMA RoundUpIs ==
  ASSUME NEW n \in Nat
  PROVE  RoundUp(n) \in Nat /\ RoundUp(n) >= n
<1> DEFINE q == (n + PageSize - 1) \div PageSize
           r == (n + PageSize - 1) % PageSize
<1>1. PageSize \in Nat \ {0}
  BY PageSizeAssumption
<1>2. /\ q \in Nat /\ r \in 0 .. PageSize - 1
      /\ n + PageSize - 1 = PageSize * q + r
  <2>1. n + PageSize - 1 \in Nat
    BY <1>1
  <2> QED
    BY <1>1, <2>1
<1>3. RoundUp(n) = PageSize * q
  BY DEF RoundUp
<1> HIDE DEF q, r
<1>4. PageSize * q \in Nat
  BY <1>1, <1>2
<1> DEFINE m == PageSize * q
<1>5. m \in Nat /\ n + PageSize - 1 = m + r /\ RoundUp(n) = m
  BY <1>2, <1>3, <1>4
<1> HIDE DEF m
<1> QED
  BY <1>1, <1>2, <1>5

\* Where the headers are: the recursion that HeaderAfter names.
LEMMA HeaderAfterIs ==
  ASSUME NEW members \in Seq(Nat)
  PROVE  /\ HeaderAfter(members) \in [0 .. Len(members) -> Nat]
         /\ HeaderAfter(members)[0] = 8
         /\ \A i \in 1 .. Len(members) :
              HeaderAfter(members)[i]
                = HeaderAfter(members)[i - 1] + 60 + members[i] + (members[i] % 2)
<1> DEFINE n == Len(members)
           Loop(f) == [i \in 0 .. n |->
                         IF i = 0 THEN GlobalHeader
                         ELSE f[i - 1] + MemberHeader + members[i] + (members[i] % 2)]
           G == [i \in 1 .. n |->
                   [x \in Nat |-> x + MemberHeader + members[i] + (members[i] % 2)]]
           a == HeaderAfter(members)
<1>0. n \in Nat /\ \A i \in 1 .. n : members[i] \in Nat /\ members[i] % 2 \in Nat
  OBVIOUS
<1>1. GlobalHeader \in Nat /\ MemberHeader \in Nat /\ GlobalHeader = 8 /\ MemberHeader = 60
  BY DEF GlobalHeader, MemberHeader
<1>2. G \in [1 .. n -> [Nat -> Nat]]
  BY <1>0, <1>1
<1>3. PICK g : Makes(g, n, Nat, GlobalHeader, G)
  <2> HIDE DEF G, n
  <2> QED
    BY <1>0, <1>1, <1>2, RecursionExists
<1>4. /\ g \in [0 .. n -> Nat] /\ g[0] = GlobalHeader
      /\ \A i \in 1 .. n : g[i] = g[i - 1] + MemberHeader + members[i] + (members[i] % 2)
  <2>1. g \in [0 .. n -> Nat] /\ g[0] = GlobalHeader
    BY <1>3 DEF Makes
  <2>2. ASSUME NEW i \in 1 .. n
        PROVE  g[i] = g[i - 1] + MemberHeader + members[i] + (members[i] % 2)
    <3>1. g[i - 1] \in Nat
      <4>1. i - 1 \in 0 .. n
        BY <1>0
      <4> QED
        BY <2>1, <4>1
    <3>2. g[i] = G[i][g[i - 1]]
      BY <1>3 DEF Makes
    <3> QED
      BY <3>1, <3>2
  <2> QED
    BY <2>1, <2>2
<1>5. g = Loop(g)
  <2>1. ASSUME NEW i \in 0 .. n
        PROVE  g[i] = IF i = 0 THEN GlobalHeader
                      ELSE g[i - 1] + MemberHeader + members[i] + (members[i] % 2)
    <3>1. i # 0 => i \in 1 .. n
      BY <1>0
    <3> QED
      BY <1>4, <3>1
  <2> QED
    BY <1>4, <2>1
<1>6. a = CHOOSE f : f = Loop(f)
  BY DEF HeaderAfter
<1>7. a = Loop(a)
  <2> HIDE DEF Loop
  <2> QED
    BY <1>5, <1>6
<1> HIDE DEF a
<1>8. /\ a[0] = GlobalHeader
      /\ \A i \in 1 .. n : a[i] = a[i - 1] + MemberHeader + members[i] + (members[i] % 2)
  <2>1. 0 \in 0 .. n /\ \A i \in 1 .. n : i \in 0 .. n /\ i # 0
    BY <1>0
  <2> QED
    BY <1>7, <2>1
<1>9. a = g
  <2> DEFINE Bad == {i \in 0 .. n : a[i] # g[i]}
  <2>1. a = [i \in 0 .. n |-> a[i]]
    BY <1>7
  <2>2. Bad \subseteq 0 .. n /\ 0 \notin Bad
    BY <1>4, <1>8
  <2>3. ASSUME NEW i \in 1 .. n, i \in Bad PROVE i - 1 \in Bad
    <3>1. i - 1 \in 0 .. n
      BY <1>0
    <3>2. a[i - 1] = g[i - 1] => a[i] = g[i]
      BY <1>4, <1>8
    <3> QED
      BY <2>3, <3>1, <3>2
  <2>4. Bad = {}
    <3> HIDE DEF Bad, n
    <3> QED
      BY <1>0, <2>2, <2>3, NoFirst
  <2> QED
    BY <1>4, <2>1, <2>4
<1> QED
  BY <1>1, <1>4, <1>8, <1>9 DEF a

\* Headers are at even offsets, each behind the one before.
LEMMA HeadersInOrder ==
  ASSUME NEW members \in Seq(Nat)
  PROVE  LET a == HeaderAfter(members)
         IN  /\ \A i \in 0 .. Len(members) : a[i] \in Nat /\ a[i] % 2 = 0
             /\ \A i, j \in 0 .. Len(members) : i < j => a[i] < a[j]
<1> DEFINE n == Len(members)
           a == HeaderAfter(members)
<1>1. /\ a \in [0 .. n -> Nat] /\ a[0] = 8
      /\ \A i \in 1 .. n : a[i] = a[i - 1] + 60 + members[i] + (members[i] % 2)
  BY HeaderAfterIs
<1>2. n \in Nat /\ \A i \in 1 .. n : members[i] \in Nat
  OBVIOUS
<1> HIDE DEF a, n
<1>3. ASSUME NEW i \in 1 .. n
      PROVE  /\ i - 1 \in 0 .. n /\ i \in 0 .. n /\ a[i - 1] \in Nat /\ a[i - 1] < a[i]
             /\ a[i - 1] % 2 = 0 => a[i] % 2 = 0
  <2>1. i - 1 \in 0 .. n /\ i \in 0 .. n
    BY <1>2
  <2>2. a[i - 1] \in Nat
    BY <1>1, <2>1
  <2> DEFINE m == members[i]
             x == a[i - 1]
  <2>3. m \in Nat /\ x \in Nat /\ a[i] = x + 60 + m + (m % 2)
    BY <1>1, <1>2, <2>2
  <2> HIDE DEF m, x
  <2>4. x < a[i] /\ (x % 2 = 0 => a[i] % 2 = 0)
    BY <2>3
  <2> QED
    BY <2>1, <2>2, <2>4 DEF x
<1>4. \A i \in 0 .. n : a[i] % 2 = 0
  <2> DEFINE Bad == {i \in 0 .. n : a[i] % 2 # 0}
  <2>1. Bad \subseteq 0 .. n /\ 0 \notin Bad
    BY <1>1
  <2>2. \A i \in 1 .. n : i \in Bad => i - 1 \in Bad
    BY <1>3
  <2>3. Bad = {}
    <3> HIDE DEF Bad
    <3> QED
      BY <1>2, <2>1, <2>2, NoFirst
  <2> QED
    BY <2>3
<1>5. ASSUME NEW i \in 0 .. n PROVE \A j \in 0 .. n : i < j => a[i] < a[j]
  <2> DEFINE Bad == {j \in 0 .. n : i < j /\ ~(a[i] < a[j])}
  <2>1. Bad \subseteq 0 .. n /\ 0 \notin Bad
    BY <1>2
  <2>2. ASSUME NEW j \in 1 .. n, j \in Bad PROVE j - 1 \in Bad
    <3>1. /\ i < j /\ ~(a[i] < a[j]) /\ j - 1 \in 0 .. n /\ a[j - 1] < a[j]
          /\ a[i] \in Nat /\ a[j - 1] \in Nat /\ a[j] \in Nat
      BY <1>1, <1>3, <2>2
    <3>2. i # j - 1
      BY <3>1
    <3>3. i < j - 1
      BY <3>1, <3>2
    <3>4. ~(a[i] < a[j - 1])
      BY <3>1
    <3> QED
      BY <3>1, <3>3, <3>4
  <2>3. Bad = {}
    <3> HIDE DEF Bad
    <3> QED
      BY <1>2, <2>1, <2>2, NoFirst
  <2> QED
    BY <2>3
<1> QED
  BY <1>1, <1>4, <1>5 DEF a, n

\* The members a walk gets to, and where it says they are: behind one of an odd
\* size it takes the padding for no header.
Reached(members) == {k \in DOMAIN members : \A j \in 1 .. k - 1 : members[j] % 2 = 0}
Place(members, k) == HeaderAt(members, k) + MemberHeader

\* Where the walk looks after n members: at the end of the last one.
EndOf(members, n) == IF n = 0 THEN GlobalHeader ELSE Place(members, n) + members[n]

\* The walk finds the next member there, if it has come to it without padding.
LEMMA NextMember ==
  ASSUME NEW members \in Seq(Nat), NEW n \in 0 .. Len(members),
         \A k \in 1 .. n : k \in Reached(members)
  PROVE  /\ EndOf(members, n) \in Nat
         /\ \A k \in DOMAIN members : HeaderAt(members, k) = EndOf(members, n) =>
              k = n + 1 /\ k \in Reached(members) /\ \A j \in 1 .. k : j \in Reached(members)
         /\ (\A k \in DOMAIN members : HeaderAt(members, k) # EndOf(members, n)) =>
              \A k \in Reached(members) : k <= n
         /\ \A k \in Reached(members) :
              k > n => n + 1 \in DOMAIN members /\ EndOf(members, n) = HeaderAt(members, n + 1)
<1> DEFINE N == Len(members)
           a == HeaderAfter(members)
           here == EndOf(members, n)
<1>1. /\ a \in [0 .. N -> Nat] /\ a[0] = 8
      /\ \A i \in 1 .. N : a[i] = a[i - 1] + 60 + members[i] + (members[i] % 2)
  BY HeaderAfterIs
<1>2. /\ \A i \in 0 .. N : a[i] \in Nat /\ a[i] % 2 = 0
      /\ \A i, j \in 0 .. N : i < j => a[i] < a[j]
  BY HeadersInOrder
<1>3. N \in Nat /\ DOMAIN members = 1 .. N /\ n \in 0 .. N /\ \A i \in 1 .. N : members[i] \in Nat
  OBVIOUS
<1>4. \A k \in 1 .. N : HeaderAt(members, k) = a[k - 1] /\ k - 1 \in 0 .. N
  BY <1>3 DEF HeaderAt
<1>5. here = IF n = 0 THEN 8 ELSE a[n - 1] + 60 + members[n]
  <2>1. n # 0 => n \in 1 .. N
    BY <1>3
  <2> QED
    BY <1>4, <2>1 DEF EndOf, Place, GlobalHeader, MemberHeader
<1>6. \A k \in 1 .. n : k \in 1 .. N /\ \A j \in 1 .. k - 1 : members[j] % 2 = 0
  BY <1>3 DEF Reached
<1>7. here \in Nat /\ (n = 0 \/ members[n] % 2 = 0 => here = a[n])
      /\ (n # 0 /\ members[n] % 2 # 0 => here % 2 # 0)
  <2>1. CASE n = 0
    BY <1>1, <1>5, <2>1
  <2>2. CASE n # 0
    <3> DEFINE m == members[n]
               x == a[n - 1]
    <3>1. n \in 1 .. N /\ n - 1 \in 0 .. N
      BY <1>3, <2>2
    <3>2. m \in Nat /\ x \in Nat /\ x % 2 = 0 /\ here = x + 60 + m /\ a[n] = x + 60 + m + (m % 2)
      BY <1>1, <1>2, <1>3, <1>5, <2>2, <3>1
    <3> HIDE DEF m, x, here
    <3>3. here \in Nat /\ (m % 2 = 0 => here = a[n]) /\ (m % 2 # 0 => here % 2 # 0)
      BY <3>2
    <3> QED
      BY <2>2, <3>3 DEF m
  <2> QED
    BY <2>1, <2>2
<1> HIDE DEF a, here, N
<1>8. ASSUME NEW k \in 1 .. N, HeaderAt(members, k) = here
      PROVE  k = n + 1 /\ \A j \in 1 .. k : j \in Reached(members)
  <2>1. here = a[k - 1] /\ k - 1 \in 0 .. N /\ here % 2 = 0
    BY <1>2, <1>4, <1>8
  <2>2. (n = 0 \/ members[n] % 2 = 0) /\ here = a[n]
    BY <1>7, <2>1
  <2>3. k - 1 = n
    <3> DEFINE p == k - 1
    <3>1. p \in 0 .. N /\ n \in 0 .. N /\ a[p] = a[n]
      BY <1>3, <2>1, <2>2
    <3> HIDE DEF p
    <3>2. ~(p < n) /\ ~(n < p)
      BY <1>2, <3>1
    <3>3. p \in Nat /\ n \in Nat
      BY <1>3, <3>1
    <3> QED
      BY <3>2, <3>3 DEF p
  <2>4. ASSUME NEW j \in 1 .. k PROVE j \in Reached(members)
    <3>1. j \in 1 .. n \/ j = n + 1
      BY <1>3, <2>3
    <3>2. CASE j = n + 1
      <4>1. ASSUME NEW i \in 1 .. j - 1 PROVE members[i] % 2 = 0
        <5>1. i = n \/ i \in 1 .. n - 1
          BY <1>3, <3>2
        <5>2. i = n => n # 0
          BY <3>2
        <5>3. n \in 1 .. n \/ n = 0
          BY <1>3
        <5> QED
          BY <1>6, <2>2, <5>1, <5>2, <5>3
      <4> QED
        BY <1>3, <2>3, <3>2, <4>1 DEF Reached
    <3> QED
      BY <3>1, <3>2
  <2> QED
    BY <1>3, <2>3, <2>4
<1>9. ASSUME NEW k \in Reached(members), k > n
      PROVE  n + 1 \in 1 .. N /\ here = HeaderAt(members, n + 1)
  <2>1. k \in 1 .. N /\ \A j \in 1 .. k - 1 : members[j] % 2 = 0
    BY <1>3 DEF Reached
  <2>2. n + 1 \in 1 .. N /\ (n # 0 => n \in 1 .. k - 1) /\ (n + 1) - 1 = n
    BY <1>3, <1>9, <2>1
  <2>3. here = a[n]
    BY <1>7, <2>1, <2>2
  <2> QED
    BY <1>4, <2>2, <2>3
<1>10. ASSUME \A k \in 1 .. N : HeaderAt(members, k) # here, NEW k \in Reached(members)
       PROVE  k <= n
  <2>1. k \in Nat /\ n \in Nat
    BY <1>3 DEF Reached
  <2>2. ~(k > n)
    BY <1>9, <1>10
  <2> QED
    BY <2>1, <2>2
<1>11. \A k \in 1 .. N : k \in 1 .. k
  BY <1>3
<1> QED
  BY <1>3, <1>7, <1>8, <1>9, <1>10, <1>11 DEF here

----------------------------------------------------------------------------
\* The inductive invariant.

\* Nothing is in the table as a member of an archive that is none.
OnlyMembers ==
  \A e \in DOMAIN out : Image[e[1]].archive /\ e[2] # 0 =>
    \E k \in Reached(Image[e[1]].members) : e[2] = Place(Image[e[1]].members, k)

\* The walk has found the first n members and is behind them.
WalkedTo(n) ==
  /\ offset = EndOf(File.members, n)
  /\ \A k \in 1 .. n : /\ k \in Reached(File.members)
                       /\ <<Head(inputs).arg, Place(File.members, k)>> \in DOMAIN out

\* A mapping is there from OpenAndMap to Close only, a walk has room to get to the
\* end, and an archive is closed only when it has got there.
Underway ==
  /\ phase \in {"idle", "opening", "done"} => mapped = 0
  /\ phase \in {"whole", "walking", "closing"} => Head(inputs).arg \in DOMAIN Image
  /\ phase = "walking" => mapped > 0 /\ File.archive /\ mapped >= File.size
  /\ phase = "whole" => ~(mapped > 0 /\ File.archive)
  /\ phase = "walking" => \E n \in 0 .. Len(File.members) : WalkedTo(n)
  /\ phase = "closing" /\ mapped > 0 /\ File.archive =>
       \A k \in Reached(File.members) :
         <<Head(inputs).arg, Place(File.members, k)>> \in DOMAIN out

CInv == ClassifySound /\ OnlyMembers /\ Underway

\* A file of the table.
LEMMA FileIs ==
  ASSUME NEW f \in DOMAIN Image
  PROVE  /\ Image[f].members \in Seq(Nat) /\ Image[f].size \in Nat
         /\ Image[f].archive \in BOOLEAN
         /\ Image[f].archive => \A k \in DOMAIN Image[f].members :
              Place(Image[f].members, k) + Image[f].members[k] <= Image[f].size
  BY ImageAssumption, ArchiveAssumption DEF Place

\* Places are numbers, and none is 0.
LEMMA PlaceIs ==
  ASSUME NEW members \in Seq(Nat), NEW k \in DOMAIN members
  PROVE  Place(members, k) \in Nat /\ Place(members, k) # 0
<1> DEFINE a == HeaderAfter(members)
<1>1. k - 1 \in 0 .. Len(members) /\ HeaderAt(members, k) = a[k - 1]
  BY DEF HeaderAt
<1>2. a[k - 1] \in Nat
  BY <1>1, HeadersInOrder
<1> HIDE DEF a
<1> QED
  BY <1>1, <1>2 DEF Place, MemberHeader

\* The input files of any line are words.
LEMMA EnumeratedAreWords ==
  ASSUME NEW c \in Seq(Word)
  PROVE  EnumerateInputFiles(c) \in Seq(Word)
<1>1. Len(c) \in 0 .. Len(c)
  OBVIOUS
<1>2. Scanned(c)[Len(c)] \in ScanState
  BY <1>1, ScannedIs
<1> QED
  BY <1>2 DEF EnumerateInputFiles, ScanState

\* What asking an object adds to the table.
LEMMA AskedIs ==
  ASSUME NEW at, Asked(at), unmapped \in Nat
  PROVE  /\ DOMAIN out' = DOMAIN out \cup {<<Head(inputs).arg, at>>}
         /\ unmapped' = unmapped
<1>1. DOMAIN out' = DOMAIN out \cup {<<Head(inputs).arg, at>>}
  BY DEF Asked
<1>2. unmapped' = unmapped
  BY DEF Asked, CopyUnmaps
<1> QED
  BY <1>1, <1>2

\* Nothing to say of a file between two files.
LEMMA BetweenFiles ==
  ASSUME CInv, phase' \in {"done", "opening"}, inputs' \in Seq(Word),
         phase' = "opening" => inputs' # <<>>,
         mapped' = 0, offset' = offset, out' = out, opened' = 0,
         made' = made, unmapped' = made
  PROVE  CInv'
<1> USE DEF CInv, ClassifySound
<1>1. ClassifyTypeOK'
  BY DEF ClassifyTypeOK
<1>2. MappingsReleased'
  BY DEF MappingsReleased, ClassifyTypeOK
<1>3. OnlyMembers'
  BY DEF OnlyMembers
<1>4. Underway'
  BY DEF Underway
<1> QED
  BY <1>1, <1>2, <1>3, <1>4

\* On to the next file.
LEMMA NextFileIs ==
  ASSUME inputs \in Seq(Word), inputs # <<>>, NextFile
  PROVE  /\ phase' \in {"done", "opening"} /\ inputs' \in Seq(Word)
         /\ phase' = "opening" => inputs' # <<>>
<1> HIDE DEF Word
<1> QED
  BY DEF NextFile

\* A call begins.
LEMMA BeginKeeps ==
  ASSUME CInv, NEW c \in Seq(Word), Begin(c)
  PROVE  CInv'
<1>1. /\ phase = "idle" /\ inputs' = EnumerateInputFiles(c)
      /\ phase' = IF inputs' = <<>> THEN "done" ELSE "opening"
      /\ mapped' = mapped /\ offset' = offset /\ out' = out /\ opened' = opened
      /\ made' = made /\ unmapped' = unmapped
  BY DEF Begin
<1>2. inputs' \in Seq(Word)
  BY <1>1, EnumeratedAreWords
<1>3. mapped = 0 /\ opened = 0 /\ made = unmapped
  BY <1>1 DEF CInv, Underway, ClassifySound, MappingsReleased, ClassifyTypeOK
<1> QED
  BY <1>1, <1>2, <1>3, BetweenFiles

\* open() fails.
LEMMA OpenFailsKeeps ==
  ASSUME CInv, OpenFails
  PROVE  CInv'
<1>1. /\ phase = "opening" /\ NextFile
      /\ mapped' = mapped /\ offset' = offset /\ out' = out /\ opened' = opened
      /\ made' = made /\ unmapped' = unmapped
  BY DEF OpenFails
<1>2. /\ inputs \in Seq(Word) /\ inputs # <<>>
      /\ mapped = 0 /\ opened = 0 /\ made = unmapped
  BY <1>1 DEF CInv, Underway, ClassifySound, MappingsReleased, ClassifyTypeOK
<1>3. /\ phase' \in {"done", "opening"} /\ inputs' \in Seq(Word)
      /\ phase' = "opening" => inputs' # <<>>
  BY <1>1, <1>2, NextFileIs
<1> QED
  BY <1>1, <1>2, <1>3, BetweenFiles

\* close(), and the destructor.
LEMMA CloseKeeps ==
  ASSUME CInv, Close
  PROVE  CInv'
<1>1. /\ phase = "closing" /\ NextFile
      /\ mapped' = 0 /\ offset' = offset /\ out' = out /\ opened' = opened - 1
      /\ made' = made /\ unmapped' = unmapped + (IF mapped > 0 THEN 1 ELSE 0)
  BY DEF Close
<1>2. /\ inputs \in Seq(Word) /\ inputs # <<>> /\ mapped \in Nat
      /\ made \in Nat /\ unmapped \in Nat
      /\ opened = 1 /\ made - unmapped = (IF mapped > 0 THEN 1 ELSE 0)
  BY <1>1 DEF CInv, ClassifySound, MappingsReleased, ClassifyTypeOK
<1>3. opened' = 0 /\ unmapped' = made
  BY <1>1, <1>2
<1>4. /\ phase' \in {"done", "opening"} /\ inputs' \in Seq(Word)
      /\ phase' = "opening" => inputs' # <<>>
  BY <1>1, <1>2, NextFileIs
<1> QED
  BY <1>1, <1>3, <1>4, BetweenFiles

\* The file is mapped, and walked if it is an archive.
LEMMA OpenAndMapKeeps ==
  ASSUME CInv, OpenAndMap
  PROVE  CInv'
<1> DEFINE f == Head(inputs).arg
<1>1. /\ phase = "opening" /\ f \in DOMAIN Image /\ File = Image[f] /\ File.size > 0
      /\ mapped' = RoundUp(File.size) /\ phase' = IF File.archive THEN "walking" ELSE "whole"
      /\ offset' = GlobalHeader /\ opened' = opened + 1 /\ made' = made + 1
      /\ inputs' = inputs /\ out' = out /\ unmapped' = unmapped
  BY DEF OpenAndMap, File
<1>2. File.members \in Seq(Nat) /\ File.size \in Nat /\ File.archive \in BOOLEAN
  BY <1>1, FileIs
<1>3. mapped' \in Nat /\ mapped' >= File.size /\ mapped' > 0
  BY <1>1, <1>2, RoundUpIs
<1>4. /\ ClassifyTypeOK /\ mapped = 0 /\ opened = 0 /\ made = unmapped
  BY <1>1 DEF CInv, Underway, ClassifySound, MappingsReleased, ClassifyTypeOK
<1>5. ClassifyTypeOK'
  BY <1>1, <1>3, <1>4 DEF ClassifyTypeOK, GlobalHeader
<1>6. MappingsReleased'
  <2>1. opened' = 1 /\ made' - unmapped' = 1
    BY <1>1, <1>4 DEF ClassifyTypeOK
  <2> QED
    BY <1>1, <1>2, <1>3, <2>1 DEF MappingsReleased
<1>7. OnlyMembers'
  BY <1>1 DEF CInv, OnlyMembers
<1>8. Underway'
  <2>1. File' = File /\ Head(inputs)'.arg = f
    BY <1>1 DEF File
  <2>2. 0 \in 0 .. Len(File.members) /\ WalkedTo(0)'
    BY <1>1, <1>2, <2>1 DEF WalkedTo, EndOf
  <2>3. ~File.archive => phase' = "whole"
    BY <1>1
  <2>4. \E n \in 0 .. Len(File'.members) : WalkedTo(n)'
    BY <2>1, <2>2
  <2> QED
    BY <1>1, <1>2, <1>3, <2>1, <2>3, <2>4 DEF Underway
<1> QED
  BY <1>5, <1>6, <1>7, <1>8 DEF CInv, ClassifySound

\* mmap() fails.
LEMMA MapFailsKeeps ==
  ASSUME CInv, MapFails
  PROVE  CInv'
<1> DEFINE f == Head(inputs).arg
<1>1. /\ phase = "opening" /\ f \in DOMAIN Image /\ mapped' = 0 /\ phase' = "whole"
      /\ opened' = opened + 1 /\ inputs' = inputs /\ offset' = offset /\ out' = out
      /\ made' = made /\ unmapped' = unmapped
  BY DEF MapFails
<1>2. /\ ClassifyTypeOK /\ opened = 0 /\ made = unmapped
  BY <1>1 DEF CInv, Underway, ClassifySound, MappingsReleased, ClassifyTypeOK
<1>3. ClassifyTypeOK'
  BY <1>1, <1>2 DEF ClassifyTypeOK
<1>4. MappingsReleased'
  BY <1>1, <1>2 DEF MappingsReleased, ClassifyTypeOK
<1>5. OnlyMembers'
  BY <1>1 DEF CInv, OnlyMembers
<1>6. Underway'
  BY <1>1 DEF Underway
<1> QED
  BY <1>3, <1>4, <1>5, <1>6 DEF CInv, ClassifySound

\* fstat() fails.
LEMMA StatFailsKeeps ==
  ASSUME CInv, StatFails
  PROVE  CInv'
<1>1. /\ phase = "opening" /\ phase' = "aborted" /\ mapped' = mapped
      /\ opened' = opened + 1 /\ inputs' = inputs /\ offset' = offset /\ out' = out
      /\ made' = made /\ unmapped' = unmapped
  BY DEF StatFails
<1>2. /\ ClassifyTypeOK /\ mapped = 0 /\ opened = 0 /\ made = unmapped
  BY <1>1 DEF CInv, Underway, ClassifySound, MappingsReleased, ClassifyTypeOK
<1>3. ClassifyTypeOK'
  BY <1>1, <1>2 DEF ClassifyTypeOK
<1>4. MappingsReleased'
  BY <1>1, <1>2 DEF MappingsReleased, ClassifyTypeOK
<1>5. OnlyMembers'
  BY <1>1 DEF CInv, OnlyMembers
<1>6. Underway'
  BY <1>1 DEF Underway
<1> QED
  BY <1>3, <1>4, <1>5, <1>6 DEF CInv, ClassifySound

\* What does not change while a file is asked for its symbols.
LEMMA AskingIs ==
  ASSUME CInv, phase \in {"whole", "walking"}, NEW at \in Nat, Asked(at),
         inputs' = inputs, mapped' = mapped, opened' = opened, made' = made,
         phase' \in {"walking", "closing"}, offset' \in Nat
  PROVE  /\ ClassifySound'
         /\ DOMAIN out' = DOMAIN out \cup {<<Head(inputs).arg, at>>}
         /\ Head(inputs).arg \in DOMAIN Image
<1>1. ClassifyTypeOK /\ MappingsReleased /\ Head(inputs).arg \in DOMAIN Image
  BY DEF CInv, ClassifySound, Underway
<1>2. unmapped \in Nat
  BY <1>1 DEF ClassifyTypeOK
<1>3. DOMAIN out' = DOMAIN out \cup {<<Head(inputs).arg, at>>} /\ unmapped' = unmapped
  BY <1>2, AskedIs
<1>4. \A k \in DOMAIN out' : k[1] \in DOMAIN Image /\ k[2] \in Nat
  <2>1. \A k \in DOMAIN out : k[1] \in DOMAIN Image /\ k[2] \in Nat
    BY <1>1 DEF ClassifyTypeOK
  <2> QED
    BY <1>1, <1>3, <2>1
<1>5. ClassifyTypeOK'
  BY <1>1, <1>3, <1>4 DEF ClassifyTypeOK
<1>6. MappingsReleased'
  BY <1>1, <1>3 DEF MappingsReleased
<1> QED
  BY <1>1, <1>3, <1>5, <1>6 DEF ClassifySound

\* A file that is no archive, or not mapped, is asked as a whole.
LEMMA AskWholeKeeps ==
  ASSUME CInv, AskWhole
  PROVE  CInv'
<1>1. /\ phase = "whole" /\ Asked(0) /\ phase' = "closing" /\ inputs' = inputs
      /\ mapped' = mapped /\ offset' = offset /\ opened' = opened /\ made' = made
  BY DEF AskWhole
<1>2. offset \in Nat /\ OnlyMembers /\ ~(mapped > 0 /\ File.archive)
  BY <1>1 DEF CInv, ClassifySound, ClassifyTypeOK, Underway
<1>3. /\ ClassifySound' /\ Head(inputs).arg \in DOMAIN Image
      /\ DOMAIN out' = DOMAIN out \cup {<<Head(inputs).arg, 0>>}
  BY <1>1, <1>2, AskingIs
<1>4. OnlyMembers'
  <2>1. \A e \in DOMAIN out' : e[2] # 0 => e \in DOMAIN out
    BY <1>3
  <2> QED
    BY <1>2, <2>1 DEF OnlyMembers
<1>5. Underway'
  BY <1>1, <1>2, <1>3 DEF Underway, File
<1> QED
  BY <1>3, <1>4, <1>5 DEF CInv

\* A member is asked, and the walk goes on behind it.
LEMMA AskMemberKeeps ==
  ASSUME CInv, AskMember
  PROVE  CInv'
<1> DEFINE f == Head(inputs).arg
           members == File.members
<1>1. /\ phase = "walking" /\ phase' = phase /\ inputs' = inputs /\ mapped' = mapped
      /\ opened' = opened /\ made' = made
  BY DEF AskMember
<1>2. PICK k \in DOMAIN members :
        /\ HeaderAt(members, k) = offset /\ Asked(offset + MemberHeader)
        /\ offset' = offset + MemberHeader + members[k]
  BY DEF AskMember, MembersHere
<1>3. /\ offset \in Nat /\ OnlyMembers /\ f \in DOMAIN Image /\ File = Image[f]
      /\ mapped > 0 /\ File.archive /\ mapped >= File.size
  BY <1>1 DEF CInv, ClassifySound, ClassifyTypeOK, Underway, File
<1>4. members \in Seq(Nat)
  BY <1>3, FileIs
<1>5. PICK n \in 0 .. Len(members) : WalkedTo(n)
  BY <1>1 DEF CInv, Underway
<1>6. /\ k = n + 1 /\ k \in Reached(members)
      /\ \A j \in 1 .. k : j \in Reached(members)
  <2>1. \A j \in 1 .. n : j \in Reached(members)
    BY <1>5 DEF WalkedTo
  <2>2. HeaderAt(members, k) = EndOf(members, n)
    BY <1>2, <1>5 DEF WalkedTo
  <2> HIDE DEF members
  <2> QED
    BY <1>2, <1>4, <1>5, <2>1, <2>2, NextMember
<1>7. /\ k \in 1 .. Len(members) /\ members[k] \in Nat /\ n \in Nat
      /\ offset + MemberHeader = Place(members, k) /\ offset + MemberHeader \in Nat
      /\ offset' \in Nat /\ offset' = EndOf(members, k)
  <2>1. k \in 1 .. Len(members) /\ members[k] \in Nat /\ k # 0
    BY <1>4
  <2>2. MemberHeader \in Nat
    BY DEF MemberHeader
  <2> HIDE DEF members
  <2> QED
    BY <1>2, <1>3, <1>5, <2>1, <2>2 DEF Place, EndOf
<1>8. ClassifySound' /\ DOMAIN out' = DOMAIN out \cup {<<f, Place(members, k)>>}
  BY <1>1, <1>2, <1>7, AskingIs
<1>9. OnlyMembers'
  <2>1. \A e \in DOMAIN out' : e \in DOMAIN out \/ (e[1] = f /\ e[2] = Place(members, k))
    BY <1>8
  <2>2. \A e \in DOMAIN out' : e[1] = f /\ e[2] = Place(members, k) =>
          \E j \in Reached(Image[e[1]].members) : e[2] = Place(Image[e[1]].members, j)
    BY <1>3, <1>6
  <2> QED
    BY <1>3, <2>1, <2>2 DEF OnlyMembers
<1>10. Underway'
  <2>1. /\ File' = File /\ Head(inputs') = Head(inputs)
    BY <1>1 DEF File
  <2>2. \A j \in 1 .. k : <<f, Place(members, j)>> \in DOMAIN out'
    <3>1. \A j \in 1 .. n : <<f, Place(members, j)>> \in DOMAIN out
      BY <1>5 DEF WalkedTo
    <3>2. \A j \in 1 .. k : j \in 1 .. n \/ j = k
      BY <1>6, <1>7
    <3> QED
      BY <1>8, <3>1, <3>2
  <2>3. WalkedTo(k)'
    BY <1>6, <1>7, <2>1, <2>2 DEF WalkedTo
  <2>4. k \in 0 .. Len(File.members)
    BY <1>7
  <2>5. \E j \in 0 .. Len(File'.members) : WalkedTo(j)'
    BY <2>1, <2>3, <2>4
  <2> QED
    BY <1>1, <1>3, <2>1, <2>5 DEF Underway
<1> QED
  BY <1>8, <1>9, <1>10 DEF CInv

\* The walk ends where there is no further member, or behind the file.
LEMMA EndWalkKeeps ==
  ASSUME CInv, EndWalk
  PROVE  CInv'
<1> DEFINE f == Head(inputs).arg
           members == File.members
<1>1. /\ phase = "walking" /\ phase' = "closing" /\ inputs' = inputs /\ mapped' = mapped
      /\ offset' = offset /\ out' = out /\ opened' = opened /\ made' = made
      /\ unmapped' = unmapped /\ (offset >= mapped \/ MembersHere = {})
  BY DEF EndWalk
<1>2. /\ mapped \in Nat /\ ClassifySound /\ OnlyMembers /\ f \in DOMAIN Image
      /\ File = Image[f] /\ mapped > 0 /\ File.archive /\ mapped >= File.size
  BY <1>1 DEF CInv, ClassifySound, ClassifyTypeOK, Underway, File
<1>3. /\ members \in Seq(Nat) /\ File.size \in Nat
      /\ \A k \in DOMAIN members : Place(members, k) + members[k] <= File.size
  BY <1>2, FileIs
<1>4. PICK n \in 0 .. Len(members) : WalkedTo(n)
  BY <1>1 DEF CInv, Underway
<1>5. offset = EndOf(members, n) /\ \A j \in 1 .. n : j \in Reached(members)
  BY <1>4 DEF WalkedTo
<1>6. /\ (\A k \in DOMAIN members : HeaderAt(members, k) # EndOf(members, n)) =>
           \A k \in Reached(members) : k <= n
      /\ \A k \in Reached(members) :
           k > n => n + 1 \in DOMAIN members /\ EndOf(members, n) = HeaderAt(members, n + 1)
  <2> HIDE DEF members
  <2> QED
    BY <1>3, <1>4, <1>5, NextMember
<1>7. ASSUME NEW k \in Reached(members) PROVE k \in 1 .. n
  <2>1. k \in 1 .. Len(members) /\ n \in Nat
    BY <1>3, <1>4 DEF Reached
  <2>2. CASE MembersHere = {}
    BY <1>5, <1>6, <2>1, <2>2 DEF MembersHere
  <2>3. CASE offset >= mapped
    <3> DEFINE h == HeaderAt(members, n + 1)
               s == members[n + 1]
    <3>1. SUFFICES ASSUME k > n PROVE FALSE
      BY <2>1
    <3>2. n + 1 \in DOMAIN members /\ offset = h
      BY <1>5, <1>6, <3>1
    <3>3. s \in Nat /\ h + 60 + s <= File.size
      BY <1>3, <3>2 DEF Place, MemberHeader
    <3>4. offset \in Nat
      BY <1>2 DEF ClassifySound, ClassifyTypeOK
    <3> HIDE DEF h, s, members
    <3> QED
      BY <1>2, <1>3, <2>3, <3>2, <3>3, <3>4
  <2> QED
    BY <1>1, <2>2, <2>3
<1>8. \A k \in Reached(members) : <<f, Place(members, k)>> \in DOMAIN out
  BY <1>4, <1>7 DEF WalkedTo
<1>9. ClassifySound'
  BY <1>1, <1>2 DEF ClassifySound, ClassifyTypeOK, MappingsReleased
<1>10. OnlyMembers'
  BY <1>1, <1>2 DEF OnlyMembers
<1>11. Underway'
  BY <1>1, <1>2, <1>8 DEF Underway, File
<1> QED
  BY <1>9, <1>10, <1>11 DEF CInv

\* The walk leaves the mapping.
LEMMA ReadsPastMappingKeeps ==
  ASSUME CInv, ReadsPastMapping
  PROVE  CInv'
<1>1. /\ phase = "walking" /\ phase' = "crashed" /\ inputs' = inputs /\ mapped' = mapped
      /\ offset' = offset /\ out' = out /\ opened' = opened /\ made' = made
      /\ unmapped' = unmapped
  BY DEF ReadsPastMapping
<1>2. ClassifySound /\ OnlyMembers
  BY DEF CInv
<1>3. ClassifySound'
  BY <1>1, <1>2 DEF ClassifySound, ClassifyTypeOK, MappingsReleased
<1>4. OnlyMembers'
  BY <1>1, <1>2 DEF OnlyMembers
<1>5. Underway'
  BY <1>1 DEF Underway
<1> QED
  BY <1>3, <1>4, <1>5 DEF CInv

\* The whole invariant is one of the specification.
LEMMA C_Inv == ClassifySpec => []CInv
<1>1. ClassifyInit => CInv
  <2>1. SUFFICES ASSUME ClassifyInit PROVE CInv
    OBVIOUS
  <2>2. DOMAIN out = {}
    <3>1. out = <<>>
      BY <2>1 DEF ClassifyInit
    <3>2. DOMAIN <<>> = {}
      OBVIOUS
    <3> QED
      BY <3>1, <3>2
  <2>3. inputs \in Seq(Word)
    BY <2>1 DEF ClassifyInit
  <2>4. ClassifySound
    BY <2>1, <2>2, <2>3 DEF ClassifyInit, ClassifySound, ClassifyTypeOK, MappingsReleased
  <2>5. OnlyMembers
    BY <2>2 DEF OnlyMembers
  <2>6. Underway
    BY <2>1 DEF ClassifyInit, Underway
  <2> QED
    BY <2>4, <2>5, <2>6 DEF CInv
<1>2. CInv /\ [(\E cmd \in Seq(Word) : Begin(cmd)) \/ ClassifyStep]_classifyVars => CInv'
  <2> SUFFICES ASSUME CInv, [(\E cmd \in Seq(Word) : Begin(cmd)) \/ ClassifyStep]_classifyVars
               PROVE  CInv'
    OBVIOUS
  <2>1. CASE \E cmd \in Seq(Word) : Begin(cmd)
    BY <2>1, BeginKeeps
  <2>2. CASE OpenFails
    BY <2>2, OpenFailsKeeps
  <2>3. CASE OpenAndMap
    BY <2>3, OpenAndMapKeeps
  <2>4. CASE MapFails
    BY <2>4, MapFailsKeeps
  <2>5. CASE StatFails
    BY <2>5, StatFailsKeeps
  <2>6. CASE AskWhole
    BY <2>6, AskWholeKeeps
  <2>7. CASE AskMember
    BY <2>7, AskMemberKeeps
  <2>8. CASE EndWalk
    BY <2>8, EndWalkKeeps
  <2>9. CASE ReadsPastMapping
    BY <2>9, ReadsPastMappingKeeps
  <2>10. CASE Close
    BY <2>10, CloseKeeps
  <2>11. CASE UNCHANGED classifyVars
    BY <2>11 DEF classifyVars, CInv, ClassifySound, ClassifyTypeOK, MappingsReleased,
                 OnlyMembers, Underway, WalkedTo, File
  <2> QED
    BY <2>1, <2>2, <2>3, <2>4, <2>5, <2>6, <2>7, <2>8, <2>9, <2>10, <2>11 DEF ClassifyStep
<1> QED
  BY <1>1, <1>2, PTL DEF ClassifySpec

\* Whatever the command line names and whatever fails, a file is open and mapped
\* just while it is looked at, and its mapping goes away once: the copy that asks
\* it for symbols takes nothing down with it (elfmap.hh:110-113, elfmap.cpp:17-25).
THEOREM Classify_Sound == ClassifySpec => []ClassifySound
<1>1. CInv => ClassifySound
  BY DEF CInv
<1> QED
  BY <1>1, C_Inv, PTL

\* Of every archive that is walked to its end, with members of any number and
\* sizes, the objects found are its members down to the first of odd size
\* (cmdline.hh:171-190).
THEOREM Members_Found == ClassifySpec => []MembersFound
<1>1. CInv => MembersFound
  <2> SUFFICES ASSUME CInv, phase = "closing", mapped > 0, File.archive
               PROVE  {k[2] : k \in {e \in DOMAIN out : e[1] = Head(inputs).arg}} \ {0}
                        = {Place(File.members, k) : k \in Reached(File.members)}
    BY DEF MembersFound, Reached, Place
  <2> DEFINE f == Head(inputs).arg
             found == {k[2] : k \in {e \in DOMAIN out : e[1] = f}}
             members == File.members
  <2>1. f \in DOMAIN Image /\ File = Image[f]
    BY DEF CInv, Underway, File
  <2>2. members \in Seq(Nat)
    BY <2>1, FileIs
  <2>3. ASSUME NEW x \in found, x # 0
        PROVE  \E k \in Reached(members) : x = Place(members, k)
    <3>1. PICK e \in DOMAIN out : e[1] = f /\ x = e[2]
      BY <2>3
    <3> QED
      BY <2>1, <2>3, <3>1 DEF CInv, OnlyMembers
  <2>4. ASSUME NEW k \in Reached(members)
        PROVE  Place(members, k) \in found /\ Place(members, k) # 0
    <3>1. <<f, Place(members, k)>> \in DOMAIN out
      BY DEF CInv, Underway
    <3>2. Place(members, k) # 0
      BY <2>2, PlaceIs DEF Reached
    <3>3. <<f, Place(members, k)>>[1] = f /\ <<f, Place(members, k)>>[2] = Place(members, k)
      OBVIOUS
    <3>4. <<f, Place(members, k)>> \in {e \in DOMAIN out : e[1] = f}
      BY <3>1, <3>3
    <3> QED
      BY <3>2, <3>3, <3>4
  <2> HIDE DEF found, members
  <2>5. found \ {0} = {Place(members, k) : k \in Reached(members)}
    BY <2>3, <2>4
  <2> QED
    BY <2>5 DEF found, members
<1> QED
  BY <1>1, C_Inv, PTL
==============================================================================
