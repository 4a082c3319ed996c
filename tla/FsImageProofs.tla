---------------------------- MODULE FsImageProofs ---------------------------
(***************************************************************************)
(* Proofs about FsImage.  Load is a fold over the lines of the image, and  *)
(* the fold of the library a recursive function on sets of positions: its  *)
(* equation is established first, by induction on the number of lines,     *)
(* then what Load makes of the lines Save writes.                          *)
(***************************************************************************)
EXTENDS Namespace, FsNamesystemProofs, SequenceLemmas

-----------------------------------------------------------------------------
\* One step of the library's fold: the tree for the set s of lines from the
\* trees for smaller sets.
Body(img, g, s) == IF s = {} THEN EmptyTree ELSE LoadLine(g[s \ {Max(s)}], img[Max(s)])
Iter(img) == CHOOSE g : g = [s \in SUBSET DOMAIN img |-> Body(img, g, s)]

\* Load is that fold.
LEMMA LoadIsIter == ASSUME NEW img PROVE Load(img) = Iter(img)[DOMAIN img]
BY Zenon DEF Load, FoldLeft, MapThenFoldSet, Iter, Body

\* The largest position of a set is the last one if the set has it.
LEMMA MaxIsLast ==
    ASSUME NEW n \in Nat, NEW s \in SUBSET (1..(n + 1)), n + 1 \in s
    PROVE  Max(s) = n + 1
<1>1. \A x \in s : (\A y \in s : x >= y) <=> x = n + 1
  OBVIOUS
<1>2. QED
  BY <1>1 DEF Max

\* A function with the fold's equation exists for every number of lines.
LEMMA IterExists ==
    ASSUME NEW img, NEW N \in Nat
    PROVE  \E g : g = [s \in SUBSET (1..N) |-> Body(img, g, s)]
<1> DEFINE S == {n \in Nat : \E g : g = [s \in SUBSET (1..n) |-> Body(img, g, s)]}
<1>1. 0 \in S
  <2> DEFINE g == [s \in SUBSET (1..0) |-> EmptyTree]
  <2>1. SUBSET (1..0) = {{}}
    OBVIOUS
  <2>2. g = [s \in SUBSET (1..0) |-> Body(img, g, s)]
    <3>1. \A s \in SUBSET (1..0) : EmptyTree = Body(img, g, s)
      BY <2>1 DEF Body
    <3>2. QED
      BY <3>1
  <2>3. QED
    BY <2>2
<1>2. ASSUME NEW n \in Nat, n \in S
      PROVE  n + 1 \in S
  <2>1. PICK g : g = [s \in SUBSET (1..n) |-> Body(img, g, s)]
    BY <1>2
  <2> DEFINE h == [s \in SUBSET (1..(n + 1)) |->
                     IF n + 1 \in s THEN LoadLine(g[s \ {n + 1}], img[n + 1]) ELSE g[s]]
  <2>2. ASSUME NEW s \in SUBSET (1..(n + 1))
        PROVE  h[s] = Body(img, h, s)
    <3>1. CASE n + 1 \in s
      <4>1. Max(s) = n + 1 /\ s # {}
        BY <3>1, MaxIsLast
      <4>2. s \ {n + 1} \in SUBSET (1..(n + 1)) /\ n + 1 \notin s \ {n + 1}
        OBVIOUS
      <4>3. h[s \ {n + 1}] = g[s \ {n + 1}]
        BY <4>2
      <4>4. h[s] = LoadLine(g[s \ {n + 1}], img[n + 1])
        BY <3>1
      <4> HIDE DEF h
      <4>5. QED
        BY <4>1, <4>3, <4>4 DEF Body
    <3>2. CASE n + 1 \notin s
      <4>1. s \in SUBSET (1..n)
        BY <3>2
      <4>2. h[s] = g[s] /\ g[s] = Body(img, g, s)
        BY <2>1, <3>2, <4>1
      <4>3. h[s \ {Max(s)}] = g[s \ {Max(s)}]
        <5>1. s \ {Max(s)} \in SUBSET (1..(n + 1)) /\ n + 1 \notin s \ {Max(s)}
          BY <3>2
        <5>2. QED
          BY <5>1
      <4> HIDE DEF h
      <4>4. QED
        BY <4>2, <4>3 DEF Body
    <3>3. QED
      BY <3>1, <3>2
  <2>3. DOMAIN h = SUBSET (1..(n + 1)) /\ h = [s \in DOMAIN h |-> h[s]]
    OBVIOUS
  <2> HIDE DEF h
  <2>4. h = [s \in SUBSET (1..(n + 1)) |-> Body(img, h, s)]
    BY <2>2, <2>3
  <2>5. QED
    BY <2>4
<1>3. Nat \subseteq S
  <2> HIDE DEF S
  <2>1. QED
    BY <1>1, <1>2, NumbersIn
<1>4. QED
  BY <1>3

\* Load goes line by line: K[n] holds the trees it may have after n lines.
LEMMA LoadSteps ==
    ASSUME NEW L, NEW img \in Seq(L), NEW K, EmptyTree \in K[0],
           \A n \in Nat : n < Len(img) => \A t \in K[n] : LoadLine(t, img[n + 1]) \in K[n + 1]
    PROVE  Load(img) \in K[Len(img)]
<1> DEFINE N == Len(img)
           g == Iter(img)
           S == {n \in Nat : n <= N => g[1..n] \in K[n]}
<1>1. N \in Nat /\ DOMAIN img = 1..N
  BY LenProperties
<1>2. g = [s \in SUBSET (1..N) |-> Body(img, g, s)]
  <2>1. \E f : f = [s \in SUBSET (1..N) |-> Body(img, f, s)]
    <3> HIDE DEF N
    <3>1. QED
      BY <1>1, IterExists
  <2>2. QED
    BY <1>1, <2>1 DEF Iter
<1> HIDE DEF g
<1>3. \A s \in SUBSET (1..N) : g[s] = Body(img, g, s)
  BY <1>2
<1>4. 0 \in S
  <2>1. 1..0 = {} /\ {} \in SUBSET (1..N)
    OBVIOUS
  <2>2. g[1..0] = EmptyTree
    BY <1>3, <2>1 DEF Body
  <2>3. QED
    BY <2>2
<1>5. ASSUME NEW n \in Nat, n \in S
      PROVE  n + 1 \in S
  <2> DEFINE s == 1..(n + 1)
  <2> SUFFICES ASSUME n + 1 <= N
               PROVE  g[s] \in K[n + 1]
    OBVIOUS
  <2>1. g[1..n] \in K[n] /\ n < N
    BY <1>1, <1>5
  <2>2. s \in SUBSET (1..(n + 1)) /\ n + 1 \in s /\ s # {} /\ s \in SUBSET (1..N)
    <3> HIDE DEF N
    <3>1. n + 1 \in s /\ \A i \in s : i \in 1..N
      BY <1>1
    <3>2. QED
      BY <3>1
  <2>3. s \ {n + 1} = 1..n
    OBVIOUS
  <2> HIDE DEF s
  <2>4. Max(s) = n + 1
    BY <2>2, MaxIsLast
  <2>5. g[s] = LoadLine(g[1..n], img[n + 1])
    BY <1>3, <2>2, <2>3, <2>4 DEF Body
  <2>6. QED
    BY <2>1, <2>5
<1>6. Nat \subseteq S
  <2> HIDE DEF S
  <2>1. QED
    BY <1>4, <1>5, NumbersIn
<1>7. g[1..N] \in K[N]
  BY <1>1, <1>6
<1>8. QED
  BY <1>1, <1>7, LoadIsIter DEF g

-----------------------------------------------------------------------------
\* The lines of an image, and the nodes of a tree.
Lines == [type : Types, path : Paths, blocks : Seq(Blocks)]
Nodes(t) == {p \in Paths : Exists(t, p)}

\* The trees Load may pass: well formed, finite, with no other blocks than a
\* line for that very path has, and with no file if no line is a file's.
FromLines(img) ==
    {t \in Trees :
        /\ Closed(t) /\ IsFiniteSet(Nodes(t))
        /\ \A p \in Paths : \/ t[p].blocks = <<>>
                            \/ \E i \in DOMAIN img : img[i].path = p /\ img[i].blocks = t[p].blocks
        /\ \A p \in Paths : IsFile(t, p) => \E i \in DOMAIN img : img[i].type # "kDirectory"}

\* A path has finitely many ancestors.
LEMMA AncestorsFinite ==
    ASSUME NEW p \in Paths
    PROVE  IsFiniteSet({q \in Paths : IsPrefix(q, p)})
<1> DEFINE A == {q \in Paths : IsPrefix(q, p)}
           f == [q \in A |-> Len(q)]
<1>1. p \in Seq(STRING) /\ Len(p) \in Nat /\ \A q \in A : q \in Seq(STRING) /\ Len(q) \in Nat
  BY PathsAssumption, LenProperties
<1>2. \A q \in A : Len(q) <= Len(p) /\ \A i \in 1..Len(q) : q[i] = p[i]
  BY <1>1, PrefixElements
<1>3. f \in Injection(A, 0..Len(p))
  <2>1. f \in [A -> 0..Len(p)]
    BY <1>1, <1>2
  <2>2. ASSUME NEW q \in A, NEW r \in A, f[q] = f[r]
        PROVE  q = r
    <3>1. Len(q) = Len(r) /\ \A i \in 1..Len(q) : q[i] = r[i]
      BY <1>2, <2>2
    <3>2. QED
      BY <1>1, <3>1, SeqEqual
  <2>3. QED
    BY <2>1, <2>2 DEF Injection, IsInjective
<1>4. IsFiniteSet(0..Len(p))
  BY <1>1, FS_Interval
<1>5. QED
  <2> HIDE DEF f, A
  <2>1. IsFiniteSet(A)
    BY <1>3, <1>4, FS_Injection
  <2>2. QED
    BY <2>1 DEF A

\* Mkdirs makes finitely many nodes.
LEMMA MkdirsFinite ==
    ASSUME NEW t \in Trees, NEW p \in Paths, IsFiniteSet(Nodes(t))
    PROVE  IsFiniteSet(Nodes(Mkdirs(t, p)))
<1> DEFINE A == {q \in Paths : IsPrefix(q, p)}
<1>1. IsFiniteSet(Nodes(t) \cup A)
  BY AncestorsFinite, FS_Union
<1>2. Nodes(Mkdirs(t, p)) \subseteq Nodes(t) \cup A
  BY DEF Nodes, Mkdirs, Exists
<1>3. QED
  BY <1>1, <1>2, FS_Subset

\* The empty tree is one of them.
LEMMA EmptyFromLines == ASSUME NEW img PROVE EmptyTree \in FromLines(img)
<1>1. EmptyTree \in Trees
  BY NodeTypes DEF EmptyTree, Trees
<1>2. Closed(EmptyTree) /\ \A p \in Paths : EmptyTree[p].blocks = <<>> /\ ~ IsFile(EmptyTree, p)
  BY PathsAssumption DEF EmptyTree, Closed, IsDirectory, IsFile, Exists, Absent, Directory
<1>3. Nodes(EmptyTree) = {Root}
  BY PathsAssumption DEF Nodes, EmptyTree, Exists, Absent, Directory
<1>4. QED
  BY <1>1, <1>2, <1>3, FS_Singleton DEF FromLines

\* A tree that comes from one of them by making directories is one of them.
LEMMA MkdirsFromLines ==
    ASSUME NEW img, NEW t \in FromLines(img), NEW p \in Paths
    PROVE  Mkdirs(t, p) \in FromLines(img)
<1> DEFINE u == Mkdirs(t, p)
<1>1. t \in Trees /\ Closed(t) /\ IsFiniteSet(Nodes(t))
  BY DEF FromLines
<1>2. Derived(t, u) /\ Closed(u) /\ IsFiniteSet(Nodes(u))
  BY <1>1, MkdirsFacts, MkdirsFinite
<1> HIDE DEF u
<1>3. \A q \in Paths : /\ u[q].blocks = t[q].blocks \/ u[q].blocks = <<>>
                       /\ IsFile(u, q) => IsFile(t, q)
  BY <1>2 DEF Derived, Absent, Directory, IsFile
<1>4. QED
  <2>0. \A q \in Paths : /\ \/ u[q].blocks = <<>>
                            \/ \E i \in DOMAIN img : img[i].path = q /\ img[i].blocks = u[q].blocks
                         /\ IsFile(u, q) => \E i \in DOMAIN img : img[i].type # "kDirectory"
    BY <1>3 DEF FromLines
  <2>1. u \in FromLines(img)
    BY <1>2, <2>0 DEF FromLines, Derived
  <2>2. QED
    BY <2>1 DEF u

\* A line keeps it so.
LEMMA LineFromLines ==
    ASSUME NEW img \in Seq(Lines), NEW t \in FromLines(img), NEW i \in DOMAIN img
    PROVE  LoadLine(t, img[i]) \in FromLines(img)
<1>1. img[i] \in Lines /\ img[i].path \in Paths /\ img[i].blocks \in Seq(Blocks)
  <2>1. img[i] \in Lines
    BY ElementOfSeq, LenProperties
  <2>2. QED
    BY <2>1 DEF Lines
<1> DEFINE q == Token[img[i].path]
           made == Mkdirs(t, ParentOf(q))
           bs == IF q = img[i].path THEN img[i].blocks ELSE <<>>
<1>2. q \in Paths /\ ParentOf(q) \in Paths
  BY <1>1, TokenAssumption, PathsAssumption
<1>3. Mkdirs(t, q) \in FromLines(img) /\ made \in FromLines(img)
  BY <1>2, MkdirsFromLines
<1>4. bs \in Seq(Blocks)
  BY <1>1, EmptySeq
<1>5. LoadLine(t, img[i]) = IF img[i].type = "kDirectory" THEN Mkdirs(t, q)
                            ELSE IF CreateFileOk(made, q) THEN [made EXCEPT ![q] = File(bs)]
                            ELSE made
  BY DEF LoadLine
<1>6. ASSUME CreateFileOk(made, q), img[i].type # "kDirectory"
      PROVE  [made EXCEPT ![q] = File(bs)] \in FromLines(img)
  <2> DEFINE u == [made EXCEPT ![q] = File(bs)]
  <2>1. /\ made \in Trees /\ Closed(made) /\ IsFiniteSet(Nodes(made))
        /\ \A p \in Paths : \/ made[p].blocks = <<>>
                            \/ \E j \in DOMAIN img : img[j].path = p /\ img[j].blocks = made[p].blocks
    BY <1>3 DEF FromLines
  <2> HIDE DEF made, q, bs
  <2>2. u \in Trees /\ Closed(u)
    BY <1>2, <1>4, <1>6, <2>1, PutFileClosed
  <2>3. \A p \in Paths : u[p] = IF p = q THEN File(bs) ELSE made[p]
    BY <2>1 DEF Trees
  <2> HIDE DEF u
  <2>4. IsFiniteSet(Nodes(u))
    <3>1. Nodes(u) \subseteq Nodes(made) \cup {q}
      BY <2>3 DEF Nodes, Exists
    <3>2. IsFiniteSet(Nodes(made) \cup {q})
      BY <2>1, FS_AddElement
    <3>3. QED
      BY <3>1, <3>2, FS_Subset
  <2>5. File(bs).blocks = bs /\ (bs = <<>> \/ (bs = img[i].blocks /\ q = img[i].path))
    BY DEF File, bs
  <2>6. \A p \in Paths : \/ u[p].blocks = <<>>
                         \/ \E j \in DOMAIN img : img[j].path = p /\ img[j].blocks = u[p].blocks
    BY <2>1, <2>3, <2>5
  <2>7. u \in FromLines(img)
    BY <1>6, <2>2, <2>4, <2>6 DEF FromLines
  <2>8. QED
    BY <2>7 DEF u
<1>7. QED
  BY <1>3, <1>5, <1>6

\* Whatever is in an image file of well-formed lines, Load makes a well-formed
\* finite tree of it, whose files have the blocks of their own line or none.
THEOREM LoadWellFormed ==
    ASSUME NEW img \in Seq(Lines)
    PROVE  Load(img) \in FromLines(img)
<1> DEFINE K == [n \in Nat |-> FromLines(img)]
<1>1. EmptyTree \in K[0]
  BY EmptyFromLines
<1>2. ASSUME NEW n \in Nat, n < Len(img), NEW t \in K[n]
      PROVE  LoadLine(t, img[n + 1]) \in K[n + 1]
  <2>1. n + 1 \in DOMAIN img
    BY <1>2, LenProperties
  <2>2. QED
    BY <2>1, LineFromLines
<1> HIDE DEF K
<1>3. Load(img) \in K[Len(img)]
  BY <1>1, <1>2, LoadSteps
<1>4. QED
  BY <1>3, LenProperties DEF K

\* The images of a finite tree are lists of lines with the blocks of their
\* path.
LEMMA SaveFacts ==
    ASSUME NEW t \in Trees, IsFiniteSet(Nodes(t)), NEW img \in Save(t)
    PROVE  /\ img \in Seq(Lines)
           /\ \A i \in DOMAIN img : /\ img[i].blocks = t[img[i].path].blocks
                                    /\ img[i].type = t[img[i].path].type
                                    /\ Exists(t, img[i].path)
<1> DEFINE S == {p \in Paths \ {Root} : Exists(t, p)}
<1>1. IsFiniteSet(S) /\ Cardinality(S) \in Nat
  <2>1. S \subseteq Nodes(t)
    BY DEF Nodes
  <2>2. QED
    BY <2>1, FS_Subset, FS_CardinalityType
<1>2. PICK s \in [1..Cardinality(S) -> S] : img = [i \in DOMAIN s |-> Line(t, s[i])]
  BY DEF Save, SetToSeqs
<1> HIDE DEF S
<1>3. \A p \in S : p \in Paths /\ t[p] \in INodes
  BY DEF S, Trees
<1>4. \A i \in 1..Cardinality(S) : /\ s[i] \in S /\ img[i] = Line(t, s[i])
                                   /\ img[i] \in Lines /\ img[i].blocks = t[img[i].path].blocks
                                   /\ img[i].type = t[img[i].path].type
                                   /\ img[i].path = s[i]
  BY <1>2, <1>3 DEF Line, Lines, INodes
<1>5. img \in [1..Cardinality(S) -> Lines]
  BY <1>2, <1>4
<1>6. \A p \in S : Exists(t, p)
  BY DEF S
<1>7. QED
  BY <1>1, <1>4, <1>5, <1>6

\* A torn image has the first lines of the whole one, the last of them perhaps
\* with the first of its blocks only.
LEMMA TornFacts ==
    ASSUME NEW img \in Seq(Lines), NEW x \in Torn(img)
    PROVE  /\ x \in Seq(Lines)
           /\ \A i \in DOMAIN x :
                /\ i \in DOMAIN img /\ x[i].path = img[i].path /\ x[i].type = img[i].type
                /\ \E k \in 0..Len(img[i].blocks) : x[i].blocks = SubSeq(img[i].blocks, 1, k)
<1> DEFINE Cut(bs) == {SubSeq(bs, 1, k) : k \in 0..Len(bs)}
<1>00. \A bs \in Seq(Blocks) : bs \in Cut(bs)
  <2>1. \A bs \in Seq(Blocks) : Len(bs) \in 0..Len(bs) /\ SubSeq(bs, 1, Len(bs)) = bs
    OBVIOUS
  <2>2. QED
    BY <2>1
<1>0. \A i \in DOMAIN img : /\ img[i] \in Lines /\ img[i].blocks \in Seq(Blocks)
                           /\ img[i].blocks \in Cut(img[i].blocks)
  <2>1. \A i \in DOMAIN img : img[i] \in Lines
    OBVIOUS
  <2>2. \A i \in DOMAIN img : img[i].blocks \in Seq(Blocks)
    BY <2>1 DEF Lines
  <2> HIDE DEF Cut
  <2>3. QED
    BY <1>00, <2>1, <2>2
<1>1. CASE x \in Prefixes(img)
  <2>1. PICK l \in 0..Len(img) : x = SubSeq(img, 1, l)
    BY <1>1 DEF Prefixes
  <2>2. x \in Seq(Lines) /\ Len(x) = l /\ \A i \in 1..l : x[i] = img[i]
    BY <2>1
  <2>3. \A i \in DOMAIN x : i \in DOMAIN img /\ x[i] = img[i]
    BY <2>1, <2>2
  <2>4. \A i \in DOMAIN x : x[i].blocks \in Cut(img[i].blocks)
    BY <1>0, <2>3
  <2>5. QED
    BY <2>2, <2>3, <2>4
<1>2. ASSUME NEW n \in DOMAIN img, NEW bs \in Prefixes(img[n].blocks),
             x = Append(SubSeq(img, 1, n - 1), [img[n] EXCEPT !.blocks = bs])
      PROVE  /\ x \in Seq(Lines)
             /\ \A i \in DOMAIN x :
                  /\ i \in DOMAIN img /\ x[i].path = img[i].path /\ x[i].type = img[i].type
                  /\ \E k \in 0..Len(img[i].blocks) : x[i].blocks = SubSeq(img[i].blocks, 1, k)
  <2>1. PICK k \in 0..Len(img[n].blocks) : bs = SubSeq(img[n].blocks, 1, k)
    BY <1>2 DEF Prefixes
  <2>2. bs \in Seq(Blocks)
    BY <1>0, <2>1
  <2> DEFINE l == [img[n] EXCEPT !.blocks = bs]
             y == SubSeq(img, 1, n - 1)
  <2>3. l \in Lines /\ l.path = img[n].path /\ l.type = img[n].type /\ l.blocks = bs
    BY <1>0, <2>2 DEF Lines
  <2>4. y \in Seq(Lines) /\ Len(y) = n - 1 /\ \A i \in 1..(n - 1) : y[i] = img[i]
    OBVIOUS
  <2> HIDE DEF l, y
  <2>5. x = Append(y, l)
    BY <1>2 DEF l, y
  <2>6. x \in Seq(Lines) /\ Len(x) = n /\ x[n] = l /\ \A i \in 1..(n - 1) : x[i] = y[i]
    BY <2>3, <2>4, <2>5
  <2>7. \A i \in DOMAIN x : i \in DOMAIN img /\ (x[i] = img[i] \/ i = n)
    BY <2>4, <2>6
  <2>8. \A i \in DOMAIN x : x[i].blocks \in Cut(img[i].blocks)
    <3>1. bs \in Cut(img[n].blocks)
      BY <2>1
    <3> HIDE DEF Cut
    <3>2. QED
      BY <1>0, <2>3, <2>6, <2>7, <3>1
  <2>9. \A i \in DOMAIN x : x[i].path = img[i].path /\ x[i].type = img[i].type
    BY <2>3, <2>6, <2>7
  <2>10. QED
    BY <2>6, <2>7, <2>8, <2>9
<1>3. QED
  BY <1>1, <1>2 DEF Torn

-----------------------------------------------------------------------------
\* What lies above a node is a directory.
LEMMA AncestorsAreDirectories ==
    ASSUME NEW t \in Trees, Closed(t), NEW q \in Paths, Exists(t, q),
           NEW p \in Paths, IsPrefix(p, q), p # q
    PROVE  IsDirectory(t, p)
<1> DEFINE Above(r) == \A x \in Paths : IsPrefix(x, r) /\ x # r => IsDirectory(t, x)
           S == {n \in Nat : \A r \in Paths : Len(r) = n /\ Exists(t, r) => Above(r)}
<1>0. \A r \in Paths : r \in Seq(STRING) /\ Len(r) \in Nat
  BY PathsAssumption, LenProperties
<1>1. 0 \in S
  <2> SUFFICES ASSUME NEW r \in Paths, Len(r) = 0, NEW x \in Paths, IsPrefix(x, r), x # r
               PROVE  FALSE
    OBVIOUS
  <2>1. r = Root
    BY <1>0, EmptySeq DEF Root
  <2>2. QED
    BY <2>1, RootPrefix
<1>2. ASSUME NEW n \in Nat, n \in S
      PROVE  n + 1 \in S
  <2> SUFFICES ASSUME NEW r \in Paths, Len(r) = n + 1, Exists(t, r),
                      NEW x \in Paths, IsPrefix(x, r), x # r
               PROVE  IsDirectory(t, x)
    OBVIOUS
  <2>1. r # Root /\ r \in Seq(STRING) /\ x \in Seq(STRING)
    BY <1>0 DEF Root
  <2>2. /\ ParentOf(r) \in Paths /\ ParentOf(r) \in Seq(STRING) /\ Len(ParentOf(r)) = n
        /\ \A i \in 1..n : ParentOf(r)[i] = r[i]
    <3>1. /\ ParentOf(r) \in Paths /\ ParentOf(r) \in Seq(STRING) /\ Len(ParentOf(r)) = Len(r) - 1
          /\ \A i \in 1..(Len(r) - 1) : ParentOf(r)[i] = r[i]
      BY <2>1, ParentShape, PathsAssumption
    <3>2. Len(r) - 1 = n
      OBVIOUS
    <3>3. QED
      BY <3>1, <3>2
  <2>3. IsDirectory(t, ParentOf(r)) /\ Exists(t, ParentOf(r))
    BY <2>1 DEF Closed, IsDirectory, Exists
  <2>4. Len(x) \in Nat /\ Len(x) <= n + 1 /\ \A i \in 1..Len(x) : x[i] = r[i]
    BY <1>0, <2>1, PrefixElements
  <2>5. Len(x) # n + 1
    <3> SUFFICES ASSUME Len(x) = n + 1
                 PROVE  x = r
      OBVIOUS
    <3>1. QED
      BY <2>1, <2>4, SeqEqual
  <2>6. Len(x) <= n
    BY <2>4, <2>5
  <2>7. IsPrefix(x, ParentOf(r))
    BY <2>1, <2>2, <2>4, <2>6, PrefixElements
  <2>8. Above(ParentOf(r))
    BY <1>2, <2>2, <2>3
  <2>9. QED
    BY <2>3, <2>7, <2>8
<1>3. Nat \subseteq S
  <2> HIDE DEF S
  <2>1. QED
    BY <1>1, <1>2, NumbersIn
<1>4. Above(q)
  BY <1>0, <1>3
<1>5. QED
  BY <1>4

\* Load restores every tree that has an image: the lines come in an order in
\* which each finds its directory made.  Names with white space are the
\* exception, and Token says that there are none.
THEOREM RoundTrip ==
    ASSUME NEW t \in Trees, Closed(t), IsFiniteSet(Nodes(t)),
           \A p \in Paths : IsFile(t, p) \/ t[p].blocks = <<>>,
           \A p \in Paths : Token[p] = p,
           NEW img \in Save(t)
    PROVE  Load(img) = t
<1> DEFINE S == {p \in Paths \ {Root} : Exists(t, p)}
           N == Cardinality(S)
<1>1. IsFiniteSet(S) /\ N \in Nat
  <2>1. S \subseteq Nodes(t)
    BY DEF Nodes
  <2>2. QED
    BY <2>1, FS_Subset, FS_CardinalityType
<1>2. PICK s \in [1..N -> S] : /\ \A i, j \in 1..N : i # j => s[i] # s[j]
                               /\ PreOrder(s)
                               /\ img = [i \in DOMAIN s |-> Line(t, s[i])]
  BY DEF Save, SetToSeqs
<1>3. /\ img \in Seq(Lines) /\ Len(img) = N
      /\ \A i \in 1..N : img[i] = Line(t, s[i])
  <2>1. img \in Seq(Lines)
    BY SaveFacts
  <2>2. DOMAIN img = 1..N /\ DOMAIN img = 1..Len(img) /\ Len(img) \in Nat
    BY <1>2, <2>1, LenProperties
  <2> HIDE DEF N
  <2>3. QED
    BY <1>1, <1>2, <2>1, <2>2
<1>4. \A p \in S : \E i \in 1..N : s[i] = p
  <2>1. s \in Injection(1..N, S)
    BY <1>2 DEF Injection, IsInjective
  <2>2. IsFiniteSet(1..N) /\ Cardinality(1..N) = N
    <3> HIDE DEF N
    <3>1. IsFiniteSet(1..N) /\ Cardinality(1..N) = IF 1 > N THEN 0 ELSE N - 1 + 1
      BY <1>1, FS_Interval
    <3>2. QED
      BY <1>1, <3>1
  <2>3. s \in Surjection(1..N, S)
    <3> HIDE DEF S
    <3>1. QED
      BY <1>1, <2>1, <2>2, FS_Injection
  <2>4. QED
    BY <2>3 DEF Surjection
<1>5. \A p \in Paths : /\ IsDirectory(t, p) => t[p] = Directory
                       /\ IsFile(t, p) => t[p] = File(t[p].blocks)
                       /\ ~ Exists(t, p) => t[p] = Absent
                       /\ Exists(t, p) => IsDirectory(t, p) \/ IsFile(t, p)
  BY DEF Trees, INodes, Types, IsDirectory, IsFile, Exists, Directory, File, Absent
<1> DEFINE Part(n) == [q \in Paths |-> IF q = Root \/ \E i \in 1..n : s[i] = q THEN t[q] ELSE Absent]
           K == [n \in Nat |-> {Part(n)}]
<1>6. EmptyTree \in K[0]
  <2>1. t[Root] = Directory
    BY <1>5, PathsAssumption DEF Closed
  <2>2. Part(0) = EmptyTree
    BY <2>1 DEF EmptyTree
  <2>3. QED
    BY <2>2
<1>7. ASSUME NEW n \in Nat, n < N
      PROVE  LoadLine(Part(n), img[n + 1]) = Part(n + 1)
  <2> DEFINE q == s[n + 1]
             u == Part(n)
  <2>1. n + 1 \in 1..N /\ n \in 0..N /\ \A i \in 1..n : i \in 1..N /\ i # n + 1
    <3> HIDE DEF N
    <3>1. QED
      BY <1>1, <1>7
  <2>2. q \in S /\ \A i \in 1..n : s[i] # q
    BY <1>2, <2>1
  <2>3. q \in Paths /\ q # Root /\ Exists(t, q)
    BY <2>2
  <2>4. \A p \in Paths : u[p] = IF p = Root \/ \E i \in 1..n : s[i] = p THEN t[p] ELSE Absent
    OBVIOUS
  <2>5. u[q] = Absent
    BY <2>2, <2>3, <2>4
  <2>6. \A p \in Paths : Part(n + 1)[p] = IF p = q THEN t[q] ELSE u[p]
    <3>1. \A i \in 1..(n + 1) : i \in 1..n \/ i = n + 1
      OBVIOUS
    <3>2. \A i \in 1..n : i \in 1..(n + 1)
      OBVIOUS
    <3>3. n + 1 \in 1..(n + 1)
      OBVIOUS
    <3>4. QED
      BY <3>1, <3>2, <3>3
  <2>7. img[n + 1].type = t[q].type /\ img[n + 1].path = q /\ img[n + 1].blocks = t[q].blocks
    BY <1>3, <2>1 DEF Line
  <2> HIDE DEF u, q
  <2>8. ASSUME NEW p \in Paths, IsPrefix(p, q), p # q
        PROVE  u[p] = t[p] /\ IsDirectory(t, p)
    <3>1. IsDirectory(t, p) /\ Exists(t, p)
      BY <2>3, <2>8, AncestorsAreDirectories DEF IsDirectory, Exists
    <3>2. CASE p = Root
      BY <2>4, <3>1, <3>2
    <3>3. CASE p # Root
      <4>1. PICK j \in 1..N : s[j] = p
        BY <1>4, <3>1, <3>3
      <4>2. ~ (n + 1 < j)
        BY <1>2, <2>1, <2>8, <4>1 DEF PreOrder, q
      <4>3. j # n + 1
        BY <2>8, <4>1 DEF q
      <4>4. j \in 1..n
        <5> HIDE DEF N
        <5>1. QED
          BY <1>1, <4>1, <4>2, <4>3
      <4>5. QED
        BY <2>4, <3>1, <4>1, <4>4
    <3>4. QED
      BY <3>2, <3>3
  <2>9. \A p \in Paths : IsPrefix(p, q) => ~ IsFile(u, p) /\ (p # q => IsDirectory(u, p))
    BY <2>5, <2>8 DEF IsFile, IsDirectory, Absent
  <2>10. \A p \in Paths : IsPrefix(p, ParentOf(q)) => IsPrefix(p, q) /\ p # q
    <3> SUFFICES ASSUME NEW p \in Paths, IsPrefix(p, ParentOf(q))
                 PROVE  IsPrefix(p, q) /\ p # q
      OBVIOUS
    <3>1. IsPrefix(p, q)
      BY <2>3, PrefixOfParent
    <3>2. p \in Seq(STRING) /\ q \in Seq(STRING) /\ Len(p) \in Nat /\ Len(q) \in Nat
      BY <2>3, PathsAssumption, LenProperties
    <3>3. ParentOf(q) \in Seq(STRING) /\ Len(ParentOf(q)) = Len(q) - 1
      BY <2>3, <3>2, ParentShape
    <3>4. Len(p) <= Len(q) - 1
      BY <3>2, <3>3, PrefixElements
    <3>5. Len(p) # Len(q)
      BY <3>2, <3>4
    <3>6. QED
      BY <3>1, <3>5
  <2>11. Token[img[n + 1].path] = q
    BY <2>3, <2>7
  <2>12. Mkdirs(u, ParentOf(q)) = u
    <3>1. MkdirsOk(u, ParentOf(q)) /\ \A p \in Paths : IsPrefix(p, ParentOf(q)) => Exists(u, p)
      BY <2>9, <2>10 DEF MkdirsOk, IsDirectory, Exists
    <3>2. u = [p \in Paths |-> u[p]]
      BY DEF u
    <3>3. QED
      BY <3>1, <3>2 DEF Mkdirs
  <2>13. CASE IsDirectory(t, q)
    <3>1. LoadLine(u, img[n + 1]) = Mkdirs(u, q)
      BY <2>7, <2>11, <2>13 DEF LoadLine, IsDirectory
    <3>2. MkdirsOk(u, q)
      BY <2>9 DEF MkdirsOk
    <3>3. Mkdirs(u, q) = [p \in Paths |-> IF IsPrefix(p, q) /\ ~ Exists(u, p) THEN Directory ELSE u[p]]
      BY <3>2 DEF Mkdirs
    <3>4. \A p \in Paths : IsPrefix(p, q) /\ ~ Exists(u, p) <=> p = q
      <4>1. q \in Seq(STRING)
        BY <2>3, PathsAssumption
      <4>2. IsPrefix(q, q)
        BY <4>1, PrefixElements, LenProperties
      <4>3. QED
        BY <2>5, <2>9, <4>2 DEF Exists, IsDirectory, Absent
    <3>5. \A p \in Paths : (IF IsPrefix(p, q) /\ ~ Exists(u, p) THEN Directory ELSE u[p]) = Part(n + 1)[p]
      BY <1>5, <2>3, <2>6, <2>13, <3>4
    <3>6. QED
      BY <3>1, <3>3, <3>5 DEF u
  <2>14. CASE ~ IsDirectory(t, q)
    <3>1. IsFile(t, q) /\ t[q] = File(t[q].blocks)
      BY <1>5, <2>3, <2>14
    <3>2. CreateFileOk(u, q)
      BY <2>3, <2>5, <2>9 DEF CreateFileOk, Exists, Absent
    <3>3. LoadLine(u, img[n + 1]) = [u EXCEPT ![q] = File(t[q].blocks)]
      BY <2>7, <2>11, <2>12, <2>14, <3>2 DEF LoadLine, IsDirectory
    <3>4. DOMAIN u = Paths
      BY DEF u
    <3>5. \A p \in Paths : [u EXCEPT ![q] = File(t[q].blocks)][p] = Part(n + 1)[p]
      BY <2>6, <3>1, <3>4
    <3>6. DOMAIN [u EXCEPT ![q] = File(t[q].blocks)] = Paths /\ DOMAIN Part(n + 1) = Paths
      BY <3>4
    <3>7. QED
      BY <3>3, <3>5, <3>6 DEF u
  <2>15. QED
    BY <2>13, <2>14 DEF u
<1>8. Load(img) \in K[N]
  <2>1. \A n \in Nat : n < Len(img) => \A x \in K[n] : LoadLine(x, img[n + 1]) \in K[n + 1]
    <3> SUFFICES ASSUME NEW n \in Nat, n < N, NEW x \in K[n]
                 PROVE  LoadLine(x, img[n + 1]) \in K[n + 1]
      BY <1>3
    <3>1. x = Part(n) /\ K[n + 1] = {Part(n + 1)}
      <4> HIDE DEF Part
      <4>1. QED
        OBVIOUS
    <3>2. LoadLine(Part(n), img[n + 1]) = Part(n + 1)
      BY <1>7
    <3> HIDE DEF K, Part
    <3>3. QED
      BY <3>1, <3>2
  <2> HIDE DEF K
  <2>2. QED
    BY <1>3, <1>6, <2>1, LoadSteps
<1>9. Part(N) = t
  <2>1. \A p \in Paths : Part(N)[p] = t[p]
    <3> HIDE DEF N
    <3>1. \A p \in Paths : p = Root \/ (\E i \in 1..N : s[i] = p) \/ t[p] = Absent
      BY <1>4, <1>5
    <3>2. QED
      BY <3>1
  <2>2. DOMAIN t = Paths
    BY DEF Trees
  <2>3. QED
    BY <2>1, <2>2 DEF Trees
<1>10. QED
  BY <1>1, <1>8, <1>9

-----------------------------------------------------------------------------
\* A node more, or some nodes fewer, leave a tree finite.
LEMMA DeleteFinite ==
    ASSUME NEW t \in Trees, NEW p \in Paths, IsFiniteSet(Nodes(t))
    PROVE  IsFiniteSet(Nodes(DeleteTree(t, p)))
<1>1. Nodes(DeleteTree(t, p)) \subseteq Nodes(t)
  BY DEF Nodes, DeleteTree, Exists, Absent
<1>2. QED
  BY <1>1, FS_Subset

LEMMA PutFinite ==
    ASSUME NEW t \in Trees, NEW p \in Paths, NEW x, IsFiniteSet(Nodes(t))
    PROVE  IsFiniteSet(Nodes([t EXCEPT ![p] = x]))
<1>1. Nodes([t EXCEPT ![p] = x]) \subseteq Nodes(t) \cup {p}
  BY DEF Nodes, Exists, Trees
<1>2. IsFiniteSet(Nodes(t) \cup {p})
  BY FS_AddElement
<1>3. QED
  BY <1>1, <1>2, FS_Subset

\* The tree StartFile prepares is finite.
LEMMA PreparedFinite ==
    ASSUME tree \in Trees, NEW p \in Paths, NEW slash \in BOOLEAN, IsFiniteSet(Nodes(tree))
    PROVE  IsFiniteSet(Nodes(Prepared(p, slash)))
<1> DEFINE t == IF Exists(tree, p) THEN DeleteTree(tree, p) ELSE tree
           q == GetParentDir(p, slash)
<1>1. q \in Paths
  BY PathsAssumption DEF GetParentDir
<1>2. t \in Trees /\ IsFiniteSet(Nodes(t))
  BY DeleteTreeFacts, DeleteFinite DEF Derived
<1> HIDE DEF t, q
<1>3. IsFiniteSet(Nodes(Mkdirs(t, q)))
  BY <1>1, <1>2, MkdirsFinite
<1>4. QED
  BY <1>3 DEF Prepared, t, q

\* A call of a client leaves the tree finite.
LEMMA ClientFinite ==
    ASSUME NsTypeOK, IsFiniteSet(Nodes(tree)), ClientNext
    PROVE  IsFiniteSet(Nodes(tree'))
<1>0. tree \in Trees
  BY DEF NsTypeOK, Trees
<1>1. ASSUME NEW p \in Paths, NEW slash \in BOOLEAN, NEW overwrite \in BOOLEAN,
             NEW r, StartFile(p, slash, overwrite, r)
      PROVE  IsFiniteSet(Nodes(tree'))
  <2>1. Prepared(p, slash) \in Trees /\ IsFiniteSet(Nodes(Prepared(p, slash)))
    BY <1>0, PreparedFacts, PreparedFinite
  <2>2. \/ tree' = tree
        \/ tree' = Prepared(p, slash)
        \/ \E x : tree' = [Prepared(p, slash) EXCEPT ![p] = x]
    BY <1>1 DEF StartFile, StartFileRefused, StartFileFailed, StartFileCreated, Allocate, nsVars
  <2>3. QED
    BY <2>1, <2>2, PutFinite
<1>2. ASSUME NEW p \in Paths, NEW r, AddBlock(p, r)
      PROVE  IsFiniteSet(Nodes(tree'))
  <2>1. tree' = tree \/ \E x : tree' = [tree EXCEPT ![p] = x]
    BY <1>2 DEF AddBlock, Allocate, nsVars
  <2>2. QED
    BY <1>0, <2>1, PutFinite
<1>3. ASSUME NEW p \in Paths, Delete(p) \/ MkdirsOp(p)
      PROVE  IsFiniteSet(Nodes(tree'))
  <2>1. tree' = DeleteTree(tree, p) \/ tree' = Mkdirs(tree, p)
    BY <1>3 DEF Delete, MkdirsOp
  <2>2. QED
    BY <1>0, <2>1, DeleteFinite, MkdirsFinite
<1>4. QED
  BY <1>1, <1>2, <1>3 DEF ClientNext

\* Load restores the tree that Save wrote, whatever calls the tree is the
\* result of, when no name contains white space.
THEOREM ImageRoundTripHolds ==
    ASSUME \A p \in Paths : Token[p] = p
    PROVE  NsSpec => []ImageRoundTrip
<1> DEFINE Finite == IsFiniteSet(Nodes(tree))
<1>1. NsInit => Finite
  <2> SUFFICES ASSUME NsInit
               PROVE  Finite
    OBVIOUS
  <2>1. Nodes(tree) = {Root}
    BY PathsAssumption DEF NsInit, Nodes, EmptyTree, Exists, Absent, Directory
  <2>2. QED
    BY <2>1, FS_Singleton
<1>2. NsInv /\ Finite /\ [NsNext]_nsVars => Finite'
  <2> SUFFICES ASSUME NsInv, Finite, [NsNext]_nsVars
               PROVE  IsFiniteSet(Nodes(tree'))
    BY DEF Nodes
  <2>0. NsTypeOK
    BY DEF NsInv
  <2>1. CASE ClientNext
    BY <2>0, <2>1, ClientFinite
  <2>2. CASE tree' = tree
    BY <2>2
  <2>3. CASE CheckLeases
    <3>1. Nodes(tree') \subseteq Nodes(tree)
      BY <2>3 DEF CheckLeases, Nodes, Exists, Absent
    <3>2. QED
      BY <3>1, FS_Subset
  <2>4. CASE DataNodeNext
    <3>1. tree' = tree
      BY <2>4 DEF DataNodeNext, RegisterDataNode, Heartbeat, BlockReport, BlockReceived, nsVars
    <3>2. QED
      BY <2>2, <3>1
  <2>5. MaintenanceNext => CheckLeases \/ tree' = tree
    BY DEF MaintenanceNext, EnterSafeMode, UpdateSafeMode, AddLease, RemoveLease, Tick
  <2>6. UNCHANGED nsVars => tree' = tree
    BY DEF nsVars
  <2>7. QED
    BY <2>1, <2>2, <2>3, <2>4, <2>5, <2>6 DEF NsNext
<1>3. NsInv /\ Finite => ImageRoundTrip
  <2> SUFFICES ASSUME NsInv, Finite, NEW img \in Save(tree)
               PROVE  Load(img) = tree
    BY DEF ImageRoundTrip
  <2>1. tree \in Trees
    BY DEF NsInv, NsTypeOK, Trees
  <2>2. Closed(tree) /\ \A p \in Paths : IsFile(tree, p) \/ tree[p].blocks = <<>>
    BY <2>1, TreeClosedIsClosed DEF NsInv, OnlyFilesHoldBlocks
  <2>3. QED
    BY <2>1, <2>2, RoundTrip
<1>4. QED
  BY <1>1, <1>2, <1>3, NsInvCorrect, PTL DEF NsSpec

=============================================================================
