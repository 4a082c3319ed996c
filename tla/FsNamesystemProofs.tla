------------------------- MODULE FsNamesystemProofs -------------------------
(***************************************************************************)
(* Proofs about FsNamesystem: lemmas about the operations of InodeTree for *)
(* every set of paths, then type correctness, then the inductive invariant *)
(* NsInv behind the safety properties, then an action property.            *)
(***************************************************************************)
EXTENDS FsNamesystem, FiniteSetTheorems, TLAPS

Trees == [Paths -> INodes]

\* The root is a directory, and so is the parent of every other node.
Closed(t) ==
    /\ IsDirectory(t, Root)
    /\ \A p \in Paths \ {Root} : Exists(t, p) => IsDirectory(t, ParentOf(p))

\* u comes from t by removing nodes and by making directories.
Derived(t, u) ==
    /\ u \in Trees
    /\ \A q \in Paths : u[q] = t[q] \/ u[q] = Absent \/ u[q] = Directory

-----------------------------------------------------------------------------
\* A prefix agrees with the longer sequence on its positions.
LEMMA PrefixElements ==
    ASSUME NEW p \in Seq(STRING), NEW q \in Seq(STRING)
    PROVE  IsPrefix(p, q) <=> /\ Len(p) <= Len(q)
                              /\ \A i \in 1..Len(p) : p[i] = q[i]
<1>1. ASSUME Len(p) <= Len(q)
      PROVE  SubSeq(p, 1, Len(p)) = SubSeq(q, 1, Len(p))
               <=> \A i \in 1..Len(p) : p[i] = q[i]
  <2>1. SubSeq(p, 1, Len(p)) = [i \in 1..Len(p) |-> p[i]]
    OBVIOUS
  <2>2. SubSeq(q, 1, Len(p)) = [i \in 1..Len(p) |-> q[i]]
    BY <1>1
  <2>3. QED
    BY <2>1, <2>2
<1>2. QED
  BY <1>1 DEF IsPrefix

\* The parent of a path other than the root is one component shorter.
LEMMA ParentShape ==
    ASSUME NEW q \in Seq(STRING), q # Root
    PROVE  /\ ParentOf(q) \in Seq(STRING)
           /\ Len(ParentOf(q)) = Len(q) - 1
           /\ Len(q) > 0
           /\ \A i \in 1..(Len(q) - 1) : ParentOf(q)[i] = q[i]
<1> DEFINE n == Len(q) - 1
<1>1. Len(q) \in Nat /\ Len(q) > 0
  BY DEF Root
<1>2. n \in Nat /\ 1..n \subseteq 1..Len(q)
  BY <1>1
<1>3. ParentOf(q) = SubSeq(q, 1, n)
  BY DEF ParentOf
<1>4. SubSeq(q, 1, n) = [i \in 1..n |-> q[i]]
  BY <1>2
<1>5. [i \in 1..n |-> q[i]] \in Seq(STRING) /\ Len([i \in 1..n |-> q[i]]) = n
  BY <1>2
<1>6. QED
  BY <1>1, <1>2, <1>3, <1>4, <1>5

\* What lies at or below p's subtree by way of the parent lies in it.
LEMMA PrefixOfParent ==
    ASSUME NEW p \in Paths, NEW q \in Paths, q # Root, IsPrefix(p, ParentOf(q))
    PROVE  IsPrefix(p, q)
<1>1. p \in Seq(STRING) /\ q \in Seq(STRING)
  BY PathsAssumption
<1>2. QED
  BY <1>1, PrefixElements, ParentShape

\* The parent of an ancestor is an ancestor.
LEMMA ParentOfPrefix ==
    ASSUME NEW p \in Paths, NEW q \in Paths, q # Root, IsPrefix(q, p)
    PROVE  IsPrefix(ParentOf(q), p)
<1>1. p \in Seq(STRING) /\ q \in Seq(STRING)
  BY PathsAssumption
<1>2. Len(q) <= Len(p) /\ \A i \in 1..Len(q) : q[i] = p[i]
  BY <1>1, PrefixElements
<1>3. /\ ParentOf(q) \in Seq(STRING)
      /\ Len(ParentOf(q)) = Len(q) - 1
      /\ \A i \in 1..(Len(q) - 1) : ParentOf(q)[i] = q[i]
  BY <1>1, ParentShape
<1>4. Len(ParentOf(q)) <= Len(p) /\ \A i \in 1..Len(ParentOf(q)) : ParentOf(q)[i] = p[i]
  BY <1>1, <1>2, <1>3
<1>5. QED
  BY <1>1, <1>3, <1>4, PrefixElements

\* The parent of p is an ancestor of p and is not p.
LEMMA ParentIsPrefix ==
    ASSUME NEW p \in Paths, p # Root
    PROVE  IsPrefix(ParentOf(p), p) /\ ParentOf(p) # p /\ ParentOf(p) \in Paths
<1>1. p \in Seq(STRING)
  BY PathsAssumption
<1>2. QED
  BY <1>1, PrefixElements, ParentShape, PathsAssumption

\* Only the root lies above the root.
LEMMA RootPrefix ==
    ASSUME NEW p \in Paths, IsPrefix(p, Root)
    PROVE  p = Root
<1>1. p \in Seq(STRING) /\ Root \in Seq(STRING) /\ Len(Root) = 0
  BY PathsAssumption DEF Root
<1>2. Len(p) = 0
  <2>1. Len(p) <= Len(Root)
    BY DEF IsPrefix
  <2>2. QED
    BY <1>1, <2>1
<1>3. QED
  BY <1>1, <1>2 DEF Root

-----------------------------------------------------------------------------
\* A missing node and a fresh directory are inodes.
LEMMA NodeTypes == Absent \in INodes /\ Directory \in INodes
<1>1. <<>> \in Seq(Blocks)
  OBVIOUS
<1>2. QED
  BY <1>1 DEF Absent, Directory, INodes, Types

\* Delete only removes nodes, and leaves no node without its parent.
LEMMA DeleteTreeFacts ==
    ASSUME NEW t \in Trees, NEW p \in Paths
    PROVE  /\ Derived(t, DeleteTree(t, p))
           /\ Closed(t) => Closed(DeleteTree(t, p))
<1>1. Derived(t, DeleteTree(t, p))
  BY NodeTypes DEF DeleteTree, Derived, Trees
<1>2. ASSUME Closed(t) PROVE Closed(DeleteTree(t, p))
  <2> DEFINE u == DeleteTree(t, p)
  <2>1. IsDirectory(u, Root)
    BY <1>2, RootPrefix, PathsAssumption DEF Closed, DeleteTree, IsDirectory
  <2>2. ASSUME NEW q \in Paths \ {Root}, Exists(u, q)
        PROVE  IsDirectory(u, ParentOf(q))
    <3>1. u[q] = t[q] /\ ~ (p # Root /\ IsPrefix(p, q))
      BY <2>2 DEF DeleteTree, Exists, Absent
    <3>2. ParentOf(q) \in Paths /\ IsDirectory(t, ParentOf(q))
      BY <2>2, <3>1, <1>2, PathsAssumption DEF Closed, Exists
    <3>3. ~ (p # Root /\ IsPrefix(p, ParentOf(q)))
      BY <3>1, PrefixOfParent
    <3>4. QED
      BY <3>2, <3>3 DEF DeleteTree, IsDirectory
  <2>3. QED
    BY <2>1, <2>2 DEF Closed
<1>3. QED
  BY <1>1, <1>2

\* Mkdirs only adds directories, each with its parents.
LEMMA MkdirsFacts ==
    ASSUME NEW t \in Trees, NEW p \in Paths
    PROVE  /\ Derived(t, Mkdirs(t, p))
           /\ Closed(t) => Closed(Mkdirs(t, p))
<1>1. Derived(t, Mkdirs(t, p))
  BY NodeTypes DEF Mkdirs, Derived, Trees
<1>2. ASSUME Closed(t) PROVE Closed(Mkdirs(t, p))
  <2> DEFINE u == Mkdirs(t, p)
  <2>1. CASE ~ MkdirsOk(t, p)
    BY <2>1, <1>2 DEF Mkdirs
  <2>2. CASE MkdirsOk(t, p)
    <3>1. \A q \in Paths : u[q] = IF IsPrefix(q, p) /\ ~ Exists(t, q)
                                    THEN Directory ELSE t[q]
      BY <2>2 DEF Mkdirs
    <3>2. \A q \in Paths : IsPrefix(q, p) => IsDirectory(u, q)
      <4> SUFFICES ASSUME NEW q \in Paths, IsPrefix(q, p) PROVE IsDirectory(u, q)
        OBVIOUS
      <4>1. t[q].type \in Types /\ t[q].type # "kFile"
        BY <2>2 DEF MkdirsOk, IsFile, Trees, INodes
      <4>2. QED
        BY <3>1, <4>1 DEF Types, Exists, IsDirectory, Directory
    <3>3. \A q \in Paths : IsDirectory(t, q) => IsDirectory(u, q)
      BY <3>1 DEF IsDirectory, Directory
    <3>4. ASSUME NEW q \in Paths \ {Root}, Exists(u, q)
          PROVE  IsDirectory(u, ParentOf(q))
      <4>0. ParentOf(q) \in Paths
        BY PathsAssumption
      <4>1. CASE IsPrefix(q, p)
        BY <4>0, <4>1, <3>2, ParentOfPrefix
      <4>2. CASE ~ IsPrefix(q, p)
        <5>1. Exists(t, q)
          BY <3>1, <3>4, <4>2 DEF Exists
        <5>2. QED
          BY <5>1, <4>0, <3>3, <1>2 DEF Closed
      <4>3. QED
        BY <4>1, <4>2
    <3>5. QED
      BY <3>3, <3>4, <1>2, PathsAssumption DEF Closed
  <2>3. QED
    BY <2>1, <2>2
<1>3. QED
  BY <1>1, <1>2

\* Derivations compose.
LEMMA DerivedTrans ==
    ASSUME NEW t \in Trees, NEW u, NEW v, Derived(t, u), Derived(u, v)
    PROVE  Derived(t, v)
BY DEF Derived

\* A tree comes from itself.
LEMMA DerivedRefl == ASSUME NEW t \in Trees PROVE Derived(t, t)
BY DEF Derived

\* A file put where CreateFile or AddBlock puts one keeps the tree closed.
LEMMA PutFileClosed ==
    ASSUME NEW t \in Trees, NEW p \in Paths, NEW bs \in Seq(Blocks), Closed(t),
           CreateFileOk(t, p) \/ IsFile(t, p)
    PROVE  /\ [t EXCEPT ![p] = File(bs)] \in Trees
           /\ Closed([t EXCEPT ![p] = File(bs)])
<1> DEFINE u == [t EXCEPT ![p] = File(bs)]
<1>1. File(bs) \in INodes
  BY DEF File, INodes, Types
<1>2. u \in Trees
  BY <1>1 DEF Trees
<1>3. ~ IsDirectory(t, p)
  BY DEF CreateFileOk, Exists, IsFile, IsDirectory
<1>4. p # Root
  BY <1>3 DEF Closed
<1>5. \A q \in Paths : q # p => u[q] = t[q]
  BY DEF Trees
<1>6. IsDirectory(t, ParentOf(p))
  <2>1. CASE CreateFileOk(t, p)
    BY <2>1, <1>4, ParentIsPrefix DEF CreateFileOk
  <2>2. CASE IsFile(t, p)
    BY <2>2, <1>4 DEF Closed, IsFile, Exists
  <2>3. QED
    BY <2>1, <2>2
<1>7. \A q \in Paths : IsDirectory(t, q) => IsDirectory(u, q)
  BY <1>3, <1>5 DEF IsDirectory
<1>8. ASSUME NEW q \in Paths \ {Root}, Exists(u, q) PROVE IsDirectory(u, ParentOf(q))
  <2>1. ParentOf(q) \in Paths
    BY PathsAssumption
  <2>2. IsDirectory(t, ParentOf(q))
    BY <1>5, <1>6, <1>8 DEF Closed, Exists
  <2>3. QED
    BY <2>1, <2>2, <1>7
<1>9. QED
  BY <1>2, <1>7, <1>8, PathsAssumption DEF Closed

-----------------------------------------------------------------------------

\* Every block of a node has been generated.
BlocksGenerated == \A p \in Paths : BlocksOf(tree, p) \subseteq generated

\* Only files hold blocks.
OnlyFilesHoldBlocks == \A p \in Paths : IsFile(tree, p) \/ tree[p].blocks = <<>>

\* The inductive invariant.
NsInv ==
    /\ NsTypeOK
    /\ TreeClosed
    /\ BlocksExclusive
    /\ FileBlocksMapped
    /\ LocationsSound
    /\ BlocksGenerated
    /\ OnlyFilesHoldBlocks

-----------------------------------------------------------------------------
\* TreeClosed, said with ListDir, is Closed of the tree.
LEMMA TreeClosedIsClosed ==
    ASSUME tree \in Trees
    PROVE  TreeClosed <=> Closed(tree)
BY PathsAssumption DEF TreeClosed, Closed, ListDir

\* ChooseTargets returns distinct registered DataNodes, at most n of them.
LEMMA ChooseTargetsFacts ==
    ASSUME datanodes \in SUBSET DataNodes, NEW s \in ChooseTargets(Replication)
    PROVE  /\ s \in Seq(DataNodes)
           /\ Len(s) <= Replication
           /\ ToSet(s) \subseteq datanodes
           /\ \A i, j \in DOMAIN s : s[i] = s[j] => i = j
<1> DEFINE k == IF Cardinality(datanodes) < Replication
                  THEN Cardinality(datanodes) ELSE Replication
<1>1. Cardinality(datanodes) \in Nat
  BY FS_Subset, FS_CardinalityType, ConstantsAssumption
<1>2. k \in Nat /\ k <= Replication
  BY <1>1, ConstantsAssumption
<1>3. s \in [1..k -> datanodes] /\ \A i, j \in 1..k : s[i] = s[j] => i = j
  BY DEF ChooseTargets
<1>4. s \in Seq(datanodes) /\ Len(s) = k /\ DOMAIN s = 1..k
  BY <1>2, <1>3
<1>5. QED
  BY <1>2, <1>3, <1>4 DEF ToSet

\* The list operator[] yields is a sequence of DataNodes.
LEMMA ListOfType ==
    ASSUME NsTypeOK, NEW b \in Blocks
    PROVE  ListOf(b) \in Seq(DataNodes)
BY DEF NsTypeOK, ListOf, HasEntry

\* The tree StartFile prepares.
LEMMA PreparedFacts ==
    ASSUME tree \in Trees, NEW p \in Paths, NEW slash \in BOOLEAN
    PROVE  /\ Derived(tree, Prepared(p, slash))
           /\ Prepared(p, slash) \in Trees
           /\ Closed(tree) => Closed(Prepared(p, slash))
<1> DEFINE t == IF Exists(tree, p) THEN DeleteTree(tree, p) ELSE tree
           q == GetParentDir(p, slash)
<1>1. q \in Paths
  BY PathsAssumption DEF GetParentDir
<1>2. Derived(tree, t) /\ (Closed(tree) => Closed(t))
  BY DeleteTreeFacts, DerivedRefl
<1>3. t \in Trees
  BY <1>2 DEF Derived
<1>4. Derived(t, Mkdirs(t, q)) /\ (Closed(t) => Closed(Mkdirs(t, q)))
  BY <1>1, <1>3, MkdirsFacts
<1>5. Prepared(p, slash) = Mkdirs(t, q)
  BY DEF Prepared
<1>6. QED
  <2> HIDE DEF t, q
  <2>1. Derived(tree, Mkdirs(t, q))
    BY <1>2, <1>4, DerivedTrans
  <2>2. QED
    BY <1>2, <1>4, <1>5, <2>1 DEF Derived

\* CheckLeases removes subtrees.
LEMMA CheckLeasesFacts ==
    ASSUME tree \in Trees, leases \in SUBSET Lease, CheckLeases
    PROVE  Derived(tree, tree') /\ (Closed(tree) => Closed(tree'))
<1> DEFINE Gone(q) == \E l \in Expired : l.path # Root /\ IsPrefix(l.path, q)
<1>1. \A q \in Paths : tree'[q] = IF Gone(q) THEN Absent ELSE tree[q]
  BY DEF CheckLeases
<1>2. Derived(tree, tree')
  BY <1>1, NodeTypes DEF CheckLeases, Derived, Trees
<1>3. \A l \in Expired : l.path \in Paths
  BY DEF Expired, Lease
<1>4. ASSUME Closed(tree) PROVE Closed(tree')
  <2>1. ~ Gone(Root)
    BY <1>3, RootPrefix
  <2>2. ASSUME NEW q \in Paths \ {Root}, ~ Gone(q) PROVE ~ Gone(ParentOf(q))
    BY <2>2, <1>3, PrefixOfParent
  <2>3. ASSUME NEW q \in Paths \ {Root}, Exists(tree', q)
        PROVE  IsDirectory(tree', ParentOf(q))
    <3>1. ~ Gone(q) /\ Exists(tree, q)
      BY <1>1, <2>3 DEF Exists, Absent
    <3>2. ParentOf(q) \in Paths /\ IsDirectory(tree, ParentOf(q))
      BY <1>4, <3>1, PathsAssumption DEF Closed
    <3>3. ~ Gone(ParentOf(q))
      BY <2>2, <3>1
    <3>4. QED
      BY <1>1, <3>2, <3>3 DEF IsDirectory
  <2>4. IsDirectory(tree', Root)
    BY <1>1, <1>4, <2>1, PathsAssumption DEF Closed, IsDirectory
  <2>5. QED
    BY <2>3, <2>4 DEF Closed
<1>5. QED
  BY <1>2, <1>4

-----------------------------------------------------------------------------
\* Allocation is well typed.
LEMMA AllocateType ==
    ASSUME NsTypeOK, NEW t \in Trees, NEW p \in Paths, NEW r, Allocate(t, p, r)
    PROVE  /\ NsTypeOK'
           /\ r.block \in Blocks \ generated
           /\ r.targets \in ChooseTargets(Replication)
<1>1. /\ r.block \in Blocks \ generated
      /\ r.targets \in ChooseTargets(Replication)
  BY DEF Allocate, AllocResults, Fresh
<1>2. r.targets \in Seq(DataNodes)
  BY <1>1, ChooseTargetsFacts DEF NsTypeOK
<1>3. Append(t[p].blocks, r.block) \in Seq(Blocks)
  BY <1>1 DEF Trees, INodes
<1>4. File(Append(t[p].blocks, r.block)) \in INodes
  BY <1>3 DEF File, INodes, Types
<1>5. tree' \in [Paths -> INodes]
  BY <1>4 DEF Allocate, Trees
<1>6. block_to_datanodes' \in [Blocks -> Seq(DataNodes) \cup {NoEntry}]
  BY <1>1, <1>2 DEF Allocate, NsTypeOK
<1>7. generated' \in SUBSET Blocks
  BY <1>1 DEF Allocate, NsTypeOK
<1>8. QED
  BY <1>1, <1>5, <1>6, <1>7
     DEF Allocate, NsTypeOK, safeModeVars, leaseVars

\* A client operation is well typed.
LEMMA ClientType == NsTypeOK /\ ClientNext => NsTypeOK'
<1> SUFFICES ASSUME NsTypeOK, ClientNext PROVE NsTypeOK'
  OBVIOUS
<1> USE DEF mapVars, safeModeVars, leaseVars
<1>0. tree \in Trees
  BY DEF NsTypeOK, Trees
<1>1. ASSUME NEW p \in Paths, NEW slash \in BOOLEAN, NEW overwrite \in BOOLEAN,
             NEW r, StartFile(p, slash, overwrite, r)
      PROVE  NsTypeOK'
  <2>1. CASE StartFileRefused(p, overwrite, r)
    BY <2>1 DEF StartFileRefused, nsVars, NsTypeOK
  <2>2. CASE StartFileFailed(p, slash, overwrite, r)
    BY <2>2, <1>0, PreparedFacts DEF StartFileFailed, NsTypeOK, Trees
  <2>3. CASE StartFileCreated(p, slash, overwrite, r)
    BY <2>3, <1>0, PreparedFacts, AllocateType DEF StartFileCreated
  <2>4. QED
    BY <1>1, <2>1, <2>2, <2>3 DEF StartFile
<1>2. ASSUME NEW p \in Paths, NEW r, AddBlock(p, r) PROVE NsTypeOK'
  <2>1. CASE UNCHANGED nsVars
    BY <2>1 DEF nsVars, NsTypeOK
  <2>2. CASE Allocate(tree, p, r)
    BY <2>2, <1>0, AllocateType
  <2>3. QED
    BY <1>2, <2>1, <2>2 DEF AddBlock
<1>3. ASSUME NEW p \in Paths, Delete(p) PROVE NsTypeOK'
  <2>1. tree' \in [Paths -> INodes]
    BY <1>0, <1>3, DeleteTreeFacts DEF Delete, Derived, Trees
  <2>2. block_to_datanodes' \in [Blocks -> Seq(DataNodes) \cup {NoEntry}]
    BY <1>3 DEF Delete, NsTypeOK
  <2>3. QED
    BY <1>3, <2>1, <2>2 DEF Delete, NsTypeOK
<1>4. ASSUME NEW p \in Paths, MkdirsOp(p) PROVE NsTypeOK'
  BY <1>0, <1>4, MkdirsFacts DEF MkdirsOp, Derived, Trees, NsTypeOK
<1>5. QED
  BY <1>1, <1>2, <1>3, <1>4 DEF ClientNext

\* A DataNode operation is well typed.
LEMMA DataNodeType == NsTypeOK /\ DataNodeNext => NsTypeOK'
<1> SUFFICES ASSUME NsTypeOK, DataNodeNext PROVE NsTypeOK'
  OBVIOUS
<1> USE DEF mapVars, safeModeVars, leaseVars
<1>1. PICK d \in DataNodes :
         \/ RegisterDataNode(d)
         \/ Heartbeat(d)
         \/ \E bs \in SUBSET generated : BlockReport(d, bs)
         \/ \E b \in generated : BlockReceived(d, b)
  BY DEF DataNodeNext
<1>2. CASE RegisterDataNode(d) \/ Heartbeat(d)
  BY <1>2 DEF Heartbeat, RegisterDataNode, NsTypeOK
<1>3. ASSUME NEW bs \in SUBSET generated, BlockReport(d, bs) PROVE NsTypeOK'
  <2>1. CASE UNCHANGED nsVars
    BY <2>1 DEF nsVars, NsTypeOK
  <2>2. CASE ~ UNCHANGED nsVars
    <3>1. \A b \in Blocks : WithReporter(ListOf(b), d) \in Seq(DataNodes)
      BY ListOfType DEF WithReporter
    <3>2. block_to_datanodes' \in [Blocks -> Seq(DataNodes) \cup {NoEntry}]
      BY <1>3, <2>2, <3>1 DEF BlockReport, NsTypeOK
    <3>3. dn_to_blocks' \in [DataNodes -> SUBSET Blocks]
      BY <1>3, <2>2 DEF BlockReport, NsTypeOK
    <3>4. QED
      BY <1>3, <2>2, <3>2, <3>3 DEF BlockReport, NsTypeOK
  <2>3. QED
    BY <2>1, <2>2
<1>4. ASSUME NEW b \in generated, BlockReceived(d, b) PROVE NsTypeOK'
  <2>1. b \in Blocks /\ ListOf(b) \in Seq(DataNodes)
    BY ListOfType DEF NsTypeOK
  <2>2. Append(ListOf(b), d) \in Seq(DataNodes)
    BY <2>1
  <2>3. block_to_datanodes' \in [Blocks -> Seq(DataNodes) \cup {NoEntry}]
    BY <1>4, <2>1, <2>2 DEF BlockReceived, NsTypeOK
  <2>4. QED
    BY <1>4, <2>3 DEF BlockReceived, NsTypeOK
<1>5. QED
  BY <1>1, <1>2, <1>3, <1>4

\* A maintenance operation is well typed.
LEMMA MaintenanceType == NsTypeOK /\ MaintenanceNext => NsTypeOK'
<1> SUFFICES ASSUME NsTypeOK, MaintenanceNext PROVE NsTypeOK'
  OBVIOUS
<1> USE DEF mapVars, safeModeVars, leaseVars
<1>1. CASE EnterSafeMode
  BY <1>1, ConstantsAssumption DEF EnterSafeMode, NsTypeOK
<1>2. CASE UpdateSafeMode
  <2>1. \A S \in SUBSET Blocks : Cardinality(S) \in Nat
    BY FS_Subset, FS_CardinalityType, ConstantsAssumption
  <2>2. total_blocks' \in Nat /\ safe_blocks' \in Nat
    BY <1>2, <2>1 DEF UpdateSafeMode
  <2>3. safe_mode_countdown' \in 0..SafeModeTicks
    BY <1>2, ConstantsAssumption DEF UpdateSafeMode, NsTypeOK
  <2>4. QED
    BY <1>2, <2>2, <2>3 DEF UpdateSafeMode, NsTypeOK
<1>3. ASSUME NEW h \in Holders, NEW p \in Paths, AddLease(h, p) PROVE NsTypeOK'
  <2>1. clock + LeaseTimeout \in Nat
    BY ConstantsAssumption DEF NsTypeOK
  <2>2. [holder |-> h, path |-> p, expiry |-> clock + LeaseTimeout] \in Lease
    BY <2>1 DEF Lease
  <2>3. QED
    BY <1>3, <2>2 DEF AddLease, NsTypeOK
<1>4. ASSUME NEW p \in Paths, RemoveLease(p) PROVE NsTypeOK'
  BY <1>4 DEF RemoveLease, NsTypeOK
<1>5. CASE CheckLeases
  <2>1. tree' \in [Paths -> INodes]
    BY <1>5, CheckLeasesFacts DEF NsTypeOK, Derived, Trees
  <2>2. QED
    BY <1>5, <2>1 DEF CheckLeases, NsTypeOK
<1>6. CASE Tick
  BY <1>6, ConstantsAssumption DEF Tick, NsTypeOK
<1>7. QED
  BY <1>1, <1>2, <1>3, <1>4, <1>5, <1>6 DEF MaintenanceNext

\* The initial state is well typed.
LEMMA InitType == NsInit => NsTypeOK
<1> SUFFICES ASSUME NsInit PROVE NsTypeOK
  OBVIOUS
<1>1. EmptyTree \in [Paths -> INodes]
  BY NodeTypes DEF EmptyTree
<1>2. QED
  BY <1>1, ConstantsAssumption DEF NsInit, NsTypeOK

\* Type correctness of the name system, for every set of paths, blocks and
\* DataNodes, every replication factor and every interleaving of its
\* operations (fs_namesystem.h).
THEOREM NsTypeCorrect == NsSpec => []NsTypeOK
<1>1. NsTypeOK /\ [NsNext]_nsVars => NsTypeOK'
  <2>1. NsTypeOK /\ UNCHANGED nsVars => NsTypeOK'
    BY DEF NsTypeOK, nsVars, mapVars, safeModeVars, leaseVars
  <2>2. QED
    BY <2>1, ClientType, DataNodeType, MaintenanceType DEF NsNext
<1>2. QED
  BY <1>1, InitType, PTL DEF NsSpec

-----------------------------------------------------------------------------
(***************************************************************************)
(* The safety invariant.  A step changes the tree by a derivation, which   *)
(* can only take blocks away, or by an allocation, which appends one fresh *)
(* block to one file.                                                      *)
(***************************************************************************)

\* A derivation leaves each node its blocks or none.
LEMMA DerivedBlocks ==
    ASSUME NEW t \in Trees, NEW u, Derived(t, u), NEW p \in Paths
    PROVE  /\ u[p].blocks = t[p].blocks \/ u[p].blocks = <<>>
           /\ BlocksOf(u, p) \subseteq BlocksOf(t, p)
<1>1. u[p].blocks = t[p].blocks \/ u[p].blocks = <<>>
  BY DEF Derived, Absent, Directory
<1>2. DOMAIN <<>> = {}
  OBVIOUS
<1>3. QED
  BY <1>1, <1>2 DEF BlocksOf

\* What a step that derives the new tree from the old keeps.
LEMMA DerivedKeeps ==
    ASSUME NsInv, Derived(tree, tree'), Closed(tree'), generated' = generated
    PROVE  TreeClosed' /\ BlocksExclusive' /\ BlocksGenerated' /\ OnlyFilesHoldBlocks'
<1>0. tree \in Trees /\ tree' \in Trees
  BY DEF NsInv, NsTypeOK, Trees, Derived
<1>1. TreeClosed'
  BY <1>0, PathsAssumption DEF TreeClosed, Closed, ListDir
<1>2. BlocksExclusive'
  <2> SUFFICES ASSUME NEW p \in Paths, NEW q \in Paths,
                      NEW i \in DOMAIN tree'[p].blocks, NEW j \in DOMAIN tree'[q].blocks,
                      tree'[p].blocks[i] = tree'[q].blocks[j]
               PROVE  p = q /\ i = j
    BY DEF BlocksExclusive
  <2>1. DOMAIN <<>> = {}
    OBVIOUS
  <2>2. tree'[p].blocks = tree[p].blocks /\ tree'[q].blocks = tree[q].blocks
    BY <1>0, <2>1, DerivedBlocks
  <2>3. QED
    BY <2>2 DEF NsInv, BlocksExclusive
<1>3. BlocksGenerated'
  BY <1>0, DerivedBlocks DEF NsInv, BlocksGenerated
<1>4. OnlyFilesHoldBlocks'
  BY <1>0 DEF NsInv, OnlyFilesHoldBlocks, Derived, Absent, Directory, IsFile
<1>5. QED
  BY <1>1, <1>2, <1>3, <1>4

\* A call that changes nothing keeps the invariant.
LEMMA UnchangedInv == NsInv /\ UNCHANGED nsVars => NsInv'
BY DEF NsInv, nsVars, mapVars, safeModeVars, leaseVars, NsTypeOK, TreeClosed,
   BlocksExclusive, FileBlocksMapped, LocationsSound, BlocksGenerated,
   OnlyFilesHoldBlocks, HasEntry, ListOf

\* Allocation keeps the invariant: the block is fresh, so it is in no file,
\* and its entry is its targets.
LEMMA AllocateInv ==
    ASSUME NsInv, NEW t, Derived(tree, t), Closed(t), NEW p \in Paths, NEW r,
           CreateFileOk(t, p) \/ IsFile(t, p), Allocate(t, p, r)
    PROVE  /\ NsInv'
           /\ \A q \in Paths : \A c \in BlocksOf(tree', q) :
                c \in BlocksOf(tree, q) \/ c \notin generated
<1> DEFINE b == r.block
           old == t[p].blocks
<1>0. NsTypeOK /\ t \in Trees /\ tree \in Trees
  BY DEF NsInv, NsTypeOK, Trees, Derived
<1>1. /\ NsTypeOK'
      /\ b \in Blocks \ generated
      /\ r.targets \in ChooseTargets(Replication)
  BY <1>0, AllocateType
<1>2. old \in Seq(Blocks)
  BY <1>0 DEF Trees, INodes
<1>3. /\ tree' = [t EXCEPT ![p] = File(Append(old, b))]
      /\ tree'[p].type = "kFile"
      /\ tree'[p].blocks = Append(old, b)
      /\ \A q \in Paths : q # p => tree'[q] = t[q]
  BY <1>0 DEF Allocate, File, Trees
<1>4. TreeClosed'
  <2>0. Append(old, b) \in Seq(Blocks)
    BY <1>1, <1>2
  <2>1. tree' \in Trees /\ Closed(tree')
    <3> HIDE DEF old, b
    <3>1. QED
      BY <1>0, <2>0, <1>3, PutFileClosed
  <2>2. QED
    BY <2>1, PathsAssumption DEF TreeClosed, Closed, ListDir
<1>5. \A q \in Paths : BlocksOf(t, q) \subseteq generated
  BY <1>0, DerivedBlocks DEF NsInv, BlocksGenerated
<1>6. \A q \in Paths : \A i \in DOMAIN t[q].blocks : t[q].blocks[i] # b
  BY <1>1, <1>5 DEF BlocksOf
<1>7. \A q1, q2 \in Paths : \A i \in DOMAIN t[q1].blocks, j \in DOMAIN t[q2].blocks :
          t[q1].blocks[i] = t[q2].blocks[j] => q1 = q2 /\ i = j
  <2> SUFFICES ASSUME NEW q1 \in Paths, NEW q2 \in Paths,
                      NEW i \in DOMAIN t[q1].blocks, NEW j \in DOMAIN t[q2].blocks,
                      t[q1].blocks[i] = t[q2].blocks[j]
               PROVE  q1 = q2 /\ i = j
    OBVIOUS
  <2>1. DOMAIN <<>> = {}
    OBVIOUS
  <2>2. t[q1].blocks = tree[q1].blocks /\ t[q2].blocks = tree[q2].blocks
    BY <1>0, <2>1, DerivedBlocks
  <2>3. QED
    BY <2>2 DEF NsInv, BlocksExclusive
\* Position i of node q is the new one, or one of t's.
<1>8. ASSUME NEW q \in Paths, NEW i \in DOMAIN tree'[q].blocks
      PROVE  \/ q = p /\ i = Len(old) + 1 /\ tree'[q].blocks[i] = b
             \/ i \in DOMAIN t[q].blocks /\ tree'[q].blocks[i] = t[q].blocks[i]
  <2>1. CASE q = p
    <3>1. /\ DOMAIN Append(old, b) = 1..(Len(old) + 1)
          /\ Append(old, b)[Len(old) + 1] = b
          /\ \A k \in 1..Len(old) : Append(old, b)[k] = old[k]
          /\ DOMAIN old = 1..Len(old) /\ Len(old) \in Nat
      BY <1>2
    <3>2. QED
      BY <1>3, <2>1, <3>1
  <2>2. CASE q # p
    BY <1>3, <2>2
  <2>3. QED
    BY <2>1, <2>2
<1>9. BlocksExclusive'
  <2> SUFFICES ASSUME NEW q1 \in Paths, NEW q2 \in Paths,
                      NEW i \in DOMAIN tree'[q1].blocks, NEW j \in DOMAIN tree'[q2].blocks,
                      tree'[q1].blocks[i] = tree'[q2].blocks[j]
               PROVE  q1 = q2 /\ i = j
    BY DEF BlocksExclusive
  <2> HIDE DEF old, b
  <2>1. QED
    BY <1>6, <1>7, <1>8
<1>10. \A q \in Paths : \A c \in BlocksOf(tree', q) : c = b \/ c \in BlocksOf(t, q)
  <2> HIDE DEF old, b
  <2>1. QED
    BY <1>8 DEF BlocksOf
<1>11. BlocksGenerated'
  BY <1>5, <1>10 DEF BlocksGenerated, Allocate
<1>12. FileBlocksMapped'
  <2> SUFFICES ASSUME NEW q \in Paths, NEW c \in BlocksOf(tree', q)
               PROVE  block_to_datanodes'[c] # NoEntry
    BY DEF FileBlocksMapped, HasEntry
  <2>1. r.targets # NoEntry
    BY <1>0, <1>1, ChooseTargetsFacts, ConstantsAssumption DEF NsTypeOK
  <2>2. CASE c = b
    BY <1>1, <2>1, <2>2 DEF Allocate, NsInv, NsTypeOK
  <2>3. CASE c # b
    <3>1. c \in BlocksOf(tree, q)
      BY <1>0, <1>10, <2>3, DerivedBlocks
    <3>2. c \in Blocks /\ block_to_datanodes[c] # NoEntry
      BY <3>1 DEF NsInv, FileBlocksMapped, HasEntry, BlocksGenerated, NsTypeOK
    <3>3. QED
      BY <2>3, <3>2 DEF Allocate, NsInv, NsTypeOK
  <2>4. QED
    BY <2>2, <2>3
<1>13. LocationsSound'
  <2> SUFFICES ASSUME NEW c \in Blocks
               PROVE  /\ ToSet(ListOf(c)') \subseteq datanodes'
                      /\ \A i, j \in DOMAIN ListOf(c)' : ListOf(c)'[i] = ListOf(c)'[j] => i = j
    BY DEF LocationsSound
  <2>1. datanodes' = datanodes
    BY DEF Allocate
  <2>2. CASE c = b
    <3>1. r.targets # NoEntry
      BY <1>0, <1>1, ChooseTargetsFacts, ConstantsAssumption DEF NsTypeOK
    <3>2. ListOf(c)' = r.targets
      BY <1>1, <2>2, <3>1 DEF ListOf, HasEntry, Allocate, NsInv, NsTypeOK
    <3>3. QED
      BY <1>0, <1>1, <2>1, <3>2, ChooseTargetsFacts DEF NsTypeOK
  <2>3. CASE c # b
    <3>1. ListOf(c)' = ListOf(c)
      BY <2>3 DEF ListOf, HasEntry, Allocate, NsInv, NsTypeOK
    <3>2. QED
      BY <2>1, <3>1 DEF NsInv, LocationsSound
  <2>4. QED
    BY <2>2, <2>3
<1>14. OnlyFilesHoldBlocks'
  <2> SUFFICES ASSUME NEW q \in Paths PROVE IsFile(tree', q) \/ tree'[q].blocks = <<>>
    BY DEF OnlyFilesHoldBlocks
  <2>1. CASE q = p
    BY <1>3, <2>1 DEF IsFile
  <2>2. CASE q # p
    BY <1>3, <2>2 DEF NsInv, OnlyFilesHoldBlocks, Derived, Absent, Directory, IsFile
  <2>3. QED
    BY <2>1, <2>2
<1>15. \A q \in Paths : \A c \in BlocksOf(tree', q) :
          c \in BlocksOf(tree, q) \/ c \notin generated
  BY <1>0, <1>1, <1>10, DerivedBlocks
<1>16. QED
  BY <1>15, <1>1, <1>4, <1>9, <1>11, <1>12, <1>13, <1>14 DEF NsInv

\* A step that leaves the block map and the DataNodes alone keeps what is said
\* about them, as long as the files' blocks only become fewer.
LEMMA MapUntouched ==
    ASSUME NsInv, Derived(tree, tree'), datanodes' = datanodes,
           block_to_datanodes' = block_to_datanodes
    PROVE  FileBlocksMapped' /\ LocationsSound'
<1>1. tree \in Trees
  BY DEF NsInv, NsTypeOK, Trees
<1>2. FileBlocksMapped'
  BY <1>1, DerivedBlocks DEF NsInv, FileBlocksMapped, HasEntry
<1>3. LocationsSound'
  BY DEF NsInv, LocationsSound, ListOf, HasEntry
<1>4. QED
  BY <1>2, <1>3

\* A client operation keeps the invariant.
LEMMA ClientInv == NsInv /\ ClientNext => NsInv'
<1> SUFFICES ASSUME NsInv, ClientNext PROVE NsInv'
  OBVIOUS
<1> USE DEF mapVars, safeModeVars, leaseVars
<1>0. NsTypeOK /\ NsTypeOK' /\ tree \in Trees /\ Closed(tree)
  <2>1. NsTypeOK /\ NsTypeOK' /\ tree \in Trees
    BY ClientType DEF NsInv, NsTypeOK, Trees
  <2>2. QED
    BY <2>1, TreeClosedIsClosed DEF NsInv
<1>1. ASSUME NEW p \in Paths, NEW slash \in BOOLEAN, NEW overwrite \in BOOLEAN,
             NEW r, StartFile(p, slash, overwrite, r)
      PROVE  NsInv'
  <2>0. /\ Derived(tree, Prepared(p, slash))
        /\ Closed(Prepared(p, slash))
    BY <1>0, PreparedFacts
  <2>1. CASE StartFileRefused(p, overwrite, r)
    BY <2>1, UnchangedInv DEF StartFileRefused
  <2>2. CASE StartFileFailed(p, slash, overwrite, r)
    BY <2>0, <2>2, <1>0, DerivedKeeps, MapUntouched DEF StartFileFailed, NsInv
  <2>3. CASE StartFileCreated(p, slash, overwrite, r)
    BY <2>0, <2>3, AllocateInv DEF StartFileCreated
  <2>4. QED
    BY <1>1, <2>1, <2>2, <2>3 DEF StartFile
<1>2. ASSUME NEW p \in Paths, NEW r, AddBlock(p, r) PROVE NsInv'
  <2>1. CASE UNCHANGED nsVars
    BY <2>1, UnchangedInv
  <2>2. CASE IsFile(tree, p) /\ Allocate(tree, p, r)
    BY <2>2, <1>0, DerivedRefl, AllocateInv
  <2>3. QED
    BY <1>2, <2>1, <2>2 DEF AddBlock
<1>3. ASSUME NEW p \in Paths, Delete(p) PROVE NsInv'
  <2>1. Derived(tree, tree') /\ Closed(tree')
    BY <1>0, <1>3, DeleteTreeFacts DEF Delete
  <2>2. TreeClosed' /\ BlocksExclusive' /\ BlocksGenerated' /\ OnlyFilesHoldBlocks'
    BY <2>1, <1>3, DerivedKeeps DEF Delete
  <2>3. FileBlocksMapped'
    <3> SUFFICES ASSUME NEW q \in Paths, NEW b \in BlocksOf(tree', q)
                 PROVE  block_to_datanodes'[b] # NoEntry
      BY DEF FileBlocksMapped, HasEntry
    <3>1. b \in BlocksOf(tree, q)
      BY <1>0, <2>1, DerivedBlocks
    <3>2. b \in Blocks /\ block_to_datanodes[b] # NoEntry
      BY <3>1 DEF NsInv, FileBlocksMapped, HasEntry, BlocksGenerated, NsTypeOK
    <3>3. ASSUME IsFile(tree, p) PROVE b \notin BlocksOf(tree, p)
      <4>1. SUFFICES ASSUME b \in BlocksOf(tree, p) PROVE FALSE
        OBVIOUS
      <4>2. q = p
        BY <3>1, <4>1 DEF BlocksOf, NsInv, BlocksExclusive
      <4>3. p # Root /\ IsPrefix(p, p)
        <5>1. p \in Seq(STRING)
          BY PathsAssumption
        <5>2. QED
          BY <5>1, <1>0, <3>3, PrefixElements DEF Closed, IsDirectory, IsFile
      <4>4. tree'[p].blocks = <<>>
        BY <1>3, <4>3 DEF Delete, DeleteTree, Absent
      <4>5. QED
        BY <4>2, <4>4 DEF BlocksOf
    <3>4. QED
      BY <1>3, <3>2, <3>3 DEF Delete
  <2>4. LocationsSound'
    <3>1. \A c \in Blocks : ListOf(c)' = ListOf(c) \/ ListOf(c)' = <<>>
      BY <1>3 DEF Delete, ListOf, HasEntry
    <3>2. ToSet(<<>>) = {} /\ DOMAIN <<>> = {}
      BY DEF ToSet
    <3>3. datanodes' = datanodes
      BY <1>3 DEF Delete
    <3>4. QED
      BY <3>1, <3>2, <3>3 DEF NsInv, LocationsSound
  <2>5. QED
    BY <1>0, <2>2, <2>3, <2>4 DEF NsInv
<1>4. ASSUME NEW p \in Paths, MkdirsOp(p) PROVE NsInv'
  <2>1. Derived(tree, tree') /\ Closed(tree')
    BY <1>0, <1>4, MkdirsFacts DEF MkdirsOp
  <2>2. QED
    BY <2>1, <1>0, <1>4, DerivedKeeps, MapUntouched DEF MkdirsOp, NsInv
<1>5. QED
  BY <1>1, <1>2, <1>3, <1>4 DEF ClientNext

\* Appending a DataNode that is not in a sound list keeps it sound.
LEMMA AppendSound ==
    ASSUME NEW s \in Seq(DataNodes), NEW d \in datanodes, d \notin ToSet(s),
           ToSet(s) \subseteq datanodes, datanodes \subseteq DataNodes,
           \A i, j \in DOMAIN s : s[i] = s[j] => i = j
    PROVE  /\ ToSet(Append(s, d)) \subseteq datanodes
           /\ \A i, j \in DOMAIN Append(s, d) : Append(s, d)[i] = Append(s, d)[j] => i = j
<1>1. /\ DOMAIN Append(s, d) = 1..(Len(s) + 1)
      /\ DOMAIN s = 1..Len(s) /\ Len(s) \in Nat
      /\ Append(s, d)[Len(s) + 1] = d
      /\ \A k \in 1..Len(s) : Append(s, d)[k] = s[k]
  OBVIOUS
<1>2. \A k \in 1..Len(s) : s[k] # d /\ s[k] \in datanodes
  BY <1>1 DEF ToSet
<1>3. QED
  BY <1>1, <1>2 DEF ToSet

\* A DataNode operation keeps the invariant.
LEMMA DataNodeInv == NsInv /\ DataNodeNext => NsInv'
<1> SUFFICES ASSUME NsInv, DataNodeNext PROVE NsInv'
  OBVIOUS
<1> USE DEF mapVars, safeModeVars, leaseVars
<1>0. NsTypeOK /\ NsTypeOK' /\ tree \in Trees /\ Closed(tree)
  <2>1. NsTypeOK /\ NsTypeOK' /\ tree \in Trees
    BY DataNodeType DEF NsInv, NsTypeOK, Trees
  <2>2. QED
    BY <2>1, TreeClosedIsClosed DEF NsInv
<1>1. PICK d \in DataNodes :
         \/ RegisterDataNode(d)
         \/ Heartbeat(d)
         \/ \E bs \in SUBSET generated : BlockReport(d, bs)
         \/ \E b \in generated : BlockReceived(d, b)
  BY DEF DataNodeNext
<1>2. CASE RegisterDataNode(d) \/ Heartbeat(d)
  <2>1. /\ UNCHANGED <<tree, generated, block_to_datanodes>>
        /\ datanodes \subseteq datanodes'
    BY <1>2 DEF Heartbeat, RegisterDataNode
  <2>2. LocationsSound'
    BY <2>1 DEF NsInv, LocationsSound, ListOf, HasEntry
  <2>3. QED
    BY <1>0, <2>1, <2>2 DEF NsInv, TreeClosed, BlocksExclusive, FileBlocksMapped,
       HasEntry, BlocksGenerated, OnlyFilesHoldBlocks
\* Reports and confirmations: a list stays as it is, or the sender joins it.
<1>3. ASSUME UNCHANGED <<tree, generated, datanodes>>,
             \A b \in Blocks :
               \/ block_to_datanodes'[b] = block_to_datanodes[b]
               \/ block_to_datanodes'[b] = ListOf(b)
               \/ /\ d \in datanodes /\ d \notin ToSet(ListOf(b))
                  /\ block_to_datanodes'[b] = Append(ListOf(b), d)
      PROVE  NsInv'
  <2>1. \A b \in Blocks : ListOf(b) \in Seq(DataNodes) /\ ListOf(b) # NoEntry
    BY <1>0, ListOfType, ConstantsAssumption
  <2>2. \A b \in Blocks : /\ Append(ListOf(b), d) \in Seq(DataNodes)
                          /\ Append(ListOf(b), d) # NoEntry
    BY <2>1, ConstantsAssumption
  <2>3. \A b \in Blocks : HasEntry(b) => HasEntry(b)'
    BY <1>3, <2>1, <2>2 DEF HasEntry
  <2>4. \A b \in Blocks :
          \/ ListOf(b)' = ListOf(b)
          \/ d \in datanodes /\ d \notin ToSet(ListOf(b)) /\ ListOf(b)' = Append(ListOf(b), d)
    BY <1>3, <2>1, <2>2 DEF ListOf, HasEntry
  <2>5. LocationsSound'
    <3> SUFFICES ASSUME NEW b \in Blocks
                 PROVE  /\ ToSet(ListOf(b)') \subseteq datanodes'
                        /\ \A i, j \in DOMAIN ListOf(b)' : ListOf(b)'[i] = ListOf(b)'[j] => i = j
      BY DEF LocationsSound
    <3>1. /\ ToSet(ListOf(b)) \subseteq datanodes
          /\ \A i, j \in DOMAIN ListOf(b) : ListOf(b)[i] = ListOf(b)[j] => i = j
      BY DEF NsInv, LocationsSound
    <3>2. datanodes \subseteq DataNodes
      BY <1>0 DEF NsTypeOK
    <3>3. CASE ListOf(b)' = ListOf(b)
      BY <1>3, <3>1, <3>3
    <3>4. CASE ListOf(b)' # ListOf(b)
      <4>1. d \in datanodes /\ d \notin ToSet(ListOf(b)) /\ ListOf(b)' = Append(ListOf(b), d)
        BY <2>4, <3>4
      <4>2. ListOf(b) \in Seq(DataNodes)
        BY <2>1
      <4>3. /\ ToSet(Append(ListOf(b), d)) \subseteq datanodes
            /\ \A i, j \in DOMAIN Append(ListOf(b), d) :
                 Append(ListOf(b), d)[i] = Append(ListOf(b), d)[j] => i = j
        BY <3>1, <3>2, <4>1, <4>2, AppendSound
      <4>4. QED
        BY <1>3, <4>1, <4>3
    <3>5. QED
      BY <3>3, <3>4
  <2>6. FileBlocksMapped'
    <3>1. \A p \in Paths : BlocksOf(tree, p) \subseteq Blocks
      BY <1>0 DEF NsInv, BlocksGenerated, NsTypeOK
    <3>2. QED
      BY <1>3, <2>3, <3>1 DEF NsInv, FileBlocksMapped
  <2>7. QED
    BY <1>0, <1>3, <2>5, <2>6 DEF NsInv, TreeClosed, BlocksExclusive,
       BlocksGenerated, OnlyFilesHoldBlocks
<1>4. ASSUME NEW bs \in SUBSET generated, BlockReport(d, bs) PROVE NsInv'
  <2>1. CASE UNCHANGED nsVars
    BY <2>1, UnchangedInv
  <2>2. CASE ~ UNCHANGED nsVars
    <3>1. /\ d \in datanodes /\ UNCHANGED <<tree, generated, datanodes>>
          /\ \A b \in Blocks : block_to_datanodes'[b] =
                IF b \in bs THEN WithReporter(ListOf(b), d) ELSE block_to_datanodes[b]
      BY <1>4, <2>2 DEF BlockReport
    <3>2. QED
      BY <1>3, <3>1 DEF WithReporter
  <2>3. QED
    BY <2>1, <2>2
<1>5. ASSUME NEW b \in generated, BlockReceived(d, b) PROVE NsInv'
  <2>1. UNCHANGED <<tree, generated, datanodes>>
    BY <1>5 DEF BlockReceived
  <2>2. \A c \in Blocks : block_to_datanodes'[c] =
          IF c # b THEN block_to_datanodes[c]
          ELSE IF d \in datanodes /\ d \notin ToSet(ListOf(c))
                 THEN Append(ListOf(c), d) ELSE ListOf(c)
    BY <1>0, <1>5 DEF BlockReceived, NsTypeOK
  <2>3. QED
    BY <1>3, <2>1, <2>2
<1>6. QED
  BY <1>1, <1>2, <1>4, <1>5

\* A maintenance operation keeps the invariant.
LEMMA MaintenanceInv == NsInv /\ MaintenanceNext => NsInv'
<1> SUFFICES ASSUME NsInv, MaintenanceNext PROVE NsInv'
  OBVIOUS
<1> USE DEF mapVars, safeModeVars, leaseVars
<1>0. NsTypeOK /\ NsTypeOK' /\ tree \in Trees /\ Closed(tree)
  <2>1. NsTypeOK /\ NsTypeOK' /\ tree \in Trees
    BY MaintenanceType DEF NsInv, NsTypeOK, Trees
  <2>2. QED
    BY <2>1, TreeClosedIsClosed DEF NsInv
<1>1. UNCHANGED <<datanodes, block_to_datanodes, generated>>
  BY DEF MaintenanceNext, EnterSafeMode, UpdateSafeMode, AddLease, RemoveLease,
     CheckLeases, Tick
<1>2. Derived(tree, tree') /\ Closed(tree')
  <2>1. CASE CheckLeases
    BY <1>0, <2>1, CheckLeasesFacts DEF NsTypeOK
  <2>2. CASE ~ CheckLeases
    <3>1. tree' = tree
      BY <2>2 DEF MaintenanceNext, EnterSafeMode, UpdateSafeMode, AddLease,
         RemoveLease, Tick
    <3>2. QED
      BY <1>0, <3>1, DerivedRefl
  <2>3. QED
    BY <2>1, <2>2
<1>3. QED
  BY <1>0, <1>1, <1>2, DerivedKeeps, MapUntouched DEF NsInv

\* The invariant holds at the start.
LEMMA InitInv == NsInit => NsInv
<1> SUFFICES ASSUME NsInit PROVE NsInv
  OBVIOUS
<1>1. NsTypeOK
  BY InitType
<1>2. \A p \in Paths : tree[p].blocks = <<>> /\ (Exists(tree, p) => p = Root)
  BY DEF NsInit, EmptyTree, Directory, Absent, Exists
<1>3. IsDirectory(tree, Root)
  BY PathsAssumption DEF NsInit, EmptyTree, Directory, IsDirectory
<1>4. DOMAIN <<>> = {}
  OBVIOUS
<1>5. \A b \in Blocks : ListOf(b) = <<>>
  BY DEF NsInit, ListOf, HasEntry
<1>6. TreeClosed
  BY <1>2, <1>3 DEF TreeClosed
<1>7. \A p \in Paths : BlocksOf(tree, p) = {}
  BY <1>2, <1>4 DEF BlocksOf
<1>8. BlocksExclusive /\ FileBlocksMapped /\ BlocksGenerated /\ OnlyFilesHoldBlocks
  BY <1>2, <1>4, <1>7 DEF BlocksExclusive, FileBlocksMapped, BlocksGenerated,
     OnlyFilesHoldBlocks
<1>9. LocationsSound
  BY <1>4, <1>5 DEF LocationsSound, ToSet
<1>10. QED
  BY <1>1, <1>6, <1>8, <1>9 DEF NsInv

\* NsInv is an invariant of the name system.
THEOREM NsInvCorrect == NsSpec => []NsInv
<1>1. NsInv /\ [NsNext]_nsVars => NsInv'
  BY UnchangedInv, ClientInv, DataNodeInv, MaintenanceInv DEF NsNext
<1>2. QED
  BY <1>1, InitInv, PTL DEF NsSpec

\* No operation leaves a node that its parent does not list.
THEOREM TreeClosedCorrect == NsSpec => []TreeClosed
<1>1. NsInv => TreeClosed
  BY DEF NsInv
<1>2. QED
  BY <1>1, NsInvCorrect, PTL

\* A block is in one file at most, and there once: Delete erases no other
\* file's entries.
THEOREM BlocksExclusiveCorrect == NsSpec => []BlocksExclusive
<1>1. NsInv => BlocksExclusive
  BY DEF NsInv
<1>2. QED
  BY <1>1, NsInvCorrect, PTL

\* Every block of every file has an entry in block_to_datanodes_.
THEOREM FileBlocksMappedCorrect == NsSpec => []FileBlocksMapped
<1>1. NsInv => FileBlocksMapped
  BY DEF NsInv
<1>2. QED
  BY <1>1, NsInvCorrect, PTL

\* Locations are distinct registered DataNodes.
THEOREM LocationsSoundCorrect == NsSpec => []LocationsSound
<1>1. NsInv => LocationsSound
  BY DEF NsInv
<1>2. QED
  BY <1>1, NsInvCorrect, PTL

-----------------------------------------------------------------------------
\* A step that drops leases removes only nodes at or below a path whose lease
\* ran out before now: no operation takes a lease and an unexpired node at once.
THEOREM ExpiryCorrect == NsSpec => ExpiryTakesOnlyExpired
<1> DEFINE Taken(q) == \E l \in leases : l.expiry < clock /\ IsPrefix(l.path, q) /\ l \notin leases'
           Step == \A q \in Paths :
                      (Exists(tree, q) /\ tree'[q] = Absent /\ leases' # leases) => Taken(q)
<1>1. [NsNext]_nsVars => [Step]_nsVars
  <2> SUFFICES ASSUME [NsNext]_nsVars, NEW q \in Paths,
                      Exists(tree, q), tree'[q] = Absent, leases' # leases
               PROVE  Taken(q)
    OBVIOUS
  <2> USE DEF mapVars, safeModeVars, leaseVars
  <2>1. tree' # tree
    BY DEF Exists, Absent
  <2>2. ~ UNCHANGED nsVars
    BY DEF nsVars
  <2>3. ~ ClientNext
    BY DEF ClientNext, StartFile, StartFileRefused, StartFileFailed, StartFileCreated, AddBlock,
           Allocate, Delete, MkdirsOp, nsVars
  <2>4. ~ DataNodeNext
    BY <2>1 DEF DataNodeNext, RegisterDataNode, Heartbeat, BlockReport, BlockReceived, nsVars
  <2>5. CheckLeases
    BY <2>1, <2>2, <2>3, <2>4 DEF NsNext, MaintenanceNext, EnterSafeMode, UpdateSafeMode,
                                  AddLease, RemoveLease, Tick
  <2>6. PICK l \in Expired : IsPrefix(l.path, q)
    BY <2>5 DEF CheckLeases, Exists, Absent
  <2>7. QED
    BY <2>5, <2>6 DEF CheckLeases, Expired
<1>2. QED
  BY <1>1, PTL DEF NsSpec, ExpiryTakesOnlyExpired
=============================================================================
