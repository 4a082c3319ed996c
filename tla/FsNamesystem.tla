---------------------------- MODULE FsNamesystem ----------------------------
(***************************************************************************)
(* Class FsNamesystem (src/ndfs/fs_namesystem.h): the NameNode's in-memory *)
(* state and its operations.  Every operation below runs under mutex_, so  *)
(* each is one action (EnterSafeMode and UpdateSafeMode take no lock; the  *)
(* repository has no second thread that calls them).                       *)
(*                                                                         *)
(* A DataNodeInfo is represented by the DataNode's name: host, port,       *)
(* capacity and the heartbeat time never decide anything.  A call that the *)
(* code answers with a default-constructed {} answers NoAlloc here.        *)
(***************************************************************************)
EXTENDS InodeTree, FiniteSets, Integers

CONSTANTS
    DataNodes,       \* DataNode names
    Replication,     \* kDefaultReplication
    Holders,         \* lease holders
    LeaseTimeout,    \* kLeaseTimeout
    SafeModeTicks,   \* the initial safe_mode_countdown_
    MaxClock,        \* bound: the last second of the model's clock
    NoBlock,         \* the block of a default-constructed result
    NoEntry          \* a block id that is no key of block_to_datanodes_

ASSUME ConstantsAssumption ==
    /\ IsFiniteSet(Blocks)   \* block ids are 64-bit integers
    /\ IsFiniteSet(DataNodes)
    /\ Replication \in Nat \ {0}
    /\ LeaseTimeout \in Nat
    /\ SafeModeTicks \in Nat
    /\ MaxClock \in Nat
    /\ NoBlock \notin Blocks
    /\ NoEntry \notin Seq(DataNodes)

VARIABLES
    tree,                 \* tree_
    datanodes,            \* the keys of datanodes_
    block_to_datanodes,   \* block_to_datanodes_: who holds, in list order
    dn_to_blocks,         \* dn_to_blocks_: each DataNode's last report
    total_blocks, safe_blocks, safe_mode_countdown,
    leases,               \* leases_, the set of leases; at most one per path
    clock,                \* CurrentTime()
    generated             \* history: every id Block::Generate has returned

safeModeVars == <<total_blocks, safe_blocks, safe_mode_countdown>>
leaseVars == <<leases, clock>>
mapVars == <<datanodes, block_to_datanodes, dn_to_blocks>>
nsVars == <<tree, mapVars, safeModeVars, leaseVars, generated>>

Lease == [holder : Holders, path : Paths, expiry : Nat]

NsInit ==
    /\ tree = EmptyTree
    /\ datanodes = {}
    /\ block_to_datanodes = [b \in Blocks |-> NoEntry]
    /\ dn_to_blocks = [d \in DataNodes |-> {}]
    /\ total_blocks = 0
    /\ safe_blocks = 0
    /\ safe_mode_countdown = SafeModeTicks
    /\ leases = {}
    /\ clock = 0
    /\ generated = {}

-----------------------------------------------------------------------------
\* Helpers

HasEntry(b) == block_to_datanodes[b] # NoEntry

\* block_to_datanodes_[b]: operator[] creates an empty list for a new key.
ListOf(b) == IF HasEntry(b) THEN block_to_datanodes[b] ELSE <<>>

\* InSafeMode: no DataNode yet, or fewer than 99.9% of the blocks counted by
\* the last UpdateSafeMode had a location.
InSafeMode ==
    \/ datanodes = {}
    \/ /\ total_blocks # 0
       /\ safe_blocks * 1000 < total_blocks * 999

\* ChooseTargets(n): the first n keys of an unordered_map, so any n distinct
\* DataNodes in any order; all of them when there are fewer than n.
ChooseTargets(n) ==
    LET k == IF Cardinality(datanodes) < n THEN Cardinality(datanodes) ELSE n
    IN  {s \in [1..k -> datanodes] : \A i, j \in 1..k : s[i] = s[j] => i = j}

\* GetParentDir cuts at the last '/', so for a string with a trailing slash
\* it is the path itself.
GetParentDir(p, slash) == IF slash THEN p ELSE ParentOf(p)

NoAlloc == [block |-> NoBlock, targets |-> <<>>]
AllocResults(B) ==
    {[block |-> b, targets |-> s] : b \in B, s \in ChooseTargets(Replication)}

\* A plausible bug: ids are drawn without regard to the ones in use.
BugFreshAny == Blocks

\* Block::Generate draws 64 random bits; a repeated id is not modelled.
Fresh == Blocks \ generated

-----------------------------------------------------------------------------
\* Client operations.  r is the result the caller gets.

\* A plausible bug: the new block is put before the others.
BugAllocate(t, p, r) ==
    /\ r \in AllocResults(Fresh)
    /\ generated' = generated \cup {r.block}
    /\ block_to_datanodes' = [block_to_datanodes EXCEPT ![r.block] = r.targets]
    /\ tree' = [t EXCEPT ![p] = File(<<r.block>> \o @.blocks)]
    /\ UNCHANGED <<datanodes, dn_to_blocks, safeModeVars, leaseVars>>

\* Generate a block, choose its targets, append it to the file at p of t.
Allocate(t, p, r) ==
    /\ r \in AllocResults(Fresh)
    /\ generated' = generated \cup {r.block}
    /\ block_to_datanodes' = [block_to_datanodes EXCEPT ![r.block] = r.targets]
    /\ tree' = [t EXCEPT ![p] = File(Append(@.blocks, r.block))]
    /\ UNCHANGED <<datanodes, dn_to_blocks, safeModeVars, leaseVars>>

\* The tree StartFile works on once it has deleted an existing node (with
\* its subtree; the blocks keep their entries) and made the parents.
Prepared(p, slash) ==
    Mkdirs(IF Exists(tree, p) THEN DeleteTree(tree, p) ELSE tree,
           GetParentDir(p, slash))

StartFileAccepts(p, overwrite) == ~ InSafeMode /\ (Exists(tree, p) => overwrite)

\* A plausible bug: the node is made, with a default block, before the tests.
BugStartFileRefused(p, overwrite, r) ==
    /\ ~ StartFileAccepts(p, overwrite)
    /\ r = NoAlloc
    /\ tree' = [tree EXCEPT ![p] = File(<<NoBlock>>)]
    /\ UNCHANGED <<mapVars, safeModeVars, leaseVars, generated>>

StartFileRefused(p, overwrite, r) ==
    /\ ~ StartFileAccepts(p, overwrite)
    /\ r = NoAlloc
    /\ UNCHANGED nsVars

\* CreateFile fails after Delete and Mkdirs have done their work.
StartFileFailed(p, slash, overwrite, r) ==
    /\ StartFileAccepts(p, overwrite)
    /\ ~ CreateFileOk(Prepared(p, slash), p)
    /\ r = NoAlloc
    /\ tree' = Prepared(p, slash)
    /\ UNCHANGED <<mapVars, safeModeVars, leaseVars, generated>>

StartFileCreated(p, slash, overwrite, r) ==
    /\ StartFileAccepts(p, overwrite)
    /\ CreateFileOk(Prepared(p, slash), p)
    /\ Allocate(Prepared(p, slash), p, r)

StartFile(p, slash, overwrite, r) ==
    \/ StartFileRefused(p, overwrite, r)
    \/ StartFileFailed(p, slash, overwrite, r)
    \/ StartFileCreated(p, slash, overwrite, r)

AddBlock(p, r) ==
    \/ ~ IsFile(tree, p) /\ r = NoAlloc /\ UNCHANGED nsVars
    \/ IsFile(tree, p) /\ Allocate(tree, p, r)

\* The blocks of a file and, for each, the locations known now.
GetBlocks(p) ==
    IF IsFile(tree, p)
      THEN [i \in DOMAIN tree[p].blocks |->
              [block |-> tree[p].blocks[i], locations |-> ListOf(tree[p].blocks[i])]]
      ELSE <<>>

\* A plausible bug: the entries of all blocks below the parent are erased.
BugDelete(p) ==
    /\ block_to_datanodes' = [b \in Blocks |->
         IF \E q \in Paths : IsPrefix(ParentOf(p), q) /\ b \in BlocksOf(tree, q)
           THEN NoEntry ELSE block_to_datanodes[b]]
    /\ tree' = DeleteTree(tree, p)
    /\ UNCHANGED <<datanodes, dn_to_blocks, safeModeVars, leaseVars, generated>>

\* Delete erases the map entries of a file's blocks; below a directory the
\* files go and their blocks' entries stay.
Delete(p) ==
    /\ Exists(tree, p)
    /\ block_to_datanodes' =
         IF IsFile(tree, p)
           THEN [b \in Blocks |-> IF b \in BlocksOf(tree, p)
                                    THEN NoEntry ELSE block_to_datanodes[b]]
           ELSE block_to_datanodes
    /\ tree' = DeleteTree(tree, p)
    /\ UNCHANGED <<datanodes, dn_to_blocks, safeModeVars, leaseVars, generated>>

MkdirsOp(p) ==
    /\ tree' = Mkdirs(tree, p)
    /\ UNCHANGED <<mapVars, safeModeVars, leaseVars, generated>>

-----------------------------------------------------------------------------
\* DataNode operations

RegisterDataNode(d) ==
    /\ datanodes' = datanodes \cup {d}
    /\ UNCHANGED <<tree, block_to_datanodes, dn_to_blocks, safeModeVars,
                   leaseVars, generated>>

\* Heartbeat registers an unknown DataNode and refreshes a known one.
Heartbeat(d) == RegisterDataNode(d)

\* One block of a report: the reporter joins the list unless it is in it or
\* the list is full.
WithReporter(s, d) ==
    IF d \in ToSet(s) \/ Len(s) >= Replication THEN s ELSE Append(s, d)

\* A report from a DataNode that never sent a heartbeat is dropped.
BlockReport(d, bs) ==
    \/ d \notin datanodes /\ UNCHANGED nsVars
    \/ /\ d \in datanodes
       /\ dn_to_blocks' = [dn_to_blocks EXCEPT ![d] = bs]
       /\ block_to_datanodes' = [b \in Blocks |->
            IF b \in bs THEN WithReporter(ListOf(b), d) ELSE block_to_datanodes[b]]
       /\ UNCHANGED <<tree, datanodes, safeModeVars, leaseVars, generated>>

\* A plausible bug: the sender is not looked up in datanodes_.
BugBlockReceived(d, b) ==
    /\ block_to_datanodes' = [block_to_datanodes EXCEPT ![b] =
         IF d \notin ToSet(ListOf(b)) THEN Append(ListOf(b), d) ELSE ListOf(b)]
    /\ UNCHANGED <<tree, datanodes, dn_to_blocks, safeModeVars, leaseVars, generated>>

\* The entry is created before the sender is looked up; no limit applies.
BlockReceived(d, b) ==
    /\ block_to_datanodes' = [block_to_datanodes EXCEPT ![b] =
         IF d \in datanodes /\ d \notin ToSet(ListOf(b))
           THEN Append(ListOf(b), d) ELSE ListOf(b)]
    /\ UNCHANGED <<tree, datanodes, dn_to_blocks, safeModeVars, leaseVars, generated>>

-----------------------------------------------------------------------------
\* Safe mode and leases

EnterSafeMode ==
    /\ safe_mode_countdown' = SafeModeTicks
    /\ UNCHANGED <<tree, mapVars, total_blocks, safe_blocks, leaseVars, generated>>

\* A plausible bug: the countdown goes on below zero.
BugUpdateSafeMode ==
    /\ total_blocks' = Cardinality({b \in Blocks : HasEntry(b)})
    /\ safe_blocks' = Cardinality({b \in Blocks : HasEntry(b) /\ ListOf(b) # <<>>})
    /\ safe_mode_countdown' = safe_mode_countdown - 1
    /\ UNCHANGED <<tree, mapVars, leaseVars, generated>>

UpdateSafeMode ==
    /\ total_blocks' = Cardinality({b \in Blocks : HasEntry(b)})
    /\ safe_blocks' = Cardinality({b \in Blocks : HasEntry(b) /\ ListOf(b) # <<>>})
    /\ safe_mode_countdown' =
         IF safe_mode_countdown > 0 THEN safe_mode_countdown - 1 ELSE safe_mode_countdown
    /\ UNCHANGED <<tree, mapVars, leaseVars, generated>>

AddLease(h, p) ==
    /\ leases' = {l \in leases : l.path # p} \cup
                 {[holder |-> h, path |-> p, expiry |-> clock + LeaseTimeout]}
    /\ UNCHANGED <<tree, mapVars, safeModeVars, clock, generated>>

RemoveLease(p) ==
    /\ leases' = {l \in leases : l.path # p}
    /\ UNCHANGED <<tree, mapVars, safeModeVars, clock, generated>>

\* A plausible bug: a lease counts as expired in its last second.
BugExpired == {l \in leases : l.expiry <= clock}

Expired == {l \in leases : l.expiry < clock}

\* The nodes of expired leases are deleted, the blocks' entries stay.  The
\* order in which the map is walked does not matter: Delete of an absent
\* node does nothing.
CheckLeases ==
    /\ tree' = [q \in Paths |->
         IF \E l \in Expired : l.path # Root /\ IsPrefix(l.path, q)
           THEN Absent ELSE tree[q]]
    /\ leases' = leases \ Expired
    /\ UNCHANGED <<mapVars, safeModeVars, clock, generated>>

\* The environment: a second passes.
Tick ==
    /\ clock < MaxClock
    /\ clock' = clock + 1
    /\ UNCHANGED <<tree, mapVars, safeModeVars, leases, generated>>

-----------------------------------------------------------------------------
\* A DataNode reports and a client confirms blocks the NameNode generated.
ClientNext ==
    \/ \E p \in Paths, slash, overwrite \in BOOLEAN :
         \E r \in AllocResults(Fresh) \cup {NoAlloc} :
            (slash => p # Root) /\ StartFile(p, slash, overwrite, r)
    \/ \E p \in Paths : \E r \in AllocResults(Fresh) \cup {NoAlloc} : AddBlock(p, r)
    \/ \E p \in Paths : Delete(p)
    \/ \E p \in Paths : MkdirsOp(p)

DataNodeNext ==
    \E d \in DataNodes :
        \/ RegisterDataNode(d)
        \/ Heartbeat(d)
        \/ \E bs \in SUBSET generated : BlockReport(d, bs)
        \/ \E b \in generated : BlockReceived(d, b)

MaintenanceNext ==
    \/ EnterSafeMode
    \/ UpdateSafeMode
    \/ \E h \in Holders, p \in Paths : AddLease(h, p)
    \/ \E p \in Paths : RemoveLease(p)
    \/ CheckLeases
    \/ Tick

NsNext == ClientNext \/ DataNodeNext \/ MaintenanceNext

NsSpec == NsInit /\ [][NsNext]_nsVars

-----------------------------------------------------------------------------
(***************************************************************************)
(* Properties                                                              *)
(***************************************************************************)

\* The type invariant of the name system.
NsTypeOK ==
    /\ tree \in [Paths -> INodes]
    /\ datanodes \in SUBSET DataNodes
    /\ block_to_datanodes \in [Blocks -> Seq(DataNodes) \cup {NoEntry}]
    /\ dn_to_blocks \in [DataNodes -> SUBSET Blocks]
    /\ total_blocks \in Nat
    /\ safe_blocks \in Nat
    /\ safe_mode_countdown \in 0..SafeModeTicks
    /\ leases \in SUBSET Lease
    /\ clock \in 0..MaxClock
    /\ generated \in SUBSET Blocks

\* Whatever Delete, overwrite, Mkdirs and lease expiry did before, the root is
\* a directory and every other node is listed by ListDir of its parent: no
\* node is left unreachable, or below a file.
TreeClosed ==
    /\ IsDirectory(tree, Root)
    /\ \A p \in Paths \ {Root} : Exists(tree, p) => p \in ListDir(tree, ParentOf(p))

\* No block belongs to two files, or twice to one, so that Delete's erasing of
\* one file's blocks (fs_namesystem.h:111-115) touches no other file.
BlocksExclusive ==
    \A p, q \in Paths : \A i \in DOMAIN tree[p].blocks, j \in DOMAIN tree[q].blocks :
        tree[p].blocks[i] = tree[q].blocks[j] => p = q /\ i = j

\* Every block of every file has an entry in block_to_datanodes_, whatever
\* deletes, overwrites, lease expiries and reports came before.  This is true of
\* a NameNode that has loaded no image, since Load fills the tree and leaves
\* block_to_datanodes_ empty: NsSpec starts with an empty tree, and Ndfs, whose
\* NameNode restarts, has no such property.
FileBlocksMapped == \A p \in Paths : \A b \in BlocksOf(tree, p) : HasEntry(b)

\* No DataNode is listed twice for a block, and all listed ones have
\* registered, although a late BlockReceived or a report may arrive at any
\* time, also for a block whose entry Delete has erased.
LocationsSound ==
    \A b \in Blocks :
        /\ ToSet(ListOf(b)) \subseteq datanodes
        /\ \A i, j \in DOMAIN ListOf(b) : ListOf(b)[i] = ListOf(b)[j] => i = j

\* Expiry takes only what lies at or below a path whose lease ran out strictly
\* before now (fs_namesystem.h:263): a step that drops leases without naming
\* one removes no other node, even when leases are nested.
ExpiryTakesOnlyExpired ==
    [][\A q \in Paths :
         (Exists(tree, q) /\ tree'[q] = Absent /\ leases' # leases) =>
           \E l \in leases : l.expiry < clock /\ IsPrefix(l.path, q) /\ l \notin leases'
      ]_nsVars
=============================================================================
