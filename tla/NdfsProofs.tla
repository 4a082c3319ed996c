----------------------------- MODULE NdfsProofs -----------------------------
(***************************************************************************)
(* Proofs about Ndfs, the file system put together.  The inductive         *)
(* invariants are layered: the types, then who may write which block file, *)
(* then the order of the chunks in files and images, then where a single   *)
(* writer's chunks stand, then what a reader gets while nothing fails.     *)
(***************************************************************************)
EXTENDS Ndfs, FsImageProofs

-----------------------------------------------------------------------------
\* The states of a connection; it is live while the server may still answer.
ConnStates == {"none", "queued", "open", "stranded", "closed", "reset"}
Live(x) == conn[x] \in {"queued", "open"}

\* The types the variables keep besides NdfsTypeOK.
Allocs == [block : Blocks \cup {NoBlock}, targets : Seq(DataNodes)]
Founds == [block : Blocks, locations : Seq(DataNodes)]

Shapes ==
    /\ IsFiniteSet(Nodes(tree)) /\ image \in Seq(Lines)
    /\ stored \in [Dirs -> [Blocks -> Contents]]
    /\ dirOf \in [DataNodes -> Dirs] /\ job \in [Clients -> Jobs]
    /\ chunk \in [Clients -> Nat \ {0}] /\ idx \in [Clients -> Nat \ {0}]
    /\ alloc \in [Clients -> Allocs]
    /\ found \in [Clients -> Seq(Founds)]
    /\ data \in [Clients -> Seq(Contents)]
    /\ owner \in [Blocks -> {NoData} \cup (Clients \X Nat)]
    /\ targetsOf \in [Blocks -> Seq(DataNodes)]
    /\ sawDone \in [Clients -> SUBSET Clients]

\* Block files and allocations are of generated ids only.
Known ==
    /\ \A x \in Dirs, b \in Blocks : stored[x][b] # NoData => b \in generated
    /\ \A c \in Clients : alloc[c] = NoAlloc \/ alloc[c].block \in generated

TypeInv == NdfsTypeOK /\ Shapes /\ Known

-----------------------------------------------------------------------------
\* A client's place in its call agrees with the call, its connection and its
\* allocation.
Places ==
    \A c \in Clients :
        /\ pc[c] \in {"send", "storing", "confirm"} => job[c].op = "put"
        /\ pc[c] = "read" => job[c].op = "get"
        /\ pc[c] \in {"idle", "done"} => conn[c] = "none"
        /\ pc[c] \notin {"send", "storing", "confirm"} => alloc[c] = NoAlloc
        /\ pc[c] = "storing" => alloc[c].targets # <<>>
        /\ pc[c] \in {"idle", "rpc", "send", "storing"} => idx[c] = 1
        /\ pc[c] = "idle" => chunk[c] = 1
        /\ pc[c] = "rpc" /\ job[c].op = "get" => chunk[c] = 1

\* An allocation is the client's own, for the chunk it is at.
AllocOwned ==
    \A c \in Clients : alloc[c] # NoAlloc =>
        /\ owner[alloc[c].block] = <<c, chunk[c]>>
        /\ targetsOf[alloc[c].block] = alloc[c].targets

\* A block file lies in the directory of the block's first target and holds
\* its chunk or a part of it.
FilesInPlace ==
    \A x \in Dirs, b \in Blocks : stored[x][b] # NoData =>
        /\ targetsOf[b] # <<>> /\ x = dirOf[targetsOf[b][1]]
        /\ stored[x][b] \in {Partial, owner[b]}

\* While a client is sending a block no complete file of it exists.
NotYetComplete ==
    \A c \in Clients, x \in Dirs :
        pc[c] \in {"send", "storing"} /\ alloc[c] # NoAlloc =>
          stored[x][alloc[c].block] \in {NoData, Partial}

\* Locations are distinct and were targets; there are at most Replication of
\* these.
ListsInPlace ==
    \A b \in Blocks :
        /\ \A d \in ToSet(ListOf(b)) :
             b \in generated /\ \E t \in ToSet(targetsOf[b]) : dirOf[d] = dirOf[t]
        /\ \A i, j \in DOMAIN ListOf(b) : ListOf(b)[i] = ListOf(b)[j] => i = j
        /\ Len(targetsOf[b]) <= Replication

DataInv == TypeInv /\ Places /\ AllocOwned /\ FilesInPlace /\ NotYetComplete /\ ListsInPlace

-----------------------------------------------------------------------------
\* A block list of ids in G with each writer's chunks in order, by the owners o.
InOrder(bs, G, o) ==
    /\ \A i \in DOMAIN bs : bs[i] \in G
    /\ \A i, j \in DOMAIN bs :
         i < j /\ o[bs[i]][1] = o[bs[j]][1] => o[bs[i]][2] < o[bs[j]][2]

\* The writer of a block is at a later chunk, or at this one, or done.
OwnersAhead ==
    \A b \in generated :
        /\ owner[b] \in Clients \X (Nat \ {0})
        /\ job[owner[b][1]].op = "put"
        /\ pc[owner[b][1]] # "idle"
        /\ pc[owner[b][1]] = "rpc" => owner[b][2] < chunk[owner[b][1]]
        /\ pc[owner[b][1]] \in {"send", "storing", "confirm"} => owner[b][2] <= chunk[owner[b][1]]

OrderInv ==
    /\ OwnersAhead
    /\ \A p \in Paths : InOrder(tree[p].blocks, generated, owner)
    /\ \A i \in DOMAIN image : InOrder(image[i].blocks, generated, owner)

-----------------------------------------------------------------------------
\* Without a block there is no file, no connection is live to a NameNode that
\* is down, and none waits for one that takes none.
NoFileFirst ==
    generated = {} => /\ \A p \in Paths : ~ IsFile(tree, p)
                      /\ \A i \in DOMAIN image : image[i].type = "kDirectory"

DownIsClosed ==
    \A x \in Processes : /\ nn = "down" => ~ Live(x)
                         /\ conn[x] = "queued" => Accepting

OnlyWriter(w) == job[w].op = "put" /\ \A c \in Clients \ {w} : job[c].op # "put"

\* A block list of ids in G in which position i has chunk i of w.
ChunksOf(w, bs, G, o) == \A i \in DOMAIN bs : bs[i] \in G /\ o[bs[i]] = <<w, i>>

\* While w is connected, the file it writes ends with the last chunk it got a
\* block for.
FileAtChunk(w) ==
    Live(w) /\ IsFile(tree, job[w].path) =>
        Len(tree[job[w].path].blocks) = IF pc[w] = "rpc" THEN chunk[w] - 1 ELSE chunk[w]

\* What r has read are the first chunks of w, whole or cut short.
DataInPlace(r, w) ==
    /\ \A i \in DOMAIN data[r] : data[r][i] \in {Partial, <<w, i>>}
    /\ pc[r] \in {"idle", "rpc"} => data[r] = <<>>
    /\ pc[r] = "read" => Len(data[r]) = chunk[r] - 1

PlaceInv ==
    /\ NoFileFirst
    /\ DownIsClosed
    /\ \A w \in Clients : OnlyWriter(w) =>
         /\ \A p \in Paths : ChunksOf(w, tree[p].blocks, generated, owner)
         /\ \A i \in DOMAIN image : ChunksOf(w, image[i].blocks, generated, owner)
         /\ FileAtChunk(w)
         /\ \A r \in Clients \ {w} :
              /\ DataInPlace(r, w)
              /\ \A i \in DOMAIN found[r] :
                   found[r][i].block \in generated /\ owner[found[r][i].block] = <<w, i>>

-----------------------------------------------------------------------------
\* No NameNode has stopped or died and nothing has failed.
Calm == stops = 0 /\ faults = 0

\* No two blocks are for the same chunk.
OwnersUnique ==
    /\ \A b \in Blocks \ generated : owner[b] = NoData
    /\ \A a, b \in generated : owner[a] = owner[b] => a = b

\* Who is listed has registered.
Registered ==
    /\ \A b \in Blocks : ToSet(ListOf(b)) \subseteq datanodes
    /\ Calm => \A c \in Clients : alloc[c] # NoAlloc => ToSet(alloc[c].targets) \subseteq datanodes
    /\ Calm => \A r \in Clients : \A i \in DOMAIN found[r] :
                 ToSet(found[r][i].locations) \subseteq datanodes

\* While it is calm connections stay, and so do the DataNodes that registered.
AllUp ==
    Calm => /\ nn = "up"
            /\ \A x \in Processes : conn[x] \in {"none", "queued", "open"}
            /\ \A c \in Clients : pc[c] \notin {"idle", "done"} => Live(c)
            /\ \A d \in DataNodes : dn[d] # "down" => Live(d)
            /\ \A d \in datanodes : dn[d] # "down"

CalmInv == OwnersUnique /\ Registered /\ AllUp

Readers(w) == job[w].op = "put" /\ \A c \in Clients \ {w} : job[c].op = "get"

\* Every chunk of w has got a target.
Placed(w) == \A i \in 1..job[w].len : \E b \in Blocks : owner[b] = <<w, i>> /\ targetsOf[b] # <<>>

\* Once StartFile has made the file every chunk gets a block.
FileComplete(w) ==
    generated # {} =>
        /\ IsFile(tree, job[w].path)
        /\ pc[w] = "done" /\ status[w] = "OK" => Len(tree[job[w].path].blocks) = job[w].len

\* A block w has sent is complete at its first target, which is listed.
BlocksComplete(w) ==
    \A b \in generated : targetsOf[b] # <<>> =>
        /\ targetsOf[b][1] \in ToSet(ListOf(b))
        /\ \/ pc[w] \in {"send", "storing"} /\ alloc[w].block = b
           \/ stored[dirOf[targetsOf[b][1]]][b] = owner[b]

\* What a reader that came after w knows: all chunks, and for the one it is at
\* a location still to be tried that has it; in the end it has them all.
ReaderKnows(r, w) ==
    /\ w \in sawDone[r] => pc[w] = "done" /\ status[w] = "OK" /\ pc[r] # "idle"
    /\ w \in sawDone[r] /\ pc[r] = "read" /\ Placed(w) /\ job[r].path = job[w].path =>
         /\ Len(found[r]) = job[w].len
         /\ \A i \in DOMAIN found[r] :
              /\ targetsOf[found[r][i].block] # <<>>
              /\ targetsOf[found[r][i].block][1] \in ToSet(found[r][i].locations)
         /\ \A i \in DOMAIN found[r] : i = chunk[r] =>
              \E k \in DOMAIN found[r][i].locations :
                k >= idx[r] /\ found[r][i].locations[k] = targetsOf[found[r][i].block][1]
         /\ \A i \in DOMAIN data[r] : data[r][i] = <<w, i>>
         /\ chunk[r] <= job[w].len + 1
    /\ w \in sawDone[r] /\ pc[r] = "done" /\ Placed(w) /\ job[r].path = job[w].path =>
         status[r] = "OK" /\ data[r] = [i \in 1..job[w].len |-> <<w, i>>]

ReadInv ==
    \A w \in Clients : Readers(w) /\ Calm =>
        /\ FileComplete(w)
        /\ BlocksComplete(w)
        /\ status[w] = "OK" => pc[w] = "done"
        /\ pc[w] = "rpc" => chunk[w] <= job[w].len + 1
        /\ pc[w] \in {"send", "storing", "confirm"} => chunk[w] <= job[w].len
        /\ \A r \in Clients \ {w} : ReaderKnows(r, w)

-----------------------------------------------------------------------------
(***************************************************************************)
(* What the handlers do, and what a step does to the name system.          *)
(***************************************************************************)

\* The handler a request selects.
LEMMA Handlers ==
    ASSUME NEW p, NEW o, NEW r, NEW d, NEW x
    PROVE  /\ Handle([op |-> "StartFile", path |-> p, overwrite |-> o], r)
                => StartFile(p, FALSE, o, r)
           /\ Handle([op |-> "AddBlock", path |-> p], r) => AddBlock(p, r)
           /\ Handle([op |-> "GetBlocks", path |-> p], r) => UNCHANGED nsVars
           /\ Handle([op |-> "Delete", path |-> p], r) => Delete(p) \/ UNCHANGED nsVars
           /\ Handle([op |-> "Mkdirs", path |-> p], r) => MkdirsOp(p)
           /\ Handle([op |-> "Heartbeat", name |-> d], r) => Heartbeat(d)
           /\ Handle([op |-> "BlockReport", name |-> d, blocks |-> x], r) => BlockReport(d, x)
           /\ Handle([op |-> "BlockReceived", name |-> d, block |-> x], r) => BlockReceived(d, x)
BY DEF Handle

\* The results of an allocation.
LEMMA AllocResultFacts ==
    ASSUME NsTypeOK, NEW r \in AllocResults(Fresh) \cup {NoAlloc}
    PROVE  /\ r \in Allocs
           /\ r = NoAlloc \/ r.block \in Blocks \ generated
           /\ r.block = NoBlock <=> r = NoAlloc
           /\ Len(r.targets) <= Replication
           /\ ToSet(r.targets) \subseteq datanodes
           /\ \A i, j \in DOMAIN r.targets : r.targets[i] = r.targets[j] => i = j
<1>1. CASE r = NoAlloc
  <2>1. <<>> \in Seq(DataNodes) /\ Len(<<>>) = 0 /\ DOMAIN <<>> = {}
    OBVIOUS
  <2>2. 0 <= Replication
    BY ConstantsAssumption
  <2>3. r.block = NoBlock /\ r.targets = <<>> /\ r \in Allocs
    BY <1>1, <2>1 DEF NoAlloc, Allocs
  <2>4. QED
    BY <1>1, <2>1, <2>2, <2>3 DEF ToSet
<1>2. CASE r # NoAlloc
  <2>1. PICK b \in Blocks \ generated, s \in ChooseTargets(Replication) :
           r = [block |-> b, targets |-> s]
    BY <1>2 DEF AllocResults, Fresh
  <2>2. /\ s \in Seq(DataNodes) /\ Len(s) <= Replication /\ ToSet(s) \subseteq datanodes
        /\ \A i, j \in DOMAIN s : s[i] = s[j] => i = j
    BY ChooseTargetsFacts DEF NsTypeOK
  <2>3. r.block = b /\ r.targets = s /\ b # NoBlock /\ r \in Allocs
    BY <2>1, <2>2, ConstantsAssumption DEF Allocs
  <2>4. QED
    BY <1>2, <2>1, <2>2, <2>3
<1>3. QED
  BY <1>1, <1>2

\* What GetBlocks answers.
LEMMA GetBlocksFacts ==
    ASSUME NsTypeOK, NEW p \in Paths
    PROVE  /\ GetBlocks(p) \in Seq(Founds)
           /\ IsFile(tree, p) => Len(GetBlocks(p)) = Len(tree[p].blocks)
           /\ ~ IsFile(tree, p) => GetBlocks(p) = <<>>
           /\ \A i \in DOMAIN GetBlocks(p) :
                /\ i \in DOMAIN tree[p].blocks
                /\ GetBlocks(p)[i].block = tree[p].blocks[i]
                /\ GetBlocks(p)[i].locations = ListOf(tree[p].blocks[i])
<1> DEFINE bs == tree[p].blocks
           g == [i \in DOMAIN bs |-> [block |-> bs[i], locations |-> ListOf(bs[i])]]
<1>1. bs \in Seq(Blocks) /\ Len(bs) \in Nat /\ DOMAIN bs = 1..Len(bs)
  BY DEF NsTypeOK, INodes
<1>2. CASE ~ IsFile(tree, p)
  <2>1. GetBlocks(p) = <<>>
    BY <1>2 DEF GetBlocks
  <2>2. DOMAIN <<>> = {} /\ <<>> \in Seq(Founds)
    OBVIOUS
  <2>3. QED
    BY <1>2, <2>1, <2>2
<1>3. CASE IsFile(tree, p)
  <2>1. GetBlocks(p) = g
    BY <1>3 DEF GetBlocks
  <2>2. \A i \in DOMAIN bs : bs[i] \in Blocks /\ ListOf(bs[i]) \in Seq(DataNodes)
    <3>1. \A i \in DOMAIN bs : bs[i] \in Blocks
      BY <1>1
    <3>2. QED
      BY <3>1, ListOfType
  <2> HIDE DEF bs
  <2>3. \A i \in DOMAIN bs : [block |-> bs[i], locations |-> ListOf(bs[i])] \in Founds
    BY <2>2 DEF Founds
  <2>4. g \in [1..Len(bs) -> Founds] /\ DOMAIN g = 1..Len(bs)
    BY <1>1, <2>3
  <2>5. \A i \in DOMAIN g : g[i].block = bs[i] /\ g[i].locations = ListOf(bs[i])
    BY <1>1
  <2> HIDE DEF g
  <2>6. g \in Seq(Founds) /\ Len(g) = Len(bs)
    BY <1>1, <2>4
  <2>7. QED
    BY <1>1, <1>3, <2>1, <2>4, <2>5, <2>6 DEF bs
<1>4. QED
  BY <1>2, <1>3

-----------------------------------------------------------------------------
\* The ways in which a call ends.
Ending(c) ==
    \/ pc[c] = "idle" /\ ~ Accepting
    \/ pc[c] = "rpc" /\ conn[c] \in {"closed", "reset"}
    \/ pc[c] = "confirm" /\ conn[c] = "reset"
    \/ /\ pc[c] = "read" /\ chunk[c] <= Len(found[c])
       /\ \/ idx[c] > Len(found[c][chunk[c]].locations)
          \/ /\ idx[c] <= Len(found[c][chunk[c]].locations)
             /\ dn[found[c][chunk[c]].locations[idx[c]]] = "down"
    \/ pc[c] = "send" /\ alloc[c].targets # <<>> /\ dn[alloc[c].targets[1]] = "down"
    \/ pc[c] = "rpc" /\ job[c].op \in {"rm", "mkdir"}

\* The call of c ends, well or not.
Ends(c) ==
    /\ \E st \in {"OK", "IOError", "Killed"} :
         /\ Return(c, st)
         /\ \/ Ending(c)
            \/ /\ st = "OK" /\ UNCHANGED nsVars
               /\ \/ pc[c] = "rpc" /\ job[c].op = "put" /\ chunk[c] > job[c].len
                  \/ pc[c] = "read" /\ chunk[c] > Len(found[c])
    /\ UNCHANGED <<nnVars, dnVars, job, data, history>>
    /\ \/ UNCHANGED nsVars
       \/ job[c].op = "rm" /\ Delete(job[c].path)
       \/ job[c].op = "mkdir" /\ MkdirsOp(job[c].path)

\* c connects.
Connected(c) ==
    /\ pc[c] = "idle" /\ Accepting
    /\ conn' = [conn EXCEPT ![c] = "queued"]
    /\ pc' = [pc EXCEPT ![c] = "rpc"]
    /\ sawDone' = [sawDone EXCEPT ![c] =
         {x \in Clients : job[c].op = "get" /\ status[x] = "OK"}]
    /\ UNCHANGED <<nsVars, nnVars, dnVars, job, data, alloc, chunk, idx, found, status, dirOf,
                   owner, targetsOf>>

\* c reads a block, or turns to the next location.
Reads(c) ==
    /\ pc[c] = "read" /\ chunk[c] <= Len(found[c])
    /\ idx[c] <= Len(found[c][chunk[c]].locations)
    /\ LET f == found[c][chunk[c]]
           d == f.locations[idx[c]]
       IN  \/ /\ Readable(d, f.block)
              /\ data' = [data EXCEPT ![c] = Append(@, stored[dirOf[d]][f.block])]
              /\ chunk' = [chunk EXCEPT ![c] = @ + 1]
              /\ idx' = [idx EXCEPT ![c] = 1]
           \/ /\ ~ Readable(d, f.block)
              /\ idx' = [idx EXCEPT ![c] = @ + 1]
              /\ UNCHANGED <<data, chunk>>
    /\ UNCHANGED <<nsVars, nnVars, dnVars, conn, pc, job, alloc, found, status, history>>

\* A DataNode's process ends.
Dies(d) ==
    /\ DataNodeGone(d)
    /\ \/ faults' = faults /\ conn[d] = "reset"
       \/ FaultAllowed /\ faults' = faults + 1

\* The steps, with the ends of calls and of DataNodes taken together.
LEMMA Steps ==
    ASSUME NdfsNext
    PROVE  \/ \E c \in Clients :
                \/ Connected(c) \/ Ends(c) \/ PutAlloc(c) \/ SendSkipped(c) \/ StoreOpen(c)
                \/ StoreWrite(c) \/ Confirm(c) \/ NextChunk(c) \/ GetLocations(c) \/ Reads(c)
           \/ \E d \in DataNodes :
                DataNodeStart(d) \/ SendHeartbeat(d) \/ SendBlockReport(d) \/ Dies(d)
           \/ NameNodeSave \/ NameNodeStopServer \/ NameNodeStopped
           \/ \E x \in Processes : WorkerTakes(x) \/ NameNodeCloses(x)
           \/ NameNodeKill \/ NameNodeExit \/ NameNodeStart
<1>1. ASSUME NEW c \in Clients, Connect(c) PROVE Connected(c) \/ Ends(c)
  BY <1>1 DEF Connect, Connected, Ends, Ending, Goto, history
<1>2. ASSUME NEW c \in Clients, RpcLost(c) PROVE Ends(c)
  BY <1>2 DEF RpcLost, Ends, Ending
<1>3. ASSUME NEW c \in Clients, PutDone(c) PROVE Ends(c)
  BY <1>3 DEF PutDone, Ends, Ending
<1>4. ASSUME NEW c \in Clients, ConfirmKilled(c) PROVE Ends(c)
  BY <1>4 DEF ConfirmKilled, Ends, Ending
<1>5. ASSUME NEW c \in Clients, GetDone(c) PROVE Ends(c)
  BY <1>5 DEF GetDone, Ends, Ending
<1>6. ASSUME NEW c \in Clients, TransferKilled(c) PROVE Ends(c)
  BY <1>6 DEF TransferKilled, Ends, Ending
<1>7. ASSUME NEW c \in Clients, RemoveCall(c) PROVE Ends(c)
  <2>1. PICK ok \in BOOLEAN :
           /\ Handle([op |-> "Delete", path |-> job[c].path], ok)
           /\ Return(c, IF ok THEN "OK" ELSE "IOError")
    BY <1>7 DEF RemoveCall
  <2>2. Delete(job[c].path) \/ UNCHANGED nsVars
    BY <2>1, Handlers
  <2>3. (IF ok THEN "OK" ELSE "IOError") \in {"OK", "IOError", "Killed"}
    OBVIOUS
  <2>4. Ending(c) /\ job[c].op = "rm" /\ UNCHANGED <<nnVars, dnVars, job, data, history>>
    BY <1>7 DEF RemoveCall, Ending
  <2>5. QED
    BY <2>1, <2>2, <2>3, <2>4 DEF Ends
<1>8. ASSUME NEW c \in Clients, MkdirsCall(c) PROVE Ends(c)
  <2>1. PICK ok \in BOOLEAN :
           /\ Handle([op |-> "Mkdirs", path |-> job[c].path], ok)
           /\ Return(c, IF ok THEN "OK" ELSE "IOError")
    BY <1>8 DEF MkdirsCall
  <2>2. MkdirsOp(job[c].path)
    BY <2>1, Handlers
  <2>3. (IF ok THEN "OK" ELSE "IOError") \in {"OK", "IOError", "Killed"}
    OBVIOUS
  <2>4. Ending(c) /\ job[c].op = "mkdir" /\ UNCHANGED <<nnVars, dnVars, job, data, history>>
    BY <1>8 DEF MkdirsCall, Ending
  <2>5. QED
    BY <2>1, <2>2, <2>3, <2>4 DEF Ends
<1>9. ASSUME NEW c \in Clients, ReadBlock(c) PROVE Reads(c) \/ Ends(c)
  <2>1. CASE idx[c] > Len(found[c][chunk[c]].locations) /\ Return(c, "IOError") /\ UNCHANGED data
    BY <1>9, <2>1 DEF ReadBlock, Ends, Ending
  <2>2. CASE ~ (idx[c] > Len(found[c][chunk[c]].locations) /\ Return(c, "IOError") /\ UNCHANGED data)
    BY <1>9, <2>2 DEF ReadBlock, Reads
  <2>3. QED
    BY <2>1, <2>2
<1>10. ASSUME NEW d \in DataNodes,
              HeartbeatKilled(d) \/ ReportKilled(d) \/ DataNodeStop(d) \/ DataNodeKill(d)
       PROVE  Dies(d)
  BY <1>10 DEF HeartbeatKilled, ReportKilled, DataNodeStop, DataNodeKill, Dies
<1>11. ASSUME NEW c \in Clients, ClientStep(c)
       PROVE  \/ Connected(c) \/ Ends(c) \/ PutAlloc(c) \/ SendSkipped(c) \/ StoreOpen(c)
              \/ StoreWrite(c) \/ Confirm(c) \/ NextChunk(c) \/ GetLocations(c) \/ Reads(c)
  BY <1>2, <1>3, <1>4, <1>5, <1>6, <1>7, <1>8, <1>9, <1>11 DEF ClientStep
<1>12. ASSUME NEW d \in DataNodes, DataNodeStep(d)
       PROVE  SendHeartbeat(d) \/ SendBlockReport(d) \/ Dies(d)
  BY <1>10, <1>12 DEF DataNodeStep
<1>13. QED
  BY <1>1, <1>10, <1>11, <1>12 DEF NdfsNext

-----------------------------------------------------------------------------
(***************************************************************************)
(* Types                                                                   *)
(***************************************************************************)

\* What a step does to the name system: a restart aside, one of its own steps.
NsSteps == UNCHANGED nsVars \/ ClientNext \/ DataNodeNext

\* The allocation of a put is an allocation of the name system, or a refusal.
LEMMA PutAllocStep ==
    ASSUME TypeInv, NEW c \in Clients, PutAlloc(c)
    PROVE  \E r \in AllocResults(Fresh) \cup {NoAlloc} :
             /\ IF chunk[c] = 1 THEN StartFile(job[c].path, FALSE, job[c].overwrite, r)
                                ELSE AddBlock(job[c].path, r)
             /\ alloc' = [alloc EXCEPT ![c] = r]
             /\ owner' = [b \in Blocks |-> IF b = r.block THEN <<c, chunk[c]>> ELSE owner[b]]
             /\ targetsOf' = [b \in Blocks |-> IF b = r.block THEN r.targets ELSE targetsOf[b]]
<1>1. PICK r \in AllocResults(Fresh) \cup {NoAlloc} :
         /\ IF chunk[c] = 1
              THEN Handle([op |-> "StartFile", path |-> job[c].path,
                           overwrite |-> job[c].overwrite], r)
              ELSE Handle([op |-> "AddBlock", path |-> job[c].path], r)
         /\ alloc' = [alloc EXCEPT ![c] = r]
         /\ owner' = [b \in Blocks |-> IF b = r.block THEN <<c, chunk[c]>> ELSE owner[b]]
         /\ targetsOf' = [b \in Blocks |-> IF b = r.block THEN r.targets ELSE targetsOf[b]]
  BY DEF PutAlloc
<1>2. IF chunk[c] = 1 THEN StartFile(job[c].path, FALSE, job[c].overwrite, r)
                      ELSE AddBlock(job[c].path, r)
  BY <1>1, Handlers
<1>3. QED
  BY <1>1, <1>2

\* A put's job has a length and a flag.
LEMMA JobFacts ==
    ASSUME Shapes, NEW c \in Clients
    PROVE  /\ job[c].path \in Paths
           /\ job[c].op \in {"put", "get", "rm", "mkdir"}
           /\ job[c].op = "put" => job[c].len \in Nat /\ job[c].overwrite \in BOOLEAN
BY DEF Shapes, Jobs

\* So it is a client's step of the name system.
LEMMA PutAllocNs == ASSUME TypeInv, NEW c \in Clients, PutAlloc(c) PROVE ClientNext
<1>1. PICK r \in AllocResults(Fresh) \cup {NoAlloc} :
         IF chunk[c] = 1 THEN StartFile(job[c].path, FALSE, job[c].overwrite, r)
                         ELSE AddBlock(job[c].path, r)
  BY PutAllocStep
<1>2. job[c].path \in Paths /\ job[c].overwrite \in BOOLEAN
  BY JobFacts DEF PutAlloc, TypeInv
<1>3. CASE StartFile(job[c].path, FALSE, job[c].overwrite, r)
  BY <1>2, <1>3 DEF ClientNext
<1>4. CASE AddBlock(job[c].path, r)
  BY <1>2, <1>4 DEF ClientNext
<1>5. QED
  BY <1>1, <1>3, <1>4

\* The end of a call is a step of the name system, or none.
LEMMA EndsNs == ASSUME TypeInv, NEW c \in Clients, Ends(c) PROVE NsSteps
<1>1. job[c].path \in Paths
  BY JobFacts DEF TypeInv
<1>2. UNCHANGED nsVars \/ Delete(job[c].path) \/ MkdirsOp(job[c].path)
  BY DEF Ends
<1>3. QED
  BY <1>1, <1>2 DEF NsSteps, ClientNext

\* A client confirms the block it was given.
LEMMA ConfirmNs ==
    ASSUME TypeInv, NEW c \in Clients, Confirm(c)
    PROVE  /\ alloc[c].block \in generated /\ alloc[c].targets[idx[c]] \in DataNodes
           /\ idx[c] \in DOMAIN alloc[c].targets
           /\ \/ UNCHANGED nsVars
              \/ BlockReceived(alloc[c].targets[idx[c]], alloc[c].block)
<1> DEFINE s == alloc[c].targets
<1>1. s \in Seq(DataNodes) /\ idx[c] \in Nat \ {0} /\ idx[c] <= Len(s)
  BY DEF TypeInv, Shapes, Allocs, Confirm
<1> HIDE DEF s
<1>2. idx[c] \in DOMAIN s /\ s[idx[c]] \in DataNodes /\ s # <<>>
  BY <1>1
<1>3. alloc[c].block \in generated
  BY <1>2 DEF TypeInv, Known, NoAlloc, s
<1>4. UNCHANGED nsVars \/ BlockReceived(s[idx[c]], alloc[c].block)
  BY Handlers DEF Confirm, s
<1>5. QED
  BY <1>2, <1>3, <1>4 DEF s

\* A DataNode's calls.
LEMMA DataNodeNs ==
    ASSUME TypeInv, NEW d \in DataNodes
    PROVE  /\ SendHeartbeat(d) => UNCHANGED nsVars \/ Heartbeat(d)
           /\ SendBlockReport(d) => UNCHANGED nsVars \/ BlockReport(d, GetBlockReport(d))
           /\ GetBlockReport(d) \subseteq generated
<1>1. GetBlockReport(d) \subseteq generated
  <2>1. dirOf[d] \in Dirs
    BY DEF TypeInv, Shapes
  <2>2. QED
    BY <2>1 DEF GetBlockReport, TypeInv, Known
<1>2. QED
  BY <1>1, Handlers DEF SendHeartbeat, SendBlockReport

\* The name system's part of every step.
LEMMA NsEffect ==
    ASSUME TypeInv, NdfsNext
    PROVE  NameNodeStart \/ NsSteps
<1>1. ASSUME NEW c \in Clients,
             \/ Connected(c) \/ Ends(c) \/ PutAlloc(c) \/ SendSkipped(c) \/ StoreOpen(c)
             \/ StoreWrite(c) \/ Confirm(c) \/ NextChunk(c) \/ GetLocations(c) \/ Reads(c)
      PROVE  NsSteps
  <2>1. CASE Ends(c)
    BY <2>1, EndsNs
  <2>2. CASE PutAlloc(c)
    BY <2>2, PutAllocNs DEF NsSteps
  <2>3. CASE Confirm(c)
    BY <2>3, ConfirmNs DEF NsSteps, DataNodeNext
  <2>4. CASE GetLocations(c)
    <3>1. UNCHANGED nsVars
      BY <2>4, Handlers DEF GetLocations
    <3>2. QED
      BY <3>1 DEF NsSteps
  <2>5. CASE Connected(c) \/ SendSkipped(c) \/ StoreOpen(c) \/ StoreWrite(c) \/ NextChunk(c) \/ Reads(c)
    BY <2>5 DEF Connected, SendSkipped, StoreOpen, StoreWrite, NextChunk, Reads, NsSteps
  <2>6. QED
    BY <1>1, <2>1, <2>2, <2>3, <2>4, <2>5
<1>2. ASSUME NEW d \in DataNodes,
             DataNodeStart(d) \/ SendHeartbeat(d) \/ SendBlockReport(d) \/ Dies(d)
      PROVE  NsSteps
  <2>1. CASE SendHeartbeat(d)
    BY <2>1, DataNodeNs DEF NsSteps, DataNodeNext
  <2>2. CASE SendBlockReport(d)
    BY <2>2, DataNodeNs DEF NsSteps, DataNodeNext
  <2>3. CASE DataNodeStart(d) \/ Dies(d)
    BY <2>3 DEF DataNodeStart, Dies, DataNodeGone, NsSteps
  <2>4. QED
    BY <1>2, <2>1, <2>2, <2>3
<1>3. CASE NameNodeSave \/ NameNodeStopServer \/ NameNodeStopped \/ NameNodeKill \/ NameNodeExit
           \/ \E x \in Processes : WorkerTakes(x) \/ NameNodeCloses(x)
  BY <1>3 DEF NameNodeSave, NameNodeStopServer, NameNodeStopped, NameNodeKill,
              WorkerTakes, NameNodeCloses, NameNodeExit, SocketsClosed, NsSteps
<1>4. QED
  BY <1>1, <1>2, <1>3, Steps

\* The name system's types, through restarts.
LEMMA NsPart ==
    ASSUME TypeInv, NdfsNext
    PROVE  NsTypeOK' /\ IsFiniteSet(Nodes(tree')) /\ generated \subseteq generated'
<1>0. NsTypeOK /\ IsFiniteSet(Nodes(tree)) /\ image \in Seq(Lines)
  BY DEF TypeInv, NdfsTypeOK, Shapes
<1>1. CASE NameNodeStart
  <2>1. tree' \in FromLines(image)
    BY <1>0, <1>1, LoadWellFormed DEF NameNodeStart
  <2>2. tree' \in [Paths -> INodes] /\ IsFiniteSet(Nodes(tree'))
    BY <2>1 DEF FromLines, Trees
  <2>3. NsTypeOK'
    BY <1>0, <1>1, <2>2, ConstantsAssumption DEF NameNodeStart, NsTypeOK
  <2>4. QED
    BY <1>1, <2>2, <2>3 DEF NameNodeStart
<1>2. CASE UNCHANGED nsVars
  BY <1>0, <1>2 DEF nsVars, mapVars, safeModeVars, leaseVars, NsTypeOK
<1>3. CASE ClientNext
  <2>1. generated \subseteq generated'
    BY <1>3 DEF ClientNext, StartFile, StartFileRefused, StartFileFailed, StartFileCreated,
                AddBlock, Allocate, Delete, MkdirsOp, nsVars
  <2>2. QED
    BY <1>0, <1>3, <2>1, ClientType, ClientFinite
<1>4. CASE DataNodeNext
  <2>1. UNCHANGED <<tree, generated>>
    BY <1>4 DEF DataNodeNext, RegisterDataNode, Heartbeat, BlockReport, BlockReceived, nsVars
  <2>2. QED
    BY <1>0, <1>4, <2>1, DataNodeType
<1>5. QED
  BY <1>1, <1>2, <1>3, <1>4, NsEffect DEF NsSteps

\* The rest of the types.
RestOK ==
    /\ nn \in {"up", "saved", "stopping", "hung", "down"}
    /\ dn \in [DataNodes -> {"down", "registering", "reporting", "up"}]
    /\ conn \in [Processes -> ConnStates]
    /\ pc \in [Clients -> {"idle", "rpc", "send", "storing", "confirm", "read", "done"}]
    /\ status \in [Clients -> {"none", "OK", "IOError", "Killed"}]
    /\ stops \in Nat /\ faults \in Nat
    /\ image \in Seq(Lines)
    /\ stored \in [Dirs -> [Blocks -> Contents]]
    /\ dirOf \in [DataNodes -> Dirs] /\ job \in [Clients -> Jobs]
    /\ chunk \in [Clients -> Nat \ {0}] /\ idx \in [Clients -> Nat \ {0}]
    /\ alloc \in [Clients -> Allocs]
    /\ found \in [Clients -> Seq(Founds)]
    /\ data \in [Clients -> Seq(Contents)]
    /\ owner \in [Blocks -> {NoData} \cup (Clients \X Nat)]
    /\ targetsOf \in [Blocks -> Seq(DataNodes)]
    /\ sawDone \in [Clients -> SUBSET Clients]

\* TypeInv in its two parts.
LEMMA TypeParts ==
    TypeInv <=> /\ NsTypeOK /\ IsFiniteSet(Nodes(tree))
                /\ RestOK
                /\ Known
<1>1. stored \in [Dirs -> [Blocks -> Contents]] =>
        \A x \in Dirs, b \in Blocks : stored[x][b] \in Contents
  OBVIOUS
<1>2. QED
  BY <1>1 DEF TypeInv, NdfsTypeOK, Shapes, RestOK, ConnStates

\* What a Write changes.
LEMMA WriteFacts ==
    ASSUME stored \in [Dirs -> [Blocks -> Contents]], NEW c, NEW v \in Contents, Write(c, v)
    PROVE  /\ stored' \in [Dirs -> [Blocks -> Contents]]
           /\ \A x \in Dirs, b \in Blocks : stored'[x][b] =
                IF x = dirOf[alloc[c].targets[1]] /\ b = alloc[c].block THEN v ELSE stored[x][b]
<1> DEFINE x0 == dirOf[alloc[c].targets[1]]
           b0 == alloc[c].block
<1>1. stored' = [stored EXCEPT ![x0][b0] = v]
  BY DEF Write
<1> HIDE DEF x0, b0
<1>2. QED
  <2>1. /\ stored' \in [Dirs -> [Blocks -> Contents]]
        /\ \A x \in Dirs, b \in Blocks : stored'[x][b] =
                IF x = x0 /\ b = b0 THEN v ELSE stored[x][b]
    <3>1. CASE x0 \in Dirs
      <4>1. [stored[x0] EXCEPT ![b0] = v] \in [Blocks -> Contents]
        BY <3>1
      <4>2. QED
        BY <1>1, <3>1, <4>1
    <3>2. CASE x0 \notin Dirs
      BY <1>1, <3>2
    <3>3. QED
      BY <3>1, <3>2
  <2>2. QED
    BY <2>1 DEF x0, b0

\* The steps of a client keep its types.
LEMMA ClientRest ==
    ASSUME TypeInv, NEW c \in Clients,
           \/ Connected(c) \/ Ends(c) \/ PutAlloc(c) \/ SendSkipped(c) \/ StoreOpen(c)
           \/ StoreWrite(c) \/ Confirm(c) \/ NextChunk(c) \/ GetLocations(c) \/ Reads(c)
    PROVE  RestOK'
<1>0. RestOK /\ NsTypeOK /\ Known
  BY TypeParts
<1> USE DEF nnVars, dnVars, history, RestOK
<1>00. /\ c \in Processes /\ NoAlloc \in Allocs /\ Partial \in Contents /\ <<>> \in Seq(Founds)
       /\ {"none", "queued", "open", "closed", "reset"} \subseteq ConnStates
  BY DEF Processes, NoAlloc, Allocs, Contents, ConnStates
<1>1. CASE Connected(c)
  BY <1>0, <1>00, <1>1 DEF Connected
<1>2. CASE Ends(c)
  BY <1>0, <1>00, <1>2 DEF Ends, Return
<1>3. CASE PutAlloc(c)
  <2>1. PICK r \in AllocResults(Fresh) \cup {NoAlloc} :
             /\ alloc' = [alloc EXCEPT ![c] = r]
             /\ owner' = [b \in Blocks |-> IF b = r.block THEN <<c, chunk[c]>> ELSE owner[b]]
             /\ targetsOf' = [b \in Blocks |-> IF b = r.block THEN r.targets ELSE targetsOf[b]]
    BY <1>3, PutAllocStep
  <2>2. r \in Allocs
    BY <1>0, AllocResultFacts
  <2>3. <<c, chunk[c]>> \in Clients \X Nat /\ r.targets \in Seq(DataNodes)
    BY <1>0, <2>2 DEF Allocs
  <2>4. /\ alloc' \in [Clients -> Allocs]
        /\ owner' \in [Blocks -> {NoData} \cup (Clients \X Nat)]
        /\ targetsOf' \in [Blocks -> Seq(DataNodes)]
    BY <1>0, <2>1, <2>2, <2>3
  <2>5. QED
    BY <1>0, <1>00, <1>3, <2>4 DEF PutAlloc, Served, Goto
<1>4. CASE SendSkipped(c)
  BY <1>0, <1>4 DEF SendSkipped, Goto
<1>5. CASE StoreOpen(c)
  <2>1. stored' \in [Dirs -> [Blocks -> Contents]]
    BY <1>0, <1>00, <1>5, WriteFacts DEF StoreOpen
  <2>2. faults' \in Nat
    BY <1>0, <1>5 DEF StoreOpen
  <2>3. pc' \in [Clients -> {"idle", "rpc", "send", "storing", "confirm", "read", "done"}]
    <3>1. pc' = [pc EXCEPT ![c] = "storing"] \/ pc' = [pc EXCEPT ![c] = "confirm"]
      BY <1>5 DEF StoreOpen, Goto
    <3>2. QED
      BY <1>0, <3>1
  <2>4. QED
    BY <1>0, <1>5, <2>1, <2>2, <2>3 DEF StoreOpen
<1>6. CASE StoreWrite(c)
  <2>1. ChunkData(c) \in Contents
    BY <1>0 DEF ChunkData, Contents
  <2>2. stored' \in [Dirs -> [Blocks -> Contents]]
    BY <1>0, <2>1, <1>6, WriteFacts DEF StoreWrite
  <2>3. faults' \in Nat /\ pc' \in [Clients -> {"idle", "rpc", "send", "storing", "confirm", "read", "done"}]
    BY <1>0, <1>6 DEF StoreWrite, Goto
  <2>4. QED
    BY <1>0, <1>6, <2>2, <2>3 DEF StoreWrite
<1>7. CASE Confirm(c)
  <2>1. conn' \in [Processes -> ConnStates]
    BY <1>0, <1>00, <1>7 DEF Confirm, Served, CallFails
  <2>2. idx' \in [Clients -> Nat \ {0}]
    BY <1>0, <1>7 DEF Confirm
  <2>3. QED
    BY <1>0, <1>7, <2>1, <2>2 DEF Confirm
<1>8. CASE NextChunk(c)
  BY <1>0, <1>00, <1>8 DEF NextChunk, Goto
<1>9. CASE GetLocations(c)
  <2>1. GetBlocks(job[c].path) \in Seq(Founds)
    BY <1>0, JobFacts, GetBlocksFacts DEF TypeInv
  <2>2. QED
    BY <1>0, <1>00, <1>9, <2>1 DEF GetLocations, Served, Goto
<1>10. CASE Reads(c)
  <2> DEFINE f == found[c][chunk[c]]
             d == f.locations[idx[c]]
  <2>1. f \in Founds
    <3>1. found[c] \in Seq(Founds) /\ chunk[c] \in Nat \ {0} /\ chunk[c] <= Len(found[c])
      BY <1>0, <1>10 DEF Reads
    <3>2. QED
      BY <3>1
  <2>2. f.block \in Blocks /\ f.locations \in Seq(DataNodes)
    BY <2>1 DEF Founds
  <2>3. d \in DataNodes
    <3> HIDE DEF f
    <3>1. idx[c] \in Nat \ {0} /\ idx[c] <= Len(f.locations)
      BY <1>0, <1>10 DEF Reads, f
    <3>2. QED
      BY <2>2, <3>1
  <2> HIDE DEF d, f
  <2>4. stored[dirOf[d]][f.block] \in Contents
    BY <1>0, <2>2, <2>3
  <2>5. Append(data[c], stored[dirOf[d]][f.block]) \in Seq(Contents)
    BY <1>0, <2>4
  <2>6. /\ chunk' \in [Clients -> Nat \ {0}] /\ idx' \in [Clients -> Nat \ {0}]
        /\ data' \in [Clients -> Seq(Contents)]
    <3>1. \/ /\ data' = [data EXCEPT ![c] = Append(@, stored[dirOf[d]][f.block])]
             /\ chunk' = [chunk EXCEPT ![c] = @ + 1]
             /\ idx' = [idx EXCEPT ![c] = 1]
          \/ idx' = [idx EXCEPT ![c] = @ + 1] /\ UNCHANGED <<data, chunk>>
      BY <1>10 DEF Reads, d, f
    <3>2. /\ chunk \in [Clients -> Nat \ {0}] /\ idx \in [Clients -> Nat \ {0}]
          /\ data \in [Clients -> Seq(Contents)]
      BY <1>0
    <3> HIDE DEF RestOK
    <3> DEFINE e == Append(data[c], stored[dirOf[d]][f.block])
    <3>3. e \in Seq(Contents) /\ (data' = [data EXCEPT ![c] = e] \/ data' = data)
      BY <2>5, <3>1
    <3> HIDE DEF e
    <3>4. data' \in [Clients -> Seq(Contents)]
      BY <3>2, <3>3
    <3>5. chunk' \in [Clients -> Nat \ {0}] /\ idx' \in [Clients -> Nat \ {0}]
      <4>1. \/ chunk' = [chunk EXCEPT ![c] = @ + 1] /\ idx' = [idx EXCEPT ![c] = 1]
            \/ idx' = [idx EXCEPT ![c] = @ + 1] /\ chunk' = chunk
        BY <3>1
      <4>2. chunk[c] + 1 \in Nat \ {0} /\ idx[c] + 1 \in Nat \ {0} /\ 1 \in Nat \ {0}
        BY <3>2
      <4>3. QED
        BY <4>1, <4>2, <3>2, Zenon
    <3>6. QED
      BY <3>4, <3>5
  <2>7. QED
    BY <1>0, <1>10, <2>6 DEF Reads
<1>11. QED
  BY <1>1, <1>2, <1>3, <1>4, <1>5, <1>6, <1>7, <1>8, <1>9, <1>10

\* So do the steps of DataNodes and of the NameNode.
LEMMA ServerRest ==
    ASSUME TypeInv,
           \/ \E d \in DataNodes :
                DataNodeStart(d) \/ SendHeartbeat(d) \/ SendBlockReport(d) \/ Dies(d)
           \/ NameNodeSave \/ NameNodeStopServer \/ NameNodeStopped
           \/ \E x \in Processes : WorkerTakes(x) \/ NameNodeCloses(x)
           \/ NameNodeKill \/ NameNodeExit \/ NameNodeStart
    PROVE  RestOK'
<1>0. RestOK /\ NsTypeOK /\ Known /\ IsFiniteSet(Nodes(tree))
  BY TypeParts
<1> USE DEF nnVars, dnVars, history, clientVars, RestOK
<1>1. ASSUME NEW d \in DataNodes,
             DataNodeStart(d) \/ SendHeartbeat(d) \/ SendBlockReport(d) \/ Dies(d)
      PROVE  RestOK'
  <2>0. d \in Processes
    BY DEF Processes
  <2>1. CASE DataNodeStart(d)
    BY <1>0, <2>0, <2>1 DEF DataNodeStart, ConnStates
  <2>2. CASE SendHeartbeat(d)
    BY <1>0, <2>0, <2>2 DEF SendHeartbeat, Served, CallFails, ConnStates
  <2>3. CASE SendBlockReport(d)
    BY <1>0, <2>0, <2>3 DEF SendBlockReport, Served, CallFails, ConnStates
  <2>4. CASE Dies(d)
    BY <1>0, <2>0, <2>4 DEF Dies, DataNodeGone, ConnStates
  <2>5. QED
    BY <1>1, <2>1, <2>2, <2>3, <2>4
<1>2. CASE NameNodeSave
  <2>1. image' \in Seq(Lines)
    <3>1. tree \in Trees
      BY <1>0 DEF NsTypeOK, Trees
    <3>2. \/ image' \in Save(tree) \/ image' = image
          \/ \E img \in Save(tree) : image' \in Torn(img)
      BY <1>2 DEF NameNodeSave
    <3>3. QED
      BY <1>0, <3>1, <3>2, SaveFacts, TornFacts
  <2>2. QED
    BY <1>0, <1>2, <2>1 DEF NameNodeSave
<1>3. CASE NameNodeStopServer \/ NameNodeStopped
  BY <1>0, <1>3 DEF NameNodeStopServer, NameNodeStopped, ConnStates
<1>4. ASSUME NEW x \in Processes, WorkerTakes(x) \/ NameNodeCloses(x) PROVE RestOK'
  BY <1>0, <1>4 DEF NameNodeCloses, WorkerTakes, ConnStates
<1>5. CASE NameNodeKill \/ NameNodeExit
  BY <1>0, <1>5 DEF NameNodeKill, NameNodeExit, SocketsClosed, ConnStates
<1>6. CASE NameNodeStart
  BY <1>0, <1>6 DEF NameNodeStart
<1>7. QED
  BY <1>1, <1>2, <1>3, <1>4, <1>5, <1>6

-----------------------------------------------------------------------------
\* A put's call for a block: it is refused, and the tree may lose what
\* StartFile has deleted, or a fresh block is appended to the file.
Refused(c) ==
    /\ alloc' = [alloc EXCEPT ![c] = NoAlloc]
    /\ UNCHANGED <<owner, targetsOf, mapVars, safeModeVars, leaseVars, generated>>
    /\ Derived(tree, tree')
    /\ chunk[c] # 1 => tree' = tree /\ ~ IsFile(tree, job[c].path)

Granted(c, t, r) ==
    /\ r \in AllocResults(Fresh) /\ r # NoAlloc /\ r.block \in Blocks \ generated
    /\ alloc' = [alloc EXCEPT ![c] = r]
    /\ owner' = [owner EXCEPT ![r.block] = <<c, chunk[c]>>]
    /\ targetsOf' = [targetsOf EXCEPT ![r.block] = r.targets]
    /\ Allocate(t, job[c].path, r)
    /\ t \in Trees /\ Derived(tree, t)
    /\ chunk[c] = 1 => CreateFileOk(t, job[c].path)
    /\ chunk[c] # 1 => t = tree /\ IsFile(tree, job[c].path)

\* Those are the two cases.
LEMMA PutAllocCases ==
    ASSUME TypeInv, NEW c \in Clients, PutAlloc(c)
    PROVE  Refused(c) \/ \E t, r : Granted(c, t, r)
<1> DEFINE p == job[c].path
<1>0. p \in Paths /\ tree \in Trees /\ NsTypeOK
  BY JobFacts DEF TypeInv, NdfsTypeOK, NsTypeOK, Trees
<1>1. PICK r \in AllocResults(Fresh) \cup {NoAlloc} :
             /\ IF chunk[c] = 1 THEN StartFile(p, FALSE, job[c].overwrite, r)
                                ELSE AddBlock(p, r)
             /\ alloc' = [alloc EXCEPT ![c] = r]
             /\ owner' = [b \in Blocks |-> IF b = r.block THEN <<c, chunk[c]>> ELSE owner[b]]
             /\ targetsOf' = [b \in Blocks |-> IF b = r.block THEN r.targets ELSE targetsOf[b]]
  BY PutAllocStep
<1>2. Derived(tree, tree) /\ Derived(tree, Prepared(p, FALSE)) /\ Prepared(p, FALSE) \in Trees
  BY <1>0, DerivedRefl, PreparedFacts
<1>3. CASE r = NoAlloc
  <2>1. owner' = owner /\ targetsOf' = targetsOf
    <3>1. r.block \notin Blocks
      BY <1>3, ConstantsAssumption DEF NoAlloc
    <3>2. owner \in [Blocks -> {NoData} \cup (Clients \X Nat)] /\ targetsOf \in [Blocks -> Seq(DataNodes)]
      BY DEF TypeInv, Shapes
    <3>3. QED
      BY <1>1, <3>1, <3>2
  <2>2. ~ \E t : Allocate(t, p, r)
    <3>1. r \notin AllocResults(Fresh)
      <4>1. SUFFICES ASSUME r \in AllocResults(Fresh) PROVE FALSE
        OBVIOUS
      <4>2. PICK b \in Blocks, s \in ChooseTargets(Replication) : r = [block |-> b, targets |-> s]
        BY <4>1 DEF AllocResults, Fresh
      <4>3. r.block = b /\ r.block = NoBlock
        BY <1>3, <4>2 DEF NoAlloc
      <4>4. QED
        BY <4>3, ConstantsAssumption
    <3>2. QED
      BY <3>1 DEF Allocate
  <2>3. CASE chunk[c] = 1
    <3>1. StartFileRefused(p, job[c].overwrite, r) \/ StartFileFailed(p, FALSE, job[c].overwrite, r)
      BY <1>1, <2>2, <2>3 DEF StartFile, StartFileCreated
    <3>2. /\ UNCHANGED <<mapVars, safeModeVars, leaseVars, generated>>
          /\ tree' = tree \/ tree' = Prepared(p, FALSE)
      BY <3>1 DEF StartFileRefused, StartFileFailed, nsVars
    <3>3. QED
      BY <1>1, <1>2, <1>3, <2>1, <2>3, <3>2 DEF Refused
  <2>4. CASE chunk[c] # 1
    <3>1. ~ IsFile(tree, p) /\ UNCHANGED nsVars
      BY <1>1, <2>2, <2>4 DEF AddBlock
    <3>2. QED
      BY <1>1, <1>2, <1>3, <2>1, <3>1 DEF Refused, nsVars
  <2>5. QED
    BY <2>3, <2>4
<1>4. CASE r # NoAlloc
  <2>1. r.block \in Blocks \ generated /\ r \in AllocResults(Fresh)
    BY <1>0, <1>4, AllocResultFacts
  <2>2. /\ owner' = [owner EXCEPT ![r.block] = <<c, chunk[c]>>]
        /\ targetsOf' = [targetsOf EXCEPT ![r.block] = r.targets]
    <3>1. owner \in [Blocks -> {NoData} \cup (Clients \X Nat)] /\ targetsOf \in [Blocks -> Seq(DataNodes)]
      BY DEF TypeInv, Shapes
    <3>2. QED
      BY <1>1, <3>1
  <2>3. CASE chunk[c] = 1
    <3>1. CreateFileOk(Prepared(p, FALSE), p) /\ Allocate(Prepared(p, FALSE), p, r)
      BY <1>1, <1>4, <2>3 DEF StartFile, StartFileCreated, StartFileRefused, StartFileFailed
    <3>2. Granted(c, Prepared(p, FALSE), r)
      BY <1>1, <1>2, <1>4, <2>1, <2>2, <2>3, <3>1 DEF Granted
    <3>3. QED
      BY <3>2
  <2>4. CASE chunk[c] # 1
    <3>1. IsFile(tree, p) /\ Allocate(tree, p, r)
      BY <1>1, <1>4, <2>4 DEF AddBlock
    <3>2. Granted(c, tree, r)
      BY <1>0, <1>1, <1>2, <1>4, <2>1, <2>2, <2>4, <3>1 DEF Granted
    <3>3. QED
      BY <3>2
  <2>5. QED
    BY <2>3, <2>4
<1>5. QED
  BY <1>3, <1>4

-----------------------------------------------------------------------------
\* The steps that write a block file, open or not.
Writes(c) ==
    /\ \/ pc[c] = "send" /\ FirstTargetUp(c) /\ Write(c, Partial)
       \/ /\ pc[c] = "storing" /\ Write(c, ChunkData(c))
          /\ pc' = [pc EXCEPT ![c] = "confirm"]
    /\ UNCHANGED <<nsVars, alloc, owner, targetsOf, dirOf>>

\* Any other step leaves the block files alone.
LEMMA StoredEffect ==
    ASSUME NdfsNext
    PROVE  stored' = stored \/ \E c \in Clients : Writes(c)
<1> USE DEF nnVars, dnVars, history, clientVars
<1>1. ASSUME NEW c \in Clients,
             \/ Connected(c) \/ Ends(c) \/ PutAlloc(c) \/ SendSkipped(c) \/ StoreOpen(c)
             \/ StoreWrite(c) \/ Confirm(c) \/ NextChunk(c) \/ GetLocations(c) \/ Reads(c)
      PROVE  stored' = stored \/ Writes(c)
  <2>1. CASE StoreOpen(c) \/ StoreWrite(c)
    BY <2>1 DEF StoreOpen, StoreWrite, Writes, Goto
  <2>2. CASE Connected(c) \/ Ends(c) \/ PutAlloc(c) \/ SendSkipped(c) \/ Confirm(c)
             \/ NextChunk(c) \/ GetLocations(c) \/ Reads(c)
    BY <2>2 DEF Connected, Ends, PutAlloc, SendSkipped, Confirm, NextChunk, GetLocations, Reads
  <2>3. QED
    BY <1>1, <2>1, <2>2
<1>2. ASSUME NEW d \in DataNodes,
             DataNodeStart(d) \/ SendHeartbeat(d) \/ SendBlockReport(d) \/ Dies(d)
      PROVE  stored' = stored
  BY <1>2 DEF DataNodeStart, SendHeartbeat, SendBlockReport, Dies, DataNodeGone
<1>3. CASE NameNodeSave \/ NameNodeStopServer \/ NameNodeStopped \/ NameNodeKill \/ NameNodeExit
           \/ NameNodeStart \/ \E x \in Processes : WorkerTakes(x) \/ NameNodeCloses(x)
  BY <1>3 DEF NameNodeSave, NameNodeStopServer, NameNodeStopped, NameNodeKill,
              WorkerTakes, NameNodeCloses, NameNodeExit, SocketsClosed,
              NameNodeStart
<1>4. QED
  BY <1>1, <1>2, <1>3, Steps

\* How allocations change: only a put's call sets one.
LEMMA AllocEffect ==
    ASSUME TypeInv, NdfsNext
    PROVE  \/ alloc' = alloc
           \/ \E c \in Clients : alloc' = [alloc EXCEPT ![c] = NoAlloc]
           \/ \E c \in Clients : PutAlloc(c)
<1> USE DEF nnVars, dnVars, history, clientVars
<1>1. ASSUME NEW c \in Clients,
             \/ Connected(c) \/ Ends(c) \/ PutAlloc(c) \/ SendSkipped(c) \/ StoreOpen(c)
             \/ StoreWrite(c) \/ Confirm(c) \/ NextChunk(c) \/ GetLocations(c) \/ Reads(c)
      PROVE  alloc' = alloc \/ alloc' = [alloc EXCEPT ![c] = NoAlloc] \/ PutAlloc(c)
  BY <1>1 DEF Connected, Ends, Return, SendSkipped, StoreOpen, StoreWrite, Confirm, NextChunk,
              GetLocations, Reads
<1>2. ASSUME NEW d \in DataNodes,
             DataNodeStart(d) \/ SendHeartbeat(d) \/ SendBlockReport(d) \/ Dies(d)
      PROVE  alloc' = alloc
  BY <1>2 DEF DataNodeStart, SendHeartbeat, SendBlockReport, Dies, DataNodeGone
<1>3. CASE NameNodeSave \/ NameNodeStopServer \/ NameNodeStopped \/ NameNodeKill \/ NameNodeExit
           \/ NameNodeStart \/ \E x \in Processes : WorkerTakes(x) \/ NameNodeCloses(x)
  BY <1>3 DEF NameNodeSave, NameNodeStopServer, NameNodeStopped, NameNodeKill,
              WorkerTakes, NameNodeCloses, NameNodeExit, SocketsClosed,
              NameNodeStart
<1>4. QED
  BY <1>1, <1>2, <1>3, Steps

\* Files and allocations stay of generated ids.
LEMMA KnownStep == ASSUME TypeInv, NdfsNext PROVE Known'
<1>0. Known /\ RestOK /\ NsTypeOK /\ generated \subseteq generated'
  BY TypeParts, NsPart
<1>1. \A x \in Dirs, b \in Blocks : stored'[x][b] # NoData => b \in generated'
  <2>1. CASE stored' = stored
    BY <1>0, <2>1 DEF Known
  <2>2. ASSUME NEW c \in Clients, Writes(c)
        PROVE  \A x \in Dirs, b \in Blocks : stored'[x][b] # NoData => b \in generated'
    <3>1. \A x \in Dirs, b \in Blocks : b # alloc[c].block => stored'[x][b] = stored[x][b]
      <4>1. Partial \in Contents /\ ChunkData(c) \in Contents
        BY <1>0 DEF RestOK, Contents, ChunkData
      <4>2. QED
        BY <1>0, <2>2, <4>1, WriteFacts DEF Writes, RestOK
    <3>2. alloc[c].block \in Blocks => alloc[c].block \in generated
      BY <1>0, ConstantsAssumption DEF Known, NoAlloc
    <3>3. QED
      BY <1>0, <3>1, <3>2 DEF Known
  <2>3. QED
    BY <2>1, <2>2, StoredEffect
<1>2. \A c \in Clients : alloc'[c] = NoAlloc \/ alloc'[c].block \in generated'
  <2>0. alloc \in [Clients -> Allocs]
    BY <1>0 DEF RestOK
  <2>1. CASE alloc' = alloc
    BY <1>0, <2>1 DEF Known
  <2>2. ASSUME NEW c \in Clients, alloc' = [alloc EXCEPT ![c] = NoAlloc]
        PROVE  \A e \in Clients : alloc'[e] = NoAlloc \/ alloc'[e].block \in generated'
    BY <1>0, <2>0, <2>2 DEF Known
  <2>3. ASSUME NEW c \in Clients, PutAlloc(c)
        PROVE  \A e \in Clients : alloc'[e] = NoAlloc \/ alloc'[e].block \in generated'
    <3>1. CASE Refused(c)
      BY <2>2, <3>1 DEF Refused
    <3>2. ASSUME NEW t, NEW r, Granted(c, t, r)
          PROVE  \A e \in Clients : alloc'[e] = NoAlloc \/ alloc'[e].block \in generated'
      BY <1>0, <2>0, <3>2 DEF Granted, Allocate, Known
    <3>3. QED
      BY <2>3, <3>1, <3>2, PutAllocCases
  <2>4. QED
    BY <2>1, <2>2, <2>3, AllocEffect
<1>3. QED
  BY <1>1, <1>2 DEF Known

\* TypeInv is kept by every step and holds at the start.
LEMMA TypeStep == ASSUME TypeInv, [NdfsNext]_vars PROVE TypeInv'
<1>1. CASE UNCHANGED vars
  BY <1>1 DEF vars, nsVars, mapVars, safeModeVars, leaseVars, nnVars, dnVars, clientVars, history,
     TypeInv, NdfsTypeOK, NsTypeOK, Shapes, Known
<1>2. CASE NdfsNext
  <2>1. RestOK'
    BY <1>2, ClientRest, ServerRest, Steps
  <2>2. NsTypeOK' /\ IsFiniteSet(Nodes(tree))' /\ Known'
    <3>1. IsFiniteSet(Nodes(tree'))
      BY <1>2, NsPart
    <3>2. QED
      BY <1>2, <3>1, NsPart, KnownStep
  <2>3. \A x \in Dirs, b \in Blocks : stored'[x][b] \in Contents
    BY <2>1 DEF RestOK
  <2>4. QED
    BY <2>1, <2>2, <2>3 DEF TypeInv, NdfsTypeOK, Shapes, RestOK, ConnStates
<1>3. QED
  BY <1>1, <1>2

\* The empty tree has one node.
LEMMA EmptyFinite == IsFiniteSet(Nodes(EmptyTree))
<1>1. EmptyTree \in FromLines(<<>>)
  BY EmptyFromLines
<1>2. QED
  BY <1>1 DEF FromLines

\* TypeInv holds at the start.
LEMMA TypeInit == NdfsInit => TypeInv
<1> SUFFICES ASSUME NdfsInit PROVE TypeInv
  OBVIOUS
<1>1. NsTypeOK /\ IsFiniteSet(Nodes(tree))
  BY InitType, EmptyFinite DEF NdfsInit, NsInit
<1>2. NoAlloc \in Allocs /\ NoData \in Contents /\ <<>> \in Seq(Founds) /\ <<>> \in Seq(Contents)
      /\ <<>> \in Seq(Lines) /\ <<>> \in Seq(DataNodes)
  BY DEF NoAlloc, Allocs, Contents
<1>3. dirOf \in [DataNodes -> Dirs] /\ job \in [Clients -> Jobs]
  BY NdfsAssumption DEF NdfsInit
<1>4. /\ stored \in [Dirs -> [Blocks -> Contents]]
      /\ \A x \in Dirs, b \in Blocks : stored[x][b] = NoData
  BY <1>2 DEF NdfsInit
<1>5. Shapes
  BY <1>1, <1>2, <1>3, <1>4 DEF NdfsInit, Shapes
<1>6. Known
  BY <1>4 DEF NdfsInit, Known
<1>7. 0 \in Nat
  OBVIOUS
<1>8. NdfsTypeOK
  BY <1>1, <1>2, <1>4, <1>7 DEF NdfsTypeOK, NdfsInit
<1>9. QED
  BY <1>5, <1>6, <1>8 DEF TypeInv

\* Type correctness of the composed system: with any number of clients,
\* DataNodes and blocks, whatever process dies or restarts, also a tree rebuilt
\* from an image is one (fsimage.h, name_node.h).
THEOREM NdfsTypeCorrect == NdfsSpec => []NdfsTypeOK
<1>1. TypeInv => NdfsTypeOK
  BY DEF TypeInv
<1>2. QED
  BY <1>1, TypeInit, TypeStep, PTL DEF NdfsSpec

-----------------------------------------------------------------------------
(***************************************************************************)
(* Who writes which block file                                             *)
(***************************************************************************)

\* Only a granted allocation adds to what is recorded of the blocks; calls and
\* directories never change.
LEMMA OwnerEffect ==
    ASSUME TypeInv, NdfsNext
    PROVE  /\ UNCHANGED <<job, dirOf>>
           /\ \/ UNCHANGED <<owner, targetsOf, generated>>
              \/ \E c \in Clients : PutAlloc(c) /\ \E t, r : Granted(c, t, r)
<1> USE DEF nnVars, dnVars, history, clientVars, nsVars
<1>1. ASSUME NEW c \in Clients,
             \/ Connected(c) \/ Ends(c) \/ PutAlloc(c) \/ SendSkipped(c) \/ StoreOpen(c)
             \/ StoreWrite(c) \/ Confirm(c) \/ NextChunk(c) \/ GetLocations(c) \/ Reads(c)
      PROVE  /\ UNCHANGED <<job, dirOf>>
             /\ \/ UNCHANGED <<owner, targetsOf, generated>>
                \/ PutAlloc(c) /\ \E t, r : Granted(c, t, r)
  <2>1. CASE PutAlloc(c)
    <3>1. UNCHANGED <<job, dirOf>>
      BY <2>1 DEF PutAlloc
    <3>2. QED
      BY <2>1, <3>1, PutAllocCases DEF Refused
  <2>2. CASE Ends(c)
    BY <2>2 DEF Ends, Delete, MkdirsOp
  <2>3. CASE Confirm(c)
    BY <2>3, ConfirmNs DEF Confirm, BlockReceived
  <2>4. CASE Connected(c) \/ SendSkipped(c) \/ StoreOpen(c) \/ StoreWrite(c) \/ NextChunk(c) \/ Reads(c)
    BY <2>4 DEF Connected, SendSkipped, StoreOpen, StoreWrite, NextChunk, Reads
  <2>5. CASE GetLocations(c)
    <3>1. UNCHANGED nsVars
      BY <2>5, Handlers DEF GetLocations
    <3>2. QED
      BY <2>5, <3>1 DEF GetLocations
  <2>6. QED
    BY <1>1, <2>1, <2>2, <2>3, <2>4, <2>5
<1>2. ASSUME NEW d \in DataNodes,
             DataNodeStart(d) \/ SendHeartbeat(d) \/ SendBlockReport(d) \/ Dies(d)
      PROVE  UNCHANGED <<job, dirOf, owner, targetsOf, generated>>
  <2>1. UNCHANGED <<job, dirOf, owner, targetsOf>>
    BY <1>2 DEF DataNodeStart, SendHeartbeat, SendBlockReport, Dies, DataNodeGone
  <2>2. UNCHANGED generated
    BY <1>2, DataNodeNs DEF DataNodeStart, Dies, DataNodeGone, BlockReport, Heartbeat, RegisterDataNode
  <2>3. QED
    BY <2>1, <2>2
<1>3. CASE NameNodeSave \/ NameNodeStopServer \/ NameNodeStopped \/ NameNodeKill \/ NameNodeExit
           \/ NameNodeStart \/ \E x \in Processes : WorkerTakes(x) \/ NameNodeCloses(x)
  BY <1>3 DEF NameNodeSave, NameNodeStopServer, NameNodeStopped, NameNodeKill,
              WorkerTakes, NameNodeCloses, NameNodeExit, SocketsClosed,
              NameNodeStart
<1>4. QED
  BY <1>1, <1>2, <1>3, Steps

\* A client's allocation, its chunk and its place change together.
LEMMA ClientEffect ==
    ASSUME TypeInv, Places, NdfsNext, NEW e \in Clients, alloc'[e] # NoAlloc
    PROVE  \/ PutAlloc(e)
           \/ /\ alloc'[e] = alloc[e] /\ chunk'[e] = chunk[e]
              /\ pc'[e] \in {"send", "storing"} => pc[e] \in {"send", "storing"}
<1>0. RestOK
  BY TypeParts
<1>00. /\ alloc \in [Clients -> Allocs] /\ chunk \in [Clients -> Nat \ {0}]
       /\ pc \in [Clients -> {"idle", "rpc", "send", "storing", "confirm", "read", "done"}]
  BY <1>0 DEF RestOK
<1> USE DEF nnVars, dnVars, history, clientVars
<1> DEFINE Goal == \/ PutAlloc(e)
                   \/ /\ alloc'[e] = alloc[e] /\ chunk'[e] = chunk[e]
                      /\ pc'[e] \in {"send", "storing"} => pc[e] \in {"send", "storing"}
<1>1. ASSUME NEW c \in Clients,
             \/ Connected(c) \/ Ends(c) \/ PutAlloc(c) \/ SendSkipped(c) \/ StoreOpen(c)
             \/ StoreWrite(c) \/ Confirm(c) \/ NextChunk(c) \/ GetLocations(c) \/ Reads(c)
      PROVE  Goal
  <2>1. CASE Connected(c)
    BY <1>00, <2>1 DEF Connected
  <2>2. CASE Ends(c)
    BY <1>00, <2>2 DEF Ends, Return
  <2>3. CASE PutAlloc(c)
    <3>1. PICK r : alloc' = [alloc EXCEPT ![c] = r]
      BY <2>3, PutAllocStep
    <3>2. pc' = [pc EXCEPT ![c] = "send"] /\ chunk' = chunk
      BY <2>3 DEF PutAlloc, Goto
    <3>3. QED
      BY <1>00, <2>3, <3>1, <3>2
  <2>4. CASE SendSkipped(c) \/ StoreOpen(c) \/ StoreWrite(c)
    BY <1>00, <2>4 DEF SendSkipped, StoreOpen, StoreWrite, Goto
  <2>5. CASE Confirm(c)
    BY <1>00, <2>5 DEF Confirm
  <2>6. CASE NextChunk(c)
    BY <1>00, <2>6 DEF NextChunk, Goto
  <2>7. CASE GetLocations(c)
    BY <1>00, <2>7 DEF GetLocations, Goto
  <2>8. CASE Reads(c)
    <3>1. e = c => alloc[e] = NoAlloc
      BY <2>8 DEF Places, Reads
    <3>2. alloc' = alloc /\ pc' = pc
      BY <2>8 DEF Reads
    <3>3. e # c => chunk'[e] = chunk[e]
      BY <1>00, <2>8 DEF Reads
    <3>4. QED
      BY <3>1, <3>2, <3>3
  <2>9. QED
    BY <1>1, <2>1, <2>2, <2>3, <2>4, <2>5, <2>6, <2>7, <2>8
<1>2. ASSUME NEW d \in DataNodes,
             DataNodeStart(d) \/ SendHeartbeat(d) \/ SendBlockReport(d) \/ Dies(d)
      PROVE  Goal
  BY <1>00, <1>2 DEF DataNodeStart, SendHeartbeat, SendBlockReport, Dies, DataNodeGone
<1>3. CASE NameNodeSave \/ NameNodeStopServer \/ NameNodeStopped \/ NameNodeKill \/ NameNodeExit
           \/ NameNodeStart \/ \E x \in Processes : WorkerTakes(x) \/ NameNodeCloses(x)
  BY <1>3 DEF NameNodeSave, NameNodeStopServer, NameNodeStopped, NameNodeKill,
              WorkerTakes, NameNodeCloses, NameNodeExit, SocketsClosed,
              NameNodeStart
<1>4. QED
  BY <1>1, <1>2, <1>3, Steps

\* Every step keeps Places.
LEMMA PlacesStep == ASSUME TypeInv, Places, NdfsNext PROVE Places'
<1>0. RestOK
  BY TypeParts
<1>00. /\ alloc \in [Clients -> Allocs] /\ chunk \in [Clients -> Nat \ {0}]
       /\ idx \in [Clients -> Nat \ {0}]
       /\ pc \in [Clients -> {"idle", "rpc", "send", "storing", "confirm", "read", "done"}]
       /\ conn \in [Processes -> ConnStates]
       /\ \A c \in Clients : c \in Processes /\ c \notin DataNodes
  BY <1>0, NdfsAssumption DEF RestOK, Processes
<1>01. NoAlloc.targets = <<>>
  BY DEF NoAlloc
<1>02. UNCHANGED job
  BY OwnerEffect
<1> USE DEF nnVars, dnVars, history, clientVars, Places
<1>1. ASSUME NEW c \in Clients,
             \/ Connected(c) \/ Ends(c) \/ PutAlloc(c) \/ SendSkipped(c) \/ StoreOpen(c)
             \/ StoreWrite(c) \/ Confirm(c) \/ NextChunk(c) \/ GetLocations(c) \/ Reads(c)
      PROVE  Places'
  <2>1. CASE Connected(c)
    BY <1>00, <1>02, <2>1 DEF Connected
  <2>2. CASE Ends(c)
    BY <1>00, <1>02, <2>2 DEF Ends, Return
  <2>3. CASE PutAlloc(c)
    <3>1. PICK r : alloc' = [alloc EXCEPT ![c] = r]
      BY <2>3, PutAllocStep, ZenonT(60)
    <3>2. QED
      BY <1>00, <1>02, <2>3, <3>1 DEF PutAlloc, Goto, Served
  <2>4. CASE SendSkipped(c)
    BY <1>00, <1>02, <2>4 DEF SendSkipped, Goto
  <2>5. CASE StoreOpen(c)
    <3>1. pc' = [pc EXCEPT ![c] = "storing"] \/ pc' = [pc EXCEPT ![c] = "confirm"]
      BY <2>5 DEF StoreOpen, Goto
    <3>2. UNCHANGED <<conn, chunk, alloc, idx>> /\ pc[c] = "send" /\ alloc[c].targets # <<>>
      BY <2>5 DEF StoreOpen, FirstTargetUp
    <3>3. QED
      BY <1>00, <1>02, <3>1, <3>2
  <2>6. CASE StoreWrite(c)
    BY <1>00, <1>02, <2>6 DEF StoreWrite, Goto
  <2>7. CASE Confirm(c)
    <3>1. UNCHANGED <<pc, chunk, alloc>> /\ pc[c] = "confirm" /\ idx' = [idx EXCEPT ![c] = @ + 1]
      BY <2>7 DEF Confirm
    <3>2. \A e \in Clients : e # c => conn'[e] = conn[e]
      BY <1>00, <2>7 DEF Confirm, Served, CallFails
    <3>3. QED
      BY <1>00, <1>02, <3>1, <3>2
  <2>8. CASE NextChunk(c)
    BY <1>00, <1>02, <2>8 DEF NextChunk, Goto
  <2>9. CASE GetLocations(c)
    BY <1>00, <1>02, <2>9 DEF GetLocations, Goto, Served
  <2>10. CASE Reads(c)
    <3>1. UNCHANGED <<conn, pc, alloc>> /\ pc[c] = "read"
      BY <2>10 DEF Reads
    <3>2. \A e \in Clients : e # c => chunk'[e] = chunk[e] /\ idx'[e] = idx[e]
      BY <1>00, <2>10 DEF Reads
    <3>3. QED
      BY <1>00, <1>02, <3>1, <3>2
  <2>11. QED
    BY <1>1, <2>1, <2>2, <2>3, <2>4, <2>5, <2>6, <2>7, <2>8, <2>9, <2>10
<1>2. ASSUME NEW d \in DataNodes,
             DataNodeStart(d) \/ SendHeartbeat(d) \/ SendBlockReport(d) \/ Dies(d)
      PROVE  Places'
  <2>1. \A c \in Clients : conn'[c] = conn[c]
    <3>1. CASE DataNodeStart(d) \/ Dies(d)
      BY <1>00, <3>1 DEF DataNodeStart, Dies, DataNodeGone
    <3>2. CASE SendHeartbeat(d)
      BY <1>00, <3>2 DEF SendHeartbeat, Served, CallFails
    <3>3. CASE SendBlockReport(d)
      BY <1>00, <3>3 DEF SendBlockReport, Served, CallFails
    <3>4. QED
      BY <1>2, <3>1, <3>2, <3>3
  <2>2. UNCHANGED <<chunk, alloc, idx>>
    BY <1>2 DEF DataNodeStart, SendHeartbeat, SendBlockReport, Dies, DataNodeGone
  <2>3. \A c \in Clients : pc'[c] = pc[c] \/ (pc[c] = "storing" /\ pc'[c] = "confirm")
    BY <1>2 DEF DataNodeStart, SendHeartbeat, SendBlockReport, Dies, DataNodeGone
  <2>4. QED
    BY <1>02, <2>1, <2>2, <2>3
<1>3. CASE NameNodeSave \/ NameNodeStopServer \/ NameNodeStopped \/ NameNodeKill \/ NameNodeExit
           \/ NameNodeStart \/ \E x \in Processes : WorkerTakes(x) \/ NameNodeCloses(x)
  <2>1. UNCHANGED <<pc, chunk, alloc, idx>>
    BY <1>3 DEF NameNodeSave, NameNodeStopServer, NameNodeStopped, NameNodeKill,
                WorkerTakes, NameNodeCloses, NameNodeExit, SocketsClosed,
                NameNodeStart
  <2>2. \A c \in Clients : conn[c] = "none" => conn'[c] = "none"
    <3>1. Clients \subseteq Processes
      BY DEF Processes
    <3>2. CASE NameNodeStopServer
      BY <3>1, <3>2 DEF NameNodeStopServer
    <3>3. CASE NameNodeKill \/ NameNodeExit
      BY <3>1, <3>3 DEF NameNodeKill, NameNodeExit, SocketsClosed
    <3>4. CASE NameNodeSave \/ NameNodeStopped \/ NameNodeStart
               \/ \E x \in Processes : WorkerTakes(x) \/ NameNodeCloses(x)
      BY <1>00, <3>4 DEF NameNodeSave, NameNodeStopped, NameNodeStart, WorkerTakes, NameNodeCloses
    <3>5. QED
      BY <1>3, <3>2, <3>3, <3>4
  <2>3. QED
    BY <1>02, <2>1, <2>2
<1>4. QED
  BY <1>1, <1>2, <1>3, Steps

\* Every step keeps an allocation its client's own.
LEMMA AllocOwnedStep == ASSUME TypeInv, Places, AllocOwned, NdfsNext PROVE AllocOwned'
<1> SUFFICES ASSUME NEW e \in Clients, alloc'[e] # NoAlloc
             PROVE  /\ owner'[alloc'[e].block] = <<e, chunk'[e]>>
                    /\ targetsOf'[alloc'[e].block] = alloc'[e].targets
  BY DEF AllocOwned
<1>0. /\ alloc \in [Clients -> Allocs]
      /\ owner \in [Blocks -> {NoData} \cup (Clients \X Nat)]
      /\ targetsOf \in [Blocks -> Seq(DataNodes)]
      /\ \A c \in Clients : alloc[c] = NoAlloc \/ alloc[c].block \in generated
  BY DEF TypeInv, Shapes, Known
<1>1. CASE PutAlloc(e)
  <2>1. ~ Refused(e)
    BY <1>0 DEF Refused
  <2>2. PICK t, r : Granted(e, t, r)
    BY <1>1, <2>1, PutAllocCases
  <2>3. alloc'[e] = r /\ owner'[r.block] = <<e, chunk[e]>> /\ targetsOf'[r.block] = r.targets
    BY <1>0, <2>2 DEF Granted
  <2>4. chunk' = chunk
    BY <1>1 DEF PutAlloc
  <2>5. QED
    BY <2>3, <2>4
<1>2. CASE ~ PutAlloc(e)
  <2>1. alloc'[e] = alloc[e] /\ chunk'[e] = chunk[e]
    BY <1>2, ClientEffect
  <2>2. alloc[e].block \in generated /\ owner[alloc[e].block] = <<e, chunk[e]>>
        /\ targetsOf[alloc[e].block] = alloc[e].targets
    BY <1>0, <2>1 DEF AllocOwned
  <2>3. CASE UNCHANGED <<owner, targetsOf, generated>>
    BY <2>1, <2>2, <2>3
  <2>4. ASSUME NEW c, NEW t, NEW r, Granted(c, t, r)
        PROVE  owner'[alloc[e].block] = owner[alloc[e].block]
               /\ targetsOf'[alloc[e].block] = targetsOf[alloc[e].block]
    BY <1>0, <2>2, <2>4 DEF Granted
  <2>5. QED
    BY <2>1, <2>2, <2>3, <2>4, OwnerEffect
<1>3. QED
  BY <1>1, <1>2

\* What a writing step writes: the file of the client's own block, in the
\* directory of its first target.
LEMMA WritesFacts ==
    ASSUME DataInv, NEW c \in Clients, Writes(c)
    PROVE  \A x \in Dirs, b \in Blocks :
             \/ stored'[x][b] = stored[x][b]
             \/ /\ alloc[c] # NoAlloc /\ b = alloc[c].block /\ owner[b] = <<c, chunk[c]>>
                /\ targetsOf[b] # <<>> /\ x = dirOf[targetsOf[b][1]]
                /\ \/ pc[c] = "send" /\ stored'[x][b] = Partial
                   \/ /\ pc[c] = "storing" /\ pc'[c] = "confirm"
                      /\ stored'[x][b] = owner[b]
<1> SUFFICES ASSUME NEW x \in Dirs, NEW b \in Blocks, stored'[x][b] # stored[x][b]
             PROVE  /\ alloc[c] # NoAlloc /\ b = alloc[c].block /\ owner[b] = <<c, chunk[c]>>
                    /\ targetsOf[b] # <<>> /\ x = dirOf[targetsOf[b][1]]
                    /\ \/ pc[c] = "send" /\ stored'[x][b] = Partial
                       \/ /\ pc[c] = "storing" /\ pc'[c] = "confirm"
                          /\ stored'[x][b] = owner[b]
  OBVIOUS
<1>0. TypeInv /\ RestOK /\ Places /\ AllocOwned
  BY TypeParts DEF DataInv
<1>1. Partial \in Contents /\ ChunkData(c) \in Contents
  BY <1>0 DEF RestOK, Contents, ChunkData
<1>2. PICK v \in {Partial, ChunkData(c)} :
        /\ Write(c, v)
        /\ \/ pc[c] = "send" /\ FirstTargetUp(c) /\ v = Partial
           \/ pc[c] = "storing" /\ v = ChunkData(c) /\ pc' = [pc EXCEPT ![c] = "confirm"]
  BY DEF Writes
<1>3. stored'[x][b] = IF x = dirOf[alloc[c].targets[1]] /\ b = alloc[c].block THEN v ELSE stored[x][b]
  BY <1>0, <1>1, <1>2, WriteFacts DEF RestOK
<1>4. /\ b = alloc[c].block /\ x = dirOf[alloc[c].targets[1]] /\ alloc[c] # NoAlloc
      /\ stored'[x][b] = v
  BY <1>3, ConstantsAssumption DEF NoAlloc
<1>5. owner[b] = <<c, chunk[c]>> /\ targetsOf[b] = alloc[c].targets
  BY <1>0, <1>4 DEF AllocOwned
<1>6. alloc[c].targets # <<>>
  BY <1>0, <1>2 DEF Places, FirstTargetUp
<1>7. pc[c] = "storing" => pc'[c] = "confirm"
  BY <1>0, <1>2 DEF RestOK
<1>8. QED
  BY <1>2, <1>4, <1>5, <1>6, <1>7 DEF ChunkData

\* Every step keeps the block files in place.
LEMMA FilesInPlaceStep == ASSUME DataInv, NdfsNext PROVE FilesInPlace'
<1> SUFFICES ASSUME NEW x \in Dirs, NEW b \in Blocks, stored'[x][b] # NoData
             PROVE  /\ targetsOf'[b] # <<>> /\ x = dirOf'[targetsOf'[b][1]]
                    /\ stored'[x][b] \in {Partial, owner'[b]}
  BY DEF FilesInPlace
<1>0. TypeInv /\ RestOK /\ Known /\ FilesInPlace /\ dirOf' = dirOf
  BY TypeParts, OwnerEffect DEF DataInv
<1>1. CASE stored' = stored
  <2>1. /\ targetsOf[b] # <<>> /\ x = dirOf[targetsOf[b][1]]
        /\ stored[x][b] \in {Partial, owner[b]} /\ b \in generated
    BY <1>0, <1>1 DEF FilesInPlace, Known
  <2>2. owner'[b] = owner[b] /\ targetsOf'[b] = targetsOf[b]
    <3>1. CASE UNCHANGED <<owner, targetsOf, generated>>
      BY <3>1
    <3>2. ASSUME NEW c, NEW t, NEW r, Granted(c, t, r)
          PROVE  owner'[b] = owner[b] /\ targetsOf'[b] = targetsOf[b]
      BY <1>0, <2>1, <3>2 DEF Granted, RestOK
    <3>3. QED
      BY <1>0, <3>1, <3>2, OwnerEffect
  <2>3. QED
    BY <1>0, <1>1, <2>1, <2>2
<1>2. ASSUME NEW c \in Clients, Writes(c)
      PROVE  /\ targetsOf'[b] # <<>> /\ x = dirOf'[targetsOf'[b][1]]
             /\ stored'[x][b] \in {Partial, owner'[b]}
  <2>1. UNCHANGED <<owner, targetsOf>>
    BY <1>2 DEF Writes
  <2>2. CASE stored'[x][b] = stored[x][b]
    BY <1>0, <2>1, <2>2 DEF FilesInPlace
  <2>3. CASE stored'[x][b] # stored[x][b]
    BY <1>0, <1>2, <2>1, <2>3, WritesFacts
  <2>4. QED
    BY <2>2, <2>3
<1>3. QED
  BY <1>1, <1>2, StoredEffect

\* Every step keeps a block incomplete until its client has sent it.
LEMMA NotYetCompleteStep == ASSUME DataInv, NdfsNext PROVE NotYetComplete'
<1> SUFFICES ASSUME NEW e \in Clients, NEW x \in Dirs,
                    pc'[e] \in {"send", "storing"}, alloc'[e] # NoAlloc
             PROVE  stored'[x][alloc'[e].block] \in {NoData, Partial}
  BY DEF NotYetComplete
<1>0. TypeInv /\ RestOK /\ Known /\ Places /\ AllocOwned /\ NotYetComplete
  BY TypeParts DEF DataInv
<1>1. CASE PutAlloc(e)
  <2>1. ~ Refused(e)
    BY <1>0 DEF Refused, RestOK
  <2>2. PICK t, r : Granted(e, t, r)
    BY <1>0, <1>1, <2>1, PutAllocCases
  <2>3. alloc'[e] = r /\ r.block \in Blocks \ generated
    BY <1>0, <2>2 DEF Granted, RestOK
  <2>4. stored' = stored
    BY <1>1 DEF PutAlloc, dnVars
  <2>5. QED
    BY <1>0, <2>3, <2>4 DEF Known
<1>2. CASE ~ PutAlloc(e)
  <2>1. alloc'[e] = alloc[e] /\ chunk'[e] = chunk[e] /\ pc[e] \in {"send", "storing"}
    BY <1>0, <1>2, ClientEffect
  <2>2. stored[x][alloc[e].block] \in {NoData, Partial}
    BY <1>0, <2>1 DEF NotYetComplete
  <2>3. CASE stored' = stored
    BY <2>1, <2>2, <2>3
  <2>4. ASSUME NEW c \in Clients, Writes(c)
        PROVE  stored'[x][alloc[e].block] \in {NoData, Partial}
    <3> DEFINE b == alloc[e].block
    <3>1. b \in Blocks /\ owner[b] = <<e, chunk[e]>>
      BY <1>0, <2>1 DEF Known, AllocOwned, TypeInv, NdfsTypeOK, NsTypeOK
    <3> HIDE DEF b
    <3>2. CASE stored'[x][b] = stored[x][b]
      BY <2>2, <3>2 DEF b
    <3>3. CASE stored'[x][b] # stored[x][b]
      <4>1. /\ owner[b] = <<c, chunk[c]>>
            /\ \/ pc[c] = "send" /\ stored'[x][b] = Partial
               \/ pc[c] = "storing" /\ pc'[c] = "confirm"
        BY <2>4, <3>1, <3>3, WritesFacts
      <4>2. c = e
        BY <3>1, <4>1
      <4>3. QED
        BY <4>1, <4>2 DEF b
    <3>4. QED
      BY <3>2, <3>3 DEF b
  <2>5. QED
    BY <2>1, <2>3, <2>4, StoredEffect
<1>3. QED
  BY <1>1, <1>2

-----------------------------------------------------------------------------
\* How the list of a block changes: it is emptied, a DataNode joins it that was
\* a target or has a file of the block, or it is the targets of a new block.
Joins(d, b) ==
    /\ d \in DataNodes /\ d \in datanodes /\ d \notin ToSet(ListOf(b)) /\ b \in generated
    /\ \/ \E c \in Clients : alloc[c].block = b /\ d \in ToSet(alloc[c].targets)
       \/ stored[dirOf[d]][b] # NoData

\* Those are all the ways.
LEMMA ListEffect ==
    ASSUME TypeInv, NdfsNext, NEW b \in Blocks
    PROVE  \/ ListOf(b)' = ListOf(b)
           \/ /\ ListOf(b)' = <<>>
              /\ NameNodeStart \/ \E c \in Clients : job[c].op = "rm" /\ Ends(c)
           \/ \E d : Joins(d, b) /\ ListOf(b)' = Append(ListOf(b), d)
           \/ \E c \in Clients : \E t, r : Granted(c, t, r) /\ b = r.block /\ ListOf(b)' = r.targets
<1> DEFINE Goal == \/ ListOf(b)' = ListOf(b)
                   \/ /\ ListOf(b)' = <<>>
                      /\ NameNodeStart \/ \E c \in Clients : job[c].op = "rm" /\ Ends(c)
                   \/ \E d : Joins(d, b) /\ ListOf(b)' = Append(ListOf(b), d)
                   \/ \E c \in Clients : \E t, r : Granted(c, t, r) /\ b = r.block /\ ListOf(b)' = r.targets
<1>0. /\ NsTypeOK /\ block_to_datanodes \in [Blocks -> Seq(DataNodes) \cup {NoEntry}]
      /\ ListOf(b) \in Seq(DataNodes) /\ ListOf(b) # NoEntry
      /\ \A s \in Seq(DataNodes) : s # NoEntry
  BY ListOfType, ConstantsAssumption DEF TypeInv, NdfsTypeOK, NsTypeOK
<1>1. ASSUME block_to_datanodes' = block_to_datanodes PROVE Goal
  BY <1>1 DEF ListOf, HasEntry
<1>2. ASSUME NEW d \in DataNodes, NEW x, BlockReceived(d, x), x \in generated,
             \E c \in Clients : alloc[c].block = x /\ d \in ToSet(alloc[c].targets)
      PROVE  Goal
  <2>1. CASE b # x
    BY <1>0, <1>2, <2>1 DEF BlockReceived, ListOf, HasEntry
  <2>2. CASE b = x
    <3>1. block_to_datanodes'[b] = IF d \in datanodes /\ d \notin ToSet(ListOf(b))
                                     THEN Append(ListOf(b), d) ELSE ListOf(b)
      BY <1>0, <1>2, <2>2 DEF BlockReceived
    <3>2. CASE d \in datanodes /\ d \notin ToSet(ListOf(b))
      <4>1. Append(ListOf(b), d) \in Seq(DataNodes)
        BY <1>0
      <4>2. ListOf(b)' = Append(ListOf(b), d)
        <5>1. block_to_datanodes'[b] = Append(ListOf(b), d) /\ Append(ListOf(b), d) # NoEntry
          BY <1>0, <3>1, <3>2, <4>1
        <5>2. ListOf(b)' = IF block_to_datanodes'[b] # NoEntry THEN block_to_datanodes'[b] ELSE <<>>
          BY DEF ListOf, HasEntry
        <5>3. QED
          BY <5>1, <5>2
      <4>3. Joins(d, b)
        BY <1>2, <2>2, <3>2 DEF Joins
      <4>4. QED
        BY <4>2, <4>3
    <3>3. CASE ~ (d \in datanodes /\ d \notin ToSet(ListOf(b)))
      <4>1. block_to_datanodes'[b] = ListOf(b)
        BY <3>1, <3>3
      <4>2. ListOf(b)' = IF block_to_datanodes'[b] # NoEntry THEN block_to_datanodes'[b] ELSE <<>>
        BY DEF ListOf, HasEntry
      <4>3. QED
        BY <1>0, <4>1, <4>2
    <3>4. QED
      BY <3>2, <3>3
  <2>3. QED
    BY <2>1, <2>2
<1>3. ASSUME NEW d \in DataNodes, BlockReport(d, GetBlockReport(d)), ~ UNCHANGED nsVars
      PROVE  Goal
  <2>0. d \in datanodes
    BY <1>3 DEF BlockReport
  <2>1. block_to_datanodes'[b] = IF b \in GetBlockReport(d) THEN WithReporter(ListOf(b), d)
                                                            ELSE block_to_datanodes[b]
    BY <1>3 DEF BlockReport
  <2>2. ListOf(b)' = IF block_to_datanodes'[b] # NoEntry THEN block_to_datanodes'[b] ELSE <<>>
    BY DEF ListOf, HasEntry
  <2>3. CASE b \in GetBlockReport(d) /\ d \notin ToSet(ListOf(b)) /\ ~ (Len(ListOf(b)) >= Replication)
    <3>1. Append(ListOf(b), d) \in Seq(DataNodes)
      BY <1>0
    <3>2. ListOf(b)' = Append(ListOf(b), d)
      BY <1>0, <2>1, <2>2, <2>3, <3>1 DEF WithReporter
    <3>3. Joins(d, b)
      BY <2>0, <2>3, DataNodeNs DEF Joins, GetBlockReport
    <3>4. QED
      BY <3>2, <3>3
  <2>4. CASE b \in GetBlockReport(d) /\ (d \in ToSet(ListOf(b)) \/ Len(ListOf(b)) >= Replication)
    BY <1>0, <2>1, <2>2, <2>4 DEF WithReporter
  <2>5. CASE b \notin GetBlockReport(d)
    BY <2>1, <2>2, <2>5 DEF ListOf, HasEntry
  <2>6. QED
    BY <2>3, <2>4, <2>5
<1>4. ASSUME NEW c \in Clients, PutAlloc(c) PROVE Goal
  <2>1. CASE Refused(c)
    BY <1>1, <2>1 DEF Refused, mapVars
  <2>2. ASSUME NEW t, NEW r, Granted(c, t, r) PROVE Goal
    <3>1. /\ block_to_datanodes' = [block_to_datanodes EXCEPT ![r.block] = r.targets]
          /\ r \in AllocResults(Fresh)
      BY <2>2 DEF Granted, Allocate
    <3>2. r.targets \in Seq(DataNodes)
      BY <1>0, <3>1, AllocResultFacts DEF Allocs
    <3>3. CASE b = r.block
      <4>1. ListOf(b)' = r.targets
        BY <1>0, <3>1, <3>2, <3>3 DEF ListOf, HasEntry
      <4>2. QED
        BY <2>2, <3>3, <4>1
    <3>4. CASE b # r.block
      BY <1>0, <3>1, <3>4 DEF ListOf, HasEntry
    <3>5. QED
      BY <3>3, <3>4
  <2>3. QED
    BY <1>4, <2>1, <2>2, PutAllocCases
<1>5. ASSUME NEW c \in Clients, Ends(c) PROVE Goal
  <2>1. CASE UNCHANGED nsVars
    BY <1>1, <2>1 DEF nsVars, mapVars
  <2>2. CASE MkdirsOp(job[c].path)
    BY <1>1, <2>2 DEF MkdirsOp, mapVars
  <2>3. CASE job[c].op = "rm" /\ Delete(job[c].path)
    <3>1. ListOf(b)' = ListOf(b) \/ ListOf(b)' = <<>>
      BY <2>3 DEF Delete, ListOf, HasEntry
    <3>2. QED
      BY <1>5, <2>3, <3>1
  <2>4. QED
    BY <1>5, <2>1, <2>2, <2>3 DEF Ends
<1>6. ASSUME NEW c \in Clients, Confirm(c) PROVE Goal
  <2>1. CASE UNCHANGED nsVars
    BY <1>1, <2>1 DEF nsVars, mapVars
  <2>2. CASE BlockReceived(alloc[c].targets[idx[c]], alloc[c].block)
    <3>1. alloc[c].targets[idx[c]] \in ToSet(alloc[c].targets)
      BY <1>6, ConfirmNs DEF ToSet
    <3>2. QED
      BY <1>2, <1>6, <2>2, <3>1, ConfirmNs
  <2>3. QED
    BY <1>6, <2>1, <2>2, ConfirmNs
<1>7. ASSUME NEW c \in Clients,
             Connected(c) \/ SendSkipped(c) \/ StoreOpen(c) \/ StoreWrite(c) \/ NextChunk(c)
             \/ GetLocations(c) \/ Reads(c)
      PROVE  Goal
  <2>1. UNCHANGED nsVars
    BY <1>7, Handlers DEF Connected, SendSkipped, StoreOpen, StoreWrite, NextChunk, GetLocations, Reads
  <2>2. QED
    BY <1>1, <2>1 DEF nsVars, mapVars
<1>8. ASSUME NEW d \in DataNodes,
             DataNodeStart(d) \/ SendHeartbeat(d) \/ SendBlockReport(d) \/ Dies(d)
      PROVE  Goal
  <2>1. UNCHANGED nsVars \/ Heartbeat(d) \/ BlockReport(d, GetBlockReport(d))
    BY <1>8, DataNodeNs DEF DataNodeStart, Dies, DataNodeGone
  <2>2. CASE UNCHANGED nsVars
    BY <1>1, <2>2 DEF nsVars, mapVars
  <2>3. CASE Heartbeat(d)
    BY <1>1, <2>3 DEF Heartbeat, RegisterDataNode
  <2>4. QED
    BY <1>3, <2>1, <2>2, <2>3
<1>9. CASE NameNodeSave \/ NameNodeStopServer \/ NameNodeStopped \/ NameNodeKill \/ NameNodeExit
           \/ \E x \in Processes : WorkerTakes(x) \/ NameNodeCloses(x)
  <2>1. UNCHANGED nsVars
    BY <1>9 DEF NameNodeSave, NameNodeStopServer, NameNodeStopped, NameNodeKill,
                WorkerTakes, NameNodeCloses, NameNodeExit, SocketsClosed
  <2>2. QED
    BY <1>1, <2>1 DEF nsVars, mapVars
<1>10. CASE NameNodeStart
  BY <1>10 DEF NameNodeStart, ListOf, HasEntry
<1>11. QED
  BY <1>4, <1>5, <1>6, <1>7, <1>8, <1>9, <1>10, Steps

\* Every step keeps the lists in place.
LEMMA ListsInPlaceStep == ASSUME DataInv, NdfsNext PROVE ListsInPlace'
<1>0. TypeInv /\ RestOK /\ NsTypeOK /\ ListsInPlace /\ AllocOwned /\ FilesInPlace /\ Known
  BY TypeParts DEF DataInv
<1>00. dirOf' = dirOf /\ generated \subseteq generated'
  BY <1>0, OwnerEffect, NsPart
<1>01. ToSet(<<>>) = {} /\ DOMAIN <<>> = {}
  BY DEF ToSet
<1> SUFFICES ASSUME NEW b \in Blocks
             PROVE  /\ \A d \in ToSet(ListOf(b)') :
                         b \in generated' /\ \E t \in ToSet(targetsOf'[b]) : dirOf'[d] = dirOf'[t]
                    /\ \A i, j \in DOMAIN ListOf(b)' : ListOf(b)'[i] = ListOf(b)'[j] => i = j
                    /\ Len(targetsOf'[b]) <= Replication
  BY DEF ListsInPlace
<1> DEFINE Goal == /\ \A d \in ToSet(ListOf(b)') :
                         b \in generated' /\ \E t \in ToSet(targetsOf'[b]) : dirOf'[d] = dirOf'[t]
                   /\ \A i, j \in DOMAIN ListOf(b)' : ListOf(b)'[i] = ListOf(b)'[j] => i = j
\* The targets of a generated block stay.
<1>1. (b \in generated => targetsOf'[b] = targetsOf[b]) /\ Len(targetsOf'[b]) <= Replication
  <2>1. CASE UNCHANGED <<owner, targetsOf, generated>>
    BY <1>0, <2>1 DEF ListsInPlace
  <2>2. ASSUME NEW c, NEW t, NEW r, Granted(c, t, r)
        PROVE  (b \in generated => targetsOf'[b] = targetsOf[b]) /\ Len(targetsOf'[b]) <= Replication
    <3>1. /\ targetsOf' = [targetsOf EXCEPT ![r.block] = r.targets]
          /\ r.block \in Blocks \ generated /\ r \in AllocResults(Fresh)
      BY <2>2 DEF Granted
    <3>2. Len(r.targets) <= Replication
      BY <1>0, <3>1, AllocResultFacts
    <3>3. QED
      BY <1>0, <3>1, <3>2 DEF ListsInPlace, RestOK
  <2>3. QED
    BY <1>0, <2>1, <2>2, OwnerEffect
<1>2. CASE ListOf(b)' = ListOf(b)
  BY <1>0, <1>00, <1>1, <1>2 DEF ListsInPlace
<1>3. CASE ListOf(b)' = <<>>
  BY <1>01, <1>1, <1>3
<1>4. ASSUME NEW d, Joins(d, b), ListOf(b)' = Append(ListOf(b), d) PROVE Goal
  <2>1. b \in generated /\ d \in DataNodes /\ d \notin ToSet(ListOf(b))
    BY <1>4 DEF Joins
  <2>2. \E t \in ToSet(targetsOf[b]) : dirOf[d] = dirOf[t]
    <3>1. CASE stored[dirOf[d]][b] # NoData
      <4>1. dirOf[d] \in Dirs /\ targetsOf[b] \in Seq(DataNodes)
        BY <1>0, <2>1 DEF RestOK
      <4>2. targetsOf[b] # <<>> /\ dirOf[d] = dirOf[targetsOf[b][1]]
        BY <1>0, <3>1, <4>1 DEF FilesInPlace
      <4>3. targetsOf[b][1] \in ToSet(targetsOf[b])
        BY <4>1, <4>2 DEF ToSet
      <4>4. QED
        BY <4>2, <4>3
    <3>2. ASSUME NEW c \in Clients, alloc[c].block = b, d \in ToSet(alloc[c].targets)
          PROVE  \E t \in ToSet(targetsOf[b]) : dirOf[d] = dirOf[t]
      <4>1. alloc[c] # NoAlloc
        BY <1>01, <3>2 DEF NoAlloc
      <4>2. targetsOf[b] = alloc[c].targets
        BY <1>0, <3>2, <4>1 DEF AllocOwned
      <4>3. QED
        BY <3>2, <4>2
    <3>3. QED
      BY <1>4, <3>1, <3>2 DEF Joins
  <2>3. ListOf(b) \in Seq(DataNodes)
    BY <1>0, ListOfType
  <2>4. /\ ToSet(Append(ListOf(b), d)) = ToSet(ListOf(b)) \cup {d}
        /\ \A i, j \in DOMAIN Append(ListOf(b), d) :
             Append(ListOf(b), d)[i] = Append(ListOf(b), d)[j] => i = j
    <3>1. \A i, j \in DOMAIN ListOf(b) : ListOf(b)[i] = ListOf(b)[j] => i = j
      BY <1>0 DEF ListsInPlace
    <3>2. QED
      BY <2>1, <2>3, <3>1, PushFacts
  <2>5. \A e \in ToSet(ListOf(b)) : \E t \in ToSet(targetsOf[b]) : dirOf[e] = dirOf[t]
    BY <1>0 DEF ListsInPlace
  <2>6. \A e \in ToSet(ListOf(b)') : \E t \in ToSet(targetsOf'[b]) : dirOf'[e] = dirOf'[t]
    BY <1>00, <1>1, <1>4, <2>1, <2>2, <2>4, <2>5
  <2>7. QED
    BY <1>00, <1>4, <2>1, <2>4, <2>6
<1>5. ASSUME NEW c \in Clients, NEW t, NEW r, Granted(c, t, r), b = r.block, ListOf(b)' = r.targets
      PROVE  Goal
  <2>1. targetsOf'[b] = r.targets /\ b \in generated' /\ r \in AllocResults(Fresh)
    BY <1>0, <1>5 DEF Granted, Allocate, RestOK
  <2>2. \A i, j \in DOMAIN r.targets : r.targets[i] = r.targets[j] => i = j
    BY <1>0, <2>1, AllocResultFacts
  <2>3. QED
    BY <1>5, <2>1, <2>2
<1>6. Goal
  BY <1>0, <1>2, <1>3, <1>4, <1>5, ListEffect
<1>7. QED
  BY <1>1, <1>6

-----------------------------------------------------------------------------
\* DataInv is kept by every step and holds at the start.
LEMMA DataStep == ASSUME DataInv, [NdfsNext]_vars PROVE DataInv'
<1>1. CASE UNCHANGED vars
  <2>1. TypeInv'
    BY <1>1, TypeStep DEF DataInv
  <2>2. QED
    BY <1>1, <2>1 DEF vars, nsVars, mapVars, nnVars, dnVars, clientVars, history, DataInv, Places,
       AllocOwned, FilesInPlace, NotYetComplete, ListsInPlace, ListOf, HasEntry
<1>2. CASE NdfsNext
  BY <1>2, TypeStep, PlacesStep, AllocOwnedStep, FilesInPlaceStep, NotYetCompleteStep,
     ListsInPlaceStep DEF DataInv
<1>3. QED
  BY <1>1, <1>2

\* DataInv holds at the start.
LEMMA DataInit == NdfsInit => DataInv
<1> SUFFICES ASSUME NdfsInit PROVE DataInv
  OBVIOUS
<1>1. TypeInv
  BY TypeInit
<1>2. Places
  BY DEF NdfsInit, Places, Processes
<1>3. AllocOwned /\ NotYetComplete
  BY DEF NdfsInit, AllocOwned, NotYetComplete
<1>4. FilesInPlace
  BY DEF NdfsInit, FilesInPlace
<1>5. ListsInPlace
  <2>1. \A b \in Blocks : ListOf(b) = <<>> /\ targetsOf[b] = <<>>
    BY DEF NdfsInit, NsInit, ListOf, HasEntry
  <2>2. ToSet(<<>>) = {} /\ DOMAIN <<>> = {} /\ Len(<<>>) = 0
    BY DEF ToSet
  <2>3. 0 <= Replication
    BY ConstantsAssumption
  <2>4. QED
    BY <2>1, <2>2, <2>3 DEF ListsInPlace
<1>6. QED
  BY <1>1, <1>2, <1>3, <1>4, <1>5 DEF DataInv

\* DataInv is an invariant of the file system.
THEOREM DataInvCorrect == NdfsSpec => []DataInv
BY DataInit, DataStep, PTL DEF NdfsSpec

\* A block file never holds another writer's data or another chunk: ids are
\* fresh, and only the client that was given an id writes under it.
THEOREM StoredIsOwnedHolds == NdfsSpec => []StoredIsOwned
<1>1. DataInv => StoredIsOwned
  BY DEF DataInv, FilesInPlace, StoredIsOwned
<1>2. QED
  BY <1>1, DataInvCorrect, PTL

\* A complete block file is never truncated or rewritten.
THEOREM CompleteStaysHolds == NdfsSpec => CompleteStays
<1> DEFINE Step == \A x \in Dirs, b \in Blocks :
                     stored[x][b] \notin {NoData, Partial} => stored'[x][b] = stored[x][b]
<1>1. DataInv /\ [NdfsNext]_vars => [Step]_vars
  <2> SUFFICES ASSUME DataInv, NdfsNext, NEW x \in Dirs, NEW b \in Blocks,
                      stored[x][b] \notin {NoData, Partial}
               PROVE  stored'[x][b] = stored[x][b]
    OBVIOUS
  <2>1. CASE stored' = stored
    BY <2>1
  <2>2. ASSUME NEW c \in Clients, Writes(c) PROVE stored'[x][b] = stored[x][b]
    <3>1. ASSUME stored'[x][b] # stored[x][b]
          PROVE  alloc[c] # NoAlloc /\ b = alloc[c].block /\ pc[c] \in {"send", "storing"}
      BY <2>2, <3>1, WritesFacts
    <3>2. QED
      BY <3>1 DEF DataInv, NotYetComplete
  <2>3. QED
    BY <2>1, <2>2, StoredEffect
<1>2. QED
  BY <1>1, DataInvCorrect, PTL DEF NdfsSpec, CompleteStays

\* A list of distinct elements is no longer than one that has them all.
LEMMA DistinctLength ==
    ASSUME NEW S, NEW s \in Seq(S), NEW u \in Seq(S), ToSet(s) \subseteq ToSet(u),
           \A i, j \in DOMAIN s : s[i] = s[j] => i = j
    PROVE  Len(s) <= Len(u)
<1>1. /\ Len(s) \in Nat /\ DOMAIN s = 1..Len(s) /\ Len(u) \in Nat /\ DOMAIN u = 1..Len(u)
  OBVIOUS
<1>2. \A i \in DOMAIN s : \E j \in DOMAIN u : u[j] = s[i]
  BY DEF ToSet
<1> DEFINE f == [i \in 1..Len(s) |-> CHOOSE j \in DOMAIN u : u[j] = s[i]]
<1>3. \A i \in 1..Len(s) : f[i] \in 1..Len(u) /\ u[f[i]] = s[i]
  BY <1>1, <1>2
<1>4. f \in Injection(1..Len(s), 1..Len(u))
  <2>1. f \in [1..Len(s) -> 1..Len(u)]
    BY <1>3
  <2> HIDE DEF f
  <2>2. \A i, j \in 1..Len(s) : f[i] = f[j] => i = j
    BY <1>1, <1>3
  <2>3. QED
    BY <2>1, <2>2 DEF Injection, IsInjective
<1> HIDE DEF f
<1>5. /\ IsFiniteSet(1..Len(s)) /\ IsFiniteSet(1..Len(u))
      /\ Cardinality(1..Len(s)) = Len(s) /\ Cardinality(1..Len(u)) = Len(u)
  <2>1. ASSUME NEW n \in Nat PROVE IsFiniteSet(1..n) /\ Cardinality(1..n) = n
    <3>1. IsFiniteSet(1..n) /\ Cardinality(1..n) = IF 1 > n THEN 0 ELSE n - 1 + 1
      BY FS_Interval
    <3>2. QED
      BY <3>1
  <2>2. QED
    BY <1>1, <2>1
<1>6. Cardinality(1..Len(s)) <= Cardinality(1..Len(u))
  BY <1>4, <1>5, FS_Injection
<1>7. QED
  BY <1>5, <1>6

\* Whoever is listed for a block was its target or shares a target's directory,
\* and there are at most Replication of them when nobody shares one.
THEOREM LocationsWereTargetsHolds == NdfsSpec => []LocationsWereTargets
<1>1. DataInv => LocationsWereTargets
  <2> SUFFICES ASSUME DataInv, NEW b \in Blocks
               PROVE  /\ \A d \in ToSet(ListOf(b)) : \E t \in ToSet(targetsOf[b]) : dirOf[d] = dirOf[t]
                      /\ IsInjective(dirOf) => Len(ListOf(b)) <= Replication
    BY DEF LocationsWereTargets
  <2>1. /\ \A d \in ToSet(ListOf(b)) : \E t \in ToSet(targetsOf[b]) : dirOf[d] = dirOf[t]
        /\ \A i, j \in DOMAIN ListOf(b) : ListOf(b)[i] = ListOf(b)[j] => i = j
        /\ Len(targetsOf[b]) <= Replication
    BY DEF DataInv, ListsInPlace
  <2>2. ListOf(b) \in Seq(DataNodes) /\ targetsOf[b] \in Seq(DataNodes) /\ DOMAIN dirOf = DataNodes
    BY ListOfType DEF DataInv, TypeInv, NdfsTypeOK, Shapes
  <2>3. ASSUME IsInjective(dirOf) PROVE Len(ListOf(b)) <= Replication
    <3>1. ToSet(ListOf(b)) \subseteq DataNodes /\ ToSet(targetsOf[b]) \subseteq DataNodes
      BY <2>2 DEF ToSet
    <3>2. \A d, t \in DataNodes : dirOf[d] = dirOf[t] => d = t
      BY <2>2, <2>3 DEF IsInjective
    <3>3. ToSet(ListOf(b)) \subseteq ToSet(targetsOf[b])
      BY <2>1, <3>1, <3>2
    <3>4. Len(ListOf(b)) <= Len(targetsOf[b])
      BY <2>1, <2>2, <3>3, DistinctLength
    <3>5. Len(ListOf(b)) \in Nat /\ Len(targetsOf[b]) \in Nat /\ Replication \in Nat
      BY <2>2, ConstantsAssumption
    <3>6. QED
      BY <2>1, <3>4, <3>5
  <2>4. QED
    BY <2>1, <2>3
<1>2. QED
  BY <1>1, DataInvCorrect, PTL

-----------------------------------------------------------------------------
(***************************************************************************)
(* The order of the chunks                                                 *)
(***************************************************************************)

\* A put goes from chunk to chunk.
LEMMA ProgressEffect ==
    ASSUME TypeInv, Places, NdfsNext, NEW e \in Clients, pc[e] # "idle"
    PROVE  /\ pc'[e] # "idle"
           /\ pc'[e] = "rpc" => \/ pc[e] = "rpc" /\ chunk'[e] = chunk[e]
                                \/ pc[e] = "confirm" /\ chunk'[e] = chunk[e] + 1
           /\ pc'[e] \in {"send", "storing", "confirm"} =>
                /\ pc[e] \in {"rpc", "send", "storing", "confirm"} /\ chunk'[e] = chunk[e]
                /\ pc[e] = "rpc" => PutAlloc(e)
<1>0. RestOK
  BY TypeParts
<1>00. /\ chunk \in [Clients -> Nat \ {0}]
       /\ pc \in [Clients -> {"idle", "rpc", "send", "storing", "confirm", "read", "done"}]
  BY <1>0 DEF RestOK
<1> USE DEF nnVars, dnVars, history, clientVars
<1> DEFINE Goal == /\ pc'[e] # "idle"
                   /\ pc'[e] = "rpc" => \/ pc[e] = "rpc" /\ chunk'[e] = chunk[e]
                                        \/ pc[e] = "confirm" /\ chunk'[e] = chunk[e] + 1
                   /\ pc'[e] \in {"send", "storing", "confirm"} =>
                        /\ pc[e] \in {"rpc", "send", "storing", "confirm"} /\ chunk'[e] = chunk[e]
                        /\ pc[e] = "rpc" => PutAlloc(e)
<1>1. ASSUME NEW c \in Clients,
             \/ Connected(c) \/ Ends(c) \/ PutAlloc(c) \/ SendSkipped(c) \/ StoreOpen(c)
             \/ StoreWrite(c) \/ Confirm(c) \/ NextChunk(c) \/ GetLocations(c) \/ Reads(c)
      PROVE  Goal
  <2>1. CASE Connected(c)
    BY <1>00, <2>1 DEF Connected
  <2>2. CASE Ends(c)
    BY <1>00, <2>2 DEF Ends, Return
  <2>3. CASE PutAlloc(c)
    <3>1. pc' = [pc EXCEPT ![c] = "send"] /\ chunk' = chunk /\ pc[c] = "rpc"
      BY <2>3 DEF PutAlloc, Goto
    <3>2. QED
      BY <1>00, <2>3, <3>1
  <2>4. CASE SendSkipped(c) \/ StoreOpen(c) \/ StoreWrite(c)
    BY <1>00, <2>4 DEF SendSkipped, StoreOpen, StoreWrite, Goto
  <2>5. CASE Confirm(c)
    BY <1>00, <2>5 DEF Confirm
  <2>6. CASE NextChunk(c)
    BY <1>00, <2>6 DEF NextChunk, Goto
  <2>7. CASE GetLocations(c)
    BY <1>00, <2>7 DEF GetLocations, Goto
  <2>8. CASE Reads(c)
    <3>1. pc' = pc /\ pc[c] = "read"
      BY <2>8 DEF Reads
    <3>2. e # c => chunk'[e] = chunk[e]
      BY <1>00, <2>8 DEF Reads
    <3>3. QED
      BY <3>1, <3>2
  <2>9. QED
    BY <1>1, <2>1, <2>2, <2>3, <2>4, <2>5, <2>6, <2>7, <2>8
<1>2. ASSUME NEW d \in DataNodes,
             DataNodeStart(d) \/ SendHeartbeat(d) \/ SendBlockReport(d) \/ Dies(d)
      PROVE  Goal
  BY <1>00, <1>2 DEF DataNodeStart, SendHeartbeat, SendBlockReport, Dies, DataNodeGone
<1>3. CASE NameNodeSave \/ NameNodeStopServer \/ NameNodeStopped \/ NameNodeKill \/ NameNodeExit
           \/ NameNodeStart \/ \E x \in Processes : WorkerTakes(x) \/ NameNodeCloses(x)
  BY <1>00, <1>3 DEF NameNodeSave, NameNodeStopServer, NameNodeStopped, NameNodeKill,
              WorkerTakes, NameNodeCloses, NameNodeExit, SocketsClosed, NameNodeStart
<1>4. QED
  BY <1>1, <1>2, <1>3, Steps

\* Every step keeps writers ahead of their blocks.
LEMMA OwnersAheadStep ==
    ASSUME DataInv, OwnersAhead, NdfsNext
    PROVE  /\ OwnersAhead'
           /\ \A b \in generated : owner'[b] = owner[b]
<1>0. TypeInv /\ RestOK /\ NsTypeOK /\ Places /\ job' = job
  BY TypeParts, OwnerEffect DEF DataInv
<1>1. \A b \in generated : owner'[b] = owner[b]
  <2>1. CASE UNCHANGED <<owner, targetsOf, generated>>
    BY <2>1
  <2>2. ASSUME NEW c, NEW t, NEW r, Granted(c, t, r)
        PROVE  \A b \in generated : owner'[b] = owner[b]
    BY <1>0, <2>2 DEF Granted, RestOK
  <2>3. QED
    BY <1>0, <2>1, <2>2, OwnerEffect
<1>2. ASSUME NEW b \in generated'
      PROVE  /\ owner'[b] \in Clients \X (Nat \ {0})
             /\ job'[owner'[b][1]].op = "put"
             /\ pc'[owner'[b][1]] # "idle"
             /\ pc'[owner'[b][1]] = "rpc" => owner'[b][2] < chunk'[owner'[b][1]]
             /\ pc'[owner'[b][1]] \in {"send", "storing", "confirm"} =>
                  owner'[b][2] <= chunk'[owner'[b][1]]
  <2>1. CASE b \in generated
    <3> DEFINE e == owner[b][1]
               n == owner[b][2]
    <3>1. /\ owner[b] \in Clients \X (Nat \ {0}) /\ job[e].op = "put" /\ pc[e] # "idle"
          /\ pc[e] = "rpc" => n < chunk[e]
          /\ pc[e] \in {"send", "storing", "confirm"} => n <= chunk[e]
      BY <2>1 DEF OwnersAhead
    <3>2. e \in Clients /\ n \in Nat \ {0} /\ chunk[e] \in Nat
      BY <1>0, <3>1 DEF RestOK
    <3> HIDE DEF e, n
    <3>3. /\ pc'[e] # "idle"
          /\ pc'[e] = "rpc" => \/ pc[e] = "rpc" /\ chunk'[e] = chunk[e]
                               \/ pc[e] = "confirm" /\ chunk'[e] = chunk[e] + 1
          /\ pc'[e] \in {"send", "storing", "confirm"} =>
               pc[e] \in {"rpc", "send", "storing", "confirm"} /\ chunk'[e] = chunk[e]
      BY <1>0, <3>1, <3>2, ProgressEffect
    <3>4. /\ pc'[e] = "rpc" => n < chunk'[e]
          /\ pc'[e] \in {"send", "storing", "confirm"} => n <= chunk'[e]
      BY <3>1, <3>2, <3>3
    <3>5. QED
      BY <1>0, <1>1, <2>1, <3>1, <3>3, <3>4 DEF e, n
  <2>2. CASE b \notin generated
    <3>1. PICK c \in Clients : PutAlloc(c) /\ \E t, r : Granted(c, t, r)
      BY <1>0, <2>2, OwnerEffect
    <3>2. PICK t, r : Granted(c, t, r)
      BY <3>1
    <3>3. b = r.block
      BY <2>2, <3>2 DEF Granted, Allocate
    <3>4. owner'[b] = <<c, chunk[c]>>
      BY <1>0, <3>2, <3>3 DEF Granted, RestOK
    <3>5. chunk' = chunk /\ pc' = [pc EXCEPT ![c] = "send"] /\ job[c].op = "put"
      BY <3>1 DEF PutAlloc, Goto
    <3>6. pc'[c] = "send" /\ chunk[c] \in Nat \ {0}
      BY <1>0, <3>5 DEF RestOK
    <3>7. QED
      BY <1>0, <3>4, <3>5, <3>6
  <2>3. QED
    BY <2>1, <2>2
<1>3. QED
  BY <1>1, <1>2 DEF OwnersAhead

-----------------------------------------------------------------------------
\* How the blocks of a node change: they stay, go, get a new one at the end, or
\* come from the image.
LEMMA TreeEffect ==
    ASSUME TypeInv, NdfsNext, NEW p \in Paths
    PROVE  \/ tree'[p].blocks = tree[p].blocks
           \/ tree'[p].blocks = <<>>
           \/ \E c \in Clients : PutAlloc(c) /\ \E t, r :
                /\ Granted(c, t, r) /\ p = job[c].path
                /\ t[p].blocks \in Seq(Blocks)
                /\ tree'[p].blocks = Append(t[p].blocks, r.block)
                /\ t[p].blocks = tree[p].blocks \/ t[p].blocks = <<>>
           \/ \E i \in DOMAIN image : tree'[p].blocks = image[i].blocks /\ NameNodeStart
<1>0. NsTypeOK /\ RestOK /\ tree \in Trees /\ image \in Seq(Lines)
  BY TypeParts DEF NsTypeOK, Trees, RestOK
<1> DEFINE Goal == \/ tree'[p].blocks = tree[p].blocks
                   \/ tree'[p].blocks = <<>>
                   \/ \E c \in Clients : PutAlloc(c) /\ \E t, r :
                        /\ Granted(c, t, r) /\ p = job[c].path
                        /\ t[p].blocks \in Seq(Blocks)
                        /\ tree'[p].blocks = Append(t[p].blocks, r.block)
                        /\ t[p].blocks = tree[p].blocks \/ t[p].blocks = <<>>
                   \/ \E i \in DOMAIN image : tree'[p].blocks = image[i].blocks /\ NameNodeStart
<1>1. ASSUME Derived(tree, tree') PROVE Goal
  BY <1>0, <1>1, DerivedBlocks
<1>2. ASSUME NEW c \in Clients, PutAlloc(c) PROVE Goal
  <2>1. CASE Refused(c)
    BY <1>1, <2>1 DEF Refused
  <2>2. ASSUME NEW t, NEW r, Granted(c, t, r) PROVE Goal
    <3>1. tree' = [t EXCEPT ![job[c].path] = File(Append(@.blocks, r.block))] /\ t \in Trees /\ Derived(tree, t)
      BY <2>2 DEF Granted, Allocate
    <3>2. t[p].blocks = tree[p].blocks \/ t[p].blocks = <<>>
      BY <1>0, <3>1, DerivedBlocks
    <3>3. CASE p # job[c].path
      <4>1. tree'[p] = t[p]
        BY <3>1, <3>3 DEF Trees
      <4>2. QED
        BY <3>2, <4>1
    <3>4. CASE p = job[c].path
      <4>1. tree'[p].blocks = Append(t[p].blocks, r.block) /\ t[p].blocks \in Seq(Blocks)
        BY <3>1, <3>4 DEF Trees, File, INodes
      <4>2. QED
        BY <1>2, <2>2, <3>2, <3>4, <4>1
    <3>5. QED
      BY <3>3, <3>4
  <2>3. QED
    BY <1>2, <2>1, <2>2, PutAllocCases
<1>3. ASSUME NEW c \in Clients, Ends(c) PROVE Goal
  <2>1. job[c].path \in Paths
    BY JobFacts DEF TypeInv
  <2>2. CASE UNCHANGED nsVars
    BY <2>2 DEF nsVars
  <2>3. CASE Delete(job[c].path) \/ MkdirsOp(job[c].path)
    BY <1>0, <1>1, <2>1, <2>3, DeleteTreeFacts, MkdirsFacts DEF Delete, MkdirsOp
  <2>4. QED
    BY <1>3, <2>2, <2>3 DEF Ends
<1>4. CASE NameNodeStart
  <2>1. tree' \in FromLines(image)
    BY <1>0, <1>4, LoadWellFormed DEF NameNodeStart
  <2>2. QED
    BY <1>4, <2>1 DEF FromLines
<1>5. CASE UNCHANGED nsVars \/ DataNodeNext
  <2>1. tree' = tree
    BY <1>5 DEF nsVars, DataNodeNext, RegisterDataNode, Heartbeat, BlockReport, BlockReceived
  <2>2. QED
    BY <2>1
<1>6. \/ NameNodeStart \/ UNCHANGED nsVars \/ DataNodeNext
      \/ \E c \in Clients : PutAlloc(c) \/ Ends(c)
  <2>1. ASSUME NEW c \in Clients,
               Connected(c) \/ SendSkipped(c) \/ StoreOpen(c) \/ StoreWrite(c) \/ NextChunk(c)
               \/ GetLocations(c) \/ Reads(c)
        PROVE  UNCHANGED nsVars
    BY <2>1, Handlers DEF Connected, SendSkipped, StoreOpen, StoreWrite, NextChunk, GetLocations, Reads
  <2>2. ASSUME NEW c \in Clients, Confirm(c) PROVE UNCHANGED nsVars \/ DataNodeNext
    BY <2>2, ConfirmNs DEF DataNodeNext
  <2>3. ASSUME NEW d \in DataNodes,
               DataNodeStart(d) \/ SendHeartbeat(d) \/ SendBlockReport(d) \/ Dies(d)
        PROVE  UNCHANGED nsVars \/ DataNodeNext
    BY <2>3, DataNodeNs DEF DataNodeStart, Dies, DataNodeGone, DataNodeNext
  <2>4. CASE NameNodeSave \/ NameNodeStopServer \/ NameNodeStopped \/ NameNodeKill \/ NameNodeExit
             \/ \E x \in Processes : WorkerTakes(x) \/ NameNodeCloses(x)
    BY <2>4 DEF NameNodeSave, NameNodeStopServer, NameNodeStopped, NameNodeKill,
                WorkerTakes, NameNodeCloses, NameNodeExit, SocketsClosed
  <2>5. QED
    BY <2>1, <2>2, <2>3, <2>4, Steps
<1>7. QED
  BY <1>2, <1>3, <1>4, <1>5, <1>6

\* as is the beginning of bs.
IsHead(as, bs) == \E k \in 0..Len(bs) : as = SubSeq(bs, 1, k)

\* How the image changes: it stays or is a save of the tree.
LEMMA ImageEffect ==
    ASSUME TypeInv, NdfsNext
    PROVE  \/ image' = image
           \/ /\ tree' = tree
              /\ \A i \in DOMAIN image' : /\ image'[i].path \in Paths
                                          /\ IsHead(image'[i].blocks, tree[image'[i].path].blocks)
                                          /\ image'[i].type = tree[image'[i].path].type
                                          /\ image'[i].type # "kAbsent"
<1>0. NsTypeOK /\ RestOK /\ tree \in Trees /\ IsFiniteSet(Nodes(tree))
  BY TypeParts DEF NsTypeOK, Trees, RestOK
<1> USE DEF nnVars, dnVars, history, clientVars
<1>1. CASE NameNodeSave
  <2>1. ASSUME NEW img \in Save(tree), image' \in Torn(img) \/ image' = img
        PROVE  \A i \in DOMAIN image' : /\ image'[i].path \in Paths
                                        /\ IsHead(image'[i].blocks, tree[image'[i].path].blocks)
                                        /\ image'[i].type = tree[image'[i].path].type
                                        /\ image'[i].type # "kAbsent"
    <3>1. /\ img \in Seq(Lines)
          /\ \A i \in DOMAIN img : /\ img[i].blocks = tree[img[i].path].blocks
                                    /\ img[i].type = tree[img[i].path].type
                                    /\ Exists(tree, img[i].path)
      BY <1>0, SaveFacts
    <3>2. \A i \in DOMAIN img : img[i].path \in Paths /\ IsHead(img[i].blocks, img[i].blocks)
      <4>1. \A i \in DOMAIN img : img[i] \in Lines
        BY <3>1
      <4>2. \A bs \in Seq(Blocks) : Len(bs) \in 0..Len(bs) /\ bs = SubSeq(bs, 1, Len(bs))
        OBVIOUS
      <4>3. QED
        BY <4>1, <4>2 DEF Lines, IsHead
    <3>3. \A i \in DOMAIN image' : /\ i \in DOMAIN img /\ image'[i].path = img[i].path
                                   /\ image'[i].type = img[i].type
                                   /\ IsHead(image'[i].blocks, img[i].blocks)
      <4>1. CASE image' \in Torn(img)
        BY <3>1, <4>1, TornFacts DEF IsHead
      <4>2. QED
        BY <2>1, <3>2, <4>1
    <3>4. QED
      BY <3>1, <3>2, <3>3 DEF Exists
  <2>2. tree' = tree
    BY <1>1 DEF NameNodeSave, nsVars
  <2>3. QED
    BY <1>1, <2>1, <2>2 DEF NameNodeSave
<1>2. ASSUME NEW c \in Clients,
             \/ Connected(c) \/ Ends(c) \/ PutAlloc(c) \/ SendSkipped(c) \/ StoreOpen(c)
             \/ StoreWrite(c) \/ Confirm(c) \/ NextChunk(c) \/ GetLocations(c) \/ Reads(c)
      PROVE  image' = image
  BY <1>2 DEF Connected, Ends, PutAlloc, SendSkipped, StoreOpen, StoreWrite, Confirm, NextChunk,
              GetLocations, Reads
<1>3. ASSUME NEW d \in DataNodes,
             DataNodeStart(d) \/ SendHeartbeat(d) \/ SendBlockReport(d) \/ Dies(d)
      PROVE  image' = image
  BY <1>3 DEF DataNodeStart, SendHeartbeat, SendBlockReport, Dies, DataNodeGone
<1>4. CASE NameNodeStopServer \/ NameNodeStopped \/ NameNodeKill \/ NameNodeExit \/ NameNodeStart
           \/ \E x \in Processes : WorkerTakes(x) \/ NameNodeCloses(x)
  BY <1>4 DEF NameNodeStopServer, NameNodeStopped, NameNodeKill,
              WorkerTakes, NameNodeCloses, NameNodeExit, SocketsClosed, NameNodeStart
<1>5. QED
  BY <1>1, <1>2, <1>3, <1>4, Steps

-----------------------------------------------------------------------------
\* The order of a list stays when blocks are only added to G.
LEMMA InOrderKept ==
    ASSUME NEW bs, NEW G, NEW o, NEW G2, NEW o2, InOrder(bs, G, o), G \subseteq G2,
           \A b \in G : o2[b] = o[b]
    PROVE  InOrder(bs, G2, o2)
BY DEF InOrder

\* The beginning of a list in order is in order.
LEMMA InOrderHead ==
    ASSUME NEW bs \in Seq(Blocks), NEW as, NEW G, NEW o, InOrder(bs, G, o), IsHead(as, bs)
    PROVE  InOrder(as, G, o)
<1>1. PICK k \in 0..Len(bs) : as = SubSeq(bs, 1, k)
  BY DEF IsHead
<1>2. DOMAIN as = 1..k /\ \A i \in 1..k : i \in DOMAIN bs /\ as[i] = bs[i]
  BY <1>1
<1>3. QED
  BY <1>2 DEF InOrder

\* The empty list is in order.
LEMMA InOrderEmpty == ASSUME NEW G, NEW o PROVE InOrder(<<>>, G, o)
BY DEF InOrder

\* A new block of a writer goes behind the blocks it has had.
LEMMA InOrderAppend ==
    ASSUME NEW bs \in Seq(Blocks), NEW G, NEW o, NEW b, NEW o2, NEW c, NEW n \in Nat,
           InOrder(bs, G, o), \A x \in G : o2[x] = o[x] /\ o[x] \in Clients \X Nat,
           o2[b] = <<c, n>>, \A x \in G : o[x][1] = c => o[x][2] < n
    PROVE  InOrder(Append(bs, b), G \cup {b}, o2)
<1> DEFINE s == Append(bs, b)
<1>1. /\ DOMAIN bs = 1..Len(bs) /\ Len(bs) \in Nat /\ DOMAIN s = 1..(Len(bs) + 1)
      /\ \A i \in DOMAIN bs : s[i] = bs[i]
      /\ s[Len(bs) + 1] = b
  BY AppendProperties
<1>2. \A i \in DOMAIN bs : s[i] \in G /\ o2[s[i]] = o[bs[i]]
  BY <1>1 DEF InOrder
<1>3. \A i, j \in DOMAIN bs :
        i < j /\ o2[s[i]][1] = o2[s[j]][1] => o2[s[i]][2] < o2[s[j]][2]
  BY <1>2 DEF InOrder
<1> HIDE DEF s
<1>4. ASSUME NEW i \in DOMAIN bs, o2[s[i]][1] = c PROVE o2[s[i]][2] < n
  BY <1>2, <1>4
<1>5. ASSUME NEW i \in DOMAIN s, NEW j \in DOMAIN s, i < j, o2[s[i]][1] = o2[s[j]][1]
      PROVE  o2[s[i]][2] < o2[s[j]][2]
  <2>1. i \in DOMAIN bs
    BY <1>1, <1>5
  <2>2. CASE j \in DOMAIN bs
    BY <1>3, <1>5, <2>1, <2>2
  <2>3. CASE j = Len(bs) + 1
    <3>1. o2[s[j]] = <<c, n>>
      BY <1>1, <2>3
    <3>2. o2[s[i]][1] = c /\ o2[s[j]][2] = n
      BY <1>5, <3>1
    <3>3. QED
      BY <1>4, <2>1, <3>2
  <2>4. QED
    BY <1>1, <2>2, <2>3
<1>6. \A i \in DOMAIN s : s[i] \in G \cup {b}
  BY <1>1, <1>2
<1>7. InOrder(s, G \cup {b}, o2)
  BY <1>5, <1>6 DEF InOrder
<1>8. QED
  BY <1>7 DEF s

\* A granted block is fresh, and all blocks its client had are of earlier chunks.
LEMMA GrantFacts ==
    ASSUME DataInv, OwnersAhead, NdfsNext, NEW c \in Clients, NEW t, NEW r, PutAlloc(c), Granted(c, t, r)
    PROVE  /\ r.block \in Blocks \ generated /\ generated' = generated \cup {r.block}
           /\ \A b \in generated : owner'[b] = owner[b] /\ owner[b] \in Clients \X Nat
           /\ owner'[r.block] = <<c, chunk[c]>> /\ chunk[c] \in Nat \ {0}
           /\ \A b \in generated : owner[b][1] = c => owner[b][2] < chunk[c]
<1>1. TypeInv /\ RestOK /\ NsTypeOK
  BY TypeParts DEF DataInv
<1>2. r.block \in Blocks \ generated /\ generated' = generated \cup {r.block}
  BY Zenon DEF Granted, Allocate
<1>3. owner' = [owner EXCEPT ![r.block] = <<c, chunk[c]>>]
  BY DEF Granted
<1>4. owner'[r.block] = <<c, chunk[c]>> /\ chunk[c] \in Nat \ {0}
  BY <1>1, <1>2, <1>3 DEF RestOK
<1>5. \A b \in generated : owner'[b] = owner[b] /\ owner[b] \in Clients \X (Nat \ {0})
  BY OwnersAheadStep DEF OwnersAhead
<1>6. pc[c] = "rpc"
  BY DEF PutAlloc
<1>7. \A b \in generated : owner[b][1] = c => owner[b][2] < chunk[c]
  BY <1>6 DEF OwnersAhead
<1>8. QED
  BY <1>2, <1>4, <1>5, <1>7

\* Every step keeps the order in the tree and in the image.
LEMMA OrderStep == ASSUME DataInv, OrderInv, [NdfsNext]_vars PROVE OrderInv'
<1>0. TypeInv /\ RestOK /\ NsTypeOK /\ OwnersAhead
  BY TypeParts DEF DataInv, OrderInv
<1>1. CASE UNCHANGED vars
  BY <1>1 DEF vars, nsVars, nnVars, clientVars, history, OrderInv, OwnersAhead, mapVars
<1>2. ASSUME NdfsNext PROVE OrderInv'
  <2>1. /\ OwnersAhead' /\ generated \subseteq generated'
        /\ \A b \in generated : owner'[b] = owner[b]
    BY <1>0, <1>2, OwnersAheadStep, NsPart
  <2>2. ASSUME NEW p \in Paths PROVE InOrder(tree'[p].blocks, generated', owner')
    <3>1. InOrder(tree[p].blocks, generated, owner)
      BY DEF OrderInv
    <3>2. CASE tree'[p].blocks = tree[p].blocks
      BY <2>1, <3>1, <3>2, InOrderKept
    <3>3. CASE tree'[p].blocks = <<>>
      BY <3>3, InOrderEmpty
    <3>4. ASSUME NEW c \in Clients, NEW t, NEW r, PutAlloc(c), Granted(c, t, r),
                 t[p].blocks \in Seq(Blocks),
                 tree'[p].blocks = Append(t[p].blocks, r.block),
                 t[p].blocks = tree[p].blocks \/ t[p].blocks = <<>>
          PROVE  InOrder(tree'[p].blocks, generated', owner')
      <4>1. InOrder(t[p].blocks, generated, owner)
        BY <3>1, <3>4, InOrderEmpty
      <4>2. /\ generated' = generated \cup {r.block}
            /\ \A b \in generated : owner'[b] = owner[b] /\ owner[b] \in Clients \X Nat
            /\ owner'[r.block] = <<c, chunk[c]>> /\ chunk[c] \in Nat
            /\ \A b \in generated : owner[b][1] = c => owner[b][2] < chunk[c]
        BY <1>0, <1>2, <3>4, GrantFacts
      <4> DEFINE bs == t[p].blocks
                 o2 == owner'
                 n == chunk[c]
                 e == r.block
      <4> HIDE DEF bs, o2, n, e
      <4>3. InOrder(Append(bs, e), generated \cup {e}, o2)
        BY <3>4, <4>1, <4>2, InOrderAppend, SMTT(30) DEF bs, o2, n, e
      <4>4. QED
        BY <3>4, <4>2, <4>3 DEF bs, o2, e
    <3>5. ASSUME NEW i \in DOMAIN image, tree'[p].blocks = image[i].blocks
          PROVE  InOrder(tree'[p].blocks, generated', owner')
      <4>1. InOrder(image[i].blocks, generated, owner)
        BY DEF OrderInv
      <4>2. QED
        BY <2>1, <3>5, <4>1, InOrderKept
    <3>6. QED
      BY <1>0, <1>2, <3>2, <3>3, <3>4, <3>5, TreeEffect
  <2>3. ASSUME NEW i \in DOMAIN image' PROVE InOrder(image'[i].blocks, generated', owner')
    <3>1. CASE image' = image
      <4>1. InOrder(image[i].blocks, generated, owner)
        BY <2>3, <3>1 DEF OrderInv
      <4>2. QED
        BY <2>1, <3>1, <4>1, InOrderKept
    <3>2. CASE image'[i].path \in Paths /\ IsHead(image'[i].blocks, tree[image'[i].path].blocks)
      <4>1. InOrder(tree[image'[i].path].blocks, generated, owner)
        BY <3>2 DEF OrderInv
      <4>2. tree[image'[i].path].blocks \in Seq(Blocks)
        BY <1>0, <3>2 DEF NsTypeOK, INodes
      <4>3. InOrder(image'[i].blocks, generated, owner)
        BY <3>2, <4>1, <4>2, InOrderHead
      <4>4. QED
        BY <2>1, <4>3, InOrderKept
    <3>3. QED
      BY <1>0, <1>2, <2>3, <3>1, <3>2, ImageEffect
  <2>4. QED
    BY <2>1, <2>2, <2>3 DEF OrderInv
<1>3. QED
  BY <1>1, <1>2

\* OrderInv holds at the start.
LEMMA OrderInit == NdfsInit => OrderInv
<1> SUFFICES ASSUME NdfsInit PROVE OrderInv
  OBVIOUS
<1>1. generated = {} /\ tree = EmptyTree /\ image = <<>>
  BY DEF NdfsInit, NsInit
<1>2. \A p \in Paths : tree[p].blocks = <<>>
  BY <1>1 DEF EmptyTree, Directory, Absent
<1>3. \A p \in Paths : InOrder(tree[p].blocks, generated, owner)
  BY <1>2, InOrderEmpty
<1>4. DOMAIN image = {}
  BY <1>1
<1>5. QED
  BY <1>1, <1>3, <1>4 DEF OrderInv, OwnersAhead

\* In a file the chunks of one writer stand in the order it wrote them, however
\* many writers append to the path and whatever image the NameNode starts from.
THEOREM WriterChunksInOrderHolds == NdfsSpec => []WriterChunksInOrder
<1>1. OrderInv => WriterChunksInOrder
  BY DEF OrderInv, InOrder, WriterChunksInOrder
<1>2. QED
  BY <1>1, OrderInit, OrderStep, DataInvCorrect, PTL DEF NdfsSpec

-----------------------------------------------------------------------------
(***************************************************************************)
(* A single writer's chunks stand in their places.                         *)
(***************************************************************************)

\* What a step of somebody else leaves to a client: everything, but that a
\* client that was sending to a DataNode that died goes on.
Bystander(e) ==
    /\ chunk'[e] = chunk[e] /\ alloc'[e] = alloc[e] /\ idx'[e] = idx[e]
    /\ found'[e] = found[e] /\ data'[e] = data[e] /\ status'[e] = status[e]
    /\ sawDone'[e] = sawDone[e]
    /\ \/ pc'[e] = pc[e]
       \/ pc[e] = "storing" /\ pc'[e] = "confirm" /\ \E d \in DataNodes : Dies(d)

\* The own steps of a client.
OwnStep(e) ==
    \/ Connected(e) \/ Ends(e) \/ PutAlloc(e) \/ SendSkipped(e) \/ StoreOpen(e)
    \/ StoreWrite(e) \/ Confirm(e) \/ NextChunk(e) \/ GetLocations(e) \/ Reads(e)

\* A client takes a step of its own or is a bystander.
LEMMA OwnSteps ==
    ASSUME TypeInv, NdfsNext, NEW e \in Clients
    PROVE  OwnStep(e) \/ Bystander(e)
<1>0. RestOK
  BY TypeParts
<1>00. /\ alloc \in [Clients -> Allocs] /\ chunk \in [Clients -> Nat \ {0}]
       /\ pc \in [Clients -> {"idle", "rpc", "send", "storing", "confirm", "read", "done"}]
       /\ idx \in [Clients -> Nat \ {0}] /\ found \in [Clients -> Seq(Founds)]
       /\ data \in [Clients -> Seq(Contents)] /\ sawDone \in [Clients -> SUBSET Clients]
       /\ status \in [Clients -> {"none", "OK", "IOError", "Killed"}]
  BY <1>0 DEF RestOK
<1> USE DEF nnVars, dnVars, history, clientVars
<1>1. ASSUME NEW c \in Clients, OwnStep(c), c # e PROVE Bystander(e)
  <2>1. CASE Connected(c)
    BY <1>00, <1>1, <2>1 DEF Connected, Bystander
  <2>2. CASE Ends(c)
    BY <1>00, <1>1, <2>2 DEF Ends, Return, Bystander
  <2>3. CASE PutAlloc(c)
    <3>1. PICK r : alloc' = [alloc EXCEPT ![c] = r]
      BY <2>3, PutAllocStep
    <3>2. pc' = [pc EXCEPT ![c] = "send"] /\ UNCHANGED <<chunk, idx, found, data, status, sawDone>>
      BY <2>3 DEF PutAlloc, Goto
    <3>3. QED
      BY <1>00, <1>1, <3>1, <3>2 DEF Bystander
  <2>4. CASE SendSkipped(c) \/ StoreOpen(c) \/ StoreWrite(c)
    BY <1>00, <1>1, <2>4 DEF SendSkipped, StoreOpen, StoreWrite, Goto, Bystander
  <2>5. CASE Confirm(c)
    BY <1>00, <1>1, <2>5 DEF Confirm, Bystander
  <2>6. CASE NextChunk(c)
    BY <1>00, <1>1, <2>6 DEF NextChunk, Goto, Bystander
  <2>7. CASE GetLocations(c)
    <3>1. PICK g : found' = [found EXCEPT ![c] = g]
      BY <2>7 DEF GetLocations
    <3>2. pc' = [pc EXCEPT ![c] = "read"] /\ UNCHANGED <<chunk, idx, alloc, data, status, sawDone>>
      BY <2>7 DEF GetLocations, Goto
    <3>3. QED
      BY <1>00, <1>1, <3>1, <3>2 DEF Bystander
  <2>8. CASE Reads(c)
    <3>1. UNCHANGED <<pc, alloc, found, status, sawDone>>
      BY <2>8 DEF Reads
    <3>2. chunk'[e] = chunk[e] /\ idx'[e] = idx[e]
      BY <1>00, <1>1, <2>8 DEF Reads
    <3>3. data'[e] = data[e]
      BY <1>00, <1>1, <2>8 DEF Reads
    <3>4. QED
      BY <3>1, <3>2, <3>3 DEF Bystander
  <2>9. QED
    BY <1>1, <2>1, <2>2, <2>3, <2>4, <2>5, <2>6, <2>7, <2>8 DEF OwnStep
<1>2. ASSUME NEW d \in DataNodes, DataNodeStart(d) \/ SendHeartbeat(d) \/ SendBlockReport(d)
      PROVE  Bystander(e)
  BY <1>2 DEF DataNodeStart, SendHeartbeat, SendBlockReport, Bystander
<1>3. ASSUME NEW d \in DataNodes, Dies(d) PROVE Bystander(e)
  <2>1. UNCHANGED <<chunk, idx, alloc, found, data, status, sawDone>>
    BY <1>3 DEF Dies, DataNodeGone
  <2>2. pc'[e] = pc[e] \/ (pc[e] = "storing" /\ pc'[e] = "confirm")
    BY <1>3 DEF Dies, DataNodeGone
  <2>3. QED
    BY <1>3, <2>1, <2>2 DEF Bystander
<1>4. CASE NameNodeSave \/ NameNodeStopServer \/ NameNodeStopped \/ NameNodeKill \/ NameNodeExit
           \/ NameNodeStart \/ \E x \in Processes : WorkerTakes(x) \/ NameNodeCloses(x)
  BY <1>4 DEF NameNodeSave, NameNodeStopServer, NameNodeStopped, NameNodeKill,
              WorkerTakes, NameNodeCloses, NameNodeExit, SocketsClosed,
              NameNodeStart, Bystander
<1>5. QED
  BY <1>1, <1>2, <1>3, <1>4, Steps DEF OwnStep

\* A connection that is live was, or has just been made.
LEMMA ConnEffect ==
    ASSUME TypeInv, DownIsClosed, NdfsNext, NEW x \in Processes, Live(x)'
    PROVE  \/ /\ Live(x) /\ (nn' = "down" => nn = "down")
              /\ conn'[x] = "queued" => conn[x] = "queued" /\ (Accepting => Accepting')
           \/ Accepting /\ nn' = nn /\ (x \in Clients => Connected(x))
<1>0. RestOK
  BY TypeParts
<1>00. conn \in [Processes -> ConnStates]
  BY <1>0 DEF RestOK
<1>01. Clients \subseteq Processes /\ DataNodes \subseteq Processes /\ Clients \cap DataNodes = {}
  BY NdfsAssumption DEF Processes
<1> USE DEF nnVars, dnVars, history, clientVars
<1> USE DEF Live, Accepting
<1> DEFINE Goal == \/ /\ Live(x) /\ (nn' = "down" => nn = "down")
                      /\ conn'[x] = "queued" => conn[x] = "queued" /\ (Accepting => Accepting')
                   \/ Accepting /\ nn' = nn /\ (x \in Clients => Connected(x))
<1>1. ASSUME NEW c \in Clients, OwnStep(c) PROVE Goal
  <2>1. CASE Connected(c)
    <3>1. Accepting /\ nn' = nn /\ conn' = [conn EXCEPT ![c] = "queued"]
      BY <2>1 DEF Connected
    <3>2. QED
      BY <1>00, <1>01, <2>1, <3>1
  <2>2. CASE Ends(c)
    BY <1>00, <1>01, <2>2 DEF Ends, Return
  <2>3. CASE PutAlloc(c) \/ Confirm(c) \/ GetLocations(c)
    <3>1. nn' = nn
      BY <2>3 DEF PutAlloc, Confirm, GetLocations
    <3>2. Served(c) \/ CallFails(c)
      BY <2>3 DEF PutAlloc, Confirm, GetLocations
    <3>3. QED
      BY <1>00, <1>01, <3>1, <3>2 DEF Served, CallFails
  <2>4. CASE SendSkipped(c) \/ StoreOpen(c) \/ StoreWrite(c) \/ NextChunk(c) \/ Reads(c)
    BY <2>4 DEF SendSkipped, StoreOpen, StoreWrite, NextChunk, Reads
  <2>5. QED
    BY <1>1, <2>1, <2>2, <2>3, <2>4 DEF OwnStep
<1>2. ASSUME NEW d \in DataNodes, DataNodeStart(d) \/ Dies(d) PROVE Goal
  BY <1>00, <1>01, <1>2 DEF DataNodeStart, Dies, DataNodeGone
<1>3. ASSUME NEW d \in DataNodes, SendHeartbeat(d) \/ SendBlockReport(d) PROVE Goal
  <2>1. nn' = nn
    BY <1>3 DEF SendHeartbeat, SendBlockReport
  <2>2. Served(d) \/ CallFails(d)
    BY <1>3 DEF SendHeartbeat, SendBlockReport
  <2>3. QED
    BY <1>00, <1>01, <2>1, <2>2 DEF Served, CallFails
<1>4. CASE NameNodeSave \/ NameNodeKill \/ NameNodeExit \/ NameNodeStart
  BY <1>00, <1>4 DEF NameNodeSave, NameNodeKill, NameNodeExit, SocketsClosed, NameNodeStart
<1>5. CASE NameNodeStopServer \/ NameNodeStopped
  <2>1. CASE NameNodeStopServer
    BY <2>1 DEF NameNodeStopServer
  <2>2. CASE NameNodeStopped
    BY <2>2 DEF NameNodeStopped, Held, DownIsClosed
  <2>3. QED
    BY <1>5, <2>1, <2>2
<1>6. ASSUME NEW y \in Processes, WorkerTakes(y) \/ NameNodeCloses(y) PROVE Goal
  BY <1>00, <1>6 DEF WorkerTakes, NameNodeCloses
<1>7. QED
  BY <1>1, <1>2, <1>3, <1>4, <1>5, <1>6, Steps DEF OwnStep

\* So none is live to a NameNode that is down.
LEMMA DownIsClosedStep == ASSUME TypeInv, DownIsClosed, NdfsNext PROVE DownIsClosed'
<1>1. ASSUME NEW x \in Processes, Live(x)'
      PROVE  nn' # "down" /\ (conn'[x] = "queued" => Accepting')
  BY <1>1, ConnEffect DEF DownIsClosed, Accepting
<1>2. QED
  BY <1>1 DEF DownIsClosed, Live

\* How the tree changes: nodes go and directories are made, a block is granted,
\* or it is loaded.
LEMMA TreeCases ==
    ASSUME TypeInv, NdfsNext
    PROVE  \/ Derived(tree, tree')
           \/ \E c \in Clients : PutAlloc(c) /\ \E t, r : Granted(c, t, r)
           \/ NameNodeStart /\ tree' \in FromLines(image)
<1>0. NsTypeOK /\ RestOK /\ tree \in Trees /\ image \in Seq(Lines)
  BY TypeParts DEF NsTypeOK, Trees, RestOK
<1>1. tree' = tree => Derived(tree, tree')
  BY <1>0, DerivedRefl
<1>2. ASSUME NEW c \in Clients, PutAlloc(c)
      PROVE  Derived(tree, tree') \/ \E t, r : Granted(c, t, r)
  BY <1>2, PutAllocCases DEF Refused
<1>3. ASSUME NEW c \in Clients, Ends(c) PROVE Derived(tree, tree')
  <2>1. job[c].path \in Paths
    BY JobFacts DEF TypeInv
  <2>2. CASE UNCHANGED nsVars
    BY <1>1, <2>2 DEF nsVars
  <2>3. CASE Delete(job[c].path) \/ MkdirsOp(job[c].path)
    BY <1>0, <2>1, <2>3, DeleteTreeFacts, MkdirsFacts DEF Delete, MkdirsOp
  <2>4. QED
    BY <1>3, <2>2, <2>3 DEF Ends
<1>4. CASE NameNodeStart
  BY <1>0, <1>4, LoadWellFormed DEF NameNodeStart
<1>5. ASSUME NEW c \in Clients,
             Connected(c) \/ SendSkipped(c) \/ StoreOpen(c) \/ StoreWrite(c) \/ NextChunk(c)
             \/ GetLocations(c) \/ Reads(c)
      PROVE  tree' = tree
  <2>1. UNCHANGED nsVars
    BY <1>5, Handlers DEF Connected, SendSkipped, StoreOpen, StoreWrite, NextChunk, GetLocations, Reads
  <2>2. QED
    BY <2>1 DEF nsVars
<1>6. ASSUME NEW c \in Clients, Confirm(c) PROVE tree' = tree
  BY <1>6, ConfirmNs DEF BlockReceived, nsVars
<1>7. ASSUME NEW d \in DataNodes,
             DataNodeStart(d) \/ SendHeartbeat(d) \/ SendBlockReport(d) \/ Dies(d)
      PROVE  tree' = tree
  BY <1>7, DataNodeNs DEF DataNodeStart, Dies, DataNodeGone, Heartbeat, RegisterDataNode, BlockReport, nsVars
<1>8. CASE NameNodeSave \/ NameNodeStopServer \/ NameNodeStopped \/ NameNodeKill \/ NameNodeExit
           \/ \E x \in Processes : WorkerTakes(x) \/ NameNodeCloses(x)
  BY <1>1, <1>8 DEF NameNodeSave, NameNodeStopServer, NameNodeStopped, NameNodeKill,
                    WorkerTakes, NameNodeCloses, NameNodeExit, SocketsClosed, nsVars
<1>9. QED
  BY <1>1, <1>2, <1>3, <1>4, <1>5, <1>6, <1>7, <1>8, Steps

\* What a derived tree holds of files.
LEMMA DerivedFiles ==
    ASSUME NEW t \in Trees, NEW u, Derived(t, u), NEW p \in Paths, IsFile(u, p)
    PROVE  IsFile(t, p) /\ u[p] = t[p]
BY DEF Derived, Absent, Directory, IsFile

\* Before the first block there is no file, in the tree or in the image.
LEMMA NoFileFirstStep == ASSUME TypeInv, NoFileFirst, NdfsNext PROVE NoFileFirst'
<1>0. NsTypeOK /\ RestOK /\ tree \in Trees
  BY TypeParts DEF NsTypeOK, Trees
<1> SUFFICES ASSUME generated' = {}
             PROVE  /\ \A p \in Paths : ~ IsFile(tree', p)
                    /\ \A i \in DOMAIN image' : image'[i].type = "kDirectory"
  BY DEF NoFileFirst, IsFile
<1>1. /\ \A p \in Paths : ~ IsFile(tree, p)
      /\ \A i \in DOMAIN image : image[i].type = "kDirectory"
  BY NsPart DEF NoFileFirst
<1>2. ASSUME NEW p \in Paths, IsFile(tree', p) PROVE FALSE
  <2>1. CASE Derived(tree, tree')
    BY <1>0, <1>1, <1>2, <2>1, DerivedFiles
  <2>2. ASSUME NEW c, NEW t, NEW r, Granted(c, t, r) PROVE FALSE
    BY <2>2 DEF Granted, Allocate
  <2>3. CASE tree' \in FromLines(image)
    BY <1>1, <1>2, <2>3 DEF FromLines
  <2>4. QED
    BY <2>1, <2>2, <2>3, TreeCases
<1>3. ASSUME NEW i \in DOMAIN image' PROVE image'[i].type = "kDirectory"
  <2>1. CASE image' = image
    BY <1>1, <1>3, <2>1
  <2>2. CASE image'[i].path \in Paths /\ image'[i].type = tree[image'[i].path].type
             /\ image'[i].type # "kAbsent"
    <3>1. tree[image'[i].path].type \in Types
      BY <1>0, <2>2 DEF Trees, INodes
    <3>2. QED
      BY <1>1, <2>2, <3>1 DEF Types, IsFile
  <2>3. QED
    BY <1>3, <2>1, <2>2, ImageEffect
<1>4. QED
  BY <1>2, <1>3

\* The blocks are all the only writer's; before its first call there are none.
LEMMA OnlyOwner ==
    ASSUME TypeInv, OwnersAhead, NEW w \in Clients, OnlyWriter(w)
    PROVE  /\ \A b \in generated : owner[b][1] = w
           /\ pc[w] = "idle" \/ (pc[w] = "rpc" /\ chunk[w] = 1) => generated = {}
           /\ \A c \in Clients : job[c].op = "put" => c = w
<1>1. \A c \in Clients : job[c].op = "put" => c = w
  BY DEF OnlyWriter
<1>2. \A b \in generated : owner[b][1] = w
  BY <1>1 DEF OwnersAhead
<1>3. ASSUME NEW b \in generated PROVE pc[w] # "idle" /\ (pc[w] = "rpc" => chunk[w] # 1)
  <2>1. owner[b] \in Clients \X (Nat \ {0}) /\ pc[w] # "idle" /\ (pc[w] = "rpc" => owner[b][2] < chunk[w])
    BY <1>2, <1>3 DEF OwnersAhead
  <2>2. owner[b][2] \in Nat \ {0}
    BY <2>1
  <2>3. QED
    BY <2>1, <2>2
<1>4. QED
  BY <1>1, <1>2, <1>3

\* The list of the only writer stays in place when it gets its next chunk.
LEMMA ChunksAppend ==
    ASSUME NEW bs \in Seq(Blocks), NEW G, NEW o, NEW b, NEW o2, NEW w,
           ChunksOf(w, bs, G, o), \A x \in G : o2[x] = o[x],
           o2[b] = <<w, Len(bs) + 1>>
    PROVE  ChunksOf(w, Append(bs, b), G \cup {b}, o2)
<1> DEFINE s == Append(bs, b)
<1>1. /\ DOMAIN bs = 1..Len(bs) /\ Len(bs) \in Nat /\ DOMAIN s = 1..(Len(bs) + 1)
      /\ \A i \in DOMAIN bs : s[i] = bs[i]
      /\ s[Len(bs) + 1] = b
  BY AppendProperties
<1> HIDE DEF s
<1>2. ASSUME NEW i \in DOMAIN s PROVE s[i] \in G \cup {b} /\ o2[s[i]] = <<w, i>>
  <2>1. CASE i \in DOMAIN bs
    BY <1>1, <2>1 DEF ChunksOf
  <2>2. CASE i = Len(bs) + 1
    BY <1>1, <2>2
  <2>3. QED
    BY <1>1, <1>2, <2>1, <2>2
<1>3. ChunksOf(w, s, G \cup {b}, o2)
  BY <1>2 DEF ChunksOf
<1>4. QED
  BY <1>3 DEF s

\* It stays in place when blocks are only added to G.
LEMMA ChunksKept ==
    ASSUME NEW bs, NEW G, NEW o, NEW G2, NEW o2, NEW w, ChunksOf(w, bs, G, o), G \subseteq G2,
           \A b \in G : o2[b] = o[b]
    PROVE  ChunksOf(w, bs, G2, o2)
BY DEF ChunksOf

\* So has the beginning of a list.
LEMMA ChunksHead ==
    ASSUME NEW bs \in Seq(Blocks), NEW as, NEW G, NEW o, NEW w, ChunksOf(w, bs, G, o),
           IsHead(as, bs)
    PROVE  ChunksOf(w, as, G, o)
<1>1. PICK k \in 0..Len(bs) : as = SubSeq(bs, 1, k)
  BY DEF IsHead
<1>2. DOMAIN as = 1..k /\ \A i \in 1..k : i \in DOMAIN bs /\ as[i] = bs[i]
  BY <1>1
<1>3. QED
  BY <1>2 DEF ChunksOf

\* The empty list is in place.
LEMMA ChunksEmpty == ASSUME NEW G, NEW o, NEW w PROVE ChunksOf(w, <<>>, G, o)
BY DEF ChunksOf

\* The only writer's calls: the file it appends to ends with the chunk before.
LEMMA OnlyWriterGrant ==
    ASSUME DataInv, OrderInv, PlaceInv, NEW w \in Clients, OnlyWriter(w), PutAlloc(w),
           NEW t, NEW r, Granted(w, t, r)
    PROVE  /\ t[job[w].path].blocks \in Seq(Blocks)
           /\ Len(t[job[w].path].blocks) + 1 = chunk[w]
           /\ ChunksOf(w, t[job[w].path].blocks, generated, owner)
           /\ tree'[job[w].path].blocks = Append(t[job[w].path].blocks, r.block)
<1> DEFINE p == job[w].path
<1>0. TypeInv /\ RestOK /\ NsTypeOK /\ OwnersAhead /\ p \in Paths /\ tree \in Trees /\ chunk[w] \in Nat
  BY TypeParts, JobFacts DEF DataInv, OrderInv, TypeInv, RestOK, NsTypeOK, Trees
<1>1. pc[w] = "rpc" /\ conn[w] = "open"
  BY DEF PutAlloc, Served
<1>2. t \in Trees /\ Derived(tree, t) /\ t[p].blocks \in Seq(Blocks)
  BY <1>0 DEF Granted, Trees, INodes
<1>3. ChunksOf(w, tree[p].blocks, generated, owner) /\ FileAtChunk(w)
  BY <1>0 DEF PlaceInv
<1>4. tree' = [t EXCEPT ![p] = File(Append(@.blocks, r.block))]
  BY DEF Granted, Allocate
<1> HIDE DEF p
<1>5. tree'[p].blocks = Append(t[p].blocks, r.block)
  BY <1>0, <1>2, <1>4 DEF Trees, File
<1>6. t[p].blocks = tree[p].blocks \/ t[p].blocks = <<>>
  BY <1>0, <1>2, DerivedBlocks
<1>7. ChunksOf(w, t[p].blocks, generated, owner)
  BY <1>3, <1>6, ChunksEmpty
<1>8. CASE chunk[w] = 1
  <2>1. generated = {}
    BY <1>0, <1>1, <1>8, OnlyOwner
  <2>2. DOMAIN t[p].blocks = {}
    BY <1>7, <2>1 DEF ChunksOf
  <2>3. Len(t[p].blocks) = 0
    <3> DEFINE s == t[p].blocks
    <3> HIDE DEF s
    <3>1. s \in Seq(Blocks) /\ DOMAIN s = {}
      BY <1>2, <2>2 DEF s
    <3>2. DOMAIN s = 1..Len(s) /\ Len(s) \in Nat
      BY <3>1
    <3>3. Len(s) = 0
      BY <3>1, <3>2
    <3>4. QED
      BY <3>3 DEF s
  <2>4. QED
    BY <1>2, <1>5, <1>7, <1>8, <2>3 DEF p
<1>9. CASE chunk[w] # 1
  <2>1. t = tree /\ IsFile(tree, p)
    BY <1>9 DEF Granted, p
  <2>2. Len(tree[p].blocks) = chunk[w] - 1
    BY <1>1, <1>3, <2>1 DEF FileAtChunk, Live, p
  <2>3. QED
    BY <1>0, <1>2, <1>5, <1>7, <2>1, <2>2 DEF p
<1>10. QED
  BY <1>8, <1>9

\* The only writer's chunks stay in place in the tree and in the image.
LEMMA ChunksStep ==
    ASSUME DataInv, OrderInv, PlaceInv, NdfsNext, NEW w \in Clients, OnlyWriter(w)
    PROVE  /\ \A p \in Paths : ChunksOf(w, tree'[p].blocks, generated', owner')
           /\ \A i \in DOMAIN image' : ChunksOf(w, image'[i].blocks, generated', owner')
<1>0. TypeInv /\ RestOK /\ NsTypeOK /\ OwnersAhead
  BY TypeParts DEF DataInv, OrderInv
<1>1. /\ generated \subseteq generated'
      /\ \A b \in generated : owner'[b] = owner[b]
  BY <1>0, OwnersAheadStep, NsPart
<1>2. ASSUME NEW p \in Paths PROVE ChunksOf(w, tree'[p].blocks, generated', owner')
  <2>1. ChunksOf(w, tree[p].blocks, generated, owner)
    BY DEF PlaceInv
  <2>2. CASE tree'[p].blocks = tree[p].blocks
    BY <1>1, <2>1, <2>2, ChunksKept
  <2>3. CASE tree'[p].blocks = <<>>
    BY <2>3, ChunksEmpty
  <2>4. ASSUME NEW c \in Clients, NEW t, NEW r, PutAlloc(c), Granted(c, t, r), p = job[c].path
        PROVE  ChunksOf(w, tree'[p].blocks, generated', owner')
    <3>1. c = w
      BY <1>0, <2>4, OnlyOwner DEF PutAlloc
    <3>2. /\ generated' = generated \cup {r.block}
          /\ owner'[r.block] = <<c, chunk[c]>>
      BY <1>0, <2>4, GrantFacts
    <3>3. /\ t[p].blocks \in Seq(Blocks)
          /\ Len(t[p].blocks) + 1 = chunk[w]
          /\ ChunksOf(w, t[p].blocks, generated, owner)
          /\ tree'[p].blocks = Append(t[p].blocks, r.block)
      <4>1. PutAlloc(w) /\ Granted(w, t, r) /\ p = job[w].path
        BY <2>4, <3>1
      <4>2. QED
        BY <4>1, OnlyWriterGrant
    <3> DEFINE bs == t[p].blocks
               o2 == owner'
               e == r.block
    <3>4. bs \in Seq(Blocks) /\ ChunksOf(w, bs, generated, owner) /\ o2[e] = <<w, Len(bs) + 1>>
          /\ \A x \in generated : o2[x] = owner[x]
      BY <1>1, <3>1, <3>2, <3>3
    <3> HIDE DEF bs, o2, e
    <3>5. ChunksOf(w, Append(bs, e), generated \cup {e}, o2)
      BY <3>4, ChunksAppend
    <3>6. QED
      BY <3>2, <3>3, <3>5 DEF bs, o2, e
  <2>5. ASSUME NEW i \in DOMAIN image, tree'[p].blocks = image[i].blocks
        PROVE  ChunksOf(w, tree'[p].blocks, generated', owner')
    <3>1. ChunksOf(w, image[i].blocks, generated, owner)
      BY DEF PlaceInv
    <3>2. QED
      BY <1>1, <2>5, <3>1, ChunksKept
  <2>6. QED
    BY <1>0, <2>2, <2>3, <2>4, <2>5, TreeEffect
<1>3. ASSUME NEW i \in DOMAIN image' PROVE ChunksOf(w, image'[i].blocks, generated', owner')
  <2>1. CASE image' = image
    <3>1. ChunksOf(w, image[i].blocks, generated, owner)
      BY <1>3, <2>1 DEF PlaceInv
    <3>2. QED
      BY <1>1, <2>1, <3>1, ChunksKept
  <2>2. CASE image'[i].path \in Paths /\ IsHead(image'[i].blocks, tree[image'[i].path].blocks)
    <3>1. ChunksOf(w, tree[image'[i].path].blocks, generated, owner)
      BY <2>2 DEF PlaceInv
    <3>2. tree[image'[i].path].blocks \in Seq(Blocks)
      BY <1>0, <2>2 DEF NsTypeOK, INodes
    <3>3. ChunksOf(w, image'[i].blocks, generated, owner)
      BY <2>2, <3>1, <3>2, ChunksHead
    <3>4. QED
      BY <1>1, <3>3, ChunksKept
  <2>3. QED
    BY <1>0, <1>3, <2>1, <2>2, ImageEffect
<1>4. QED
  BY <1>2, <1>3

\* The file of the only writer keeps to its chunk.
LEMMA FileAtChunkStep ==
    ASSUME DataInv, OrderInv, PlaceInv, NdfsNext, NEW w \in Clients, OnlyWriter(w)
    PROVE  FileAtChunk(w)'
<1> DEFINE p == job[w].path
<1>0. TypeInv /\ RestOK /\ NsTypeOK /\ Places /\ OwnersAhead /\ p \in Paths /\ tree \in Trees
  BY TypeParts, JobFacts DEF DataInv, OrderInv, TypeInv, RestOK, NsTypeOK, Trees
<1>1. Places' /\ job' = job /\ chunk[w] \in Nat /\ w \in Processes
      /\ pc'[w] \in {"idle", "rpc", "send", "storing", "confirm", "read", "done"}
  <2>1. TypeInv'
    BY <1>0, TypeStep
  <2>2. pc' \in [Clients -> {"idle", "rpc", "send", "storing", "confirm", "read", "done"}]
    BY <2>1 DEF TypeInv, NdfsTypeOK
  <2>3. QED
    BY <1>0, <2>2, PlacesStep, OwnerEffect DEF RestOK, Processes
<1>2. job[w].op = "put"
  BY DEF OnlyWriter
<1> HIDE DEF p
<1> SUFFICES ASSUME Live(w)', IsFile(tree', p)
             PROVE  Len(tree'[p].blocks) = IF pc'[w] = "rpc" THEN chunk'[w] - 1 ELSE chunk'[w]
  BY <1>1 DEF FileAtChunk, p, IsFile
<1>3. pc'[w] \in {"rpc", "send", "storing", "confirm"}
  BY <1>1, <1>2 DEF Places, Live
<1>4. CASE generated = {} /\ ~ PutAlloc(w)
  <2>1. \A q \in Paths : ~ IsFile(tree, q)
    BY <1>4 DEF PlaceInv, NoFileFirst
  <2>2. ~ \E c \in Clients : PutAlloc(c)
    <3>1. \A c \in Clients : PutAlloc(c) => job[c].op = "put"
      BY DEF PutAlloc
    <3>2. QED
      BY <1>0, <1>4, <3>1, OnlyOwner
  <2>3. CASE Derived(tree, tree')
    BY <1>0, <2>1, <2>3, DerivedFiles
  <2>4. CASE tree' \in FromLines(image)
    BY <1>0, <1>4, <2>4 DEF FromLines, PlaceInv, NoFileFirst
  <2>5. QED
    BY <1>0, <2>2, <2>3, <2>4, TreeCases
<1>5. CASE PutAlloc(w)
  <2>1. pc[w] = "rpc" /\ conn[w] = "open" /\ chunk' = chunk /\ pc' = [pc EXCEPT ![w] = "send"]
    BY <1>5 DEF PutAlloc, Served, Goto
  <2>2. pc'[w] = "send"
    BY <1>0, <2>1 DEF RestOK
  <2>3. CASE Refused(w)
    <3>1. CASE chunk[w] = 1
      <4>1. generated = {}
        BY <1>0, <2>1, <3>1, OnlyOwner
      <4>2. ~ IsFile(tree, p)
        BY <1>0, <4>1 DEF PlaceInv, NoFileFirst
      <4>3. QED
        BY <1>0, <2>3, <4>2, DerivedFiles DEF Refused
    <3>2. CASE chunk[w] # 1
      BY <2>3, <3>2 DEF Refused, p
    <3>3. QED
      BY <3>1, <3>2
  <2>4. ASSUME NEW t, NEW r, Granted(w, t, r)
        PROVE  Len(tree'[p].blocks) = chunk[w]
    <3>1. /\ t[p].blocks \in Seq(Blocks)
          /\ Len(t[p].blocks) + 1 = chunk[w]
          /\ tree'[p].blocks = Append(t[p].blocks, r.block)
      BY <1>5, <2>4, OnlyWriterGrant DEF p
    <3> DEFINE bs == t[p].blocks
    <3> HIDE DEF bs
    <3>2. Len(Append(bs, r.block)) = Len(bs) + 1
      BY <3>1 DEF bs
    <3>3. QED
      BY <3>1, <3>2 DEF bs
  <2>5. QED
    BY <1>0, <1>5, <2>1, <2>2, <2>3, <2>4, PutAllocCases
<1>6. CASE ~ PutAlloc(w) /\ generated # {}
  <2>1. pc[w] # "idle"
    BY <1>0, <1>6, OnlyOwner
  <2>2. Live(w) /\ nn # "down"
    <3>1. Live(w)
      BY <1>0, <1>1, <2>1, ConnEffect DEF Connected, PlaceInv
    <3>2. QED
      BY <1>1, <3>1 DEF PlaceInv, DownIsClosed
  <2>3. ~ \E c \in Clients : PutAlloc(c)
    <3>1. \A c \in Clients : PutAlloc(c) => job[c].op = "put"
      BY DEF PutAlloc
    <3>2. QED
      BY <1>0, <1>6, <3>1, OnlyOwner
  <2>4. Derived(tree, tree')
    BY <1>0, <2>2, <2>3, TreeCases DEF NameNodeStart
  <2>5. IsFile(tree, p) /\ tree'[p] = tree[p]
    BY <1>0, <2>4, DerivedFiles
  <2>6. Len(tree[p].blocks) = IF pc[w] = "rpc" THEN chunk[w] - 1 ELSE chunk[w]
    BY <2>2, <2>5 DEF PlaceInv, FileAtChunk, p
  <2>7. /\ pc'[w] = "rpc" => \/ pc[w] = "rpc" /\ chunk'[w] = chunk[w]
                             \/ pc[w] = "confirm" /\ chunk'[w] = chunk[w] + 1
        /\ pc'[w] # "rpc" => pc[w] # "rpc" /\ chunk'[w] = chunk[w]
    BY <1>0, <1>3, <1>6, <2>1, ProgressEffect
  <2>8. QED
    BY <1>1, <2>5, <2>6, <2>7
<1>7. QED
  BY <1>4, <1>5, <1>6

\* A reader's steps: it connects, is told the blocks, reads, or ends its call.
LEMMA ReaderSteps ==
    ASSUME TypeInv, Places, NdfsNext, NEW r \in Clients, job[r].op # "put"
    PROVE  \/ GetLocations(r)
           \/ Reads(r)
           \/ Connected(r) /\ data'[r] = data[r] /\ found'[r] = found[r] /\ pc'[r] = "rpc"
           \/ Ends(r) /\ data'[r] = data[r] /\ found'[r] = <<>> /\ pc'[r] = "done"
           \/ Bystander(r) /\ pc'[r] = pc[r]
<1>0. RestOK
  BY TypeParts
<1>00. /\ pc \in [Clients -> {"idle", "rpc", "send", "storing", "confirm", "read", "done"}]
       /\ found \in [Clients -> Seq(Founds)]
  BY <1>0 DEF RestOK
<1>1. pc[r] \notin {"send", "storing", "confirm"}
  BY DEF Places
<1>2. ~ (PutAlloc(r) \/ SendSkipped(r) \/ StoreOpen(r) \/ StoreWrite(r) \/ Confirm(r) \/ NextChunk(r))
  BY <1>1 DEF PutAlloc, SendSkipped, StoreOpen, StoreWrite, Confirm, NextChunk
<1>3. ASSUME Connected(r) PROVE data'[r] = data[r] /\ found'[r] = found[r] /\ pc'[r] = "rpc"
  BY <1>00, <1>3 DEF Connected
<1>4. ASSUME Ends(r) PROVE data'[r] = data[r] /\ found'[r] = <<>> /\ pc'[r] = "done"
  BY <1>00, <1>4 DEF Ends, Return
<1>5. ASSUME Bystander(r) PROVE pc'[r] = pc[r]
  BY <1>1, <1>5 DEF Bystander
<1>6. QED
  BY <1>2, <1>3, <1>4, <1>5, OwnSteps DEF OwnStep

\* What GetLocations does to its client.
LEMMA GetLocationsFacts ==
    ASSUME TypeInv, Places, NEW r \in Clients, GetLocations(r)
    PROVE  /\ found'[r] = GetBlocks(job[r].path) /\ data'[r] = data[r] /\ pc'[r] = "read"
           /\ pc[r] = "rpc" /\ chunk'[r] = 1 /\ chunk[r] = 1 /\ idx'[r] = idx[r] /\ idx[r] = 1
           /\ job[r].op = "get"
<1>0. RestOK
  BY TypeParts
<1>1. /\ pc[r] = "rpc" /\ job[r].op = "get" /\ UNCHANGED <<data, chunk, idx>>
      /\ pc' = [pc EXCEPT ![r] = "read"]
      /\ found' = [found EXCEPT ![r] = GetBlocks(job[r].path)]
  BY DEF GetLocations, Goto
<1>2. chunk[r] = 1 /\ idx[r] = 1
  BY <1>1 DEF Places
<1>3. found'[r] = GetBlocks(job[r].path) /\ pc'[r] = "read"
  BY <1>0, <1>1 DEF RestOK
<1>4. QED
  BY <1>1, <1>2, <1>3

\* What Reads does to its client: it takes what the location's file holds, or
\* turns to the next location.
LEMMA ReadsFacts ==
    ASSUME DataInv, NEW r \in Clients, Reads(r)
    PROVE  LET f == found[r][chunk[r]]
               d == f.locations[idx[r]]
           IN  /\ pc[r] = "read" /\ pc'[r] = "read" /\ found'[r] = found[r]
               /\ chunk[r] \in DOMAIN found[r] /\ f \in Founds
               /\ idx[r] \in DOMAIN f.locations /\ d \in DataNodes
               /\ \/ /\ Readable(d, f.block) /\ dirOf[d] = dirOf[targetsOf[f.block][1]]
                     /\ targetsOf[f.block] # <<>>
                     /\ data'[r] = Append(data[r], stored[dirOf[d]][f.block])
                     /\ stored[dirOf[d]][f.block] \in {Partial, owner[f.block]}
                     /\ chunk'[r] = chunk[r] + 1 /\ idx'[r] = 1
                  \/ /\ ~ Readable(d, f.block)
                     /\ data'[r] = data[r] /\ chunk'[r] = chunk[r] /\ idx'[r] = idx[r] + 1
<1>0. RestOK
  BY TypeParts DEF DataInv
<1>1. /\ found[r] \in Seq(Founds) /\ chunk[r] \in Nat \ {0} /\ idx[r] \in Nat \ {0}
      /\ data[r] \in Seq(Contents)
  BY <1>0 DEF RestOK
<1>2. /\ pc[r] = "read" /\ pc' = pc /\ found' = found /\ chunk[r] <= Len(found[r])
      /\ idx[r] <= Len(found[r][chunk[r]].locations)
  BY DEF Reads
<1> DEFINE f == found[r][chunk[r]]
           d == f.locations[idx[r]]
<1>3. chunk[r] \in DOMAIN found[r] /\ f \in Founds
  BY <1>1, <1>2
<1>4. f.block \in Blocks /\ f.locations \in Seq(DataNodes)
  BY <1>3 DEF Founds
<1>5. idx[r] \in DOMAIN f.locations /\ d \in DataNodes
  <2> DEFINE s == f.locations
  <2>1. s \in Seq(DataNodes) /\ idx[r] <= Len(s)
    BY <1>2, <1>4
  <2> HIDE DEF s
  <2>2. idx[r] \in DOMAIN s /\ s[idx[r]] \in DataNodes
    BY <1>1, <2>1
  <2>3. QED
    BY <2>2 DEF s
<1>6. \/ /\ Readable(d, f.block)
         /\ data' = [data EXCEPT ![r] = Append(@, stored[dirOf[d]][f.block])]
         /\ chunk' = [chunk EXCEPT ![r] = @ + 1]
         /\ idx' = [idx EXCEPT ![r] = 1]
      \/ /\ ~ Readable(d, f.block)
         /\ idx' = [idx EXCEPT ![r] = @ + 1]
         /\ UNCHANGED <<data, chunk>>
  BY DEF Reads
<1> HIDE DEF f, d
<1>7. CASE Readable(d, f.block)
  <2> DEFINE v == stored[dirOf[d]][f.block]
  <2>1. dirOf[d] \in Dirs /\ v # NoData
    BY <1>0, <1>5, <1>7 DEF RestOK, Readable
  <2>2. targetsOf[f.block] # <<>> /\ dirOf[d] = dirOf[targetsOf[f.block][1]] /\ v \in {Partial, owner[f.block]}
    BY <1>4, <2>1 DEF DataInv, FilesInPlace
  <2> HIDE DEF v
  <2>3. /\ data' = [data EXCEPT ![r] = Append(@, v)]
        /\ chunk' = [chunk EXCEPT ![r] = @ + 1]
        /\ idx' = [idx EXCEPT ![r] = 1]
    BY <1>6, <1>7 DEF v
  <2>4. data'[r] = Append(data[r], v) /\ chunk'[r] = chunk[r] + 1 /\ idx'[r] = 1
    <3>1. data'[r] = Append(data[r], v)
      BY <1>0, <2>3 DEF RestOK
    <3>2. chunk'[r] = chunk[r] + 1 /\ idx'[r] = 1
      BY <1>0, <2>3 DEF RestOK
    <3>3. QED
      BY <3>1, <3>2
  <2>5. QED
    BY <1>2, <1>3, <1>5, <1>7, <2>2, <2>4 DEF v, f, d
<1>8. CASE ~ Readable(d, f.block)
  <2>1. data' = data /\ chunk' = chunk /\ idx'[r] = idx[r] + 1
    BY <1>0, <1>6, <1>8 DEF RestOK
  <2>2. QED
    BY <1>2, <1>3, <1>5, <1>8, <2>1 DEF f, d
<1>9. QED
  BY <1>7, <1>8

\* Readers of the only writer are told its chunks, and read them, in place.
LEMMA ReaderStep ==
    ASSUME DataInv, OrderInv, PlaceInv, NdfsNext, NEW w \in Clients, OnlyWriter(w),
           NEW r \in Clients \ {w}
    PROVE  /\ DataInPlace(r, w)'
           /\ \A i \in DOMAIN found'[r] :
                found'[r][i].block \in generated' /\ owner'[found'[r][i].block] = <<w, i>>
<1>0. TypeInv /\ RestOK /\ NsTypeOK /\ Places /\ OwnersAhead
  BY TypeParts DEF DataInv, OrderInv
<1>1. /\ generated \subseteq generated'
      /\ \A b \in generated : owner'[b] = owner[b]
  BY <1>0, OwnersAheadStep, NsPart
<1>2. job[r].op # "put" /\ job[r].path \in Paths
  BY <1>0, JobFacts DEF OnlyWriter, TypeInv
<1>3. /\ \A i \in DOMAIN data[r] : data[r][i] \in {Partial, <<w, i>>}
      /\ pc[r] \in {"idle", "rpc"} => data[r] = <<>>
      /\ pc[r] = "read" => Len(data[r]) = chunk[r] - 1
      /\ \A i \in DOMAIN found[r] :
           found[r][i].block \in generated /\ owner[found[r][i].block] = <<w, i>>
  BY DEF PlaceInv, DataInPlace
<1>4. /\ data[r] \in Seq(Contents) /\ chunk[r] \in Nat
  BY <1>0 DEF RestOK
<1> DEFINE Goal == /\ \A i \in DOMAIN data'[r] : data'[r][i] \in {Partial, <<w, i>>}
                   /\ pc'[r] \in {"idle", "rpc"} => data'[r] = <<>>
                   /\ pc'[r] = "read" => Len(data'[r]) = chunk'[r] - 1
                   /\ \A i \in DOMAIN found'[r] :
                        /\ found'[r][i].block \in generated'
                        /\ owner'[found'[r][i].block] = <<w, i>>
<1>5. ASSUME GetLocations(r) PROVE Goal
  <2>1. /\ found'[r] = GetBlocks(job[r].path) /\ data'[r] = data[r] /\ pc'[r] = "read"
        /\ pc[r] = "rpc" /\ chunk'[r] = 1
    BY <1>0, <1>5, GetLocationsFacts
  <2>2. \A i \in DOMAIN GetBlocks(job[r].path) :
          /\ i \in DOMAIN tree[job[r].path].blocks
          /\ GetBlocks(job[r].path)[i].block = tree[job[r].path].blocks[i]
    BY <1>0, <1>2, GetBlocksFacts
  <2>3. ChunksOf(w, tree[job[r].path].blocks, generated, owner)
    BY <1>2 DEF PlaceInv
  <2>4. \A i \in DOMAIN found'[r] :
          found'[r][i].block \in generated /\ owner[found'[r][i].block] = <<w, i>>
    BY <2>1, <2>2, <2>3, ZenonT(60) DEF ChunksOf
  <2>5. data[r] = <<>> /\ Len(<<>>) = 0
    BY <1>3, <2>1
  <2>6. \A i \in DOMAIN found'[r] :
          found'[r][i].block \in generated' /\ owner'[found'[r][i].block] = <<w, i>>
    BY <1>1, <2>4
  <2>7. data'[r] = <<>> /\ Len(data'[r]) = chunk'[r] - 1 /\ DOMAIN data'[r] = {}
    BY <2>1, <2>5
  <2>8. QED
    BY <2>1, <2>6, <2>7
<1>6. ASSUME Reads(r) PROVE Goal
  <2> DEFINE f == found[r][chunk[r]]
             v == stored[dirOf[f.locations[idx[r]]]][f.block]
  <2>1. /\ pc[r] = "read" /\ pc'[r] = "read" /\ found'[r] = found[r]
        /\ chunk[r] \in DOMAIN found[r] /\ f \in Founds
        /\ \/ /\ data'[r] = Append(data[r], v) /\ v \in {Partial, owner[f.block]}
              /\ chunk'[r] = chunk[r] + 1
           \/ data'[r] = data[r] /\ chunk'[r] = chunk[r]
    BY <1>6, ReadsFacts
  <2>2. owner[f.block] = <<w, chunk[r]>>
    BY <1>3, <2>1
  <2> HIDE DEF f, v
  <2>3. \A i \in DOMAIN found'[r] :
          found'[r][i].block \in generated' /\ owner'[found'[r][i].block] = <<w, i>>
    BY <1>1, <1>3, <2>1
  <2>4. CASE data'[r] = Append(data[r], v) /\ v \in {Partial, owner[f.block]} /\ chunk'[r] = chunk[r] + 1
    <3> DEFINE s == data[r]
    <3> HIDE DEF s
    <3>0. s \in Seq(Contents) /\ v \in Contents /\ Len(s) = chunk[r] - 1
      <4>1. v \in {Partial, <<w, chunk[r]>>}
        BY <2>2, <2>4
      <4>2. v \in Contents
        BY <1>4, <4>1 DEF Contents
      <4>3. QED
        BY <1>3, <1>4, <2>1, <4>2 DEF s
    <3>1. /\ DOMAIN s = 1..Len(s) /\ Len(s) \in Nat /\ DOMAIN Append(s, v) = 1..(Len(s) + 1)
          /\ Len(Append(s, v)) = Len(s) + 1
          /\ \A i \in DOMAIN s : Append(s, v)[i] = s[i]
          /\ Append(s, v)[Len(s) + 1] = v
      BY <3>0, AppendProperties
    <3>2. \A i \in DOMAIN s : s[i] \in {Partial, <<w, i>>}
      BY <1>3 DEF s
    <3>3. v \in {Partial, <<w, Len(s) + 1>>}
      BY <1>4, <2>2, <2>4, <3>0
    <3> DEFINE u == Append(s, v)
    <3> HIDE DEF u
    <3>4. ASSUME NEW i \in DOMAIN u PROVE u[i] \in {Partial, <<w, i>>}
      <4>1. CASE i \in DOMAIN s
        BY <3>1, <3>2, <4>1 DEF u
      <4>2. CASE i = Len(s) + 1
        BY <3>1, <3>3, <4>2 DEF u
      <4>3. QED
        BY <3>1, <3>4, <4>1, <4>2 DEF u
    <3>5. data'[r] = u /\ Len(u) = chunk'[r] - 1
      BY <1>4, <2>4, <3>0, <3>1 DEF u, s
    <3>6. QED
      BY <2>1, <2>3, <3>4, <3>5
  <2>5. CASE data'[r] = data[r] /\ chunk'[r] = chunk[r]
    BY <1>3, <2>1, <2>3, <2>5
  <2>6. QED
    BY <2>1, <2>4, <2>5
<1>7. ASSUME Connected(r) /\ data'[r] = data[r] /\ found'[r] = found[r] /\ pc'[r] = "rpc"
      PROVE  Goal
  <2>1. pc[r] = "idle"
    BY <1>7 DEF Connected
  <2>2. QED
    BY <1>1, <1>3, <1>7, <2>1
<1>8. ASSUME Ends(r) /\ data'[r] = data[r] /\ found'[r] = <<>> /\ pc'[r] = "done"
      PROVE  Goal
  BY <1>3, <1>8
<1>9. ASSUME Bystander(r) /\ pc'[r] = pc[r]
      PROVE  Goal
  BY <1>1, <1>3, <1>9 DEF Bystander
<1>10. Goal
  BY <1>0, <1>2, <1>5, <1>6, <1>7, <1>8, <1>9, ReaderSteps
<1>11. QED
  BY <1>10 DEF DataInPlace

\* Every step keeps a single writer's chunks in place.
LEMMA PlaceStep == ASSUME DataInv, OrderInv, PlaceInv, [NdfsNext]_vars PROVE PlaceInv'
<1>0. TypeInv
  BY DEF DataInv
<1>1. CASE UNCHANGED vars
  BY <1>1 DEF vars, nsVars, mapVars, nnVars, clientVars, history, PlaceInv, NoFileFirst, DownIsClosed,
              OnlyWriter, FileAtChunk, DataInPlace, Live, Accepting
<1>2. ASSUME NdfsNext PROVE PlaceInv'
  <2>1. NoFileFirst' /\ DownIsClosed'
    BY <1>0, <1>2, NoFileFirstStep, DownIsClosedStep DEF PlaceInv
  <2>2. ASSUME NEW w \in Clients, OnlyWriter(w)' PROVE OnlyWriter(w)
    BY <1>0, <1>2, <2>2, OwnerEffect DEF OnlyWriter
  <2>3. QED
    BY <1>2, <2>1, <2>2, ChunksStep, FileAtChunkStep, ReaderStep DEF PlaceInv
<1>3. QED
  BY <1>1, <1>2

\* PlaceInv holds at the start.
LEMMA PlaceInit == NdfsInit => PlaceInv
<1> SUFFICES ASSUME NdfsInit PROVE PlaceInv
  OBVIOUS
<1>1. generated = {} /\ tree = EmptyTree /\ image = <<>> /\ nn = "up"
  BY DEF NdfsInit, NsInit
<1>2. \A p \in Paths : tree[p].blocks = <<>> /\ ~ IsFile(tree, p)
  BY <1>1 DEF EmptyTree, Directory, Absent, IsFile
<1>3. DOMAIN image = {}
  BY <1>1
<1>4. ASSUME NEW w \in Clients, job \in [Clients -> Jobs] PROVE FileAtChunk(w)
  <2>1. job[w].path \in Paths
    BY <1>4 DEF Jobs
  <2>2. QED
    BY <1>2, <2>1 DEF FileAtChunk
<1>5. job \in [Clients -> Jobs]
  BY NdfsAssumption DEF NdfsInit
<1>6. \A c \in Clients : data[c] = <<>> /\ found[c] = <<>> /\ pc[c] = "idle"
  BY DEF NdfsInit
<1>7. NoFileFirst /\ DownIsClosed
  BY <1>1, <1>2, <1>3 DEF NoFileFirst, DownIsClosed, Accepting, Live
<1>8. \A w, r \in Clients : DataInPlace(r, w) /\ \A i \in DOMAIN found[r] : FALSE
  BY <1>6 DEF DataInPlace
<1>9. \A w \in Clients, p \in Paths : ChunksOf(w, tree[p].blocks, generated, owner)
  BY <1>2 DEF ChunksOf
<1>10. QED
  BY <1>3, <1>4, <1>5, <1>7, <1>8, <1>9 DEF PlaceInv

\* When a path has one writer, position i of what a get has read is chunk i,
\* whole or cut short: also with dead DataNodes, failed disks, lost
\* connections and a NameNode that started from an old image.
THEOREM ReadInPlaceHolds == NdfsSpec => []ReadInPlace
<1>1. PlaceInv => ReadInPlace
  <2> SUFFICES ASSUME PlaceInv, NEW r \in Clients, NEW w \in Clients,
                      job[w].op = "put", job[r].op = "get",
                      \A c \in Clients \ {w} : job[c].op # "put"
               PROVE  \A i \in DOMAIN data[r] : data[r][i] \in {Partial, <<w, i>>}
    BY DEF ReadInPlace
  <2>1. r # w /\ OnlyWriter(w)
    BY DEF OnlyWriter
  <2>2. DataInPlace(r, w)
    BY <2>1 DEF PlaceInv
  <2>3. QED
    BY <2>2 DEF DataInPlace
<1>2. QED
  BY <1>1, PlaceInit, PlaceStep, OrderInit, OrderStep, DataInvCorrect, PTL DEF NdfsSpec

-----------------------------------------------------------------------------
(***************************************************************************)
(* What a reader gets while nothing fails.                                 *)
(***************************************************************************)

\* No two chunks get the same block, nor one chunk two.
LEMMA OwnersUniqueStep == ASSUME DataInv, OrderInv, OwnersUnique, NdfsNext PROVE OwnersUnique'
<1>0. TypeInv /\ RestOK /\ NsTypeOK /\ OwnersAhead
  BY TypeParts DEF DataInv, OrderInv
<1>1. CASE UNCHANGED <<owner, targetsOf, generated>>
  BY <1>1 DEF OwnersUnique
<1>2. ASSUME NEW c \in Clients, PutAlloc(c), NEW t, NEW r, Granted(c, t, r) PROVE OwnersUnique'
  <2>1. /\ r.block \in Blocks \ generated /\ generated' = generated \cup {r.block}
        /\ \A b \in generated : owner'[b] = owner[b] /\ owner[b] \in Clients \X Nat
        /\ owner'[r.block] = <<c, chunk[c]>> /\ chunk[c] \in Nat \ {0}
        /\ \A b \in generated : owner[b][1] = c => owner[b][2] < chunk[c]
    BY <1>0, <1>2, GrantFacts
  <2>2. \A b \in generated : owner[b] # <<c, chunk[c]>>
    BY <2>1
  <2>3. \A b \in Blocks : b # r.block => owner'[b] = owner[b]
    BY <1>0, <1>2 DEF Granted, RestOK
  <2>4. \A b \in Blocks \ generated' : owner'[b] = NoData
    BY <2>1, <2>3 DEF OwnersUnique
  <2>5. \A a, b \in generated' : owner'[a] = owner'[b] => a = b
    BY <2>1, <2>2 DEF OwnersUnique
  <2>6. QED
    BY <2>4, <2>5 DEF OwnersUnique
<1>3. QED
  BY <1>0, <1>1, <1>2, OwnerEffect

\* A DataNode once registered is known until the NameNode restarts; the new
\* one has sent a heartbeat.
LEMMA DataNodesEffect ==
    ASSUME TypeInv, NdfsNext, ~ NameNodeStart
    PROVE  \/ datanodes' = datanodes
           \/ \E d \in DataNodes : SendHeartbeat(d) /\ datanodes' = datanodes \cup {d}
<1>1. ASSUME NEW c \in Clients, PutAlloc(c) PROVE datanodes' = datanodes
  BY <1>1, PutAllocCases DEF Refused, Granted, Allocate, mapVars
<1>2. ASSUME NEW c \in Clients, Ends(c) PROVE datanodes' = datanodes
  BY <1>2 DEF Ends, Delete, MkdirsOp, mapVars, nsVars
<1>3. ASSUME NEW c \in Clients, Confirm(c) PROVE datanodes' = datanodes
  BY <1>3, ConfirmNs DEF BlockReceived, nsVars, mapVars
<1>4. ASSUME NEW c \in Clients,
             Connected(c) \/ SendSkipped(c) \/ StoreOpen(c) \/ StoreWrite(c) \/ NextChunk(c)
             \/ GetLocations(c) \/ Reads(c)
      PROVE  datanodes' = datanodes
  <2>1. UNCHANGED nsVars
    BY <1>4, Handlers DEF Connected, SendSkipped, StoreOpen, StoreWrite, NextChunk, GetLocations, Reads
  <2>2. QED
    BY <2>1 DEF nsVars, mapVars
<1>5. ASSUME NEW d \in DataNodes, DataNodeStart(d) \/ SendBlockReport(d) \/ Dies(d)
      PROVE  datanodes' = datanodes
  BY <1>5, DataNodeNs DEF DataNodeStart, Dies, DataNodeGone, BlockReport, nsVars, mapVars
<1>6. ASSUME NEW d \in DataNodes, SendHeartbeat(d)
      PROVE  datanodes' = datanodes \/ datanodes' = datanodes \cup {d}
  BY <1>6, DataNodeNs DEF Heartbeat, RegisterDataNode, nsVars, mapVars
<1>7. CASE NameNodeSave \/ NameNodeStopServer \/ NameNodeStopped \/ NameNodeKill \/ NameNodeExit
           \/ \E x \in Processes : WorkerTakes(x) \/ NameNodeCloses(x)
  BY <1>7 DEF NameNodeSave, NameNodeStopServer, NameNodeStopped, NameNodeKill,
              WorkerTakes, NameNodeCloses, NameNodeExit, SocketsClosed, nsVars, mapVars
<1>8. QED
  BY <1>1, <1>2, <1>3, <1>4, <1>5, <1>6, <1>7, Steps

\* While it is calm only clients, the DataNodes' starts and calls and the
\* NameNode's workers take steps.
CalmStep ==
    \/ \E x \in Processes : WorkerTakes(x)
    \/ \E c \in Clients : OwnStep(c)
    \/ \E d \in DataNodes : DataNodeStart(d) \/ SendHeartbeat(d) \/ SendBlockReport(d)

\* It was calm when it is, and then nobody stopped or died.
LEMMA CalmSteps ==
    ASSUME TypeInv, AllUp, NdfsNext, Calm'
    PROVE  Calm /\ CalmStep /\ nn = "up" /\ nn' = nn
<1>0. RestOK
  BY TypeParts
<1>00. stops \in Nat /\ faults \in Nat
  BY <1>0 DEF RestOK
<1> USE DEF nnVars, dnVars, Calm
<1>1. ASSUME NEW c \in Clients, OwnStep(c) PROVE Calm /\ nn' = nn
  <2>1. CASE StoreOpen(c) \/ StoreWrite(c)
    BY <1>00, <2>1 DEF StoreOpen, StoreWrite
  <2>2. CASE ~ (StoreOpen(c) \/ StoreWrite(c))
    BY <1>1, <2>2 DEF OwnStep, Connected, Ends, PutAlloc, SendSkipped, Confirm, NextChunk,
                      GetLocations, Reads
  <2>3. QED
    BY <2>1, <2>2
<1>2. ASSUME NEW d \in DataNodes, DataNodeStart(d) \/ SendHeartbeat(d) \/ SendBlockReport(d)
      PROVE  Calm /\ nn' = nn
  BY <1>2 DEF DataNodeStart, SendHeartbeat, SendBlockReport
<1>3. ASSUME NEW d \in DataNodes, Dies(d) PROVE FALSE
  <2>1. stops' = stops /\ faults' = faults /\ conn[d] = "reset"
    BY <1>00, <1>3 DEF Dies, DataNodeGone
  <2>2. QED
    BY <2>1 DEF AllUp, Processes
<1>4. CASE NameNodeSave \/ NameNodeKill
  BY <1>00, <1>4 DEF NameNodeSave, NameNodeKill
<1>5. CASE NameNodeStopServer \/ NameNodeStopped \/ NameNodeStart \/ NameNodeExit
           \/ \E x \in Processes : NameNodeCloses(x)
  <2>1. stops' = stops /\ faults' = faults /\ nn # "up"
    BY <1>5 DEF NameNodeStopServer, NameNodeStopped, NameNodeCloses, NameNodeExit, NameNodeStart,
                Stopping
  <2>2. QED
    BY <2>1 DEF AllUp
<1>6. ASSUME NEW x \in Processes, WorkerTakes(x) PROVE Calm /\ nn' = nn
  BY <1>6 DEF WorkerTakes
<1>7. Calm /\ CalmStep /\ nn' = nn
  BY <1>1, <1>2, <1>3, <1>4, <1>5, <1>6, Steps DEF OwnStep, CalmStep
<1>8. QED
  BY <1>7 DEF AllUp

\* While it is calm everybody stays up and connected.
LEMMA AllUpStep == ASSUME TypeInv, Places, AllUp, NdfsNext PROVE AllUp'
<1> SUFFICES ASSUME Calm'
             PROVE  /\ nn' = "up"
                    /\ \A x \in Processes : conn'[x] \in {"none", "queued", "open"}
                    /\ \A c \in Clients : pc'[c] \notin {"idle", "done"} => Live(c)'
                    /\ \A d \in DataNodes : dn'[d] # "down" => Live(d)'
                    /\ \A d \in datanodes' : dn'[d] # "down"
  BY DEF AllUp
<1>0. RestOK /\ NsTypeOK
  BY TypeParts
<1>1. Calm /\ CalmStep /\ nn' = "up"
  BY CalmSteps
<1>2. /\ nn = "up"
      /\ \A x \in Processes : conn[x] \in {"none", "queued", "open"}
      /\ \A c \in Clients : pc[c] \notin {"idle", "done"} => Live(c)
      /\ \A d \in DataNodes : dn[d] # "down" => Live(d)
      /\ \A d \in datanodes : dn[d] # "down"
  BY <1>1 DEF AllUp
<1>00. /\ conn \in [Processes -> ConnStates]
       /\ pc \in [Clients -> {"idle", "rpc", "send", "storing", "confirm", "read", "done"}]
       /\ dn \in [DataNodes -> {"down", "registering", "reporting", "up"}]
       /\ datanodes \subseteq DataNodes
  BY <1>0 DEF RestOK, NsTypeOK
<1>01. Clients \subseteq Processes /\ DataNodes \subseteq Processes /\ Clients \cap DataNodes = {}
  BY NdfsAssumption DEF Processes
<1>3. \A x \in Processes : /\ Served(x) => conn' = conn
                           /\ ~ CallFails(x)
  <2>1. ASSUME NEW x \in Processes, Served(x) PROVE conn' = conn
    <3>1. conn[x] = "open" /\ conn' = [conn EXCEPT ![x] = "open"]
      BY <1>2, <2>1 DEF Served, Stopping
    <3>2. QED
      BY <1>00, <3>1
  <2>2. QED
    BY <1>2, <2>1 DEF CallFails
<1>4. ~ NameNodeStart
  BY <1>2 DEF NameNodeStart
<1> USE DEF nnVars, dnVars, clientVars, Live
<1>5. ASSUME NEW c \in Clients, OwnStep(c)
      PROVE  /\ \A x \in Processes : conn'[x] \in {"none", "queued", "open"}
             /\ \A e \in Clients : pc'[e] \notin {"idle", "done"} => Live(e)'
             /\ \A d \in DataNodes : conn'[d] = conn[d] /\ dn'[d] = dn[d]
  <2>0. c \in Processes /\ dn' = dn
    BY <1>01, <1>5 DEF OwnStep, Connected, Ends, PutAlloc, SendSkipped, StoreOpen, StoreWrite, Confirm,
                       NextChunk, GetLocations, Reads
  <2>1. CASE Connected(c)
    BY <1>00, <1>01, <1>2, <2>0, <2>1 DEF Connected
  <2>2. CASE Ends(c)
    BY <1>00, <1>01, <1>2, <2>0, <2>2 DEF Ends, Return
  <2>3. CASE PutAlloc(c) \/ GetLocations(c)
    <3>1. conn' = conn /\ pc[c] = "rpc" /\ \E l \in {"send", "read"} : pc' = [pc EXCEPT ![c] = l]
      BY <1>3, <2>0, <2>3 DEF PutAlloc, GetLocations, Goto
    <3>2. QED
      BY <1>00, <1>01, <1>2, <2>0, <3>1
  <2>4. CASE Confirm(c)
    <3>1. conn' = conn /\ pc' = pc
      BY <1>3, <2>0, <2>4 DEF Confirm
    <3>2. QED
      BY <1>2, <2>0, <3>1
  <2>5. CASE SendSkipped(c) \/ StoreOpen(c) \/ StoreWrite(c) \/ NextChunk(c)
    <3>1. conn' = conn /\ pc[c] \in {"send", "storing", "confirm"}
          /\ \E l \in {"storing", "confirm", "rpc"} : pc' = [pc EXCEPT ![c] = l]
      BY <2>5 DEF SendSkipped, StoreOpen, StoreWrite, NextChunk, Goto
    <3>2. QED
      BY <1>00, <1>01, <1>2, <2>0, <3>1
  <2>6. CASE Reads(c)
    BY <1>2, <2>0, <2>6 DEF Reads
  <2>7. QED
    BY <1>5, <2>1, <2>2, <2>3, <2>4, <2>5, <2>6 DEF OwnStep
<1>6. ASSUME NEW d \in DataNodes, DataNodeStart(d) \/ SendHeartbeat(d) \/ SendBlockReport(d)
      PROVE  /\ \A x \in Processes : conn'[x] \in {"none", "queued", "open"}
             /\ \A e \in Clients : pc'[e] \notin {"idle", "done"} => Live(e)'
             /\ \A e \in DataNodes : /\ dn'[e] # "down" => Live(e)'
                                     /\ dn[e] # "down" => dn'[e] # "down"
  <2>0. d \in Processes /\ pc' = pc
    BY <1>01, <1>6 DEF DataNodeStart, SendHeartbeat, SendBlockReport
  <2>1. CASE DataNodeStart(d)
    BY <1>00, <1>01, <1>2, <2>0, <2>1 DEF DataNodeStart
  <2>2. CASE SendHeartbeat(d) \/ SendBlockReport(d)
    <3>1. conn' = conn
      BY <1>3, <2>0, <2>2 DEF SendHeartbeat, SendBlockReport
    <3>2. dn[d] # "down" /\ \E l \in {"reporting", "up"} : dn' = [dn EXCEPT ![d] = l]
      BY <1>00, <2>2 DEF SendHeartbeat, SendBlockReport
    <3>3. QED
      BY <1>00, <1>2, <2>0, <3>1, <3>2
  <2>3. QED
    BY <1>6, <2>1, <2>2
<1>7. ASSUME NEW x \in Processes, WorkerTakes(x)
      PROVE  /\ \A y \in Processes : conn'[y] \in {"none", "queued", "open"} /\ (Live(y) => Live(y)')
             /\ UNCHANGED <<pc, dn>>
  BY <1>00, <1>2, <1>7 DEF WorkerTakes
<1>8. \A d \in datanodes' : dn'[d] # "down"
  <2>1. CASE datanodes' = datanodes
    BY <1>00, <1>1, <1>2, <1>5, <1>6, <1>7, <2>1 DEF CalmStep
  <2>2. ASSUME NEW d \in DataNodes, SendHeartbeat(d), datanodes' = datanodes \cup {d}
        PROVE  \A e \in datanodes' : dn'[e] # "down"
    <3>1. dn[d] # "down"
      BY <2>2 DEF SendHeartbeat
    <3>2. QED
      BY <1>00, <1>2, <1>6, <2>2, <3>1
  <2>3. QED
    BY <1>4, <2>1, <2>2, DataNodesEffect
<1>9. QED
  BY <1>01, <1>1, <1>2, <1>5, <1>6, <1>7, <1>8 DEF CalmStep

\* Who is listed, allocated or told to a reader has registered.
LEMMA RegisteredStep == ASSUME TypeInv, Places, AllUp, Registered, NdfsNext PROVE Registered'
<1>0. RestOK /\ NsTypeOK
  BY TypeParts
<1>00. /\ alloc \in [Clients -> Allocs] /\ found \in [Clients -> Seq(Founds)]
  BY <1>0 DEF RestOK
<1>1. ~ NameNodeStart => datanodes \subseteq datanodes'
  BY DataNodesEffect
<1>2. ASSUME NEW b \in Blocks PROVE ToSet(ListOf(b)') \subseteq datanodes'
  <2>0. ListOf(b) \in Seq(DataNodes) /\ ToSet(ListOf(b)) \subseteq datanodes
    BY <1>0, ListOfType DEF Registered
  <2>1. CASE NameNodeStart
    <3>1. ListOf(b)' = <<>>
      BY <2>1 DEF NameNodeStart, ListOf, HasEntry
    <3>2. QED
      BY <3>1 DEF ToSet
  <2>2. CASE ~ NameNodeStart
    <3>1. CASE ListOf(b)' = ListOf(b)
      BY <1>1, <2>0, <2>2, <3>1
    <3>2. CASE ListOf(b)' = <<>>
      BY <3>2 DEF ToSet
    <3>3. ASSUME NEW d, Joins(d, b), ListOf(b)' = Append(ListOf(b), d)
          PROVE  ToSet(ListOf(b)') \subseteq datanodes'
      <4>1. d \in datanodes
        BY <3>3 DEF Joins
      <4> DEFINE s == ListOf(b)
      <4> HIDE DEF s
      <4>2. ToSet(Append(s, d)) \subseteq ToSet(s) \cup {d}
        <5>1. DOMAIN Append(s, d) = 1..(Len(s) + 1) /\ Len(s) \in Nat /\ DOMAIN s = 1..Len(s)
              /\ \A i \in DOMAIN s : Append(s, d)[i] = s[i]
              /\ Append(s, d)[Len(s) + 1] = d
          BY <2>0, AppendProperties DEF s
        <5>2. \A i \in DOMAIN Append(s, d) : i \in DOMAIN s \/ i = Len(s) + 1
          BY <5>1
        <5>3. QED
          BY <5>1, <5>2 DEF ToSet
      <4>3. ToSet(Append(s, d)) \subseteq datanodes'
        BY <1>1, <2>0, <2>2, <4>1, <4>2 DEF s
      <4>4. QED
        BY <3>3, <4>3 DEF s
    <3>4. ASSUME NEW c \in Clients, NEW t, NEW r, Granted(c, t, r), ListOf(b)' = r.targets
          PROVE  ToSet(ListOf(b)') \subseteq datanodes'
      <4>1. ToSet(r.targets) \subseteq datanodes
        BY <1>0, <3>4, AllocResultFacts DEF Granted
      <4>2. QED
        BY <1>1, <2>2, <3>4, <4>1
    <3>5. QED
      BY <3>1, <3>2, <3>3, <3>4, ListEffect
  <2>3. QED
    BY <2>1, <2>2
<1>3. ASSUME Calm' PROVE Calm /\ ~ NameNodeStart
  <2>1. Calm /\ nn = "up"
    BY <1>3, CalmSteps
  <2>2. QED
    BY <2>1 DEF NameNodeStart
<1>4. ASSUME Calm', NEW c \in Clients, alloc'[c] # NoAlloc
      PROVE  ToSet(alloc'[c].targets) \subseteq datanodes'
  <2>1. \A e \in Clients : alloc[e] # NoAlloc => ToSet(alloc[e].targets) \subseteq datanodes'
    BY <1>1, <1>3, <1>4 DEF Registered
  <2>2. CASE alloc' = alloc \/ \E e \in Clients : alloc' = [alloc EXCEPT ![e] = NoAlloc]
    BY <1>00, <1>4, <2>1, <2>2
  <2>3. ASSUME NEW e \in Clients, PutAlloc(e) PROVE ToSet(alloc'[c].targets) \subseteq datanodes'
    <3>1. PICK r \in AllocResults(Fresh) \cup {NoAlloc} : alloc' = [alloc EXCEPT ![e] = r]
      BY <2>3, PutAllocStep
    <3>2. ToSet(r.targets) \subseteq datanodes
      BY <1>0, AllocResultFacts
    <3>3. CASE c = e
      BY <1>00, <1>1, <1>3, <1>4, <3>1, <3>2, <3>3
    <3>4. CASE c # e
      BY <1>00, <1>4, <2>1, <3>1, <3>4
    <3>5. QED
      BY <3>3, <3>4
  <2>4. QED
    BY <2>2, <2>3, AllocEffect
<1>5. ASSUME Calm', NEW r \in Clients, NEW i \in DOMAIN found'[r]
      PROVE  ToSet(found'[r][i].locations) \subseteq datanodes'
  <2>1. \A j \in DOMAIN found[r] : ToSet(found[r][j].locations) \subseteq datanodes'
    BY <1>1, <1>3, <1>5 DEF Registered
  <2>2. CASE found'[r] = found[r]
    BY <1>5, <2>1, <2>2
  <2>3. CASE found'[r] = <<>>
    BY <1>5, <2>3
  <2>4. CASE GetLocations(r)
    <3>1. found'[r] = GetBlocks(job[r].path) /\ job[r].path \in Paths
      BY <2>4, GetLocationsFacts, JobFacts DEF TypeInv
    <3>2. i \in DOMAIN tree[job[r].path].blocks
          /\ found'[r][i].locations = ListOf(tree[job[r].path].blocks[i])
      BY <1>0, <1>5, <3>1, GetBlocksFacts
    <3>3. tree[job[r].path].blocks[i] \in Blocks
      <4>1. tree[job[r].path].blocks \in Seq(Blocks)
        BY <1>0, <3>1 DEF NsTypeOK, INodes
      <4>2. QED
        BY <3>2, <4>1, ElementOfSeq, LenProperties
    <3>4. QED
      BY <1>1, <1>3, <1>5, <3>2, <3>3 DEF Registered
  <2>5. found'[r] = found[r] \/ found'[r] = <<>> \/ GetLocations(r)
    <3>1. CASE Bystander(r)
      BY <3>1 DEF Bystander
    <3>2. CASE Ends(r)
      BY <1>00, <3>2 DEF Ends, Return
    <3>3. CASE Connected(r) \/ PutAlloc(r) \/ SendSkipped(r) \/ StoreOpen(r) \/ StoreWrite(r)
               \/ Confirm(r) \/ NextChunk(r) \/ Reads(r)
      BY <3>3 DEF Connected, PutAlloc, SendSkipped, StoreOpen, StoreWrite, Confirm, NextChunk, Reads
    <3>4. QED
      BY <3>1, <3>2, <3>3, OwnSteps DEF OwnStep
  <2>6. QED
    BY <2>2, <2>3, <2>4, <2>5
<1>6. \A b \in Blocks : ToSet(ListOf(b))' \subseteq datanodes'
  BY <1>2 DEF ToSet
<1>7. QED
  BY <1>4, <1>5, <1>6 DEF Registered

\* CalmInv is kept by every step.
LEMMA CalmInvStep == ASSUME DataInv, OrderInv, CalmInv, [NdfsNext]_vars PROVE CalmInv'
<1>1. CASE UNCHANGED vars
  BY <1>1 DEF vars, nsVars, mapVars, nnVars, dnVars, clientVars, history, CalmInv, OwnersUnique, Registered,
              AllUp, Live, Calm, ListOf, HasEntry
<1>2. CASE NdfsNext
  BY <1>2, OwnersUniqueStep, RegisteredStep, AllUpStep DEF DataInv, CalmInv
<1>3. QED
  BY <1>1, <1>2

\* CalmInv holds at the start.
LEMMA CalmInit == NdfsInit => CalmInv
<1> SUFFICES ASSUME NdfsInit PROVE CalmInv
  OBVIOUS
<1>1. /\ generated = {} /\ datanodes = {} /\ nn = "up"
      /\ \A b \in Blocks : block_to_datanodes[b] = NoEntry /\ owner[b] = NoData
  BY DEF NdfsInit, NsInit
<1>2. /\ \A c \in Clients : pc[c] = "idle" /\ alloc[c] = NoAlloc /\ found[c] = <<>>
      /\ \A x \in Processes : conn[x] = "none"
      /\ \A d \in DataNodes : dn[d] = "down"
  BY DEF NdfsInit
<1>3. \A b \in Blocks : ListOf(b) = <<>>
  BY <1>1 DEF ListOf, HasEntry
<1>4. ToSet(<<>>) = {} /\ DOMAIN <<>> = {}
  BY DEF ToSet
<1>5. Registered
  BY <1>2, <1>3, <1>4 DEF Registered
<1>6. QED
  BY <1>1, <1>2, <1>5 DEF CalmInv, OwnersUnique, AllUp

\* With one writer and readers only, nothing but the writer's calls changes the
\* tree, the blocks and the block files, and no list loses a location.
LEMMA QuietWorld ==
    ASSUME DataInv, AllUp, NdfsNext, Calm', NEW w \in Clients, Readers(w)
    PROVE  /\ OnlyWriter(w)
           /\ \A c \in Clients : job[c].op = "put" => c = w
           /\ \A c \in Clients : job[c].op \in {"put", "get"}
           /\ PutAlloc(w) \/ UNCHANGED <<tree, generated, owner, targetsOf>>
           /\ stored' = stored \/ Writes(w)
           /\ Bystander(w) => pc'[w] = pc[w]
           /\ UNCHANGED <<job, dirOf>>
<1>0. TypeInv /\ RestOK /\ NsTypeOK /\ Places
  BY TypeParts DEF DataInv
<1>1. OnlyWriter(w) /\ (\A c \in Clients : job[c].op = "put" => c = w)
      /\ (\A c \in Clients : job[c].op \in {"put", "get"})
  BY DEF Readers, OnlyWriter
<1>2. CalmStep
  BY <1>0, CalmSteps
<1>3. \A c \in Clients : PutAlloc(c) => c = w
  BY <1>1 DEF PutAlloc
<1>4. PutAlloc(w) \/ UNCHANGED <<owner, targetsOf, generated>>
  BY <1>0, <1>3, OwnerEffect
<1>5. PutAlloc(w) \/ tree' = tree
  <2>1. ASSUME NEW c \in Clients, Ends(c) PROVE tree' = tree
    BY <1>1, <2>1 DEF Ends, nsVars
  <2>2. ASSUME NEW c \in Clients,
               Connected(c) \/ SendSkipped(c) \/ StoreOpen(c) \/ StoreWrite(c) \/ NextChunk(c)
               \/ GetLocations(c) \/ Reads(c)
        PROVE  tree' = tree
    <3>1. UNCHANGED nsVars
      BY <2>2, Handlers DEF Connected, SendSkipped, StoreOpen, StoreWrite, NextChunk, GetLocations, Reads
    <3>2. QED
      BY <3>1 DEF nsVars
  <2>3. ASSUME NEW c \in Clients, Confirm(c) PROVE tree' = tree
    BY <1>0, <2>3, ConfirmNs DEF BlockReceived, nsVars
  <2>4. ASSUME NEW d \in DataNodes, DataNodeStart(d) \/ SendHeartbeat(d) \/ SendBlockReport(d)
        PROVE  tree' = tree
    BY <1>0, <2>4, DataNodeNs DEF DataNodeStart, Heartbeat, RegisterDataNode, BlockReport, nsVars
  <2>5. ASSUME NEW x \in Processes, WorkerTakes(x) PROVE tree' = tree
    BY <2>5 DEF WorkerTakes, nsVars
  <2>6. QED
    BY <1>2, <1>3, <2>1, <2>2, <2>3, <2>4, <2>5 DEF CalmStep, OwnStep
<1>6. stored' = stored \/ Writes(w)
  <2>1. \A c \in Clients : Writes(c) => pc[c] \in {"send", "storing"}
    BY DEF Writes
  <2>2. \A c \in Clients : Writes(c) => c = w
    BY <1>0, <1>1, <2>1 DEF Places
  <2>3. QED
    BY <2>2, StoredEffect
<1>7. \A d \in DataNodes : ~ Dies(d)
  <2>1. ASSUME NEW d \in DataNodes, Dies(d) PROVE FALSE
    <3>1. stops \in Nat /\ faults \in Nat /\ Calm
      BY <1>0, CalmSteps DEF RestOK
    <3>2. conn[d] \in {"none", "queued", "open"}
      BY <3>1 DEF AllUp, Processes
    <3>3. QED
      BY <2>1, <3>1, <3>2 DEF Dies, Calm
  <2>2. QED
    BY <2>1
<1>8. QED
  BY <1>0, <1>1, <1>4, <1>5, <1>6, <1>7, OwnerEffect DEF Bystander

\* While it is calm a put ends only when all its chunks are sent.
LEMMA CalmWriterEnds ==
    ASSUME DataInv, Registered, AllUp, Calm, NEW w \in Clients, job[w].op = "put", Ends(w)
    PROVE  pc[w] = "rpc" /\ chunk[w] > job[w].len /\ pc'[w] = "done"
<1>0. RestOK /\ Places
  BY TypeParts DEF DataInv
<1>1. w \in Processes /\ conn[w] \in {"none", "queued", "open"} /\ nn = "up"
  BY DEF AllUp, Processes
<1>2. ASSUME alloc[w].targets # <<>> PROVE dn[alloc[w].targets[1]] # "down"
  <2>1. alloc[w] # NoAlloc
    BY <1>2 DEF NoAlloc
  <2>2. alloc[w].targets \in Seq(DataNodes)
    BY <1>0 DEF RestOK, Allocs
  <2>3. 1 \in DOMAIN alloc[w].targets
    <3> DEFINE s == alloc[w].targets
    <3> HIDE DEF s
    <3>1. s \in Seq(DataNodes) /\ s # <<>>
      BY <1>2, <2>2 DEF s
    <3>2. 1 \in DOMAIN s
      BY <3>1
    <3>3. QED
      BY <3>2 DEF s
  <2>4. alloc[w].targets[1] \in ToSet(alloc[w].targets)
    BY <2>3 DEF ToSet
  <2>5. QED
    BY <2>1, <2>4 DEF Registered, AllUp
<1>3. ~ Ending(w)
  BY <1>0, <1>1, <1>2 DEF Ending, Accepting, Places
<1>4. pc[w] # "read"
  BY <1>0 DEF Places
<1>5. pc'[w] = "done"
  BY <1>0 DEF Ends, Return, RestOK
<1>6. QED
  BY <1>3, <1>4, <1>5 DEF Ends

\* While it is calm a get ends when it has all blocks or no location is left.
LEMMA CalmReaderEnds ==
    ASSUME DataInv, Registered, AllUp, Calm, NEW r \in Clients, job[r].op = "get", Ends(r)
    PROVE  /\ pc[r] = "read" /\ data'[r] = data[r]
           /\ \/ chunk[r] \in DOMAIN found[r] /\ idx[r] > Len(found[r][chunk[r]].locations)
              \/ chunk[r] > Len(found[r]) /\ status'[r] = "OK"
<1>0. RestOK /\ Places
  BY TypeParts DEF DataInv
<1>1. r \in Processes /\ conn[r] \in {"none", "queued", "open"} /\ nn = "up"
  BY DEF AllUp, Processes
<1>2. /\ found[r] \in Seq(Founds) /\ chunk[r] \in Nat \ {0} /\ idx[r] \in Nat \ {0}
  BY <1>0 DEF RestOK
<1>3. ASSUME chunk[r] <= Len(found[r]) PROVE chunk[r] \in DOMAIN found[r] /\ found[r][chunk[r]] \in Founds
  BY <1>2, <1>3
<1>4. ASSUME chunk[r] <= Len(found[r]), idx[r] <= Len(found[r][chunk[r]].locations)
      PROVE  dn[found[r][chunk[r]].locations[idx[r]]] # "down"
  <2> DEFINE s == found[r][chunk[r]].locations
  <2>1. s \in Seq(DataNodes) /\ idx[r] <= Len(s) /\ chunk[r] \in DOMAIN found[r]
    BY <1>3, <1>4 DEF Founds
  <2>2. ToSet(s) \subseteq datanodes
    BY <2>1 DEF Registered
  <2> HIDE DEF s
  <2>3. idx[r] \in DOMAIN s
    BY <1>2, <2>1
  <2>4. s[idx[r]] \in datanodes
    BY <2>2, <2>3 DEF ToSet
  <2>5. dn[s[idx[r]]] # "down"
    BY <2>4 DEF AllUp
  <2>6. QED
    BY <2>5 DEF s
<1>5. ASSUME Ending(r)
      PROVE  pc[r] = "read" /\ chunk[r] \in DOMAIN found[r] /\ idx[r] > Len(found[r][chunk[r]].locations)
  <2>1. pc[r] \notin {"send", "storing", "confirm"}
    BY <1>0 DEF Places
  <2>2. pc[r] = "read" /\ chunk[r] <= Len(found[r]) /\ idx[r] > Len(found[r][chunk[r]].locations)
    BY <1>1, <1>4, <1>5, <2>1 DEF Ending, Accepting
  <2>3. QED
    BY <1>3, <2>2
<1>6. PICK st \in {"OK", "IOError", "Killed"} :
        /\ Return(r, st)
        /\ \/ Ending(r)
           \/ st = "OK" /\ pc[r] = "read" /\ chunk[r] > Len(found[r])
  BY DEF Ends
<1>7. status'[r] = st
  BY <1>0, <1>6 DEF Return, RestOK
<1>8. data' = data
  BY DEF Ends
<1>9. QED
  BY <1>5, <1>6, <1>7, <1>8

\* No list loses a location, and that of a new block has its targets.
LEMMA ListsGrow ==
    ASSUME DataInv, AllUp, NdfsNext, Calm', NEW w \in Clients, Readers(w)
    PROVE  /\ \A b \in generated : ToSet(ListOf(b)) \subseteq ToSet(ListOf(b)')
           /\ \A t, r : Granted(w, t, r) => ListOf(r.block)' = r.targets
<1>0. TypeInv /\ RestOK /\ NsTypeOK
  BY TypeParts DEF DataInv
<1>00. /\ block_to_datanodes \in [Blocks -> Seq(DataNodes) \cup {NoEntry}]
       /\ \A s \in Seq(DataNodes) : s # NoEntry
  BY <1>0, ConstantsAssumption DEF NsTypeOK
<1>1. ASSUME NEW b \in generated PROVE ToSet(ListOf(b)) \subseteq ToSet(ListOf(b)')
  <2>0. b \in Blocks /\ ListOf(b) \in Seq(DataNodes)
    BY <1>0, ListOfType DEF NsTypeOK
  <2>1. CASE ListOf(b)' = ListOf(b)
    BY <2>1
  <2>2. ASSUME NEW d, ListOf(b)' = Append(ListOf(b), d)
        PROVE  ToSet(ListOf(b)) \subseteq ToSet(ListOf(b)')
    <3> DEFINE s == ListOf(b)
    <3> HIDE DEF s
    <3>1. ToSet(s) \subseteq ToSet(Append(s, d))
      <4>1. DOMAIN s \subseteq DOMAIN Append(s, d) /\ \A i \in DOMAIN s : Append(s, d)[i] = s[i]
        BY <2>0, AppendProperties DEF s
      <4>2. QED
        BY <4>1 DEF ToSet
    <3>2. QED
      BY <2>2, <3>1 DEF s
  <2>3. ~ NameNodeStart
    BY <1>0, CalmSteps DEF NameNodeStart
  <2>4. ~ \E c \in Clients : job[c].op = "rm" /\ Ends(c)
    BY DEF Readers
  <2>5. ASSUME NEW c, NEW t, NEW r, Granted(c, t, r) PROVE b # r.block
    BY <1>1, <2>5 DEF Granted
  <2>6. QED
    BY <1>0, <2>0, <2>1, <2>2, <2>3, <2>4, <2>5, ListEffect
<1>2. ASSUME NEW t, NEW r, Granted(w, t, r) PROVE ListOf(r.block)' = r.targets
  <2>1. /\ block_to_datanodes' = [block_to_datanodes EXCEPT ![r.block] = r.targets]
        /\ r \in AllocResults(Fresh) /\ r.block \in Blocks
    BY <1>2 DEF Granted, Allocate
  <2>2. r.targets \in Seq(DataNodes)
    BY <1>0, <2>1, AllocResultFacts DEF Allocs
  <2>3. block_to_datanodes'[r.block] = r.targets /\ r.targets # NoEntry
    BY <1>00, <2>1, <2>2
  <2>4. QED
    BY <2>3 DEF ListOf, HasEntry
<1>3. QED
  BY <1>1, <1>2

\* The file of the writer stays complete.
LEMMA FileCompleteStep ==
    ASSUME DataInv, OrderInv, PlaceInv, CalmInv, ReadInv, NdfsNext, Calm', NEW w \in Clients, Readers(w)
    PROVE  FileComplete(w)'
<1> DEFINE p == job[w].path
<1>0. TypeInv /\ RestOK /\ NsTypeOK /\ Places /\ OwnersAhead /\ p \in Paths /\ AllUp /\ Registered
  BY TypeParts, JobFacts DEF DataInv, OrderInv, TypeInv, CalmInv
<1>1. /\ OnlyWriter(w)
      /\ PutAlloc(w) \/ UNCHANGED <<tree, generated, owner, targetsOf>>
      /\ job' = job /\ Calm /\ (Bystander(w) => pc'[w] = pc[w]) /\ job[w].op = "put"
  BY <1>0, QuietWorld, CalmSteps DEF Readers
<1>2. FileComplete(w) /\ FileAtChunk(w) /\ (pc[w] = "rpc" => chunk[w] <= job[w].len + 1)
      /\ job[w].len \in Nat /\ chunk[w] \in Nat
  BY <1>0, <1>1, JobFacts DEF ReadInv, PlaceInv, RestOK, TypeInv
<1> HIDE DEF p
<1> SUFFICES ASSUME generated' # {}
             PROVE  /\ IsFile(tree', p)
                    /\ pc'[w] = "done" /\ status'[w] = "OK" => Len(tree'[p].blocks) = job[w].len
  BY <1>1 DEF FileComplete, p, IsFile
<1>3. CASE PutAlloc(w)
  <2>1. pc[w] = "rpc" /\ pc' = [pc EXCEPT ![w] = "send"]
    BY <1>3 DEF PutAlloc, Goto
  <2>2. pc'[w] = "send"
    BY <1>0, <2>1 DEF RestOK
  <2>3. CASE Refused(w)
    <3>1. generated' = generated
      BY <2>3 DEF Refused
    <3>2. chunk[w] # 1
      BY <1>0, <1>1, <2>1, <3>1, OnlyOwner
    <3>3. QED
      BY <1>2, <2>3, <3>1, <3>2 DEF Refused, FileComplete, p
  <2>4. ASSUME NEW t, NEW r, Granted(w, t, r) PROVE IsFile(tree', p)
    <3>1. tree' = [t EXCEPT ![p] = File(Append(@.blocks, r.block))] /\ t \in Trees
      BY <2>4 DEF Granted, Allocate, p
    <3>2. QED
      BY <1>0, <3>1 DEF Trees, File, IsFile
  <2>5. QED
    BY <1>0, <1>3, <2>2, <2>3, <2>4, PutAllocCases
<1>4. CASE ~ PutAlloc(w)
  <2>1. generated # {} /\ tree' = tree /\ IsFile(tree, p)
        /\ (pc[w] = "done" /\ status[w] = "OK" => Len(tree[p].blocks) = job[w].len)
    BY <1>1, <1>2, <1>4 DEF FileComplete, p
  <2>2. ASSUME pc'[w] = "done", status'[w] = "OK" PROVE Len(tree[p].blocks) = job[w].len
    <3>1. CASE Bystander(w)
      BY <1>1, <2>1, <2>2, <3>1 DEF Bystander
    <3>2. CASE Ends(w)
      <4>1. pc[w] = "rpc" /\ chunk[w] > job[w].len
        BY <1>0, <1>1, <3>2, CalmWriterEnds
      <4>2. Live(w)
        BY <1>0, <1>1, <4>1 DEF AllUp
      <4>3. Len(tree[p].blocks) = chunk[w] - 1
        BY <1>2, <2>1, <4>1, <4>2 DEF FileAtChunk, p
      <4>4. QED
        BY <1>2, <4>1, <4>3
    <3>3. CASE OwnStep(w) /\ ~ Ends(w)
      <4>1. pc'[w] # "done"
        <5>1. \/ \E l \in {"rpc", "send", "storing", "confirm", "read"} : pc' = [pc EXCEPT ![w] = l]
              \/ pc' = pc /\ pc[w] \in {"confirm", "read"}
          BY <3>3 DEF OwnStep, Connected, PutAlloc, SendSkipped, StoreOpen, StoreWrite, Confirm,
                      NextChunk, GetLocations, Reads, Goto
        <5>2. QED
          BY <1>0, <5>1 DEF RestOK
      <4>2. QED
        BY <2>2, <4>1
    <3>4. QED
      BY <1>0, <3>1, <3>2, <3>3, OwnSteps
  <2>3. QED
    BY <2>1, <2>2
<1>5. QED
  BY <1>3, <1>4

\* The writer's blocks stay complete where they are listed.
LEMMA BlocksCompleteStep ==
    ASSUME DataInv, OrderInv, CalmInv, ReadInv, NdfsNext, Calm', NEW w \in Clients, Readers(w)
    PROVE  BlocksComplete(w)'
<1>0. TypeInv /\ RestOK /\ NsTypeOK /\ Places /\ OwnersAhead /\ AllUp /\ Registered /\ AllocOwned
  BY TypeParts DEF DataInv, OrderInv, CalmInv
<1>1. /\ OnlyWriter(w)
      /\ PutAlloc(w) \/ UNCHANGED <<tree, generated, owner, targetsOf>>
      /\ Calm /\ (Bystander(w) => pc'[w] = pc[w]) /\ job[w].op = "put"
      /\ stored' = stored \/ Writes(w)
      /\ dirOf' = dirOf
  BY <1>0, QuietWorld, CalmSteps DEF Readers
<1>2. BlocksComplete(w)
  BY <1>1 DEF ReadInv
<1>3. /\ \A b \in generated : ToSet(ListOf(b)) \subseteq ToSet(ListOf(b)')
      /\ \A t, r : Granted(w, t, r) => ListOf(r.block)' = r.targets
  BY <1>0, ListsGrow
<1> DEFINE Sending(b) == pc[w] \in {"send", "storing"} /\ alloc[w].block = b
           Complete(b) == stored[dirOf[targetsOf[b][1]]][b] = owner[b]
<1>4. ASSUME NEW b \in generated'
      PROVE  targetsOf'[b] # <<>> =>
               /\ targetsOf'[b][1] \in ToSet(ListOf(b)')
               /\ \/ pc'[w] \in {"send", "storing"} /\ alloc'[w].block = b
                  \/ stored'[dirOf'[targetsOf'[b][1]]][b] = owner'[b]
  <2> SUFFICES ASSUME targetsOf'[b] # <<>>
               PROVE  /\ targetsOf'[b][1] \in ToSet(ListOf(b)')
                      /\ \/ pc'[w] \in {"send", "storing"} /\ alloc'[w].block = b
                         \/ stored'[dirOf'[targetsOf'[b][1]]][b] = owner'[b]
    OBVIOUS
  <2>1. CASE b \notin generated
    <3>1. PutAlloc(w)
      BY <1>1, <1>4, <2>1
    <3>2. PICK t, r : Granted(w, t, r)
      BY <1>0, <1>4, <2>1, <3>1, PutAllocCases DEF Refused
    <3>3. b = r.block /\ targetsOf'[b] = r.targets /\ alloc'[w] = r /\ r.targets \in Seq(DataNodes)
      <4>1. b = r.block
        BY <1>4, <2>1, <3>2 DEF Granted, Allocate
      <4>2. r \in Allocs
        BY <1>0, <3>2, AllocResultFacts DEF Granted
      <4>3. QED
        BY <1>0, <3>2, <4>1, <4>2 DEF Granted, RestOK, Allocs
    <3>4. pc'[w] = "send"
      BY <1>0, <3>1 DEF PutAlloc, Goto, RestOK
    <3>5. r.targets[1] \in ToSet(r.targets)
      <4> DEFINE s == r.targets
      <4> HIDE DEF s
      <4>1. s \in Seq(DataNodes) /\ s # <<>>
        BY <3>3 DEF s
      <4>2. 1 \in DOMAIN s
        BY <4>1
      <4>3. s[1] \in ToSet(s)
        BY <4>2 DEF ToSet
      <4>4. QED
        BY <4>3 DEF s
    <3>6. QED
      BY <1>3, <3>2, <3>3, <3>4, <3>5
  <2>2. CASE b \in generated
    <3>0. b \in Blocks
      BY <1>0, <2>2 DEF NsTypeOK
    <3>1. targetsOf'[b] = targetsOf[b] /\ owner'[b] = owner[b]
      <4>1. CASE UNCHANGED <<owner, targetsOf>>
        BY <4>1
      <4>2. ASSUME NEW c, NEW t, NEW r, Granted(c, t, r)
            PROVE  targetsOf'[b] = targetsOf[b] /\ owner'[b] = owner[b]
        BY <1>0, <2>2, <3>0, <4>2 DEF Granted, RestOK
      <4>3. QED
        BY <1>0, <4>1, <4>2, OwnerEffect
    <3>2. targetsOf[b] # <<>> /\ targetsOf[b][1] \in ToSet(ListOf(b)) /\ (Sending(b) \/ Complete(b))
      BY <1>2, <2>2, <3>1 DEF BlocksComplete
    <3>3. targetsOf'[b][1] \in ToSet(ListOf(b)')
      BY <1>3, <2>2, <3>1, <3>2
    <3>4. targetsOf[b][1] \in DataNodes /\ dirOf[targetsOf[b][1]] \in Dirs
      <4> DEFINE s == targetsOf[b]
      <4>1. s \in Seq(DataNodes) /\ s # <<>>
        BY <1>0, <3>0, <3>2 DEF RestOK
      <4> HIDE DEF s
      <4>2. s[1] \in DataNodes
        BY <4>1
      <4>3. QED
        BY <1>0, <4>2 DEF s, RestOK
    <3> DEFINE x == dirOf[targetsOf[b][1]]
    <3> HIDE DEF x
    <3>5. ASSUME Complete(b), ~ Sending(b) PROVE stored'[x][b] = owner[b]
      <4>1. CASE stored' = stored
        BY <3>5, <4>1 DEF x
      <4>2. CASE Writes(w)
        <5>1. pc[w] \in {"send", "storing"}
          BY <4>2 DEF Writes
        <5>2. b # alloc[w].block
          BY <3>5, <5>1
        <5>3. stored'[x][b] = stored[x][b]
          BY <3>0, <3>4, <4>2, <5>2, WritesFacts DEF x
        <5>4. QED
          BY <3>5, <5>3 DEF x
      <4>3. QED
        BY <1>1, <4>1, <4>2
    <3>6. CASE ~ Sending(b)
      BY <1>1, <3>1, <3>2, <3>3, <3>5, <3>6 DEF x
    <3>7. CASE Sending(b)
      <4>0. alloc[w] # NoAlloc /\ targetsOf[b] = alloc[w].targets /\ owner[b] = <<w, chunk[w]>>
        <5>1. alloc[w] # NoAlloc
          BY <3>0, <3>7, ConstantsAssumption DEF NoAlloc
        <5>2. QED
          BY <1>0, <3>7, <5>1 DEF AllocOwned
      <4>1. CASE Bystander(w)
        BY <1>1, <3>3, <3>7, <4>1 DEF Bystander
      <4>2. CASE StoreOpen(w)
        <5>1. pc' = [pc EXCEPT ![w] = "storing"] /\ alloc' = alloc
          <6>1. stops' = stops /\ faults \in Nat /\ faults' = 0
            BY <1>0, <1>1, <4>2 DEF StoreOpen, RestOK, Calm, nnVars
          <6>2. QED
            BY <1>1, <4>2, <6>1 DEF StoreOpen, Goto, Calm
        <5>2. QED
          BY <1>0, <3>3, <3>7, <5>1 DEF RestOK
      <4>3. CASE StoreWrite(w)
        <5>1. Write(w, ChunkData(w))
          <6>1. faults \in Nat /\ faults' = 0
            BY <1>0, <1>1 DEF RestOK, Calm
          <6>2. QED
            BY <1>1, <4>3, <6>1 DEF StoreWrite, Calm
        <5>2. ChunkData(w) = owner[b] /\ owner[b] \in Contents
          BY <1>0, <3>0, <4>0 DEF ChunkData, RestOK, Contents
        <5>3. stored'[x][b] = owner[b]
          BY <1>0, <3>0, <3>4, <3>7, <4>0, <5>1, <5>2, WriteFacts DEF RestOK, x
        <5>4. QED
          BY <1>1, <3>1, <3>3, <5>3 DEF x
      <4>4. CASE SendSkipped(w)
        <5>1. dn[alloc[w].targets[1]] = "down"
          BY <3>2, <4>0, <4>4 DEF SendSkipped, FirstTargetUp
        <5>2. alloc[w].targets[1] \in datanodes
          BY <1>0, <3>0, <3>2, <4>0 DEF Registered
        <5>3. QED
          BY <1>0, <1>1, <5>1, <5>2 DEF AllUp
      <4>5. CASE Ends(w)
        BY <1>0, <1>1, <3>7, <4>5, CalmWriterEnds
      <4>6. CASE Connected(w) \/ PutAlloc(w) \/ Confirm(w) \/ NextChunk(w) \/ GetLocations(w) \/ Reads(w)
        BY <3>7, <4>6 DEF Connected, PutAlloc, Confirm, NextChunk, GetLocations, Reads
      <4>7. QED
        BY <1>0, <4>1, <4>2, <4>3, <4>4, <4>5, <4>6, OwnSteps DEF OwnStep
    <3>8. QED
      BY <3>6, <3>7
  <2>3. QED
    BY <2>1, <2>2
<1>5. QED
  BY <1>4 DEF BlocksComplete, ToSet

\* A call that has ended takes no more steps.
LEMMA DoneStays ==
    ASSUME TypeInv, NdfsNext, NEW e \in Clients, pc[e] = "done"
    PROVE  Bystander(e) /\ pc'[e] = "done"
<1>1. ~ OwnStep(e)
  BY DEF OwnStep, Connected, Ends, Ending, PutAlloc, SendSkipped, StoreOpen, StoreWrite, Confirm,
         NextChunk, GetLocations, Reads
<1>2. QED
  BY <1>1, OwnSteps DEF Bystander

\* The writer's chunk stays within its file.
LEMMA WriterBoundsStep ==
    ASSUME DataInv, CalmInv, ReadInv, NdfsNext, Calm', NEW w \in Clients, Readers(w)
    PROVE  /\ status'[w] = "OK" => pc'[w] = "done"
           /\ pc'[w] = "rpc" => chunk'[w] <= job[w].len + 1
           /\ pc'[w] \in {"send", "storing", "confirm"} => chunk'[w] <= job[w].len
<1>0. TypeInv /\ RestOK /\ Places /\ AllUp
  BY TypeParts DEF DataInv, CalmInv
<1>1. /\ Calm /\ (Bystander(w) => pc'[w] = pc[w]) /\ job[w].op = "put"
      /\ job[w].len \in Nat /\ chunk[w] \in Nat \ {0}
  BY <1>0, QuietWorld, CalmSteps, JobFacts DEF Readers, TypeInv, RestOK
<1>2. /\ status[w] = "OK" => pc[w] = "done"
      /\ pc[w] = "rpc" => chunk[w] <= job[w].len + 1
      /\ pc[w] \in {"send", "storing", "confirm"} => chunk[w] <= job[w].len
  BY <1>1 DEF ReadInv
<1>00. /\ pc \in [Clients -> {"idle", "rpc", "send", "storing", "confirm", "read", "done"}]
       /\ chunk \in [Clients -> Nat \ {0}]
       /\ status \in [Clients -> {"none", "OK", "IOError", "Killed"}]
  BY <1>0 DEF RestOK
<1>3. CASE Bystander(w)
  BY <1>1, <1>2, <1>3 DEF Bystander
<1>4. CASE Ends(w)
  BY <1>00, <1>4 DEF Ends, Return
<1>5. CASE Connected(w)
  <2>1. chunk[w] = 1 /\ chunk' = chunk /\ status' = status /\ pc[w] = "idle" /\ pc'[w] = "rpc"
    BY <1>0, <1>00, <1>5 DEF Connected, Places
  <2>2. QED
    BY <1>1, <1>2, <2>1
<1>6. CASE PutAlloc(w)
  <2>1. pc[w] = "rpc" /\ chunk[w] <= job[w].len /\ chunk' = chunk /\ status' = status /\ pc'[w] = "send"
    BY <1>00, <1>6 DEF PutAlloc, Goto
  <2>2. QED
    BY <1>2, <2>1
<1>7. CASE SendSkipped(w) \/ StoreOpen(w) \/ StoreWrite(w) \/ Confirm(w)
  <2>1. pc[w] \in {"send", "storing", "confirm"} /\ chunk' = chunk /\ status' = status
        /\ pc'[w] \in {"send", "storing", "confirm"}
    BY <1>00, <1>7 DEF SendSkipped, StoreOpen, StoreWrite, Confirm, Goto
  <2>2. QED
    BY <1>2, <2>1
<1>8. CASE NextChunk(w)
  <2>1. pc[w] = "confirm" /\ chunk'[w] = chunk[w] + 1 /\ status' = status /\ pc'[w] = "rpc"
    BY <1>00, <1>8 DEF NextChunk, Goto
  <2>2. QED
    BY <1>1, <1>2, <2>1
<1>9. CASE GetLocations(w) \/ Reads(w)
  BY <1>0, <1>1, <1>9 DEF GetLocations, Reads, Places
<1>10. QED
  BY <1>0, <1>3, <1>4, <1>5, <1>6, <1>7, <1>8, <1>9, OwnSteps DEF OwnStep

\* The block of a chunk that got a target is the one its writer was given, and
\* its file is readable at its first target.
LEMMA ChunkReadable ==
    ASSUME DataInv, OrderInv, PlaceInv, CalmInv, ReadInv, Calm, NEW w \in Clients, Readers(w), pc[w] = "done",
           NEW b \in generated, owner[b] \in Clients \X Nat, targetsOf[b] # <<>>
    PROVE  /\ stored[dirOf[targetsOf[b][1]]][b] = owner[b]
           /\ targetsOf[b][1] \in ToSet(ListOf(b))
           /\ Readable(targetsOf[b][1], b)
<1>0. TypeInv /\ RestOK /\ NsTypeOK /\ BlocksComplete(w) /\ b \in Blocks
  BY TypeParts DEF DataInv, ReadInv, NsTypeOK
<1>1. stored[dirOf[targetsOf[b][1]]][b] = owner[b] /\ targetsOf[b][1] \in ToSet(ListOf(b))
  BY <1>0 DEF BlocksComplete
<1>2. owner[b] # NoData
  BY NdfsAssumption
<1>3. targetsOf[b][1] \in datanodes
  BY <1>0, <1>1 DEF CalmInv, Registered
<1>4. dn[targetsOf[b][1]] # "down"
  BY <1>3 DEF CalmInv, AllUp
<1>5. QED
  BY <1>1, <1>2, <1>4 DEF Readable

\* What a reader is told once the writer is done: all its chunks, each with a
\* location that has it.
LEMMA ToldAll ==
    ASSUME DataInv, OrderInv, PlaceInv, CalmInv, ReadInv, Calm, NEW w \in Clients, Readers(w),
           pc[w] = "done", status[w] = "OK", Placed(w)
    PROVE  LET g == GetBlocks(job[w].path)
           IN  /\ Len(g) = job[w].len
               /\ \A i \in DOMAIN g : /\ targetsOf[g[i].block] # <<>>
                                      /\ targetsOf[g[i].block][1] \in ToSet(g[i].locations)
<1> DEFINE p == job[w].path
           g == GetBlocks(p)
           bs == tree[p].blocks
<1>0. TypeInv /\ RestOK /\ NsTypeOK /\ OwnersAhead /\ p \in Paths /\ job[w].op = "put" /\ job[w].len \in Nat
  BY TypeParts, JobFacts DEF DataInv, OrderInv, TypeInv, Readers
<1>1. /\ IsFile(tree, p) => Len(g) = Len(bs)
      /\ ~ IsFile(tree, p) => g = <<>>
      /\ \A i \in DOMAIN g : /\ i \in DOMAIN bs /\ g[i].block = bs[i]
                             /\ g[i].locations = ListOf(bs[i])
  BY <1>0, GetBlocksFacts
<1>2. OnlyWriter(w)
  BY DEF Readers, OnlyWriter
<1>3. ChunksOf(w, bs, generated, owner) /\ NoFileFirst /\ FileComplete(w)
  BY <1>0, <1>2 DEF PlaceInv, ReadInv
<1> HIDE DEF g, bs
<1>4. Len(g) = job[w].len
  <2>1. CASE generated = {}
    <3>1. ~ IsFile(tree, p)
      BY <1>0, <1>3, <2>1 DEF NoFileFirst
    <3>2. Len(g) = 0
      BY <1>1, <3>1
    <3>3. ASSUME job[w].len # 0 PROVE FALSE
      <4>1. 1 \in 1..job[w].len
        BY <1>0, <3>3
      <4>2. PICK b \in Blocks : owner[b] = <<w, 1>>
        BY <4>1 DEF Placed
      <4>3. owner[b] = NoData
        BY <2>1 DEF CalmInv, OwnersUnique
      <4>4. <<w, 1>> \in Clients \X Nat
        OBVIOUS
      <4>5. QED
        BY <4>2, <4>3, <4>4, NdfsAssumption
    <3>4. QED
      BY <3>2, <3>3
  <2>2. CASE generated # {}
    BY <1>1, <1>3, <2>2 DEF FileComplete, bs
  <2>3. QED
    BY <2>1, <2>2
<1>5. ASSUME NEW i \in DOMAIN g
      PROVE  targetsOf[g[i].block] # <<>> /\ targetsOf[g[i].block][1] \in ToSet(g[i].locations)
  <2>1. g[i].block \in generated /\ owner[g[i].block] = <<w, i>>
    BY <1>1, <1>3, <1>5 DEF ChunksOf
  <2>2. i \in 1..job[w].len
    <3>1. g \in Seq(Founds)
      BY <1>0, GetBlocksFacts DEF g
    <3>2. QED
      BY <1>4, <1>5, <3>1
  <2>3. PICK b \in Blocks : owner[b] = <<w, i>> /\ targetsOf[b] # <<>>
    BY <2>2 DEF Placed
  <2>4. i \in Nat /\ <<w, i>> \in Clients \X Nat
    BY <2>2
  <2>5. b \in generated
    BY <2>3, <2>4, NdfsAssumption DEF CalmInv, OwnersUnique
  <2>6. b = g[i].block
    BY <2>1, <2>3, <2>5 DEF CalmInv, OwnersUnique
  <2>7. targetsOf[b][1] \in ToSet(ListOf(b))
    BY <2>3, <2>4, <2>5, ChunkReadable
  <2>8. QED
    BY <1>1, <1>5, <2>3, <2>6, <2>7
<1>6. QED
  BY <1>4, <1>5 DEF g

\* A member of a list stands somewhere in it.
LEMMA MemberPosition ==
    ASSUME NEW S, NEW s \in Seq(S), NEW x \in ToSet(s)
    PROVE  \E k \in DOMAIN s : k >= 1 /\ s[k] = x
<1>1. PICK k \in DOMAIN s : s[k] = x
  BY DEF ToSet
<1>2. k >= 1
  BY <1>1
<1>3. QED
  BY <1>1, <1>2

\* A reader keeps knowing where the writer's chunks are, and ends with them all.
LEMMA ReaderKnowsStep ==
    ASSUME DataInv, OrderInv, PlaceInv, CalmInv, ReadInv, NdfsNext, Calm', NEW w \in Clients, Readers(w),
           NEW r \in Clients \ {w}
    PROVE  ReaderKnows(r, w)'
<1>0. TypeInv /\ RestOK /\ NsTypeOK /\ Places /\ OwnersAhead /\ AllUp /\ Registered
  BY TypeParts DEF DataInv, OrderInv, CalmInv
<1>1. Calm /\ OnlyWriter(w) /\ job' = job /\ dirOf' = dirOf /\ job[r].op = "get" /\ job[w].op = "put"
  BY <1>0, QuietWorld, CalmSteps DEF Readers
<1>2. ReaderKnows(r, w) /\ (status[w] = "OK" => pc[w] = "done") /\ job[w].len \in Nat
  BY <1>0, <1>1, JobFacts DEF ReadInv, TypeInv
<1>3. CASE w \notin sawDone'[r]
  BY <1>3 DEF ReaderKnows
<1>4. CASE w \in sawDone'[r]
  <2>1. \/ GetLocations(r) /\ sawDone'[r] = sawDone[r]
        \/ Reads(r) /\ sawDone'[r] = sawDone[r]
        \/ Connected(r) /\ data'[r] = data[r] /\ found'[r] = found[r] /\ pc'[r] = "rpc"
        \/ Ends(r) /\ data'[r] = data[r] /\ pc'[r] = "done" /\ sawDone'[r] = sawDone[r]
        \/ Bystander(r) /\ pc'[r] = pc[r]
    <3>1. GetLocations(r) \/ Reads(r) \/ Ends(r) => sawDone' = sawDone
      BY DEF GetLocations, Reads, Ends, history
    <3>2. QED
      BY <1>0, <1>1, <3>1, ReaderSteps
  <2>2. pc[w] = "done" /\ status[w] = "OK"
    <3>1. CASE Connected(r)
      <4>1. sawDone'[r] = {x \in Clients : job[r].op = "get" /\ status[x] = "OK"}
        BY <1>0, <3>1 DEF Connected, RestOK
      <4>2. QED
        BY <1>2, <1>4, <4>1
    <3>2. CASE w \in sawDone[r]
      BY <1>2, <3>2 DEF ReaderKnows
    <3>3. QED
      BY <1>4, <2>1, <3>1, <3>2 DEF Bystander
  <2>3. pc'[w] = "done" /\ status'[w] = "OK"
    BY <1>0, <2>2, DoneStays DEF Bystander
  <2>4. UNCHANGED <<tree, generated, owner, targetsOf>>
    BY <1>0, <2>2, QuietWorld DEF PutAlloc
  <2>5. ~ Connected(r) => w \in sawDone[r] /\ pc[r] # "idle"
    BY <1>2, <1>4, <2>1 DEF Bystander, ReaderKnows
  <2>6. pc'[r] # "idle"
    <3>1. GetLocations(r) \/ Reads(r) => pc'[r] = "read"
      BY <1>0, GetLocationsFacts, ReadsFacts
    <3>2. Connected(r) => pc'[r] = "rpc"
      BY <1>0 DEF Connected, RestOK
    <3>3. QED
      BY <2>1, <2>5, <3>1, <3>2
  <2>7. Placed(w)' => Placed(w)
    BY <1>1, <2>4 DEF Placed
  <2>8. \A i \in DOMAIN found[r] : found[r][i].block \in generated /\ owner[found[r][i].block] = <<w, i>>
    BY <1>1 DEF PlaceInv
  <2>9. ASSUME pc'[r] = "read", Placed(w), job[r].path = job[w].path
        PROVE  /\ Len(found'[r]) = job[w].len
               /\ \A i \in DOMAIN found'[r] :
                    /\ targetsOf[found'[r][i].block] # <<>>
                    /\ targetsOf[found'[r][i].block][1] \in ToSet(found'[r][i].locations)
               /\ \A i \in DOMAIN found'[r] : i = chunk'[r] =>
                    \E k \in DOMAIN found'[r][i].locations :
                      /\ k >= idx'[r]
                      /\ found'[r][i].locations[k] = targetsOf[found'[r][i].block][1]
               /\ \A i \in DOMAIN data'[r] : data'[r][i] = <<w, i>>
               /\ chunk'[r] <= job[w].len + 1
    <3>1. CASE GetLocations(r)
      <4> DEFINE g == GetBlocks(job[w].path)
      <4>1. /\ found'[r] = g /\ data'[r] = data[r] /\ pc[r] = "rpc" /\ chunk'[r] = 1 /\ idx'[r] = 1
        BY <1>0, <2>9, <3>1, GetLocationsFacts
      <4>2. data[r] = <<>>
        BY <1>1, <4>1 DEF PlaceInv, DataInPlace
      <4>3. /\ Len(g) = job[w].len
            /\ \A i \in DOMAIN g : /\ targetsOf[g[i].block] # <<>>
                                   /\ targetsOf[g[i].block][1] \in ToSet(g[i].locations)
        BY <1>1, <2>2, <2>9, ToldAll
      <4>4. g \in Seq(Founds)
        BY <1>0, <1>1, JobFacts, GetBlocksFacts DEF TypeInv
      <4> HIDE DEF g
      <4>5. ASSUME NEW i \in DOMAIN g
            PROVE  \E k \in DOMAIN g[i].locations : k >= 1 /\ g[i].locations[k] = targetsOf[g[i].block][1]
        <5>1. g[i] \in Founds
          BY <4>4, <4>5, ElementOfSeq, LenProperties
        <5>2. g[i].locations \in Seq(DataNodes)
          BY <5>1 DEF Founds
        <5>3. targetsOf[g[i].block][1] \in ToSet(g[i].locations)
          BY <4>3, <4>5
        <5> DEFINE s == g[i].locations
                   x == targetsOf[g[i].block][1]
        <5> HIDE DEF s, x
        <5>4. \E k \in DOMAIN s : k >= 1 /\ s[k] = x
          BY <5>2, <5>3, MemberPosition DEF s, x
        <5>5. QED
          BY <5>4 DEF s, x
      <4>6. DOMAIN data'[r] = {}
        BY <4>1, <4>2
      <4>7. 1 <= job[w].len + 1
        BY <1>2
      <4>8. QED
        BY <4>1, <4>3, <4>5, <4>6, <4>7
    <3>2. CASE Bystander(r) /\ pc'[r] = pc[r]
      <4>1. pc[r] = "read" /\ w \in sawDone[r]
        BY <1>4, <2>9, <3>2 DEF Bystander
      <4>2. found'[r] = found[r] /\ chunk'[r] = chunk[r] /\ idx'[r] = idx[r] /\ data'[r] = data[r]
        BY <3>2 DEF Bystander
      <4>3. QED
        BY <1>2, <2>9, <4>1, <4>2 DEF ReaderKnows
    <3>3. CASE Reads(r)
      <4> DEFINE f == found[r][chunk[r]]
                 d == f.locations[idx[r]]
                 v == stored[dirOf[d]][f.block]
                 t1 == targetsOf[f.block][1]
      <4>1. /\ pc[r] = "read" /\ found'[r] = found[r]
            /\ chunk[r] \in DOMAIN found[r] /\ f \in Founds
            /\ idx[r] \in DOMAIN f.locations
            /\ \/ /\ dirOf[d] = dirOf[t1] /\ data'[r] = Append(data[r], v)
                  /\ chunk'[r] = chunk[r] + 1 /\ idx'[r] = 1
               \/ /\ ~ Readable(d, f.block)
                  /\ data'[r] = data[r] /\ chunk'[r] = chunk[r] /\ idx'[r] = idx[r] + 1
        BY <3>3, ReadsFacts
      <4>2. w \in sawDone[r]
        BY <2>5, <4>1 DEF Connected
      <4>3. /\ Len(found[r]) = job[w].len
            /\ \A i \in DOMAIN found[r] :
                 /\ targetsOf[found[r][i].block] # <<>>
                 /\ targetsOf[found[r][i].block][1] \in ToSet(found[r][i].locations)
            /\ \A i \in DOMAIN found[r] : i = chunk[r] =>
                 \E k \in DOMAIN found[r][i].locations :
                   k >= idx[r] /\ found[r][i].locations[k] = targetsOf[found[r][i].block][1]
            /\ \A i \in DOMAIN data[r] : data[r][i] = <<w, i>>
            /\ chunk[r] <= job[w].len + 1
        BY <1>2, <2>9, <4>1, <4>2 DEF ReaderKnows
      <4>4. f.block \in generated /\ owner[f.block] = <<w, chunk[r]>> /\ targetsOf[f.block] # <<>>
        BY <2>8, <4>1, <4>3
      <4>5. /\ found[r] \in Seq(Founds) /\ data[r] \in Seq(Contents) /\ chunk[r] \in Nat \ {0}
            /\ idx[r] \in Nat \ {0} /\ Len(data[r]) = chunk[r] - 1
        BY <1>0, <1>1, <4>1 DEF RestOK, PlaceInv, DataInPlace
      <4>6. stored[dirOf[t1]][f.block] = owner[f.block] /\ Readable(t1, f.block)
        <5>1. owner[f.block] \in Clients \X Nat
          BY <4>4, <4>5
        <5>2. QED
          BY <1>1, <2>2, <4>4, <5>1, ChunkReadable
      <4>7. PICK k \in DOMAIN f.locations : k >= idx[r] /\ f.locations[k] = t1
        BY <4>1, <4>3
      <4>8. k \in Nat
        <5>1. f.locations \in Seq(DataNodes)
          BY <4>1 DEF Founds
        <5>2. QED
          BY <4>7, <5>1
      <4> HIDE DEF f, d, v, t1
      <4>9. CASE ~ Readable(d, f.block) /\ data'[r] = data[r] /\ chunk'[r] = chunk[r] /\ idx'[r] = idx[r] + 1
        <5>1. k # idx[r]
          BY <4>6, <4>7, <4>9 DEF d
        <5>2. k >= idx'[r]
          BY <4>5, <4>7, <4>8, <4>9, <5>1
        <5>3. \A i \in DOMAIN found[r] : i = chunk[r] =>
                \E j \in DOMAIN found[r][i].locations :
                  j >= idx'[r] /\ found[r][i].locations[j] = targetsOf[found[r][i].block][1]
          BY <4>7, <5>2 DEF f, t1
        <5>4. QED
          BY <4>1, <4>3, <4>9, <5>3
      <4>10. CASE dirOf[d] = dirOf[t1] /\ data'[r] = Append(data[r], v) /\ chunk'[r] = chunk[r] + 1 /\ idx'[r] = 1
        <5>1. v = <<w, chunk[r]>>
          BY <4>4, <4>6, <4>10 DEF v
        <5>2. \A i \in DOMAIN data'[r] : data'[r][i] = <<w, i>>
          <6> DEFINE s == data[r]
                     u == Append(s, v)
          <6>1. s \in Seq(Contents) /\ Len(s) + 1 = chunk[r] /\ \A i \in DOMAIN s : s[i] = <<w, i>>
            BY <4>3, <4>5
          <6> HIDE DEF s
          <6>2. v \in Contents
            BY <4>5, <5>1 DEF Contents
          <6>3. /\ DOMAIN s = 1..Len(s) /\ Len(s) \in Nat /\ DOMAIN u = 1..(Len(s) + 1)
                /\ \A i \in DOMAIN s : u[i] = s[i]
                /\ u[Len(s) + 1] = v
            BY <6>1, <6>2, AppendProperties
          <6> HIDE DEF u
          <6>4. ASSUME NEW i \in DOMAIN u PROVE u[i] = <<w, i>>
            <7>1. CASE i \in DOMAIN s
              BY <6>1, <6>3, <7>1
            <7>2. CASE i = Len(s) + 1
              BY <5>1, <6>1, <6>3, <7>2
            <7>3. QED
              BY <6>3, <6>4, <7>1, <7>2
          <6>5. data'[r] = u
            BY <4>10 DEF u, s
          <6>6. QED
            BY <6>4, <6>5
        <5>3. chunk[r] <= job[w].len
          BY <4>1, <4>3, <4>5
        <5>4. ASSUME NEW i \in DOMAIN found[r]
              PROVE  \E j \in DOMAIN found[r][i].locations :
                       j >= 1 /\ found[r][i].locations[j] = targetsOf[found[r][i].block][1]
          <6>1. found[r][i] \in Founds
            BY <4>5, <5>4, ElementOfSeq, LenProperties
          <6>2. found[r][i].locations \in Seq(DataNodes)
            BY <6>1 DEF Founds
          <6>3. targetsOf[found[r][i].block][1] \in ToSet(found[r][i].locations)
            BY <4>3, <5>4
          <6> DEFINE s == found[r][i].locations
                     x == targetsOf[found[r][i].block][1]
          <6> HIDE DEF s, x
          <6>4. \E j \in DOMAIN s : j >= 1 /\ s[j] = x
            BY <6>2, <6>3, MemberPosition DEF s, x
          <6>5. QED
            BY <6>4 DEF s, x
        <5>5. chunk'[r] <= job[w].len + 1
          BY <1>2, <4>5, <4>10, <5>3
        <5>6. QED
          BY <4>1, <4>3, <4>10, <5>2, <5>4, <5>5
      <4>11. QED
        BY <4>1, <4>9, <4>10
    <3>4. QED
      BY <2>1, <2>9, <3>1, <3>2, <3>3
  <2>10. ASSUME pc'[r] = "done", Placed(w), job[r].path = job[w].path
         PROVE  status'[r] = "OK" /\ data'[r] = [i \in 1..job[w].len |-> <<w, i>>]
    <3>1. CASE Ends(r)
      <4>1. /\ pc[r] = "read" /\ data'[r] = data[r]
            /\ \/ chunk[r] \in DOMAIN found[r] /\ idx[r] > Len(found[r][chunk[r]].locations)
               \/ chunk[r] > Len(found[r]) /\ status'[r] = "OK"
        BY <1>0, <1>1, <3>1, CalmReaderEnds
      <4>2. w \in sawDone[r]
        BY <2>5, <4>1 DEF Connected
      <4>3. /\ Len(found[r]) = job[w].len
            /\ \A i \in DOMAIN found[r] : i = chunk[r] =>
                 \E k \in DOMAIN found[r][i].locations :
                   k >= idx[r] /\ found[r][i].locations[k] = targetsOf[found[r][i].block][1]
            /\ \A i \in DOMAIN data[r] : data[r][i] = <<w, i>>
            /\ chunk[r] <= job[w].len + 1
        BY <1>2, <2>10, <4>1, <4>2 DEF ReaderKnows
      <4>4. /\ found[r] \in Seq(Founds) /\ data[r] \in Seq(Contents) /\ chunk[r] \in Nat \ {0}
            /\ idx[r] \in Nat \ {0} /\ Len(data[r]) = chunk[r] - 1
        BY <1>0, <1>1, <4>1 DEF RestOK, PlaceInv, DataInPlace
      <4>5. ~ (chunk[r] \in DOMAIN found[r] /\ idx[r] > Len(found[r][chunk[r]].locations))
        <5>1. SUFFICES ASSUME chunk[r] \in DOMAIN found[r], idx[r] > Len(found[r][chunk[r]].locations)
                       PROVE  FALSE
          OBVIOUS
        <5> DEFINE s == found[r][chunk[r]].locations
        <5>2. PICK k \in DOMAIN s : k >= idx[r]
          BY <4>3, <5>1
        <5>3. found[r][chunk[r]] \in Founds
          BY <4>4, <5>1, ElementOfSeq, LenProperties
        <5>4. s \in Seq(DataNodes) /\ idx[r] > Len(s)
          BY <5>1, <5>3 DEF Founds
        <5> HIDE DEF s
        <5>5. QED
          BY <4>4, <5>2, <5>4
      <4>6. chunk[r] = job[w].len + 1 /\ status'[r] = "OK"
        BY <1>2, <4>1, <4>3, <4>4, <4>5
      <4> DEFINE u == data[r]
                 n == job[w].len
      <4>7. u \in Seq(Contents) /\ Len(u) = n /\ (\A i \in DOMAIN u : u[i] = <<w, i>>) /\ n \in Nat
        BY <1>2, <4>3, <4>4, <4>6
      <4> HIDE DEF u, n
      <4>8. u = [i \in DOMAIN u |-> u[i]] /\ DOMAIN u = 1..n
        BY <4>7
      <4>9. u = [i \in 1..n |-> <<w, i>>]
        BY <4>7, <4>8
      <4>10. QED
        BY <4>1, <4>6, <4>9 DEF u, n
    <3>2. CASE Bystander(r) /\ pc'[r] = pc[r]
      <4>1. pc[r] = "done" /\ w \in sawDone[r] /\ status'[r] = status[r] /\ data'[r] = data[r]
        BY <1>4, <2>10, <3>2 DEF Bystander
      <4>2. QED
        BY <1>2, <2>10, <4>1 DEF ReaderKnows
    <3>3. GetLocations(r) \/ Reads(r) => pc'[r] = "read"
      BY <1>0, GetLocationsFacts, ReadsFacts
    <3>4. QED
      BY <2>1, <2>10, <3>1, <3>2, <3>3
  <2>11. QED
    BY <1>1, <2>3, <2>4, <2>6, <2>7, <2>9, <2>10 DEF ReaderKnows, ToSet
<1>5. QED
  BY <1>3, <1>4

\* ReadInv is kept by every step.
LEMMA ReadStep == ASSUME DataInv, OrderInv, PlaceInv, CalmInv, ReadInv, [NdfsNext]_vars PROVE ReadInv'
<1>0. TypeInv /\ AllUp
  BY DEF DataInv, CalmInv
<1>1. CASE UNCHANGED vars
  <2>1. \A w \in Clients : /\ Readers(w)' <=> Readers(w)
                           /\ FileComplete(w)' <=> FileComplete(w)
                           /\ Calm' <=> Calm
    BY <1>1 DEF vars, nsVars, nnVars, dnVars, clientVars, history, Readers, FileComplete, Calm
  <2>2. \A w \in Clients : BlocksComplete(w)' <=> BlocksComplete(w)
    BY <1>1 DEF vars, nsVars, mapVars, dnVars, clientVars, history, BlocksComplete, ListOf, HasEntry
  <2>3. \A w, r \in Clients : ReaderKnows(r, w)' <=> ReaderKnows(r, w)
    BY <1>1 DEF vars, clientVars, history, ReaderKnows, Placed
  <2>4. UNCHANGED <<status, pc, chunk, job>>
    BY <1>1 DEF vars, clientVars
  <2>5. QED
    BY <2>1, <2>2, <2>3, <2>4 DEF ReadInv
<1>2. ASSUME NdfsNext, NEW w \in Clients, Readers(w)', Calm'
      PROVE  /\ FileComplete(w)' /\ BlocksComplete(w)'
             /\ status'[w] = "OK" => pc'[w] = "done"
             /\ pc'[w] = "rpc" => chunk'[w] <= job'[w].len + 1
             /\ pc'[w] \in {"send", "storing", "confirm"} => chunk'[w] <= job'[w].len
             /\ \A r \in Clients \ {w} : ReaderKnows(r, w)'
  <2>1. Readers(w) /\ job' = job
    BY <1>0, <1>2, OwnerEffect DEF Readers
  <2>2. QED
    BY <1>2, <2>1, FileCompleteStep, BlocksCompleteStep, WriterBoundsStep, ReaderKnowsStep
<1>3. QED
  BY <1>1, <1>2 DEF ReadInv

\* ReadInv holds at the start.
LEMMA ReadInit == NdfsInit => ReadInv
<1> SUFFICES ASSUME NdfsInit PROVE ReadInv
  OBVIOUS
<1>1. generated = {} /\ \A c \in Clients : pc[c] = "idle" /\ status[c] = "none" /\ sawDone[c] = {}
  BY DEF NdfsInit, NsInit
<1>2. QED
  BY <1>1 DEF ReadInv, FileComplete, BlocksComplete, ReaderKnows

\* Without faults, a get that starts after the path's only put returned OK
\* returns exactly the chunks put, provided that each of them had got a target:
\* whatever the number of clients, DataNodes and chunks, and also when
\* directories are shared.
THEOREM ReadYourWritesHolds == NdfsSpec => []ReadYourWrites
<1>1. ReadInv => ReadYourWrites
  <2> SUFFICES ASSUME ReadInv, NEW r \in Clients, NEW w \in Clients,
                      job[r].op = "get", job[w].op = "put", job[r].path = job[w].path,
                      w \in sawDone[r], pc[r] = "done",
                      \A c \in Clients \ {w} : job[c].op = "get",
                      faults = 0, stops = 0,
                      \A i \in 1..job[w].len :
                        \E b \in Blocks : owner[b] = <<w, i>> /\ targetsOf[b] # <<>>
               PROVE  status[r] = "OK" /\ data[r] = [i \in 1..job[w].len |-> <<w, i>>]
    BY DEF ReadYourWrites
  <2>1. r # w /\ Readers(w) /\ Calm /\ Placed(w)
    BY DEF Readers, Calm, Placed
  <2>2. ReaderKnows(r, w)
    BY <2>1 DEF ReadInv
  <2>3. QED
    BY <2>1, <2>2 DEF ReaderKnows
<1>2. QED
  BY <1>1, ReadInit, ReadStep, CalmInit, CalmInvStep, PlaceInit, PlaceStep, OrderInit, OrderStep,
     DataInvCorrect, PTL DEF NdfsSpec
=============================================================================
