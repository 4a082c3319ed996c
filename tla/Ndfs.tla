-------------------------------- MODULE Ndfs --------------------------------
(***************************************************************************)
(* The distributed file system put together: one NameNode process          *)
(* (name_node.h around FsNamesystem and FsImage), DataNode processes       *)
(* (data_node.h, data_xceive_server.h, block_storage.h) and client         *)
(* processes that each run one DfsClient call (dfs_client.h, main.cpp).    *)
(*                                                                         *)
(* An RPC is one action: the handler runs under the name system's mutex    *)
(* and nothing but the death of the NameNode, which loses its memory, can  *)
(* come between the handler and the reply.  What a client does between two *)
(* RPCs interleaves with everything else.  The name system's safe-mode and *)
(* lease operations have no caller in these processes.                     *)
(***************************************************************************)
EXTENDS FsNamesystem, FsImage

CONSTANTS
    Clients,
    Dirs,        \* data directories
    Deployments, \* [dir, job, faults, stops]: each DataNode's directory, each
                 \* client's call, and two bounds: of the DataNode stops, DataNode
                 \* deaths and disk errors, of the NameNode's stops and deaths
    ImageWrites, \* how writing the new image file may end
    NumHandlers, \* num_handlers_: the workers of the NameNode's server
    NoData,      \* no block file
    Partial      \* a block file holding a proper prefix of its chunk

\* The calls a client may make.
Jobs == [op : {"put"}, path : Paths, len : Nat, overwrite : BOOLEAN]
          \cup [op : {"get", "rm", "mkdir"}, path : Paths]

ASSUME NdfsAssumption ==
    /\ Clients \cap DataNodes = {}
    /\ Deployments # {}
    /\ \A s \in Deployments :
         /\ s.dir \in [DataNodes -> Dirs] /\ s.job \in [Clients -> Jobs]
         /\ s.faults \in Nat /\ s.stops \in Nat
    /\ ImageWrites \subseteq {"whole", "torn", "unopened"} /\ ImageWrites # {}
    /\ NumHandlers \in Nat \ {0}
    /\ NoData # Partial
    /\ NoData \notin Clients \X Nat /\ Partial \notin Clients \X Nat

VARIABLES
    nn,        \* the NameNode: "up", "saved", "stopping", "hung" or "down"
    image,     \* the image file
    stops,     \* stops and deaths of the NameNode so far
    dn,        \* each DataNode: "down", "registering", "reporting" or "up"
    stored,    \* stored[dir][b]: the content of b's block file in dir
    faults,    \* faults so far
    conn,      \* each process's connection to the NameNode
    pc, job,   \* each client's place in its call, and the call
    chunk,     \* put: number of the current chunk; get: of the current block
    alloc,     \* put: the result of the last StartFile or AddBlock
    idx,       \* next target to confirm, next location to try
    found,     \* get: the answer of GetBlocks
    data,      \* get: what has been read
    status,    \* the Status the call returned
    dirOf,     \* the directory each DataNode is started with, always the same
    limits,    \* the deployment's bounds of faults and stops, always the same
    owner,     \* history: the chunk a block id was allocated for
    targetsOf, \* history: the targets it was allocated with
    sawDone    \* history: the clients that had returned OK when a get of c connected

nnVars == <<nn, image, stops>>
dnVars == <<dn, stored, faults>>
clientVars == <<pc, job, chunk, alloc, idx, found, data, status>>
history == <<dirOf, limits, owner, targetsOf, sawDone>>
vars == <<nsVars, nnVars, dnVars, conn, clientVars, history>>

Processes == Clients \cup DataNodes
Contents == {NoData, Partial} \cup (Clients \X Nat)

FaultAllowed == faults < limits.faults
StopAllowed == stops < limits.stops

NdfsInit ==
    /\ NsInit
    /\ nn = "up" /\ image = <<>> /\ stops = 0
    /\ dn = [d \in DataNodes |-> "down"]
    /\ stored = [x \in Dirs |-> [b \in Blocks |-> NoData]]
    /\ faults = 0
    /\ conn = [x \in Processes |-> "none"]
    /\ pc = [c \in Clients |-> "idle"]
    /\ chunk = [c \in Clients |-> 1]
    /\ alloc = [c \in Clients |-> NoAlloc]
    /\ idx = [c \in Clients |-> 1]
    /\ found = [c \in Clients |-> <<>>]
    /\ data = [c \in Clients |-> <<>>]
    /\ status = [c \in Clients |-> "none"]
    /\ \E s \in Deployments :
         /\ dirOf = s.dir /\ job = s.job
         /\ limits = [faults |-> s.faults, stops |-> s.stops]
    /\ owner = [b \in Blocks |-> NoData]
    /\ targetsOf = [b \in Blocks |-> <<>>]
    /\ sawDone = [c \in Clients |-> {}]

-----------------------------------------------------------------------------
(***************************************************************************)
(* Connections to the NameNode.  A new connection is "queued", in the      *)
(* listening socket's backlog or in pending_fds_, until one of the workers *)
(* is free; what is sent on it waits.  The worker holds it, "open", until  *)
(* it breaks; once running_ is false it closes it after the request it was *)
(* waiting for (ipc/server.h:146).  A connection that is left in           *)
(* pending_fds_ when running_ is cleared is "stranded": nobody reads it,   *)
(* and it is closed only with the process.  The first call on a closed     *)
(* connection returns an error; once the peer's reset is in, the next send *)
(* raises SIGPIPE, which nothing handles, and ends the process             *)
(* (ipc/client.h:121).                                                     *)
(***************************************************************************)
Accepting == nn \in {"up", "saved"}

\* running_ is false and server_.Stop has not returned.
Stopping == nn \in {"stopping", "hung"}

\* The connections the workers hold; every other worker waits for one.
Held == {x \in Processes : conn[x] = "open"}
WorkerIdle == Cardinality(Held) < NumHandlers

\* An idle worker takes x's connection from the queue.
WorkerTakes(x) ==
    /\ Accepting /\ conn[x] = "queued" /\ WorkerIdle
    /\ conn' = [conn EXCEPT ![x] = "open"]
    /\ UNCHANGED <<nsVars, nnVars, dnVars, clientVars, history>>


\* The NameNode takes x's request and x gets the reply.
Served(x) ==
    /\ conn[x] = "open"
    /\ conn' = [conn EXCEPT ![x] = IF Stopping THEN "closed" ELSE "open"]

CallFails(x) ==
    /\ conn[x] \in {"closed", "reset"}
    /\ conn' = [conn EXCEPT ![x] = "reset"]

-----------------------------------------------------------------------------
(***************************************************************************)
(* NameNode::SetupHandlers: what the NameNode does with a request req and  *)
(* the response resp it writes.  The default-constructed result of a       *)
(* StartFile or AddBlock that failed is written like any other.  The       *)
(* handlers kGetListing, kGetStats and kGetDatanodeReport only read.       *)
(***************************************************************************)
Handle(req, resp) ==
    \/ /\ req.op = "StartFile"
       /\ StartFile(req.path, FALSE, req.overwrite, resp)
    \/ req.op = "AddBlock" /\ AddBlock(req.path, resp)
    \/ req.op = "GetBlocks" /\ resp = GetBlocks(req.path) /\ UNCHANGED nsVars
    \/ /\ req.op = "Delete"
       /\ resp = (req.path # Root /\ Exists(tree, req.path))
       /\ \/ Delete(req.path)
          \/ ~ Exists(tree, req.path) /\ UNCHANGED nsVars
    \/ req.op = "Mkdirs" /\ resp = MkdirsOk(tree, req.path) /\ MkdirsOp(req.path)
    \/ req.op = "Heartbeat" /\ Heartbeat(req.name)
    \/ req.op = "BlockReport" /\ BlockReport(req.name, req.blocks)
    \/ req.op = "BlockReceived" /\ BlockReceived(req.name, req.block)

-----------------------------------------------------------------------------
\* Clients

\* The call returns st (or the process dies) and the connection goes.
Return(c, st) ==
    /\ pc' = [pc EXCEPT ![c] = "done"]
    /\ status' = [status EXCEPT ![c] = st]
    /\ conn' = [conn EXCEPT ![c] = "none"]
    /\ alloc' = [alloc EXCEPT ![c] = NoAlloc]
    /\ chunk' = [chunk EXCEPT ![c] = 1]
    /\ idx' = [idx EXCEPT ![c] = 1]
    /\ found' = [found EXCEPT ![c] = <<>>]

Goto(c, l) == pc' = [pc EXCEPT ![c] = l]

Connect(c) ==
    /\ pc[c] = "idle"
    /\ \/ /\ Accepting
          /\ conn' = [conn EXCEPT ![c] = "queued"]
          /\ Goto(c, "rpc")
          /\ sawDone' = [sawDone EXCEPT ![c] =
               {x \in Clients : job[c].op = "get" /\ status[x] = "OK"}]
          /\ UNCHANGED <<alloc, chunk, idx, found, status>>
       \/ ~ Accepting /\ Return(c, "IOError") /\ UNCHANGED sawDone
    /\ UNCHANGED <<nsVars, nnVars, dnVars, job, data, dirOf, limits, owner, targetsOf>>

\* A call that needs the NameNode, on a connection that is gone.
RpcLost(c) ==
    /\ pc[c] = "rpc"
    /\ job[c].op = "put" => chunk[c] <= job[c].len
    /\ \/ conn[c] \in {"closed", "reset"} /\ Return(c, "IOError")
       \/ conn[c] = "reset" /\ Return(c, "Killed")
    /\ UNCHANGED <<nsVars, nnVars, dnVars, job, data, history>>

\* WriteFile, top of the loop: StartFile for the first chunk, AddBlock after.
\* An answer {} is not told apart from a block.
PutAlloc(c) ==
    /\ pc[c] = "rpc" /\ job[c].op = "put" /\ chunk[c] <= job[c].len
    /\ Served(c)
    /\ \E r \in AllocResults(Fresh) \cup {NoAlloc} :
         /\ IF chunk[c] = 1
              THEN Handle([op |-> "StartFile", path |-> job[c].path,
                           overwrite |-> job[c].overwrite], r)
              ELSE Handle([op |-> "AddBlock", path |-> job[c].path], r)
         /\ alloc' = [alloc EXCEPT ![c] = r]
         /\ owner' = [b \in Blocks |->
              IF b = r.block THEN <<c, chunk[c]>> ELSE owner[b]]
         /\ targetsOf' = [b \in Blocks |->
              IF b = r.block THEN r.targets ELSE targetsOf[b]]
    /\ Goto(c, "send")
    /\ UNCHANGED <<nnVars, dnVars, job, chunk, idx, found, data, status, dirOf, limits, sawDone>>

PutDone(c) ==
    /\ pc[c] = "rpc" /\ job[c].op = "put" /\ chunk[c] > job[c].len
    /\ Return(c, "OK")
    /\ UNCHANGED <<nsVars, nnVars, dnVars, job, data, history>>

\* A plausible bug: the data pointer does not advance with offset.
BugChunkData(c) == <<c, 1>>

\* data + offset
ChunkData(c) == <<c, chunk[c]>>

Write(c, content) ==
    stored' = [stored EXCEPT ![dirOf[alloc[c].targets[1]]][alloc[c].block] = content]

\* connect() to the first target succeeds.
FirstTargetUp(c) == alloc[c].targets # <<>> /\ dn[alloc[c].targets[1]] # "down"

\* The chunk goes to the first target only; no target, and no answer on the
\* target's port, are passed over.
SendSkipped(c) ==
    /\ pc[c] = "send"
    /\ ~ FirstTargetUp(c)
    /\ Goto(c, "confirm")
    /\ UNCHANGED <<nsVars, nnVars, dnVars, conn, job, chunk, alloc, idx, found,
                   data, status, history>>

\* The DataNode has the whole chunk and StoreBlock opens (and truncates) the
\* file, or fails to: the ack does not tell.
StoreOpen(c) ==
    /\ pc[c] = "send"
    /\ FirstTargetUp(c)
    /\ \/ Write(c, Partial) /\ Goto(c, "storing") /\ UNCHANGED faults
       \/ /\ FaultAllowed /\ faults' = faults + 1
          /\ Goto(c, "confirm") /\ UNCHANGED stored
    /\ UNCHANGED <<nsVars, nnVars, dn, conn, job, chunk, alloc, idx, found,
                   data, status, history>>

\* StoreBlock writes the data and the client reads the ack; a short write
\* goes unnoticed.
StoreWrite(c) ==
    /\ pc[c] = "storing"
    /\ \/ Write(c, ChunkData(c)) /\ UNCHANGED faults
       \/ /\ FaultAllowed /\ faults' = faults + 1
          /\ UNCHANGED stored
    /\ Goto(c, "confirm")
    /\ UNCHANGED <<nsVars, nnVars, dn, conn, job, chunk, alloc, idx, found,
                   data, status, history>>

\* BlockReceived on behalf of every target; errors are ignored.
Confirm(c) ==
    /\ pc[c] = "confirm" /\ idx[c] <= Len(alloc[c].targets)
    /\ \/ /\ Served(c)
          /\ Handle([op |-> "BlockReceived", name |-> alloc[c].targets[idx[c]],
                     block |-> alloc[c].block], 1)
       \/ CallFails(c) /\ UNCHANGED nsVars
    /\ idx' = [idx EXCEPT ![c] = @ + 1]
    /\ UNCHANGED <<nnVars, dnVars, pc, job, chunk, alloc, found, data, status, history>>

ConfirmKilled(c) ==
    /\ pc[c] = "confirm" /\ idx[c] <= Len(alloc[c].targets)
    /\ conn[c] = "reset" /\ Return(c, "Killed")
    /\ UNCHANGED <<nsVars, nnVars, dnVars, job, data, history>>


NextChunk(c) ==
    /\ pc[c] = "confirm" /\ idx[c] > Len(alloc[c].targets)
    /\ Goto(c, "rpc")
    /\ chunk' = [chunk EXCEPT ![c] = @ + 1]
    /\ alloc' = [alloc EXCEPT ![c] = NoAlloc]
    /\ idx' = [idx EXCEPT ![c] = 1]
    /\ UNCHANGED <<nsVars, nnVars, dnVars, conn, job, found, data, status, history>>

\* ReadFile: one GetBlocks, then block by block from the first location that
\* answers.  A missing file has no blocks.
GetLocations(c) ==
    /\ pc[c] = "rpc" /\ job[c].op = "get"
    /\ Served(c)
    /\ \E r \in {GetBlocks(job[c].path)} :
         /\ Handle([op |-> "GetBlocks", path |-> job[c].path], r)
         /\ found' = [found EXCEPT ![c] = r]
    /\ Goto(c, "read")
    /\ UNCHANGED <<nnVars, dnVars, job, chunk, alloc, idx, data, status, history>>

\* A plausible bug: a block without a file is answered with what is there.
BugReadable(d, b) == dn[d] # "down"

\* ReadBlock finds a file; how much of the block it holds is not checked.
Readable(d, b) == dn[d] # "down" /\ stored[dirOf[d]][b] # NoData

ReadBlock(c) ==
    /\ pc[c] = "read" /\ chunk[c] <= Len(found[c])
    /\ LET f == found[c][chunk[c]] IN
         \/ /\ idx[c] > Len(f.locations)
            /\ Return(c, "IOError") /\ UNCHANGED data
         \/ /\ idx[c] <= Len(f.locations)
            /\ IF Readable(f.locations[idx[c]], f.block)
                 THEN /\ data' = [data EXCEPT ![c] =
                           Append(@, stored[dirOf[f.locations[idx[c]]]][f.block])]
                      /\ chunk' = [chunk EXCEPT ![c] = @ + 1]
                      /\ idx' = [idx EXCEPT ![c] = 1]
                 ELSE /\ idx' = [idx EXCEPT ![c] = @ + 1]
                      /\ UNCHANGED <<data, chunk>>
            /\ UNCHANGED <<conn, pc, alloc, found, status>>
    /\ UNCHANGED <<nsVars, nnVars, dnVars, job, history>>

\* The DataNode died between connect() and the end of a transfer: the second
\* send on the dead connection ends the client.
TransferKilled(c) ==
    /\ \/ /\ pc[c] = "send"
          /\ alloc[c].targets # <<>> /\ dn[alloc[c].targets[1]] = "down"
       \/ /\ pc[c] = "read" /\ chunk[c] <= Len(found[c])
          /\ idx[c] <= Len(found[c][chunk[c]].locations)
          /\ dn[found[c][chunk[c]].locations[idx[c]]] = "down"
    /\ Return(c, "Killed")
    /\ UNCHANGED <<nsVars, nnVars, dnVars, job, data, history>>

GetDone(c) ==
    /\ pc[c] = "read" /\ chunk[c] > Len(found[c])
    /\ Return(c, "OK")
    /\ UNCHANGED <<nsVars, nnVars, dnVars, job, data, history>>

\* Delete and Mkdirs return what the name system returned.
RemoveCall(c) ==
    /\ pc[c] = "rpc" /\ job[c].op = "rm" /\ conn[c] = "open"
    /\ \E ok \in BOOLEAN :
         /\ Handle([op |-> "Delete", path |-> job[c].path], ok)
         /\ Return(c, IF ok THEN "OK" ELSE "IOError")
    /\ UNCHANGED <<nnVars, dnVars, job, data, history>>

MkdirsCall(c) ==
    /\ pc[c] = "rpc" /\ job[c].op = "mkdir" /\ conn[c] = "open"
    /\ \E ok \in BOOLEAN :
         /\ Handle([op |-> "Mkdirs", path |-> job[c].path], ok)
         /\ Return(c, IF ok THEN "OK" ELSE "IOError")
    /\ UNCHANGED <<nnVars, dnVars, job, data, history>>

ClientStep(c) ==
    \/ RpcLost(c)
    \/ PutAlloc(c) \/ PutDone(c) \/ SendSkipped(c) \/ StoreOpen(c) \/ StoreWrite(c)
    \/ Confirm(c) \/ ConfirmKilled(c) \/ NextChunk(c)
    \/ GetLocations(c) \/ ReadBlock(c) \/ GetDone(c) \/ TransferKilled(c)
    \/ RemoveCall(c) \/ MkdirsCall(c)

-----------------------------------------------------------------------------
\* DataNodes

\* The process ends: clients that were sending it a block read no ack, which
\* they do not mind.
DataNodeGone(d) ==
    /\ dn' = [dn EXCEPT ![d] = "down"]
    /\ conn' = [conn EXCEPT ![d] = "none"]
    /\ pc' = [c \in Clients |->
         IF pc[c] = "storing" /\ alloc[c].targets[1] = d THEN "confirm" ELSE pc[c]]
    /\ UNCHANGED <<nsVars, nnVars, stored, job, chunk, alloc, idx, found, data,
                   status, history>>

\* Start up to the connection; when that fails the process exits at once.
DataNodeStart(d) ==
    /\ dn[d] = "down" /\ Accepting
    /\ dn' = [dn EXCEPT ![d] = "registering"]
    /\ conn' = [conn EXCEPT ![d] = "queued"]
    /\ UNCHANGED <<nsVars, nnVars, stored, faults, clientVars, history>>

\* SendHeartbeat, from Start and every three seconds; errors are ignored and
\* the connection is never opened anew.
SendHeartbeat(d) ==
    /\ dn[d] \in {"registering", "up"}
    /\ \/ Served(d) /\ Handle([op |-> "Heartbeat", name |-> d], {})
       \/ conn[d] = "closed" /\ CallFails(d) /\ UNCHANGED nsVars
    /\ dn' = [dn EXCEPT ![d] = IF @ = "registering" THEN "reporting" ELSE @]
    /\ UNCHANGED <<nnVars, stored, faults, clientVars, history>>

\* The heartbeat thread's second send on a dead connection.
HeartbeatKilled(d) ==
    /\ dn[d] \in {"registering", "up"} /\ conn[d] = "reset"
    /\ DataNodeGone(d) /\ UNCHANGED faults

\* A plausible bug: the scan covers the directories of all DataNodes.
BugGetBlockReport(d) == {b \in Blocks : \E x \in Dirs : stored[x][b] # NoData}

\* The directory scan: every block file, complete or not.
GetBlockReport(d) == {b \in Blocks : stored[dirOf[d]][b] # NoData}

\* SendBlockReport, once, at the end of Start.
SendBlockReport(d) ==
    /\ dn[d] = "reporting"
    /\ \/ /\ Served(d)
          /\ Handle([op |-> "BlockReport", name |-> d, blocks |-> GetBlockReport(d)], 1)
       \/ conn[d] = "closed" /\ CallFails(d) /\ UNCHANGED nsVars
    /\ dn' = [dn EXCEPT ![d] = "up"]
    /\ UNCHANGED <<nnVars, stored, faults, clientVars, history>>

ReportKilled(d) ==
    /\ dn[d] = "reporting" /\ conn[d] = "reset"
    /\ DataNodeGone(d) /\ UNCHANGED faults

\* Stop waits for the workers' current connections; a kill does not.
DataNodeStop(d) ==
    /\ dn[d] = "up" /\ FaultAllowed
    /\ \A c \in Clients : pc[c] = "storing" => alloc[c].targets[1] # d
    /\ DataNodeGone(d) /\ faults' = faults + 1

DataNodeKill(d) ==
    /\ dn[d] # "down" /\ FaultAllowed
    /\ DataNodeGone(d) /\ faults' = faults + 1

DataNodeStep(d) == SendHeartbeat(d) \/ HeartbeatKilled(d) \/ SendBlockReport(d) \/ ReportKilled(d)

-----------------------------------------------------------------------------
\* The NameNode process

\* Stop first saves the image; the server is still taking requests.  When the
\* new file cannot be opened the old image stays; no later error is looked at,
\* so that what was written of the new one takes the old one's place.
NameNodeSave ==
    /\ nn = "up" /\ StopAllowed
    /\ nn' = "saved" /\ stops' = stops + 1
    /\ \/ "whole" \in ImageWrites /\ image' \in Save(tree)
       \/ "torn" \in ImageWrites /\ \E img \in Save(tree) : image' \in Torn(img)
       \/ "unopened" \in ImageWrites /\ UNCHANGED image
    /\ UNCHANGED <<nsVars, dnVars, conn, clientVars, history>>

\* server_.Stop: running_ becomes false, the waiting workers are notified and
\* the listening socket is closed.  A queued connection is reset with the
\* backlog, or closed by a worker just about to take it, or stays in the queue.
\* A worker between its test of running_ and its sleep misses the notification
\* and is then joined for ever: Stop hangs.
NameNodeStopServer ==
    /\ nn = "saved"
    /\ nn' = "stopping" \/ (nn' = "hung" /\ WorkerIdle)
    /\ \E left \in SUBSET {x \in Processes : conn[x] = "queued"} :
         conn' = [x \in Processes |->
           IF conn[x] = "queued" THEN IF x \in left THEN "stranded" ELSE "closed" ELSE conn[x]]
    /\ UNCHANGED <<nsVars, image, stops, dnVars, clientVars, history>>

\* A worker that was still busy with x's last request finds running_ false.
NameNodeCloses(x) ==
    /\ Stopping /\ conn[x] = "open"
    /\ conn' = [conn EXCEPT ![x] = "closed"]
    /\ UNCHANGED <<nsVars, nnVars, dnVars, clientVars, history>>

\* The workers are joined once none of them holds a connection or sleeps.
NameNodeStopped ==
    /\ nn = "stopping" /\ Held = {}
    /\ nn' = "down"
    /\ UNCHANGED <<nsVars, image, stops, dnVars, conn, clientVars, history>>

\* With the process all its sockets are closed.
SocketsClosed ==
    conn' = [x \in Processes |->
      IF conn[x] \in {"queued", "open", "stranded"} THEN "closed" ELSE conn[x]]

\* Ctrl+C: main.cpp installs no handler, the image is not saved.
NameNodeKill ==
    /\ nn # "down" /\ StopAllowed
    /\ nn' = "down" /\ stops' = stops + 1
    /\ SocketsClosed
    /\ UNCHANGED <<nsVars, image, dnVars, clientVars, history>>

\* The process in which Stop has returned may live on, as in the tests, or end.
NameNodeExit ==
    /\ nn = "down" /\ \E x \in Processes : conn[x] = "stranded"
    /\ SocketsClosed
    /\ UNCHANGED <<nsVars, nnVars, dnVars, clientVars, history>>

\* A new process: everything but the tree starts from scratch.
NameNodeStart ==
    /\ nn = "down" /\ nn' = "up"
    /\ tree' = Load(image)
    /\ datanodes' = {}
    /\ block_to_datanodes' = [b \in Blocks |-> NoEntry]
    /\ dn_to_blocks' = [d \in DataNodes |-> {}]
    /\ total_blocks' = 0 /\ safe_blocks' = 0 /\ safe_mode_countdown' = SafeModeTicks
    /\ leases' = {}
    /\ UNCHANGED <<clock, generated, image, stops, dnVars, conn, clientVars, history>>

-----------------------------------------------------------------------------
NdfsNext ==
    \/ \E c \in Clients : Connect(c) \/ ClientStep(c)
    \/ \E d \in DataNodes :
         DataNodeStart(d) \/ DataNodeStep(d) \/ DataNodeStop(d) \/ DataNodeKill(d)
    \/ NameNodeSave \/ NameNodeStopServer \/ NameNodeStopped
    \/ \E x \in Processes : WorkerTakes(x) \/ NameNodeCloses(x)
    \/ NameNodeKill \/ NameNodeExit \/ NameNodeStart

NdfsSpec == NdfsInit /\ [][NdfsNext]_vars

\* A process that runs takes its next step and an idle worker the connections
\* that wait; starting and stopping processes is the operator's choice, except
\* that a Stop begun is carried through.
Fairness ==
    /\ \A c \in Clients : WF_vars(ClientStep(c))
    /\ \A d \in DataNodes : WF_vars(DataNodeStep(d))
    /\ \A x \in Processes : WF_vars(WorkerTakes(x))
    /\ WF_vars(NameNodeStopServer) /\ WF_vars(NameNodeStopped)

FairSpec == NdfsSpec /\ Fairness

-----------------------------------------------------------------------------
(***************************************************************************)
(* Properties                                                              *)
(***************************************************************************)

\* The type invariant of the composed system.
NdfsTypeOK ==
    /\ NsTypeOK
    /\ nn \in {"up", "saved", "stopping", "hung", "down"}
    /\ dn \in [DataNodes -> {"down", "registering", "reporting", "up"}]
    /\ \A x \in Dirs, b \in Blocks : stored[x][b] \in Contents
    /\ conn \in [Processes -> {"none", "queued", "open", "stranded", "closed", "reset"}]
    /\ pc \in [Clients -> {"idle", "rpc", "send", "storing", "confirm", "read", "done"}]
    /\ status \in [Clients -> {"none", "OK", "IOError", "Killed"}]
    /\ stops \in Nat /\ faults \in Nat

\* Whoever the NameNode lists for a block was one of the targets the block was
\* allocated with, or shares the directory of one, through deletes, restarts of
\* either side, late reports and confirmations; BlockReceived has no limit of its
\* own (fs_namesystem.h:194), so this is what keeps a list within
\* kDefaultReplication when every DataNode has a directory of its own.
LocationsWereTargets ==
    \A b \in Blocks :
        /\ \A d \in ToSet(ListOf(b)) : \E t \in ToSet(targetsOf[b]) : dirOf[d] = dirOf[t]
        /\ IsInjective(dirOf) => Len(ListOf(b)) <= Replication

\* A block file holds the chunk its id was allocated for, or part of it, never
\* another writer's data or another chunk.
StoredIsOwned ==
    \A x \in Dirs, b \in Blocks : stored[x][b] \in {NoData, Partial, owner[b]}

\* A complete block file is never truncated or rewritten: no later put, retry
\* or restart touches it.
CompleteStays ==
    [][\A x \in Dirs, b \in Blocks :
         stored[x][b] \notin {NoData, Partial} => stored'[x][b] = stored[x][b]]_vars

\* In a file, and so in what a reader gets, the chunks of one writer stand in
\* the order it wrote them, even when writers of the same path interleave and
\* the NameNode restarts from an old image.
WriterChunksInOrder ==
    \A p \in Paths : \A i, j \in DOMAIN tree[p].blocks :
        LET o == owner[tree[p].blocks[i]]  o2 == owner[tree[p].blocks[j]]
        IN  i < j /\ o[1] = o2[1] => o[2] < o2[2]

\* Without faults, a get that starts after the path's only put returned OK,
\* each of its chunks having got a target, returns exactly the chunks put.
ReadYourWrites ==
    \A r, w \in Clients :
        ( /\ job[r].op = "get" /\ job[w].op = "put" /\ job[r].path = job[w].path
          /\ w \in sawDone[r] /\ pc[r] = "done"
          /\ \A c \in Clients \ {w} : job[c].op = "get"
          /\ faults = 0 /\ stops = 0
          /\ \A i \in 1..job[w].len :
               \E b \in Blocks : owner[b] = <<w, i>> /\ targetsOf[b] # <<>> )
        => status[r] = "OK" /\ data[r] = [i \in 1..job[w].len |-> <<w, i>>]

\* When a path has one writer, a get never delivers a chunk in another chunk's
\* place: whatever processes died, disks failed or images were old, position i
\* of what it read is chunk i, whole or cut short.
ReadInPlace ==
    \A r, w \in Clients :
        ( /\ job[w].op = "put" /\ job[r].op = "get"
          /\ \A c \in Clients \ {w} : job[c].op # "put" )
        => \A i \in DOMAIN data[r] : data[r][i] \in {Partial, <<w, i>>}



-----------------------------------------------------------------------------
(***************************************************************************)
(* What the documentation says and the code does not do                    *)
(***************************************************************************)

\* ARCHITECTURE.md:123: the NameNode saves the name space when it stops, so
\* that a stopped NameNode's image is its tree.
StopSaves == [][nn = "stopping" /\ nn' = "down" => Load(image) = tree]_vars

\* ARCHITECTURE.md:163 with :140: the block map, which is not persisted, is
\* rebuilt from the reports the DataNodes send with their heartbeats: a running
\* DataNode that has a block of the tree comes to be listed for it.  The code's
\* DataNode never reports to a restarted NameNode: its next heartbeat fails and
\* the one after that ends it.
MapRebuilt ==
    \A d \in DataNodes, b \in Blocks :
        ( /\ nn = "up" /\ dn[d] = "up"
          /\ b \in TreeBlocks(tree) /\ stored[dirOf[d]][b] = owner[b] )
          ~> (d \in ToSet(ListOf(b)) \/ b \notin TreeBlocks(tree) \/ nn # "up" \/ faults > 0)
=============================================================================
