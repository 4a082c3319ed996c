------------------------------- MODULE MCNdfs -------------------------------
(* Small instances of Ndfs for TLC. *)
EXTENDS Ndfs

F == <<"f">>
MCPaths == {<<>>, F}
MCToken == [p \in Paths |-> p]

Put(n, ow) == [op |-> "put", path |-> F, len |-> n, overwrite |-> ow]
Get == [op |-> "get", path |-> F]
Rm == [op |-> "rm", path |-> F]
Mkdir == [op |-> "mkdir", path |-> F]

\* Each DataNode has a directory of its own, named like it; or all of them
\* have the one that main.cpp gives to every DataNode.
OwnDirs == [d \in DataNodes |-> d]
OneDir == [d \in DataNodes |-> CHOOSE x \in Dirs : x \notin DataNodes]

Deploy(dir, jobs, f, n) ==
    [dir : {dir}, job : [Clients -> jobs], faults : {f}, stops : {n}]

\* No two clients make the same call.
Mixed(ds) == {s \in ds : IsInjective(s.job)}

\* Every pair of calls with a fault, except two long puts; those without one,
\* and a long and a short put that both overwrite with one.  With a stop of the
\* NameNode, two puts that may not overwrite, and, where the DataNodes share their
\* directory, a put and a delete.
SafetyDeployments ==
    {s \in Deploy(OwnDirs, {Put(2, TRUE), Put(1, FALSE), Get, Rm, Mkdir}, 1, 0) :
       \E c \in Clients : s.job[c] # Put(2, TRUE)}
      \cup Deploy(OwnDirs, {Put(2, TRUE)}, 0, 0)
      \cup Mixed(Deploy(OwnDirs, {Put(2, TRUE), Put(1, TRUE)}, 1, 0))
      \cup Deploy(OwnDirs, {Put(1, FALSE)}, 0, 1)
      \cup Mixed(Deploy(OneDir, {Put(1, TRUE), Rm}, 0, 1))

\* One client writes, the other reads.
LiveDeployments ==
    {s \in Deploy(OwnDirs, {Put(1, TRUE), Get}, 1, 1) :
       \A c \in Clients : s.job[c].op = "put" <=> c = CHOOSE x \in Clients : TRUE}

PutDeployments == Deploy(OwnDirs, {Put(1, TRUE)}, 0, 1)

Symmetry == Permutations(Clients) \cup Permutations(DataNodes) \cup Permutations(Blocks)
=============================================================================
