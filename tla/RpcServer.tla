----------------------------- MODULE RpcServer ------------------------------
(***************************************************************************)
(* The two servers with a pool of threads: RpcServer (src/ipc/server.h)    *)
(* and DataXceiveServer (src/ndfs/data_xceive_server.h).  Both have one    *)
(* acceptor thread, a fixed set of worker threads, the queue pending_fds_  *)
(* guarded by queue_mutex_ and queue_cv_, and Stop, called by another      *)
(* thread.  A DataXceiveServer (oneShot) notifies with the mutex held,     *)
(* serves one request of a connection and closes it, and does not look at  *)
(* running_ while it does.                                                 *)
(*                                                                         *)
(* A step is what a thread does between two points at which another thread *)
(* can be noticed.  Only a worker that has found the wait predicate false  *)
(* and has not yet gone to sleep holds the mutex across steps.  A frame    *)
(* of an RpcServer has at least four bytes and at most 64 MB for every     *)
(* caller in the repository, so the length test is passed.                 *)
(***************************************************************************)
EXTENDS Naturals, Sequences, SequencesExt, FiniteSets

CONSTANTS
    Workers,   \* num_handlers_ threads
    Conns,     \* connections clients may open, each once
    Keepers,   \* connections kept for ever, with a request from time to time
    Kinds,     \* the servers in question, of {FALSE, TRUE}: see oneShot
    NoFd       \* fd = -1

ASSUME RpcAssumption ==
    /\ IsFiniteSet(Workers) /\ IsFiniteSet(Conns)
    /\ Keepers \subseteq Conns
    /\ Kinds \subseteq BOOLEAN
    /\ NoFd \notin Conns

VARIABLES
    oneShot,   \* the server is a DataXceiveServer; never changes
    running,   \* running_
    listening, \* listen_fd_ is open
    pending,   \* pending_fds_
    apc, afd,  \* the acceptor's place, and client_fd
    wpc, wfd,  \* each worker's place, and its fd
    spc,       \* the place of the thread that calls Stop
    sock,      \* each connection on the server's side
    asked,     \* the connections with a request not yet answered
    gone       \* the connections whose client's end only is closed

serverVars == <<running, listening, pending, apc, afd, wpc, wfd, spc>>
vars == <<serverVars, sock, asked, gone, oneShot>>

RpcInit ==
    /\ oneShot \in Kinds
    /\ running = TRUE /\ listening = TRUE
    /\ pending = <<>>
    /\ apc = "top" /\ afd = NoFd
    /\ wpc = [w \in Workers |-> "lock"] /\ wfd = [w \in Workers |-> NoFd]
    /\ spc = "up"
    /\ sock = [c \in Conns |-> "away"]
    /\ asked = {} /\ gone = {}

MutexFree == \A w \in Workers : wpc[w] # "parking"

Handling == {"loop", "recv", "reply"}

-----------------------------------------------------------------------------
\* Clients (ipc/client.h); one may go away at any time.  What it does with a
\* connection the server has closed does not matter here.

Connect(c) ==
    /\ sock[c] = "away" /\ listening
    /\ sock' = [sock EXCEPT ![c] = "backlog"]
    /\ UNCHANGED <<serverVars, asked, gone, oneShot>>

\* A caller sends a request when it has the answer to the last one.
Send(c) ==
    /\ sock[c] \in {"backlog", "accepted"} /\ c \notin asked /\ c \notin gone
    /\ asked' = asked \cup {c}
    /\ UNCHANGED <<serverVars, sock, gone, oneShot>>

Disconnect(c) ==
    /\ c \notin Keepers /\ sock[c] \in {"backlog", "accepted"} /\ c \notin gone
    /\ gone' = gone \cup {c}
    /\ UNCHANGED <<serverVars, sock, asked, oneShot>>

-----------------------------------------------------------------------------
\* AcceptLoop

AcceptorTop ==
    /\ apc = "top"
    /\ apc' = IF running THEN "accept" ELSE "exit"
    /\ UNCHANGED <<running, listening, pending, afd, wpc, wfd, spc, sock, asked, gone, oneShot>>

\* accept() returns a connection, or fails because Stop shut the socket.
Accept ==
    /\ apc = "accept"
    /\ \/ /\ listening
          /\ \E c \in Conns :
               /\ sock[c] = "backlog"
               /\ sock' = [sock EXCEPT ![c] = "accepted"]
               /\ afd' = c
          /\ apc' = "push"
       \/ ~ listening /\ apc' = "top" /\ UNCHANGED <<afd, sock>>
    /\ UNCHANGED <<running, listening, pending, wpc, wfd, spc, asked, gone, oneShot>>

\* notify_one: lost when nobody sleeps.
WakeOne ==
    IF \E w \in Workers : wpc[w] = "waiting"
      THEN \E w \in Workers : wpc[w] = "waiting" /\ wpc' = [wpc EXCEPT ![w] = "lock"]
      ELSE UNCHANGED wpc

\* A plausible bug: the queue is used as a stack of one.
BugPush ==
    /\ apc = "push" /\ MutexFree
    /\ pending' = <<afd>> /\ afd' = NoFd
    /\ \/ oneShot /\ WakeOne /\ apc' = "top"
       \/ ~ oneShot /\ apc' = "notify" /\ UNCHANGED wpc
    /\ UNCHANGED <<running, listening, wfd, spc, sock, asked, gone, oneShot>>

Push ==
    /\ apc = "push" /\ MutexFree
    /\ pending' = Append(pending, afd) /\ afd' = NoFd
    /\ \/ oneShot /\ WakeOne /\ apc' = "top"
       \/ ~ oneShot /\ apc' = "notify" /\ UNCHANGED wpc
    /\ UNCHANGED <<running, listening, wfd, spc, sock, asked, gone, oneShot>>

\* A plausible bug: the worker is notified only when the queue was empty.
BugNotifyOne ==
    /\ apc = "notify" /\ apc' = "top"
    /\ IF Len(pending) = 1 THEN WakeOne ELSE UNCHANGED wpc
    /\ UNCHANGED <<running, listening, pending, afd, wfd, spc, sock, asked, gone, oneShot>>

\* RpcServer: notify_one after the mutex is released.
NotifyOne ==
    /\ apc = "notify" /\ apc' = "top"
    /\ WakeOne
    /\ UNCHANGED <<running, listening, pending, afd, wfd, spc, sock, asked, gone, oneShot>>

AcceptorStep == AcceptorTop \/ Accept \/ Push \/ NotifyOne

-----------------------------------------------------------------------------
\* WorkerLoop

WorkerGoto(w, l) == wpc' = [wpc EXCEPT ![w] = l]

\* A plausible bug: wait() without a predicate, fd used unchecked.
BugWorkerTake(w) ==
    /\ wpc[w] = "lock" /\ MutexFree
    /\ WorkerGoto(w, "loop")
    /\ wfd' = [wfd EXCEPT ![w] = IF pending = <<>> THEN NoFd ELSE Last(pending)]
    /\ pending' = IF pending = <<>> THEN <<>> ELSE Front(pending)
    /\ UNCHANGED <<running, listening, apc, afd, spc, sock, asked, gone, oneShot>>

\* A plausible bug: a worker that finds the queue empty ends.
BugWorkerLeaves(w) ==
    /\ wpc[w] = "lock" /\ MutexFree
    /\ \/ (~ running \/ pending = <<>>) /\ WorkerGoto(w, "exit") /\ UNCHANGED <<wfd, pending>>
       \/ /\ running /\ pending # <<>>
          /\ WorkerGoto(w, IF oneShot THEN "recv" ELSE "loop")
          /\ wfd' = [wfd EXCEPT ![w] = Last(pending)]
          /\ pending' = Front(pending)
    /\ UNCHANGED <<running, listening, apc, afd, spc, sock, asked, gone, oneShot>>

\* The worker holds the mutex and tests the predicate of the wait: it leaves
\* when the server is stopping, else takes the newest connection.  The loop's
\* own test of running_ comes just before and adds no behaviour.
WorkerTake(w) ==
    /\ wpc[w] = "lock" /\ MutexFree
    /\ \/ ~ running /\ WorkerGoto(w, "exit") /\ UNCHANGED <<wfd, pending>>
       \/ /\ running /\ pending # <<>>
          /\ WorkerGoto(w, IF oneShot THEN "recv" ELSE "loop")
          /\ wfd' = [wfd EXCEPT ![w] = Last(pending)]
          /\ pending' = Front(pending)
       \/ running /\ pending = <<>> /\ WorkerGoto(w, "parking") /\ UNCHANGED <<wfd, pending>>
    /\ UNCHANGED <<running, listening, apc, afd, spc, sock, asked, gone, oneShot>>

\* wait() releases the mutex and goes to sleep in one step.
WorkerPark(w) ==
    /\ wpc[w] = "parking"
    /\ WorkerGoto(w, "waiting")
    /\ UNCHANGED <<running, listening, pending, apc, afd, wfd, spc, sock, asked, gone, oneShot>>

SpuriousWakeup(w) ==
    /\ wpc[w] = "waiting"
    /\ WorkerGoto(w, "lock")
    /\ UNCHANGED <<running, listening, pending, apc, afd, wfd, spc, sock, asked, gone, oneShot>>

-----------------------------------------------------------------------------
\* HandleConnection

\* A request that has no answer yet dies with its connection.
CloseFd(w) ==
    /\ asked' = asked \ {wfd[w]}
    /\ sock' = [sock EXCEPT ![wfd[w]] = "closed"]
    /\ gone' = gone \ {wfd[w]}
    /\ wfd' = [wfd EXCEPT ![w] = NoFd]
    /\ WorkerGoto(w, "lock")

\* A plausible bug: the connection is left open when the server stops.
BugHandleTop(w) ==
    /\ wpc[w] = "loop"
    /\ WorkerGoto(w, IF running THEN "recv" ELSE "exit")
    /\ wfd' = [wfd EXCEPT ![w] = IF running THEN @ ELSE NoFd]
    /\ UNCHANGED <<running, listening, pending, apc, afd, spc, sock, asked, gone, oneShot>>

HandleTop(w) ==
    /\ wpc[w] = "loop"
    /\ \/ running /\ WorkerGoto(w, "recv") /\ UNCHANGED <<sock, asked, gone, wfd>>
       \/ ~ running /\ CloseFd(w)
    /\ UNCHANGED <<running, listening, pending, apc, afd, spc, oneShot>>

\* recv blocks until there is a request, or the client's end is closed.
Recv(w) ==
    /\ wpc[w] = "recv"
    /\ \/ wfd[w] \in asked /\ WorkerGoto(w, "reply") /\ UNCHANGED <<sock, asked, gone, wfd>>
       \/ wfd[w] \notin asked /\ wfd[w] \in gone /\ CloseFd(w)
    /\ UNCHANGED <<running, listening, pending, apc, afd, spc, oneShot>>

\* A plausible bug: the handler runs in a loop that never looks at running_.
BugReply(w) ==
    /\ wpc[w] = "reply"
    /\ asked' = asked \ {wfd[w]}
    /\ WorkerGoto(w, "recv")
    /\ UNCHANGED <<running, listening, pending, apc, afd, wfd, spc, sock, gone, oneShot>>

\* The handler runs and its answer is sent; a client that is gone is noticed
\* only by the next recv.  DataXceiveServer closes the connection after the
\* answer, or without one when the block cannot be read.
Reply(w) ==
    /\ wpc[w] = "reply"
    /\ \/ /\ ~ oneShot /\ asked' = asked \ {wfd[w]}
          /\ WorkerGoto(w, "loop")
          /\ UNCHANGED <<wfd, sock, gone>>
       \/ oneShot /\ CloseFd(w)
    /\ UNCHANGED <<running, listening, pending, apc, afd, spc, oneShot>>

WorkerStep(w) ==
    WorkerTake(w) \/ WorkerPark(w) \/ HandleTop(w) \/ Recv(w) \/ Reply(w)

-----------------------------------------------------------------------------
\* Stop.  It does not take the mutex.

StopFlag ==
    /\ spc = "up" /\ spc' = "flagged"
    /\ running' = FALSE
    /\ UNCHANGED <<listening, pending, apc, afd, wpc, wfd, sock, asked, gone, oneShot>>

StopNotify ==
    /\ spc = "flagged" /\ spc' = "notified"
    /\ wpc' = [w \in Workers |-> IF wpc[w] = "waiting" THEN "lock" ELSE wpc[w]]
    /\ UNCHANGED <<running, listening, pending, apc, afd, wfd, sock, asked, gone, oneShot>>

\* The kernel resets the connections that were never accepted.
StopListening ==
    /\ spc = "notified" /\ spc' = "joining"
    /\ listening' = FALSE
    /\ sock' = [c \in Conns |-> IF sock[c] = "backlog" THEN "closed" ELSE sock[c]]
    /\ gone' = {c \in gone : sock[c] # "backlog"}
    /\ asked' = {c \in asked : sock[c] # "backlog"}
    /\ UNCHANGED <<running, pending, apc, afd, wpc, wfd, oneShot>>

\* A plausible bug: the worker threads are not joined.
BugStopJoin ==
    /\ spc = "joining" /\ apc = "exit"
    /\ spc' = "stopped"
    /\ UNCHANGED <<running, listening, pending, apc, afd, wpc, wfd, sock, asked, gone, oneShot>>

StopJoin ==
    /\ spc = "joining" /\ apc = "exit" /\ \A w \in Workers : wpc[w] = "exit"
    /\ spc' = "stopped"
    /\ UNCHANGED <<running, listening, pending, apc, afd, wpc, wfd, sock, asked, gone, oneShot>>

-----------------------------------------------------------------------------
RpcNext ==
    \/ \E c \in Conns : Connect(c) \/ Send(c) \/ Disconnect(c)
    \/ AcceptorStep
    \/ \E w \in Workers : WorkerStep(w) \/ SpuriousWakeup(w)
    \/ StopFlag \/ StopNotify \/ StopListening \/ StopJoin

RpcSpec == RpcInit /\ [][RpcNext]_vars

\* Threads run, a Stop goes on once begun, a keeper sends its next request
\* (DataNodes: a heartbeat every three seconds), other clients disconnect, and
\* spurious wakeups do not go on for ever.
RpcFairness ==
    /\ WF_vars(AcceptorStep)
    /\ \A w \in Workers : WF_vars(WorkerStep(w))
    /\ WF_vars(StopNotify \/ StopListening \/ StopJoin)
    /\ \A c \in Keepers : WF_vars(Send(c))
    /\ \A c \in Conns \ Keepers : WF_vars(Disconnect(c))
    /\ <>[][\A w \in Workers : ~ SpuriousWakeup(w)]_vars

RpcFairSpec == RpcSpec /\ RpcFairness

-----------------------------------------------------------------------------
(***************************************************************************)
(* Properties                                                              *)
(***************************************************************************)

\* The type invariant; in HandleConnection a worker has a valid fd.
RpcTypeOK ==
    /\ oneShot \in Kinds
    /\ running \in BOOLEAN /\ listening \in BOOLEAN
    /\ pending \in Seq(Conns)
    /\ apc \in {"top", "accept", "push", "notify", "exit"}
    /\ afd \in Conns \cup {NoFd} /\ (apc = "push" => afd \in Conns)
    /\ wpc \in [Workers -> {"lock", "parking", "waiting", "exit"} \cup Handling]
    /\ wfd \in [Workers -> Conns \cup {NoFd}]
    /\ \A w \in Workers : wpc[w] \in Handling => wfd[w] \in Conns
    /\ spc \in {"up", "flagged", "notified", "joining", "stopped"}
    /\ sock \in [Conns -> {"away", "backlog", "accepted", "closed"}]
    /\ asked \subseteq Conns /\ gone \subseteq Conns

HeldBy(w) == IF wpc[w] \in Handling THEN wfd[w] ELSE NoFd

\* An accepted connection is in exactly one pair of hands: the acceptor's, the
\* queue's (once) or one worker's, so that no two threads read one socket and
\* none is dropped.
OneOwner ==
    /\ \A c \in Conns :
         sock[c] = "accepted" <=> (c = afd \/ c \in ToSet(pending) \/ \E w \in Workers : c = HeldBy(w))
    /\ \A i, j \in DOMAIN pending : pending[i] = pending[j] => i = j
    /\ afd \notin ToSet(pending)
    /\ \A w \in Workers : HeldBy(w) \notin ToSet(pending) \cup ({afd} \ {NoFd})
    /\ \A v, w \in Workers : HeldBy(v) = HeldBy(w) /\ HeldBy(v) # NoFd => v = w

\* No wakeup for work is lost: while a worker sleeps (or is about to), the
\* queue is no longer than the workers on their way to it and the notify_one
\* still to come.
NoStranded ==
    (running /\ \E w \in Workers : wpc[w] \in {"parking", "waiting"}) =>
        Len(pending) <= Cardinality({w \in Workers : wpc[w] = "lock"})
                        + (IF apc = "notify" THEN 1 ELSE 0)

\* When Stop has returned, the only sockets left open are the ones that were
\* still in the queue, and no handler is running.
StoppedIsQuiet ==
    spc = "stopped" => \A c \in Conns :
        /\ sock[c] = "accepted" => c \in ToSet(pending)
        /\ \A w \in Workers : HeldBy(w) # c

\* The server implements the service its callers count on.
ServicePhase ==
    [c \in Conns |->
        IF sock[c] \in {"away", "closed"} THEN sock[c]
        ELSE IF \E w \in Workers : HeldBy(w) = c THEN "open" ELSE "queued"]

Service == INSTANCE RpcService
             WITH phase <- ServicePhase, NumHandlers <- Cardinality(Workers)

\* The threads, the queue and Stop implement RpcService: one handler per
\* connection, never more than num_handlers_ at work, a request answered at
\* most once and only while its connection is open.
ImplementsService == Service!ServiceSpec

\* While fewer clients than workers keep their connection for ever, every
\* connection gets a worker, unless the server is stopped.
EveryConnectionServed ==
    \A c \in Conns : (sock[c] \in {"backlog", "accepted"})
                        ~> ((\E w \in Workers : HeldBy(w) = c) \/ sock[c] = "closed" \/ ~ running)

\* Stop returns when its notify_all finds no worker between testing the wait
\* predicate and falling asleep: handlers at work finish their request.
StopReturns ==
    (spc = "notified" /\ \A w \in Workers : wpc[w] \notin {"parking", "waiting"})
        ~> (spc = "stopped")

\* The tests (tests/ipc/ipc_test.cpp:32, :64, :91) end by calling Stop once
\* their clients have disconnected, and need it to return.
StopAlwaysReturns == (spc = "flagged") ~> (spc = "stopped")
=============================================================================
