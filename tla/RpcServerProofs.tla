--------------------------- MODULE RpcServerProofs --------------------------
(***************************************************************************)
(* Proofs about RpcServer: type correctness, the ownership of connections, *)
(* the wakeups and Stop, from one inductive invariant, and then that the   *)
(* server implements RpcService.                                           *)
(***************************************************************************)
EXTENDS RpcServer, SequenceLemmas, FiniteSetTheorems

\* The acceptor has a connection only between accept() and the queue.
AcceptorHandsOver == apc # "push" => afd = NoFd

\* A worker about to fall asleep still holds the mutex under which it found
\* the queue empty.
ParkedOnEmpty == (\E w \in Workers : wpc[w] = "parking") => pending = <<>>

\* running_ is cleared by Stop, first thing, and Stop returns when every
\* thread has ended.
StopPhases ==
    /\ running <=> spc = "up"
    /\ spc = "stopped" => apc = "exit" /\ \A w \in Workers : wpc[w] = "exit"

\* The inductive invariant.
RpcInv ==
    /\ RpcTypeOK
    /\ OneOwner
    /\ NoStranded
    /\ AcceptorHandsOver
    /\ ParkedOnEmpty
    /\ StopPhases

-----------------------------------------------------------------------------
\* The initial states satisfy the invariant.
LEMMA RpcInitInv == RpcInit => RpcInv
<1> SUFFICES ASSUME RpcInit
             PROVE  RpcInv
  OBVIOUS
<1> USE RpcAssumption DEF RpcInit
<1>1. RpcTypeOK
  BY DEF RpcTypeOK, Handling
<1>2. \A w \in Workers : HeldBy(w) = NoFd
  BY DEF HeldBy, Handling
<1>3. OneOwner
  BY <1>2 DEF OneOwner, ToSet
<1>4. NoStranded
  <2>1. ~ \E w \in Workers : wpc[w] \in {"parking", "waiting"}
    OBVIOUS
  <2>2. QED
    BY <2>1 DEF NoStranded
<1>5. AcceptorHandsOver /\ ParkedOnEmpty /\ StopPhases
  BY DEF AcceptorHandsOver, ParkedOnEmpty, StopPhases
<1>6. QED
  BY <1>1, <1>3, <1>4, <1>5 DEF RpcInv

\* Every step preserves the types.
LEMMA RpcTypeStep ==
    ASSUME RpcTypeOK, [RpcNext]_vars
    PROVE  RpcTypeOK'
<1> USE RpcAssumption DEF RpcTypeOK, Handling
<1>1. ASSUME NEW c \in Conns, Connect(c) \/ Send(c) \/ Disconnect(c)
      PROVE  RpcTypeOK'
  BY <1>1 DEF Connect, Send, Disconnect, serverVars
<1>2. CASE AcceptorTop
  BY <1>2 DEF AcceptorTop
<1>3. CASE Accept
  BY <1>3 DEF Accept
<1>4. CASE Push
  <2>1. pending' \in Seq(Conns)
    BY <1>4, PushFacts DEF Push
  <2>2. wpc' \in [Workers -> {"lock", "parking", "waiting", "exit"} \cup Handling]
    BY <1>4 DEF Push, WakeOne
  <2>3. \A w \in Workers : wpc'[w] \in Handling => wpc'[w] = wpc[w]
    BY <1>4 DEF Push, WakeOne
  <2>4. QED
    BY <1>4, <2>1, <2>2, <2>3 DEF Push
<1>5. CASE NotifyOne
  BY <1>5 DEF NotifyOne, WakeOne
<1>6. ASSUME NEW w \in Workers, WorkerTake(w)
      PROVE  RpcTypeOK'
  <2>1. CASE ~ running \/ pending = <<>>
    BY <1>6, <2>1 DEF WorkerTake, WorkerGoto
  <2>2. CASE running /\ pending # <<>>
    <3>1. Last(pending) \in Conns /\ Front(pending) \in Seq(Conns)
      BY <2>2, PopFacts
    <3>2. QED
      BY <1>6, <2>2, <3>1 DEF WorkerTake, WorkerGoto
  <2>3. QED
    BY <2>1, <2>2
<1>7. ASSUME NEW w \in Workers, WorkerPark(w) \/ SpuriousWakeup(w)
      PROVE  RpcTypeOK'
  BY <1>7 DEF WorkerPark, SpuriousWakeup, WorkerGoto
<1>8. ASSUME NEW w \in Workers, HandleTop(w)
      PROVE  RpcTypeOK'
  BY <1>8 DEF HandleTop, CloseFd, WorkerGoto
<1>9. ASSUME NEW w \in Workers, Recv(w)
      PROVE  RpcTypeOK'
  BY <1>9 DEF Recv, CloseFd, WorkerGoto
<1>10. ASSUME NEW w \in Workers, Reply(w)
       PROVE  RpcTypeOK'
  BY <1>10 DEF Reply, CloseFd, WorkerGoto
<1>11. CASE StopFlag
  BY <1>11 DEF StopFlag
<1>12. CASE StopNotify
  BY <1>12 DEF StopNotify
<1>13. CASE StopListening
  BY <1>13 DEF StopListening
<1>14. CASE StopJoin
  BY <1>14 DEF StopJoin
<1>15. CASE UNCHANGED vars
  BY <1>15 DEF vars, serverVars
<1>16. QED
  BY <1>1, <1>2, <1>3, <1>4, <1>5, <1>6, <1>7, <1>8, <1>9, <1>10, <1>11, <1>12,
     <1>13, <1>14, <1>15 DEF RpcNext, AcceptorStep, WorkerStep

-----------------------------------------------------------------------------
\* A step that moves no accepted connection keeps the owners.
LEMMA SameHands ==
    ASSUME OneOwner, afd' = afd, pending' = pending,
           \A w \in Workers : HeldBy(w)' = HeldBy(w),
           \A c \in Conns : sock'[c] = "accepted" <=> sock[c] = "accepted"
    PROVE  OneOwner'
BY DEF OneOwner

\* A woken worker held nothing and holds nothing.
LEMMA WakeOneHolds ==
    ASSUME RpcTypeOK, WakeOne \/ UNCHANGED wpc, wfd' = wfd, NEW w \in Workers
    PROVE  HeldBy(w)' = HeldBy(w)
BY DEF RpcTypeOK, WakeOne, HeldBy, Handling

\* Closing a connection takes it from its one owner.
LEMMA CloseFdOwner ==
    ASSUME RpcTypeOK, OneOwner, NEW w \in Workers, wpc[w] \in Handling, CloseFd(w),
           afd' = afd, pending' = pending
    PROVE  OneOwner'
<1> USE RpcAssumption
<1> DEFINE c == wfd[w]
<1>1. c \in Conns /\ HeldBy(w) = c /\ c # NoFd
  BY DEF RpcTypeOK, HeldBy
<1>2. HeldBy(w)' = NoFd
  BY DEF CloseFd, WorkerGoto, RpcTypeOK, HeldBy, Handling
<1>3. \A v \in Workers \ {w} : HeldBy(v)' = HeldBy(v) /\ HeldBy(v) # c
  BY <1>1 DEF CloseFd, WorkerGoto, RpcTypeOK, HeldBy, OneOwner
<1>4. c \notin ToSet(pending) /\ c # afd
  BY <1>1 DEF OneOwner
<1>5. \A x \in Conns : sock'[x] = "accepted" <=> sock[x] = "accepted" /\ x # c
  BY <1>1 DEF CloseFd, RpcTypeOK
<1>6. pending \in Seq(Conns)
  BY DEF RpcTypeOK
<1>7. NoFd \notin ToSet(pending)
  BY <1>6 DEF ToSet
<1>8. \A x \in Conns :
        sock'[x] = "accepted" <=> (x = afd' \/ x \in ToSet(pending') \/ \E v \in Workers : x = HeldBy(v)')
  BY <1>1, <1>2, <1>3, <1>4, <1>5 DEF OneOwner
<1>9. \A i, j \in DOMAIN pending' : pending'[i] = pending'[j] => i = j
  BY DEF OneOwner
<1>10. afd' \notin ToSet(pending') /\ \A v \in Workers : HeldBy(v)' \notin ToSet(pending') \cup ({afd'} \ {NoFd})
  BY <1>2, <1>3, <1>7 DEF OneOwner
<1>11. \A u, v \in Workers : HeldBy(u)' = HeldBy(v)' /\ HeldBy(u)' # NoFd => u = v
  BY <1>2, <1>3 DEF OneOwner
<1>12. QED
  BY <1>8, <1>9, <1>10, <1>11 DEF OneOwner

\* Every step keeps each accepted connection in exactly one pair of hands.
LEMMA OwnerStep ==
    ASSUME RpcTypeOK, OneOwner, AcceptorHandsOver, [RpcNext]_vars
    PROVE  OneOwner'
<1> USE RpcAssumption
<1>0. pending \in Seq(Conns) /\ NoFd \notin ToSet(pending) /\ ToSet(pending) \subseteq Conns
  <2>1. pending \in Seq(Conns)
    BY DEF RpcTypeOK
  <2>2. QED
    BY <2>1 DEF ToSet
<1>1. ASSUME NEW c \in Conns, Connect(c) \/ Send(c) \/ Disconnect(c)
      PROVE  OneOwner'
  <2>1. afd' = afd /\ pending' = pending /\ \A w \in Workers : HeldBy(w)' = HeldBy(w)
    BY <1>1 DEF Connect, Send, Disconnect, serverVars, HeldBy
  <2>2. \A x \in Conns : sock'[x] = "accepted" <=> sock[x] = "accepted"
    BY <1>1 DEF Connect, Send, Disconnect, RpcTypeOK
  <2>3. QED
    BY <2>1, <2>2, SameHands
<1>2. CASE AcceptorTop
  <2>1. \A w \in Workers : HeldBy(w)' = HeldBy(w)
    BY <1>2 DEF AcceptorTop, HeldBy
  <2>2. QED
    BY <1>2, <2>1, SameHands DEF AcceptorTop
<1>3. CASE Accept
  <2>1. \A w \in Workers : HeldBy(w)' = HeldBy(w)
    BY <1>3 DEF Accept, HeldBy
  <2>2. CASE ~ listening
    BY <1>3, <2>1, <2>2, SameHands DEF Accept
  <2>3. CASE listening
    <3>1. PICK c \in Conns : sock[c] = "backlog" /\ sock' = [sock EXCEPT ![c] = "accepted"] /\ afd' = c
      BY <1>3, <2>3 DEF Accept
    <3>2. afd = NoFd /\ pending' = pending
      BY <1>3 DEF Accept, AcceptorHandsOver
    <3>3. \A x \in Conns : sock'[x] = "accepted" <=> sock[x] = "accepted" \/ x = c
      BY <3>1 DEF RpcTypeOK
    <3>4. c \notin ToSet(pending) /\ \A w \in Workers : HeldBy(w) # c
      BY <3>1 DEF OneOwner
    <3>5. QED
      BY <2>1, <3>1, <3>2, <3>3, <3>4 DEF OneOwner
  <2>4. QED
    BY <2>2, <2>3 DEF RpcTypeOK
<1>4. CASE Push
  <2>1. \A w \in Workers : HeldBy(w)' = HeldBy(w)
    BY <1>4, WakeOneHolds DEF Push
  <2>2. afd \in Conns /\ pending' = Append(pending, afd) /\ afd' = NoFd /\ sock' = sock
    BY <1>4 DEF Push, RpcTypeOK
  <2>3. ToSet(pending') = ToSet(pending) \cup {afd}
    BY <1>0, <2>2, PushFacts
  <2>4. afd \notin ToSet(pending) /\ \A w \in Workers : HeldBy(w) # afd
    BY <2>2 DEF OneOwner
  <2>5. QED
    BY <2>1, <2>2, <2>3, <2>4, <1>0, PushFacts DEF OneOwner
<1>5. CASE NotifyOne
  <2>1. \A w \in Workers : HeldBy(w)' = HeldBy(w)
    BY <1>5, WakeOneHolds DEF NotifyOne
  <2>2. QED
    BY <1>5, <2>1, SameHands DEF NotifyOne
<1>6. ASSUME NEW w \in Workers, WorkerTake(w)
      PROVE  OneOwner'
  <2>1. CASE ~ running \/ pending = <<>>
    <3>1. \A v \in Workers : HeldBy(v)' = HeldBy(v)
      BY <1>6, <2>1 DEF WorkerTake, WorkerGoto, RpcTypeOK, HeldBy, Handling
    <3>2. QED
      BY <1>6, <2>1, <3>1, SameHands DEF WorkerTake
  <2>2. CASE running /\ pending # <<>>
    <3> DEFINE c == Last(pending)
    <3>1. /\ wpc[w] = "lock" /\ wpc' = [wpc EXCEPT ![w] = IF oneShot THEN "recv" ELSE "loop"]
          /\ wfd' = [wfd EXCEPT ![w] = c]
          /\ pending' = Front(pending)
          /\ afd' = afd /\ sock' = sock
      BY <1>6, <2>2 DEF WorkerTake, WorkerGoto
    <3>2. /\ c \in Conns /\ c \in ToSet(pending)
          /\ ToSet(pending') = ToSet(pending) \ {c}
          /\ \A i, j \in DOMAIN pending' : pending'[i] = pending'[j] => i = j
      BY <1>0, <2>2, <3>1, PopFacts DEF OneOwner
    <3>3. HeldBy(w) = NoFd /\ HeldBy(w)' = c
      BY <3>1 DEF RpcTypeOK, HeldBy, Handling
    <3>4. \A v \in Workers \ {w} : HeldBy(v)' = HeldBy(v)
      BY <3>1 DEF RpcTypeOK, HeldBy
    <3>5. c # NoFd /\ c # afd /\ \A v \in Workers : HeldBy(v) # c
      BY <3>2 DEF OneOwner
    <3>6. \A x \in Conns :
            sock'[x] = "accepted" <=> (x = afd' \/ x \in ToSet(pending') \/ \E v \in Workers : x = HeldBy(v)')
      BY <3>1, <3>2, <3>3, <3>4, <3>5 DEF OneOwner
    <3>7. /\ afd' \notin ToSet(pending')
          /\ \A v \in Workers : HeldBy(v)' \notin ToSet(pending') \cup ({afd'} \ {NoFd})
      BY <3>1, <3>2, <3>3, <3>4, <3>5 DEF OneOwner
    <3>8. \A u, v \in Workers : HeldBy(u)' = HeldBy(v)' /\ HeldBy(u)' # NoFd => u = v
      BY <3>3, <3>4, <3>5 DEF OneOwner
    <3>9. QED
      BY <3>2, <3>6, <3>7, <3>8 DEF OneOwner
  <2>3. QED
    BY <2>1, <2>2
<1>7. ASSUME NEW w \in Workers, WorkerPark(w) \/ SpuriousWakeup(w)
      PROVE  OneOwner'
  <2>1. \A v \in Workers : HeldBy(v)' = HeldBy(v)
    BY <1>7 DEF WorkerPark, SpuriousWakeup, WorkerGoto, RpcTypeOK, HeldBy, Handling
  <2>2. QED
    BY <1>7, <2>1, SameHands DEF WorkerPark, SpuriousWakeup
<1>8. ASSUME NEW w \in Workers, HandleTop(w) \/ Recv(w) \/ Reply(w)
      PROVE  OneOwner'
  <2>1. wpc[w] \in Handling /\ afd' = afd /\ pending' = pending
    BY <1>8 DEF HandleTop, Recv, Reply, Handling
  <2>2. CASE CloseFd(w)
    BY <2>1, <2>2, CloseFdOwner
  <2>3. CASE ~ CloseFd(w)
    <3>1. \A v \in Workers : HeldBy(v)' = HeldBy(v)
      BY <1>8, <2>3 DEF HandleTop, Recv, Reply, WorkerGoto, RpcTypeOK, HeldBy, Handling
    <3>2. sock' = sock
      BY <1>8, <2>3 DEF HandleTop, Recv, Reply
    <3>3. QED
      BY <2>1, <3>1, <3>2, SameHands
  <2>4. QED
    BY <2>2, <2>3
<1>9. CASE StopFlag \/ StopJoin
  <2>1. \A w \in Workers : HeldBy(w)' = HeldBy(w)
    BY <1>9 DEF StopFlag, StopJoin, HeldBy
  <2>2. QED
    BY <1>9, <2>1, SameHands DEF StopFlag, StopJoin
<1>10. CASE StopNotify
  <2>1. \A w \in Workers : HeldBy(w)' = HeldBy(w)
    BY <1>10 DEF StopNotify, HeldBy, Handling
  <2>2. QED
    BY <1>10, <2>1, SameHands DEF StopNotify
<1>11. CASE StopListening
  <2>1. \A w \in Workers : HeldBy(w)' = HeldBy(w)
    BY <1>11 DEF StopListening, HeldBy
  <2>2. \A x \in Conns : sock'[x] = "accepted" <=> sock[x] = "accepted"
    BY <1>11 DEF StopListening
  <2>3. QED
    BY <1>11, <2>1, <2>2, SameHands DEF StopListening
<1>12. CASE UNCHANGED vars
  <2>1. \A w \in Workers : HeldBy(w)' = HeldBy(w)
    BY <1>12 DEF vars, serverVars, HeldBy
  <2>2. QED
    BY <1>12, <2>1, SameHands DEF vars, serverVars
<1>13. QED
  BY <1>1, <1>2, <1>3, <1>4, <1>5, <1>6, <1>7, <1>8, <1>9, <1>10, <1>11, <1>12
     DEF RpcNext, AcceptorStep, WorkerStep

-----------------------------------------------------------------------------
\* The acceptor's hand-over, the mutex of a worker about to sleep and the
\* phases of Stop are kept by every step.
LEMMA ControlStep ==
    ASSUME RpcInv, [RpcNext]_vars
    PROVE  AcceptorHandsOver' /\ ParkedOnEmpty' /\ StopPhases'
<1> USE DEF RpcInv, RpcTypeOK, AcceptorHandsOver, ParkedOnEmpty, StopPhases
<1>1. ASSUME NEW c \in Conns, Connect(c) \/ Send(c) \/ Disconnect(c)
      PROVE  AcceptorHandsOver' /\ ParkedOnEmpty' /\ StopPhases'
  BY <1>1 DEF Connect, Send, Disconnect, serverVars
<1>2. CASE AcceptorTop \/ Accept
  BY <1>2 DEF AcceptorTop, Accept
<1>3. CASE Push \/ NotifyOne
  BY <1>3 DEF Push, NotifyOne, WakeOne, MutexFree
<1>4. ASSUME NEW w \in Workers, WorkerTake(w)
      PROVE  AcceptorHandsOver' /\ ParkedOnEmpty' /\ StopPhases'
  BY <1>4 DEF WorkerTake, WorkerGoto, MutexFree
<1>5. ASSUME NEW w \in Workers, WorkerPark(w) \/ SpuriousWakeup(w)
      PROVE  AcceptorHandsOver' /\ ParkedOnEmpty' /\ StopPhases'
  BY <1>5 DEF WorkerPark, SpuriousWakeup, WorkerGoto
<1>6. ASSUME NEW w \in Workers, HandleTop(w) \/ Recv(w) \/ Reply(w)
      PROVE  AcceptorHandsOver' /\ ParkedOnEmpty' /\ StopPhases'
  BY <1>6 DEF HandleTop, Recv, Reply, CloseFd, WorkerGoto
<1>7. CASE StopFlag \/ StopNotify \/ StopListening \/ StopJoin
  BY <1>7 DEF StopFlag, StopNotify, StopListening, StopJoin
<1>8. CASE UNCHANGED vars
  BY <1>8 DEF vars, serverVars
<1>9. QED
  BY <1>1, <1>2, <1>3, <1>4, <1>5, <1>6, <1>7, <1>8 DEF RpcNext, AcceptorStep, WorkerStep

\* The workers on their way to the queue.
AtLock == {w \in Workers : wpc[w] = "lock"}

\* Their number is one.
LEMMA AtLockNat == IsFiniteSet(AtLock) /\ Cardinality(AtLock) \in Nat
<1>1. IsFiniteSet(AtLock)
  BY FS_Subset, RpcAssumption DEF AtLock
<1>2. QED
  BY <1>1, FS_CardinalityType

\* How a worker's move changes their number.
LEMMA AtLockCount ==
    ASSUME RpcTypeOK, NEW w \in Workers, NEW l, wpc' = [wpc EXCEPT ![w] = l]
    PROVE  /\ wpc[w] # "lock" /\ l # "lock" => AtLock' = AtLock
           /\ wpc[w] # "lock" /\ l = "lock" => Cardinality(AtLock') = Cardinality(AtLock) + 1
           /\ wpc[w] = "lock" /\ l # "lock" => Cardinality(AtLock') = Cardinality(AtLock) - 1
<1>1. \A v \in Workers : wpc'[v] = IF v = w THEN l ELSE wpc[v]
  BY DEF RpcTypeOK
<1>2. wpc[w] # "lock" /\ l # "lock" => AtLock' = AtLock
  BY <1>1 DEF AtLock
<1>3. wpc[w] # "lock" /\ l = "lock" => AtLock' = AtLock \cup {w} /\ w \notin AtLock
  BY <1>1 DEF AtLock
<1>4. wpc[w] = "lock" /\ l # "lock" => AtLock' = AtLock \ {w} /\ w \in AtLock
  BY <1>1 DEF AtLock
<1>5. wpc[w] # "lock" /\ l = "lock" => Cardinality(AtLock') = Cardinality(AtLock) + 1
  BY <1>3, AtLockNat, FS_AddElement
<1>6. wpc[w] = "lock" /\ l # "lock" => Cardinality(AtLock') = Cardinality(AtLock) - 1
  BY <1>4, AtLockNat, FS_RemoveElement
<1>7. QED
  BY <1>2, <1>5, <1>6

\* No step strands a queued connection.
LEMMA StrandedStep ==
    ASSUME RpcInv, [RpcNext]_vars
    PROVE  NoStranded'
<1> DEFINE Sleeper == \E w \in Workers : wpc[w] \in {"parking", "waiting"}
           Coming == IF apc = "notify" THEN 1 ELSE 0
<1> SUFFICES ASSUME running', Sleeper'
             PROVE  Len(pending') <= Cardinality(AtLock') + Coming'
  BY DEF NoStranded, AtLock
<1>1. RpcTypeOK /\ StopPhases /\ ParkedOnEmpty
  BY DEF RpcInv
<1>2. /\ pending \in Seq(Conns) /\ Len(pending) \in Nat
      /\ wpc \in [Workers -> {"lock", "parking", "waiting", "exit"} \cup Handling]
  BY <1>1 DEF RpcTypeOK
<1>3. Sleeper /\ running => Len(pending) <= Cardinality(AtLock) + Coming
  BY DEF RpcInv, NoStranded, AtLock
<1>4. Cardinality(AtLock) \in Nat /\ Coming \in {0, 1}
  BY AtLockNat
<1> HIDE DEF Coming
<1>5. CASE /\ pending' = pending /\ wpc' = wpc /\ running' = running
           /\ (apc = "notify" <=> apc' = "notify")
  BY <1>3, <1>5 DEF Coming, AtLock
<1>6. ASSUME NEW c \in Conns, Connect(c) \/ Send(c) \/ Disconnect(c)
      PROVE  Len(pending') <= Cardinality(AtLock') + Coming'
  BY <1>5, <1>6 DEF Connect, Send, Disconnect, serverVars
<1>7. CASE AcceptorTop \/ Accept
  BY <1>5, <1>7 DEF AcceptorTop, Accept
<1>8. CASE Push
  <2>1. Len(pending') = Len(pending) + 1 /\ running
    BY <1>1, <1>8, PushFacts DEF Push, RpcTypeOK
  <2>2. Coming = 0
    BY <1>8 DEF Push, Coming
  <2>3. CASE ~ oneShot
    <3>1. Coming' = 1 /\ wpc' = wpc
      BY <1>8, <2>3 DEF Push, Coming
    <3>2. QED
      BY <1>2, <1>3, <1>4, <2>1, <2>2, <3>1 DEF AtLock
  <2>4. CASE oneShot
    <3>1. WakeOne /\ MutexFree /\ Coming' = 0
      BY <1>8, <2>4 DEF Push, Coming
    <3>2. Sleeper /\ \E w \in Workers : wpc[w] = "waiting"
      BY <1>2, <3>1 DEF WakeOne, MutexFree
    <3>3. PICK w \in Workers : wpc[w] = "waiting" /\ wpc' = [wpc EXCEPT ![w] = "lock"]
      BY <3>1, <3>2 DEF WakeOne
    <3>4. Cardinality(AtLock') = Cardinality(AtLock) + 1
      BY <1>1, <3>3, AtLockCount
    <3>5. QED
      BY <1>2, <1>3, <1>4, <2>1, <2>2, <3>1, <3>2, <3>4
  <2>5. QED
    BY <2>3, <2>4
<1>9. CASE NotifyOne
  <2>1. pending' = pending /\ running /\ WakeOne /\ Coming = 1 /\ Coming' = 0
    BY <1>9 DEF NotifyOne, Coming
  <2>2. CASE \E w \in Workers : wpc[w] = "waiting"
    <3>1. PICK w \in Workers : wpc[w] = "waiting" /\ wpc' = [wpc EXCEPT ![w] = "lock"]
      BY <2>1, <2>2 DEF WakeOne
    <3>2. Cardinality(AtLock') = Cardinality(AtLock) + 1
      BY <1>1, <3>1, AtLockCount
    <3>3. QED
      BY <1>2, <1>3, <1>4, <2>1, <2>2, <3>2
  <2>3. CASE ~ \E w \in Workers : wpc[w] = "waiting"
    <3>1. wpc' = wpc /\ \E w \in Workers : wpc[w] = "parking"
      BY <2>1, <2>3 DEF WakeOne
    <3>2. Len(pending) = 0
      BY <1>1, <3>1 DEF ParkedOnEmpty
    <3>3. AtLock' = AtLock
      BY <3>1 DEF AtLock
    <3>4. QED
      BY <1>4, <2>1, <3>2, <3>3
  <2>4. QED
    BY <2>2, <2>3
<1>10. ASSUME NEW w \in Workers, WorkerTake(w)
       PROVE  Len(pending') <= Cardinality(AtLock') + Coming'
  <2>1. running /\ Coming' = Coming /\ wpc[w] = "lock"
    BY <1>10 DEF WorkerTake, Coming
  <2>2. CASE pending = <<>>
    <3>1. Len(pending') = 0 /\ wpc' = [wpc EXCEPT ![w] = "parking"]
      BY <1>10, <2>1, <2>2 DEF WorkerTake, WorkerGoto
    <3>2. IsFiniteSet(AtLock') /\ Cardinality(AtLock') \in Nat
      <4>1. IsFiniteSet(AtLock')
        BY FS_Subset, RpcAssumption DEF AtLock
      <4>2. QED
        BY <4>1, FS_CardinalityType
    <3>3. QED
      BY <1>4, <2>1, <3>1, <3>2
  <2>3. CASE pending # <<>>
    <3>1. PICK l \in {"recv", "loop"} : wpc' = [wpc EXCEPT ![w] = l] /\ pending' = Front(pending)
      BY <1>10, <2>1, <2>3 DEF WorkerTake, WorkerGoto
    <3>2. Len(pending') = Len(pending) - 1
      BY <1>2, <2>3, <3>1, PopFacts
    <3>3. Cardinality(AtLock') = Cardinality(AtLock) - 1
      BY <1>1, <2>1, <3>1, AtLockCount
    <3>4. Sleeper
      BY <1>2, <3>1
    <3>5. QED
      BY <1>2, <1>3, <1>4, <2>1, <3>2, <3>3, <3>4
  <2>4. QED
    BY <2>2, <2>3
<1>11. ASSUME NEW w \in Workers, WorkerPark(w)
       PROVE  Len(pending') <= Cardinality(AtLock') + Coming'
  <2>1. pending' = pending /\ running /\ Coming' = Coming /\ Sleeper
    BY <1>11 DEF WorkerPark, Coming
  <2>2. \A v \in Workers : wpc'[v] = "lock" <=> wpc[v] = "lock"
    BY <1>2, <1>11 DEF WorkerPark, WorkerGoto
  <2>3. AtLock' = AtLock
    BY <2>2 DEF AtLock
  <2>4. QED
    BY <1>3, <2>1, <2>3
<1>12. ASSUME NEW w \in Workers, SpuriousWakeup(w)
       PROVE  Len(pending') <= Cardinality(AtLock') + Coming'
  <2>1. pending' = pending /\ running /\ Coming' = Coming /\ Sleeper
    BY <1>12 DEF SpuriousWakeup, Coming
  <2>2. Cardinality(AtLock') = Cardinality(AtLock) + 1
    BY <1>1, <1>12, AtLockCount DEF SpuriousWakeup, WorkerGoto
  <2>3. QED
    BY <1>2, <1>3, <1>4, <2>1, <2>2
<1>13. ASSUME NEW w \in Workers, HandleTop(w) \/ Recv(w) \/ Reply(w)
       PROVE  Len(pending') <= Cardinality(AtLock') + Coming'
  <2>1. /\ pending' = pending /\ running /\ Coming' = Coming
        /\ wpc[w] \in Handling
        /\ \E l \in Handling \cup {"lock"} : wpc' = [wpc EXCEPT ![w] = l]
    BY <1>13 DEF HandleTop, Recv, Reply, CloseFd, WorkerGoto, Coming, Handling
  <2>2. PICK l \in Handling \cup {"lock"} : wpc' = [wpc EXCEPT ![w] = l]
    BY <2>1
  <2>3. Sleeper
    BY <1>2, <2>2 DEF Handling
  <2>4. AtLock' = AtLock \/ Cardinality(AtLock') = Cardinality(AtLock) + 1
    BY <1>1, <2>1, <2>2, AtLockCount DEF Handling
  <2>5. QED
    BY <1>2, <1>3, <1>4, <2>1, <2>3, <2>4
<1>14. CASE StopFlag \/ StopNotify
  BY <1>1, <1>14 DEF StopFlag, StopNotify, StopPhases
<1>15. CASE StopListening \/ StopJoin \/ UNCHANGED vars
  BY <1>5, <1>15 DEF StopListening, StopJoin, vars, serverVars
<1>16. QED
  BY <1>6, <1>7, <1>8, <1>9, <1>10, <1>11, <1>12, <1>13, <1>14, <1>15
     DEF RpcNext, AcceptorStep, WorkerStep

\* The invariant holds in every reachable state.
LEMMA RpcInvariant == RpcSpec => []RpcInv
<1>1. RpcInv /\ [RpcNext]_vars => RpcInv'
  <2> SUFFICES ASSUME RpcInv, [RpcNext]_vars
               PROVE  RpcInv'
    OBVIOUS
  <2>1. RpcTypeOK'
    BY RpcTypeStep DEF RpcInv
  <2>2. OneOwner'
    BY OwnerStep DEF RpcInv
  <2>3. NoStranded'
    BY StrandedStep
  <2>4. AcceptorHandsOver' /\ ParkedOnEmpty' /\ StopPhases'
    BY ControlStep
  <2>5. QED
    BY <2>1, <2>2, <2>3, <2>4 DEF RpcInv
<1>2. QED
  BY <1>1, RpcInitInv, PTL DEF RpcSpec

\* The variables of the servers have their types, and a worker in
\* HandleConnection has a valid fd.
THEOREM RpcTypeCorrect == RpcSpec => []RpcTypeOK
<1>1. RpcInv => RpcTypeOK
  BY DEF RpcInv
<1>2. QED
  BY <1>1, RpcInvariant, PTL

\* For every pool of workers and every number of connections, an accepted
\* connection is in exactly one pair of hands: the acceptor's, the queue's or
\* one worker's.
THEOREM OneOwnerHolds == RpcSpec => []OneOwner
<1>1. RpcInv => OneOwner
  BY DEF RpcInv
<1>2. QED
  BY <1>1, RpcInvariant, PTL

\* No notify_one is lost while a worker sleeps and a connection waits, in the
\* server that notifies after releasing queue_mutex_ as in the one that
\* notifies under it.
THEOREM NoStrandedHolds == RpcSpec => []NoStranded
<1>1. RpcInv => NoStranded
  BY DEF RpcInv
<1>2. QED
  BY <1>1, RpcInvariant, PTL

\* Once Stop has returned no handler runs, and the sockets still open are the
\* ones left in the queue.
THEOREM StopIsQuiet == RpcSpec => []StoppedIsQuiet
<1>1. RpcInv => StoppedIsQuiet
  <2> SUFFICES ASSUME RpcInv, spc = "stopped", NEW c \in Conns
               PROVE  /\ sock[c] = "accepted" => c \in ToSet(pending)
                      /\ \A w \in Workers : HeldBy(w) # c
    BY DEF StoppedIsQuiet
  <2>1. apc = "exit" /\ \A w \in Workers : wpc[w] = "exit"
    BY DEF RpcInv, StopPhases
  <2>2. afd = NoFd /\ c # NoFd
    BY <2>1, RpcAssumption DEF RpcInv, AcceptorHandsOver
  <2>3. \A w \in Workers : HeldBy(w) = NoFd
    BY <2>1 DEF HeldBy, Handling
  <2>4. QED
    BY <2>2, <2>3 DEF RpcInv, OneOwner
<1>2. QED
  BY <1>1, RpcInvariant, PTL

-----------------------------------------------------------------------------
(***************************************************************************)
(* Refinement                                                              *)
(***************************************************************************)

\* What a caller sees of a connection.
PhaseOf(c) ==
    IF sock[c] \in {"away", "closed"} THEN sock[c]
    ELSE IF \E w \in Workers : HeldBy(w) = c THEN "open" ELSE "queued"

\* ServicePhase, connection by connection.
LEMMA PhaseIs ==
    /\ ServicePhase = [c \in Conns |-> PhaseOf(c)]
    /\ ServicePhase' = [c \in Conns |-> PhaseOf(c)']
BY DEF ServicePhase, PhaseOf

\* A step that neither opens nor closes a connection is not seen by callers.
LEMMA PhaseSame ==
    ASSUME \A w \in Workers : HeldBy(w)' = HeldBy(w),
           \A c \in Conns : \/ sock'[c] = sock[c]
                            \/ sock[c] = "backlog" /\ sock'[c] = "accepted"
    PROVE  ServicePhase' = ServicePhase
<1>1. \A c \in Conns : PhaseOf(c)' = PhaseOf(c)
  BY DEF PhaseOf
<1>2. QED
  BY <1>1, PhaseIs

\* A step that changes the phase of one connection.
LEMMA PhaseMove ==
    ASSUME NEW c \in Conns, \A x \in Conns \ {c} : PhaseOf(x)' = PhaseOf(x)
    PROVE  ServicePhase' = [ServicePhase EXCEPT ![c] = PhaseOf(c)']
BY PhaseIs

\* A worker that takes a connection leaves room in the pool for it: the open
\* connections are held by the other workers, one each.
LEMMA RoomForOne ==
    ASSUME RpcInv, NEW w \in Workers, HeldBy(w) = NoFd
    PROVE  Cardinality({x \in Conns : ServicePhase[x] = "open"}) < Cardinality(Workers)
<1> DEFINE Opened == {x \in Conns : ServicePhase[x] = "open"}
           Others == Workers \ {w}
           Held == {HeldBy(v) : v \in Others}
<1>1. IsFiniteSet(Others) /\ Cardinality(Others) = Cardinality(Workers) - 1
  BY FS_RemoveElement, RpcAssumption
<1>2. IsFiniteSet(Held) /\ Cardinality(Held) <= Cardinality(Others)
  <2> DEFINE f == [v \in Others |-> HeldBy(v)]
  <2>1. f \in [Others -> Held] /\ \A y \in Held : \E v \in Others : f[v] = y
    OBVIOUS
  <2>2. f \in Surjection(Others, Held)
    BY <2>1 DEF Surjection
  <2>3. QED
    BY <1>1, <2>2, FS_Surjection
<1>3. Opened \subseteq Held
  <2> SUFFICES ASSUME NEW x \in Opened
               PROVE  x \in Held
    OBVIOUS
  <2>1. x \in Conns /\ PhaseOf(x) = "open"
    BY PhaseIs
  <2>2. \E v \in Workers : HeldBy(v) = x
    BY <2>1 DEF PhaseOf
  <2>3. x # NoFd
    BY <2>1, RpcAssumption
  <2>4. QED
    BY <2>2, <2>3
<1>4. IsFiniteSet(Opened) /\ Cardinality(Opened) <= Cardinality(Held)
  BY <1>2, <1>3, FS_Subset
<1>5. Cardinality(Opened) \in Nat /\ Cardinality(Held) \in Nat /\ Cardinality(Workers) \in Nat
  BY <1>2, <1>4, FS_CardinalityType, RpcAssumption
<1>6. QED
  BY <1>1, <1>2, <1>4, <1>5

\* The instance counts as this module does.
LEMMA SameCardinality ==
    ASSUME NEW S
    PROVE  Service!Cardinality(S) = Cardinality(S)
BY Zenon DEF Service!Cardinality, Cardinality

\* Closing a connection is Close of the service.
LEMMA CloseIsClose ==
    ASSUME RpcInv, OneOwner', NEW w \in Workers, wpc[w] \in Handling, CloseFd(w)
    PROVE  Service!Close(wfd[w])
<1>0. PICK c \in Conns : c = wfd[w]
  BY DEF RpcInv, RpcTypeOK
<1>1. HeldBy(w) = c
  BY <1>0 DEF HeldBy
<1>2. sock[c] = "accepted"
  BY <1>1 DEF RpcInv, OneOwner
<1>3. PhaseOf(c) = "open" /\ PhaseOf(c)' = "closed"
  BY <1>0, <1>1, <1>2 DEF CloseFd, RpcInv, RpcTypeOK, PhaseOf
<1>4. \A v \in Workers \ {w} : HeldBy(v)' = HeldBy(v)
  BY DEF CloseFd, WorkerGoto, RpcInv, RpcTypeOK, HeldBy
<1>5. HeldBy(w)' = NoFd
  BY DEF CloseFd, WorkerGoto, RpcInv, RpcTypeOK, HeldBy, Handling
<1>6. ASSUME NEW x \in Conns \ {c}
      PROVE  PhaseOf(x)' = PhaseOf(x)
  <2>1. sock'[x] = sock[x]
    BY <1>0 DEF CloseFd, RpcInv, RpcTypeOK
  <2>2. (\E v \in Workers : HeldBy(v)' = x) <=> (\E v \in Workers : HeldBy(v) = x)
    BY <1>1, <1>4, <1>5, RpcAssumption
  <2>3. QED
    BY <2>1, <2>2 DEF PhaseOf
<1>7. ServicePhase' = [ServicePhase EXCEPT ![c] = "closed"] /\ ServicePhase[c] = "open"
  BY <1>3, <1>6, PhaseMove, PhaseIs
<1>8. QED
  BY <1>0, <1>7 DEF Service!Close, Service!Move, CloseFd

\* Every step of the server is a step of the service or is not seen.
LEMMA ServiceStep ==
    ASSUME RpcInv, RpcInv', [RpcNext]_vars
    PROVE  [Service!ServiceNext]_(Service!serviceVars)
<1> USE RpcAssumption
<1>0. RpcTypeOK /\ OneOwner /\ OneOwner'
  BY DEF RpcInv
<1>a. ASSUME \A w \in Workers : HeldBy(w)' = HeldBy(w),
             \A c \in Conns : \/ sock'[c] = sock[c]
                              \/ sock[c] = "backlog" /\ sock'[c] = "accepted",
             asked' = asked
      PROVE  [Service!ServiceNext]_(Service!serviceVars)
  BY <1>a, PhaseSame DEF Service!serviceVars
<1>1. ASSUME NEW c \in Conns, Connect(c)
      PROVE  [Service!ServiceNext]_(Service!serviceVars)
  <2>1. \A w \in Workers : HeldBy(w)' = HeldBy(w)
    BY <1>1 DEF Connect, serverVars, HeldBy
  <2>2. /\ sock[c] = "away" /\ sock'[c] = "backlog" /\ asked' = asked
        /\ \A x \in Conns \ {c} : sock'[x] = sock[x]
    BY <1>0, <1>1 DEF Connect, RpcTypeOK
  <2>3. PhaseOf(c) = "away" /\ PhaseOf(c)' = "queued"
    BY <1>0, <2>2 DEF PhaseOf, OneOwner
  <2>4. \A x \in Conns \ {c} : PhaseOf(x)' = PhaseOf(x)
    BY <2>1, <2>2 DEF PhaseOf
  <2>5. ServicePhase' = [ServicePhase EXCEPT ![c] = "queued"] /\ ServicePhase[c] = "away"
    BY <2>3, <2>4, PhaseMove, PhaseIs
  <2>6. Service!Arrive(c)
    BY <2>2, <2>5 DEF Service!Arrive, Service!Move
  <2>7. QED
    BY <2>6 DEF Service!ServiceNext
<1>2. ASSUME NEW c \in Conns, Send(c)
      PROVE  [Service!ServiceNext]_(Service!serviceVars)
  <2>1. (\A w \in Workers : HeldBy(w)' = HeldBy(w)) /\ sock' = sock
    BY <1>2 DEF Send, serverVars, HeldBy
  <2>2. ServicePhase' = ServicePhase
    BY <2>1, PhaseSame
  <2>3. ServicePhase[c] \in {"queued", "open"}
    BY <1>2, PhaseIs DEF PhaseOf, Send
  <2>4. Service!Ask(c)
    BY <1>2, <2>2, <2>3 DEF Send, Service!Ask
  <2>5. QED
    BY <2>4 DEF Service!ServiceNext
<1>3. ASSUME NEW c \in Conns, Disconnect(c)
      PROVE  [Service!ServiceNext]_(Service!serviceVars)
  BY <1>3, <1>a DEF Disconnect, serverVars, HeldBy
<1>4. CASE AcceptorTop
  BY <1>4, <1>a DEF AcceptorTop, HeldBy
<1>5. CASE Accept
  <2>1. /\ \A w \in Workers : HeldBy(w)' = HeldBy(w)
        /\ asked' = asked
    BY <1>5 DEF Accept, HeldBy
  <2>2. \A c \in Conns : sock'[c] = sock[c] \/ (sock[c] = "backlog" /\ sock'[c] = "accepted")
    BY <1>0, <1>5 DEF Accept, RpcTypeOK
  <2>3. QED
    BY <1>a, <2>1, <2>2
<1>6. CASE Push \/ NotifyOne
  <2>1. \A w \in Workers : HeldBy(w)' = HeldBy(w)
    BY <1>0, <1>6, WakeOneHolds DEF Push, NotifyOne
  <2>2. QED
    BY <1>6, <1>a, <2>1 DEF Push, NotifyOne
<1>7. ASSUME NEW w \in Workers, WorkerTake(w)
      PROVE  [Service!ServiceNext]_(Service!serviceVars)
  <2>1. CASE ~ running \/ pending = <<>>
    <3>1. \A v \in Workers : HeldBy(v)' = HeldBy(v)
      BY <1>0, <1>7, <2>1 DEF WorkerTake, WorkerGoto, RpcTypeOK, HeldBy, Handling
    <3>2. QED
      BY <1>7, <1>a, <3>1 DEF WorkerTake
  <2>2. CASE running /\ pending # <<>>
    <3>0. PICK c \in Conns : c = Last(pending)
      BY <1>0, <2>2, PopFacts DEF RpcTypeOK
    <3>1. /\ wpc[w] = "lock" /\ wpc' = [wpc EXCEPT ![w] = IF oneShot THEN "recv" ELSE "loop"]
          /\ wfd' = [wfd EXCEPT ![w] = c]
          /\ sock' = sock /\ asked' = asked
      BY <1>7, <2>2, <3>0 DEF WorkerTake, WorkerGoto
    <3>2. c \in ToSet(pending)
      BY <1>0, <2>2, <3>0, PopFacts DEF OneOwner, RpcTypeOK
    <3>3. HeldBy(w) = NoFd /\ HeldBy(w)' = c
      BY <1>0, <3>1 DEF RpcTypeOK, HeldBy, Handling
    <3>4. \A v \in Workers \ {w} : HeldBy(v)' = HeldBy(v)
      BY <1>0, <3>1 DEF RpcTypeOK, HeldBy
    <3>5. sock[c] = "accepted" /\ \A v \in Workers : HeldBy(v) # c
      BY <1>0, <3>2 DEF OneOwner
    <3>6. PhaseOf(c) = "queued" /\ PhaseOf(c)' = "open"
      BY <3>1, <3>3, <3>5 DEF PhaseOf
    <3>7. ASSUME NEW x \in Conns \ {c}
          PROVE  PhaseOf(x)' = PhaseOf(x)
      <4>1. (\E v \in Workers : HeldBy(v)' = x) <=> (\E v \in Workers : HeldBy(v) = x)
        BY <3>3, <3>4
      <4>2. QED
        BY <3>1, <4>1 DEF PhaseOf
    <3>8. ServicePhase' = [ServicePhase EXCEPT ![c] = "open"] /\ ServicePhase[c] = "queued"
      BY <3>6, <3>7, PhaseMove, PhaseIs
    <3>9. Cardinality({x \in Conns : ServicePhase[x] = "open"}) < Cardinality(Workers)
      BY <3>3, RoomForOne
    <3>10. Service!Open(c)
      BY <3>1, <3>8, <3>9, SameCardinality DEF Service!Open, Service!Move
    <3>11. QED
      BY <3>10 DEF Service!ServiceNext
  <2>3. QED
    BY <2>1, <2>2
<1>8. ASSUME NEW w \in Workers, WorkerPark(w) \/ SpuriousWakeup(w)
      PROVE  [Service!ServiceNext]_(Service!serviceVars)
  <2>1. \A v \in Workers : HeldBy(v)' = HeldBy(v)
    BY <1>0, <1>8 DEF WorkerPark, SpuriousWakeup, WorkerGoto, RpcTypeOK, HeldBy, Handling
  <2>2. QED
    BY <1>8, <1>a, <2>1 DEF WorkerPark, SpuriousWakeup
<1>9. ASSUME NEW w \in Workers, HandleTop(w) \/ Recv(w) \/ Reply(w)
      PROVE  [Service!ServiceNext]_(Service!serviceVars)
  <2>1. wpc[w] \in Handling /\ wfd[w] \in Conns /\ HeldBy(w) = wfd[w]
    BY <1>0, <1>9 DEF HandleTop, Recv, Reply, Handling, RpcTypeOK, HeldBy
  <2>2. CASE CloseFd(w)
    BY <1>0, <2>1, <2>2, CloseIsClose DEF Service!ServiceNext
  <2>3. CASE ~ CloseFd(w)
    <3>1. \A v \in Workers : HeldBy(v)' = HeldBy(v)
      BY <1>0, <1>9, <2>3 DEF HandleTop, Recv, Reply, WorkerGoto, RpcTypeOK, HeldBy, Handling
    <3>2. sock' = sock
      BY <1>9, <2>3 DEF HandleTop, Recv, Reply
    <3>3. CASE asked' = asked
      BY <1>a, <3>1, <3>2, <3>3
    <3>4. CASE asked' # asked
      <4>1. asked' = asked \ {wfd[w]} /\ wfd[w] \in asked
        BY <1>9, <2>3, <3>4 DEF HandleTop, Recv, Reply
      <4>2. sock[wfd[w]] = "accepted"
        BY <1>0, <2>1 DEF OneOwner
      <4>3. ServicePhase' = ServicePhase /\ ServicePhase[wfd[w]] = "open"
        BY <2>1, <3>1, <3>2, <4>2, PhaseSame, PhaseIs DEF PhaseOf
      <4>4. Service!Answer(wfd[w])
        BY <4>1, <4>3 DEF Service!Answer
      <4>5. QED
        BY <2>1, <4>4 DEF Service!ServiceNext
    <3>5. QED
      BY <3>3, <3>4
  <2>4. QED
    BY <2>2, <2>3
<1>10. CASE StopFlag \/ StopJoin
  BY <1>10, <1>a DEF StopFlag, StopJoin, HeldBy
<1>11. CASE StopNotify
  <2>1. \A w \in Workers : HeldBy(w)' = HeldBy(w)
    BY <1>11 DEF StopNotify, HeldBy, Handling
  <2>2. QED
    BY <1>11, <1>a, <2>1 DEF StopNotify
<1>12. CASE StopListening
  <2> DEFINE R == {c \in Conns : sock[c] = "backlog"}
  <2>1. \A w \in Workers : HeldBy(w)' = HeldBy(w)
    BY <1>12 DEF StopListening, HeldBy
  <2>2. \A c \in Conns : sock'[c] = IF c \in R THEN "closed" ELSE sock[c]
    BY <1>12 DEF StopListening
  <2>3. \A c \in R : PhaseOf(c) = "queued"
    BY <1>0 DEF OneOwner, PhaseOf
  <2>4. \A c \in Conns : PhaseOf(c)' = IF c \in R THEN "closed" ELSE PhaseOf(c)
    BY <2>1, <2>2 DEF PhaseOf
  <2>5. ServicePhase' = [c \in Conns |-> IF c \in R THEN "closed" ELSE ServicePhase[c]]
    BY <2>4, PhaseIs
  <2>6. R \in SUBSET {c \in Conns : ServicePhase[c] = "queued"}
    BY <2>3, PhaseIs
  <2>7. asked' = asked \ R
    BY <1>0, <1>12 DEF StopListening, RpcTypeOK
  <2>8. Service!Refuse
    BY <2>5, <2>6, <2>7 DEF Service!Refuse
  <2>9. QED
    BY <2>8 DEF Service!ServiceNext
<1>13. CASE UNCHANGED vars
  BY <1>13, <1>a DEF vars, serverVars, HeldBy
<1>14. QED
  BY <1>1, <1>2, <1>3, <1>4, <1>5, <1>6, <1>7, <1>8, <1>9, <1>10, <1>11, <1>12, <1>13
     DEF RpcNext, AcceptorStep, WorkerStep

\* The threads, the queue and Stop of both servers implement RpcService, for
\* every pool and every set of connections: one handler per connection, never
\* more than num_handlers_ at work, a request answered at most once and only
\* while its connection is open.
THEOREM ServerImplementsService == RpcSpec => ImplementsService
<1>1. RpcInit => Service!ServiceInit
  BY DEF RpcInit, Service!ServiceInit, ServicePhase
<1>2. RpcInv /\ RpcInv' /\ [RpcNext]_vars => [Service!ServiceNext]_(Service!serviceVars)
  BY ServiceStep
<1>3. QED
  BY <1>1, <1>2, RpcInvariant, PTL DEF RpcSpec, ImplementsService, Service!ServiceSpec
=============================================================================
