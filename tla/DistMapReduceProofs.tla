------------------------- MODULE DistMapReduceProofs ------------------------
(***************************************************************************)
(* Proofs about DistMapReduce.  JobInv holds whenever the trackers start;  *)
(* QuietInv needs them to start after the submission (SubmitFirst), since  *)
(* SubmitJob takes no lock; OutputInv is about the time before the first   *)
(* tracker is lost.                                                        *)
(***************************************************************************)
EXTENDS DistMapReduce, SequenceLemmas, FiniteSetTheorems

\* The threads that have not reported yet, and the replies that hand out a
\* task and have not been read.
Active == {"running", "write1", "write2", "report"}
Busy(K) == {p \in Trackers \X K : thread[p[1]][p[2]] \in Active}
Polled(K) == {t \in Trackers : poll[t] \in K}

Reported == {"reply", "done"}
Past == {"report", "lost"} \cup Reported
Places == {"none"} \cup Active \cup Past

File == Seq((0..2) \X Seq(Maps))

\* SubmitJob's progress.
SubmitPhases ==
    /\ submitted = "no" => num_maps = 0 /\ num_reduces = 0 /\ pushed = 0
    /\ submitted # "no" => num_maps = NumMaps /\ num_reduces = NumReduces
    /\ submitted = "pushing" => pushed < NumMaps
    /\ created <= num_reduces

\* Every report of a map goes back to a push, and each push but the first to
\* at most one race with a poll.
MapLimit == IF pushed = 0 THEN 0 ELSE 2 * pushed - 1
MapBudget ==
    maps_completed + Cardinality(Busy(Maps)) + Cardinality(Polled(Maps)) + Len(pending_maps)
        <= MapLimit

\* Every report of a reduce goes back to the creation of one.
ReduceBudget ==
    reduces_completed + Cardinality(Busy(Reduces)) + Cardinality(Polled(Reduces)) <= created

\* A reduce task that writes has opened the file, and one that has ended has, or
\* could not.
OutputOpened ==
    \A t \in Trackers, r \in Reduces :
        /\ thread[t][r] \in {"write1", "write2"} => output \in File
        /\ thread[t][r] \in Past => output \in File \/ r \in unopened

\* A map about to report has published its output, if it has one.
Published ==
    \A t \in Trackers, m \in Maps :
        thread[t][m] = "report" => m \in map_outputs[t] \cup blank[t]

\* The inductive invariant of every job.
JobInv ==
    /\ JobTypeOK
    /\ SubmitPhases
    /\ MapBudget
    /\ ReduceBudget
    /\ OutputOpened
    /\ Published
    /\ LocationsStored

-----------------------------------------------------------------------------
\* The list of map tasks holds each pushed task at most once.
PendingOnce ==
    /\ \A i, j \in DOMAIN pending_maps : pending_maps[i] = pending_maps[j] => i = j
    /\ \A m \in ToSet(pending_maps) : m[2] < pushed

\* Tasks are held only after the submission, reduce tasks after their creation.
HeldIsCreated ==
    \A t \in Trackers, k \in Tasks : Holds(t, k) =>
        /\ submitted = "yes"
        /\ k \in Reduces => k[2] < created

\* A task in an unread reply has no thread in that tracker yet.
PolledIsFresh == \A t \in Trackers, k \in Tasks : poll[t] = k => thread[t][k] = "none"

\* The map tasks past their report.
MapsReported == {m \in Maps : \E t \in Trackers : thread[t][m] \in Reported}

\* The counter of map reports is not ahead of them.  The locations are of
\* different tasks, whose threads are past their reports, and a reported task
\* that stored an output has one.
LocationsReported ==
    /\ maps_completed <= Cardinality(MapsReported)
    /\ \A i, j \in DOMAIN locations : locations[i].task = locations[j].task => i = j
    /\ \A i \in DOMAIN locations : thread[locations[i].at][locations[i].task] \in Reported
    /\ \A t \in Trackers, m \in Maps :
          thread[t][m] \in Reported /\ m \in map_outputs[t]
            => \E i \in DOMAIN locations : locations[i].task = m

\* A task that stored its output, or had none, does not run again.
RanOnce ==
    \A t \in Trackers, m \in Maps : m \in map_outputs[t] \cup blank[t] => thread[t][m] \in Past

\* The file is there only after a reduce task was made.
FileIsCreated == output # NoFile => created > 0

\* A reduce task was made when the maps were done.
CreatedAfterMaps == created > 0 => maps_completed >= NumMaps

\* The reduce tasks past their report.
ReducesReported == {r \in Reduces : \E t \in Trackers : thread[t][r] \in Reported}

\* The counter of reduce reports is not ahead of them, and job_done_ is set
\* only when it has reached its end.
DoneCounted ==
    /\ reduces_completed <= Cardinality(ReducesReported)
    /\ job_done => reduces_completed >= NumReduces

\* The inductive invariant of a job submitted in peace.
QuietInv ==
    /\ JobInv
    /\ AssignedOnce
    /\ PendingOnce
    /\ HeldIsCreated
    /\ PolledIsFresh
    /\ LocationsReported
    /\ RanOnce
    /\ FileIsCreated
    /\ CreatedAfterMaps
    /\ DoneCounted

-----------------------------------------------------------------------------
\* The names of tasks and replies are different things.
LEMMA TaskFacts ==
    /\ Maps \cap Reduces = {}
    /\ Ready \notin Tasks /\ NoTask \notin Tasks /\ Ready # NoTask
    /\ \A i \in 0..(NumMaps - 1) : <<"m", i>> \in Maps
    /\ \A i \in 0..(NumReduces - 1) : <<"r", i>> \in Reduces
    /\ \A m \in Maps : m[2] \in 0..(NumMaps - 1) /\ m = <<"m", m[2]>>
    /\ \A r \in Reduces : r[2] \in 0..(NumReduces - 1) /\ r = <<"r", r[2]>>
BY DEF Maps, Reduces, Tasks, Ready, NoTask

\* A set of names indexed from 0 to n - 1 has n elements.
LEMMA IndexedCount ==
    ASSUME NEW n \in Nat, NEW c, NEW S,
           \A x : x \in S <=> \E i \in 0..(n - 1) : x = <<c, i>>
    PROVE  IsFiniteSet(S) /\ Cardinality(S) = n
<1> DEFINE I == 0..(n - 1)
           f == [i \in I |-> <<c, i>>]
<1>1. IsFiniteSet(I) /\ Cardinality(I) = n
  BY FS_Interval
<1>2. f \in Bijection(I, S)
  <2>1. f \in [I -> S] /\ (\A x \in S : \E i \in I : f[i] = x)
    OBVIOUS
  <2>2. \A i, j \in I : f[i] = f[j] => i = j
    OBVIOUS
  <2>3. QED
    BY <2>1, <2>2 DEF Bijection, Injection, Surjection, IsInjective
<1>3. QED
  BY <1>1, <1>2, FS_Bijection DEF ExistsBijection

\* The number of tasks.
LEMMA TaskCounts ==
    /\ IsFiniteSet(Maps) /\ Cardinality(Maps) = NumMaps
    /\ IsFiniteSet(Reduces) /\ Cardinality(Reduces) = NumReduces
    /\ IsFiniteSet(Tasks)
<1>1. IsFiniteSet(Maps) /\ Cardinality(Maps) = NumMaps
  <2>1. NumMaps \in Nat /\ \A x : x \in Maps <=> \E i \in 0..(NumMaps - 1) : x = <<"m", i>>
    BY JobAssumption DEF Maps
  <2>2. QED
    BY <2>1, IndexedCount
<1>2. IsFiniteSet(Reduces) /\ Cardinality(Reduces) = NumReduces
  <2>1. NumReduces \in Nat /\ \A x : x \in Reduces <=> \E i \in 0..(NumReduces - 1) : x = <<"r", i>>
    BY JobAssumption DEF Reduces
  <2>2. QED
    BY <2>1, IndexedCount
<1>3. QED
  BY <1>1, <1>2, FS_Union DEF Tasks

\* The counters of busy threads and of unread replies are numbers.
LEMMA CountsNat ==
    ASSUME NEW K \in {Maps, Reduces}
    PROVE  /\ IsFiniteSet(Busy(K)) /\ Cardinality(Busy(K)) \in Nat
           /\ IsFiniteSet(Polled(K)) /\ Cardinality(Polled(K)) \in Nat
<1>1. IsFiniteSet(Trackers \X K)
  BY FS_Product, TaskCounts, JobAssumption
<1>2. IsFiniteSet(Busy(K))
  BY <1>1, FS_Subset DEF Busy
<1>3. IsFiniteSet(Polled(K))
  BY FS_Subset, JobAssumption DEF Polled
<1>4. QED
  BY <1>2, <1>3, FS_CardinalityType

\* How a thread's step changes the number of busy threads.
LEMMA BusyGoto ==
    ASSUME thread \in [Trackers -> [Tasks -> Places]],
           NEW K \in {Maps, Reduces}, NEW t \in Trackers, NEW k \in Tasks, NEW l,
           ThreadGoto(t, k, l)
    PROVE  /\ Cardinality(Busy(K)') \in Nat
           /\ k \notin K => Busy(K)' = Busy(K)
           /\ (thread[t][k] \in Active <=> l \in Active) => Busy(K)' = Busy(K)
           /\ k \in K /\ thread[t][k] \notin Active /\ l \in Active
                => Cardinality(Busy(K)') = Cardinality(Busy(K)) + 1
           /\ k \in K /\ thread[t][k] \in Active /\ l \notin Active
                => Cardinality(Busy(K)') = Cardinality(Busy(K)) - 1
<1>1. K \subseteq Tasks
  BY DEF Tasks
<1>2. \A u \in Trackers, j \in Tasks :
        thread'[u][j] = IF u = t /\ j = k THEN l ELSE thread[u][j]
  BY DEF ThreadGoto
<1>3. \A p \in Trackers \X K :
        thread'[p[1]][p[2]] = IF p = <<t, k>> THEN l ELSE thread[p[1]][p[2]]
  <2> SUFFICES ASSUME NEW p \in Trackers \X K
               PROVE  thread'[p[1]][p[2]] = IF p = <<t, k>> THEN l ELSE thread[p[1]][p[2]]
    OBVIOUS
  <2>1. p[1] \in Trackers /\ p[2] \in Tasks /\ p = <<p[1], p[2]>>
    BY <1>1
  <2>2. p = <<t, k>> <=> p[1] = t /\ p[2] = k
    BY <2>1
  <2>3. QED
    BY <1>2, <2>1, <2>2
<1>4. IsFiniteSet(Busy(K))
  BY CountsNat
<1>5. \/ k \notin K
      \/ (thread[t][k] \in Active <=> l \in Active)
      => Busy(K)' = Busy(K)
  BY <1>3 DEF Busy
<1>6. k \in K /\ thread[t][k] \notin Active /\ l \in Active
        => Busy(K)' = Busy(K) \cup {<<t, k>>} /\ <<t, k>> \notin Busy(K)
  BY <1>3 DEF Busy
<1>7. k \in K /\ thread[t][k] \in Active /\ l \notin Active
        => Busy(K)' = Busy(K) \ {<<t, k>>} /\ <<t, k>> \in Busy(K)
  BY <1>3 DEF Busy
<1>8. k \in K /\ thread[t][k] \notin Active /\ l \in Active
        => Cardinality(Busy(K)') = Cardinality(Busy(K)) + 1
  <2> SUFFICES ASSUME k \in K /\ thread[t][k] \notin Active /\ l \in Active
               PROVE  Cardinality(Busy(K)') = Cardinality(Busy(K)) + 1
    OBVIOUS
  <2>1. Cardinality(Busy(K) \cup {<<t, k>>}) = Cardinality(Busy(K)) + 1
    BY <1>4, <1>6, FS_AddElement
  <2>2. QED
    BY <1>6, <2>1
<1>9. k \in K /\ thread[t][k] \in Active /\ l \notin Active
        => Cardinality(Busy(K)') = Cardinality(Busy(K)) - 1
  BY <1>4, <1>7, FS_RemoveElement
<1>10. IsFiniteSet(Busy(K)')
  BY <1>4, <1>5, <1>6, <1>7, FS_AddElement, FS_RemoveElement
<1>11. Cardinality(Busy(K)') \in Nat
  BY <1>10, FS_CardinalityType
<1>12. QED
  BY <1>5, <1>8, <1>9, <1>11

\* How a poll, or the reading of its reply, changes the number of unread
\* replies with a task of K.
LEMMA PolledGoto ==
    ASSUME poll \in [Trackers -> {Ready, NoTask} \cup Tasks],
           NEW K \in {Maps, Reduces}, NEW t \in Trackers, NEW x,
           poll' = [poll EXCEPT ![t] = x]
    PROVE  /\ Cardinality(Polled(K)') \in Nat
           /\ (poll[t] \in K <=> x \in K) => Polled(K)' = Polled(K)
           /\ poll[t] \notin K /\ x \in K => Cardinality(Polled(K)') = Cardinality(Polled(K)) + 1
           /\ poll[t] \in K /\ x \notin K => Cardinality(Polled(K)') = Cardinality(Polled(K)) - 1
<1>1. \A u \in Trackers : poll'[u] = IF u = t THEN x ELSE poll[u]
  OBVIOUS
<1>2. IsFiniteSet(Polled(K))
  BY CountsNat
<1>3. (poll[t] \in K <=> x \in K) => Polled(K)' = Polled(K)
  BY <1>1 DEF Polled
<1>4. poll[t] \notin K /\ x \in K => Polled(K)' = Polled(K) \cup {t} /\ t \notin Polled(K)
  BY <1>1 DEF Polled
<1>5. poll[t] \in K /\ x \notin K => Polled(K)' = Polled(K) \ {t} /\ t \in Polled(K)
  BY <1>1 DEF Polled
<1>6. poll[t] \notin K /\ x \in K => Cardinality(Polled(K)') = Cardinality(Polled(K)) + 1
  BY <1>2, <1>4, FS_AddElement
<1>7. poll[t] \in K /\ x \notin K => Cardinality(Polled(K)') = Cardinality(Polled(K)) - 1
  BY <1>2, <1>5, FS_RemoveElement
<1>8. IsFiniteSet(Polled(K)')
  BY <1>2, <1>3, <1>4, <1>5, FS_AddElement, FS_RemoveElement
<1>9. QED
  BY <1>3, <1>6, <1>7, <1>8, FS_CardinalityType

-----------------------------------------------------------------------------
\* The initial states satisfy the invariant.
LEMMA JobInitInv == JobInit => JobInv
<1> SUFFICES ASSUME JobInit
             PROVE  JobInv
  OBVIOUS
<1> USE JobAssumption DEF JobInit
<1>1. \A t \in Trackers, k \in Tasks : thread[t][k] = "none" /\ poll[t] = Ready
  OBVIOUS
<1>2. JobTypeOK
  <2>1. /\ pending_maps \in Seq(Maps) /\ locations \in Seq(Location)
        /\ rest \in [Trackers -> [Reduces -> Seq(Location)]]
        /\ got \in [Trackers -> [Reduces -> Seq(Maps)]]
    BY EmptySeq
  <2>2. thread \in [Trackers -> [Tasks -> {"none", "running", "write1", "write2", "report", "reply", "done", "lost"}]]
    OBVIOUS
  <2>3. /\ maps_completed \in 0..(2 * NumMaps - 1) /\ pushed \in 0..NumMaps
        /\ reduces_completed \in 0..NumReduces /\ created \in 0..NumReduces
    OBVIOUS
  <2>4. tracker \in [Trackers -> {"up", "wedged", "stopped", "dead"}]
    OBVIOUS
  <2>5. /\ poll \in [Trackers -> {Ready, NoTask} \cup Tasks]
        /\ map_outputs \in [Trackers -> SUBSET Maps] /\ blank \in [Trackers -> SUBSET Maps]
        /\ unopened \subseteq Reduces
    OBVIOUS
  <2>6. QED
    BY <2>1, <2>2, <2>3, <2>4, <2>5 DEF JobTypeOK
<1>3. Busy(Maps) = {} /\ Busy(Reduces) = {}
  <2>1. \A p \in Trackers \X Tasks : thread[p[1]][p[2]] \notin Active
    BY <1>1 DEF Active
  <2>2. QED
    BY <2>1 DEF Busy, Tasks
<1>4. Polled(Maps) = {} /\ Polled(Reduces) = {}
  BY TaskFacts DEF Polled, Tasks
<1>5. MapBudget /\ ReduceBudget
  BY <1>3, <1>4, FS_EmptySet DEF MapBudget, MapLimit, ReduceBudget
<1>6. SubmitPhases
  BY DEF SubmitPhases
<1>7. OutputOpened /\ Published
  BY <1>1 DEF OutputOpened, Past, Reported, Published, Tasks
<1>8. LocationsStored
  BY DEF LocationsStored, ToSet
<1>9. QED
  BY <1>2, <1>5, <1>6, <1>7, <1>8 DEF JobInv

\* SubmitJob goes forward, and no more reduce tasks are made than there are.
LEMMA PhasesStep ==
    ASSUME JobTypeOK, SubmitPhases, [JobNext]_vars
    PROVE  /\ SubmitPhases'
           /\ submitted' \in {"no", "pushing", "yes"} /\ pushed' \in 0..NumMaps
           /\ num_maps' \in {0, NumMaps} /\ num_reduces' \in {0, NumReduces}
           /\ created' \in 0..NumReduces
<1> USE JobAssumption DEF SubmitPhases, JobTypeOK
<1>1. CASE SubmitJob
  BY <1>1 DEF SubmitJob
<1>2. CASE PushOne /\ UNCHANGED <<num_maps, num_reduces, created>>
  BY <1>2 DEF PushOne
<1>3. CASE UNCHANGED <<submitted, num_maps, num_reduces, pushed, created>>
  BY <1>3
<1>4. ASSUME NEW t \in Trackers, AssignReduce(t)
      PROVE  /\ SubmitPhases'
             /\ submitted' \in {"no", "pushing", "yes"} /\ pushed' \in 0..NumMaps
             /\ num_maps' \in {0, NumMaps} /\ num_reduces' \in {0, NumReduces}
             /\ created' \in 0..NumReduces
  BY <1>4 DEF AssignReduce
<1>5. ASSUME NEW t \in Trackers, PollForTask(t)
      PROVE  \/ AssignReduce(t)
             \/ PushOne /\ UNCHANGED <<num_maps, num_reduces, created>>
             \/ UNCHANGED <<submitted, num_maps, num_reduces, pushed, created>>
  BY <1>5 DEF PollForTask, AssignMap, RacingAssignMap, AssignNothing
<1>6. ASSUME NEW t \in Trackers, NEW k \in Tasks, TaskThread(t, k)
      PROVE  UNCHANGED <<submitted, num_maps, num_reduces, pushed, created>>
  BY <1>6 DEF TaskThread, ExecuteMapTask, FetchMapOutput, OpenOutput, WriteOutput,
              ReportTaskComplete, ReportReply, TaskCompleted, jtVars
<1>7. ASSUME NEW t \in Trackers, PollReply(t) \/ CrossTalk(t) \/ TrackerStop(t) \/ TrackerKill(t)
      PROVE  UNCHANGED <<submitted, num_maps, num_reduces, pushed, created>>
  BY <1>7 DEF PollReply, CrossTalk, TrackerStop, TrackerKill, jtVars
<1>8. CASE SubmitMap
  BY <1>2, <1>8 DEF SubmitMap
<1>9. CASE UNCHANGED vars
  BY <1>3, <1>9 DEF vars, jtVars
<1>10. QED
  BY <1>1, <1>2, <1>3, <1>4, <1>5, <1>6, <1>7, <1>8, <1>9 DEF JobNext, PollThread

\* Every step keeps the two budgets.
LEMMA BudgetStep ==
    ASSUME JobInv, [JobNext]_vars
    PROVE  MapBudget' /\ ReduceBudget'
<1> DEFINE nM == Cardinality(Busy(Maps))
           nR == Cardinality(Busy(Reduces))
           pM == Cardinality(Polled(Maps))
           pR == Cardinality(Polled(Reduces))
<1>0. JobTypeOK /\ SubmitPhases /\ MapBudget /\ ReduceBudget
  BY DEF JobInv
<1>1. nM \in Nat /\ nR \in Nat /\ pM \in Nat /\ pR \in Nat
  BY CountsNat
<1>2. /\ thread \in [Trackers -> [Tasks -> Places]]
      /\ poll \in [Trackers -> {Ready, NoTask} \cup Tasks]
      /\ pending_maps \in Seq(Maps) /\ Len(pending_maps) \in Nat
      /\ maps_completed \in Nat /\ reduces_completed \in Nat /\ created \in Nat /\ pushed \in Nat
  <2>1. thread \in [Trackers -> [Tasks -> Places]]
    BY <1>0 DEF JobTypeOK, Places, Active, Past, Reported
  <2>2. pending_maps \in Seq(Maps) /\ Len(pending_maps) \in Nat
    BY <1>0 DEF JobTypeOK
  <2>3. QED
    BY <1>0, <2>1, <2>2, JobAssumption DEF JobTypeOK
<1>3. /\ maps_completed + nM + pM + Len(pending_maps) <= MapLimit
      /\ MapLimit \in Nat /\ (pushed' = pushed => MapLimit' = MapLimit)
      /\ reduces_completed + nR + pR <= created
  BY <1>0, <1>2 DEF MapBudget, ReduceBudget, MapLimit
<1>4. CASE UNCHANGED <<pending_maps, pushed, maps_completed, reduces_completed, created, poll, thread>>
  BY <1>0, <1>4 DEF MapBudget, MapLimit, ReduceBudget, Busy, Polled
<1>5. CASE SubmitJob
  <2>1. Busy(Maps)' = Busy(Maps) /\ Busy(Reduces)' = Busy(Reduces)
        /\ Polled(Maps)' = Polled(Maps) /\ Polled(Reduces)' = Polled(Reduces)
    BY <1>5 DEF SubmitJob, ttVars, Busy, Polled
  <2>2. QED
    BY <1>1, <1>2, <1>3, <1>5, <2>1, SMTT(30) DEF SubmitJob, MapBudget, ReduceBudget
<1>6. CASE SubmitMap
  <2>1. Busy(Maps)' = Busy(Maps) /\ Busy(Reduces)' = Busy(Reduces)
        /\ Polled(Maps)' = Polled(Maps) /\ Polled(Reduces)' = Polled(Reduces)
    BY <1>6 DEF SubmitMap, ttVars, Busy, Polled
  <2>2. <<"m", pushed>> \in Maps
    <3>1. pushed \in 0..(NumMaps - 1)
      BY <1>0, <1>2, <1>6, JobAssumption DEF SubmitMap, PushOne, SubmitPhases
    <3>2. QED
      BY <3>1, TaskFacts
  <2>3. Len(pending_maps') = Len(pending_maps) + 1 /\ pushed' = pushed + 1
    BY <1>2, <1>6, <2>2, AppendProperties DEF SubmitMap, PushOne
  <2>4. UNCHANGED <<maps_completed, reduces_completed, created>>
    BY <1>6 DEF SubmitMap
  <2>5. QED
    BY <1>1, <1>2, <1>3, <2>1, <2>3, <2>4, SMTT(30) DEF MapBudget, ReduceBudget, MapLimit
<1>7. ASSUME NEW t \in Trackers, PollForTask(t)
      PROVE  MapBudget' /\ ReduceBudget'
  <2>1. poll[t] = Ready /\ thread' = thread
    BY <1>7 DEF PollForTask
  <2>2. Busy(Maps)' = Busy(Maps) /\ Busy(Reduces)' = Busy(Reduces)
    BY <2>1 DEF Busy
  <2>3. poll[t] \notin Maps /\ poll[t] \notin Reduces
    BY <2>1, TaskFacts DEF Tasks
  <2>4. ASSUME pending_maps # <<>>
        PROVE  /\ Last(pending_maps) \in Maps /\ Last(pending_maps) \notin Reduces
               /\ Len(Front(pending_maps)) = Len(pending_maps) - 1
               /\ Len(pending_maps) > 0 /\ pushed > 0
    <3>1. /\ Last(pending_maps) \in Maps /\ Len(Front(pending_maps)) = Len(pending_maps) - 1
          /\ Len(pending_maps) > 0
      BY <1>2, <2>4, PopFacts
    <3>2. pushed > 0
      BY <1>1, <1>2, <1>3, <3>1 DEF MapLimit
    <3>3. QED
      BY <3>1, <3>2, TaskFacts
  <2>5. ASSUME AssignMap(t) \/ RacingAssignMap(t)
        PROVE  /\ Cardinality(Polled(Maps)') = pM + 1 /\ Polled(Reduces)' = Polled(Reduces)
               /\ UNCHANGED <<maps_completed, reduces_completed, created>>
               /\ Len(pending_maps) > 0 /\ pushed > 0
    <3>1. /\ pending_maps # <<>> /\ poll' = [poll EXCEPT ![t] = Last(pending_maps)]
          /\ UNCHANGED <<maps_completed, reduces_completed, created>>
      BY <2>5 DEF AssignMap, RacingAssignMap
    <3>2. QED
      BY <1>2, <2>3, <2>4, <3>1, PolledGoto
  <2>6. CASE AssignMap(t)
    <3>1. Len(pending_maps') = Len(pending_maps) - 1 /\ pushed' = pushed
      BY <2>4, <2>6 DEF AssignMap
    <3>2. QED
      BY <1>1, <1>2, <1>3, <2>2, <2>5, <2>6, <3>1 DEF MapBudget, ReduceBudget
  <2>7. CASE RacingAssignMap(t)
    <3>1. pushed' = pushed + 1
      BY <2>7 DEF RacingAssignMap, PushOne
    <3>2. <<"m", pushed>> \in Maps
      <4>1. pushed \in 0..(NumMaps - 1)
        BY <1>0, <1>2, <2>7, JobAssumption DEF RacingAssignMap, PushOne, SubmitPhases
      <4>2. QED
        BY <4>1, TaskFacts
    <3>3. Len(Append(pending_maps, <<"m", pushed>>)) = Len(pending_maps) + 1
      BY <1>2, <3>2, AppendProperties
    <3>4. Len(pending_maps') \in Nat /\ Len(pending_maps') <= Len(pending_maps) + 1
      BY <1>2, <2>4, <2>7, <3>3 DEF RacingAssignMap
    <3>5. maps_completed + nM + (pM + 1) + Len(pending_maps') <= 2 * (pushed + 1) - 1
      <4>1. pushed > 0 /\ pushed \in Nat
        BY <1>2, <2>5, <2>7
      <4>2. maps_completed + nM + pM + Len(pending_maps) <= 2 * pushed - 1
        BY <1>3, <4>1 DEF MapLimit
      <4>3. QED
        BY <1>1, <1>2, <3>4, <4>1, <4>2, SMTT(30)
    <3>6. pushed + 1 # 0
      BY <1>2
    <3>7. MapBudget'
      BY <2>2, <2>5, <2>7, <3>1, <3>5, <3>6 DEF MapBudget, MapLimit
    <3>8. ReduceBudget'
      BY <1>3, <2>2, <2>5, <2>7 DEF ReduceBudget
    <3>9. QED
      BY <3>7, <3>8
  <2>8. CASE AssignReduce(t)
    <3>1. <<"r", created>> \in Reduces /\ <<"r", created>> \notin Maps
      BY <1>0, <1>2, <2>8, TaskFacts DEF AssignReduce, SubmitPhases, JobTypeOK
    <3>2. Cardinality(Polled(Reduces)') = pR + 1 /\ Polled(Maps)' = Polled(Maps)
      BY <1>2, <2>3, <2>8, <3>1, PolledGoto DEF AssignReduce
    <3>3. created' = created + 1 /\ UNCHANGED <<pending_maps, pushed, maps_completed, reduces_completed>>
      BY <2>8 DEF AssignReduce
    <3>4. QED
      BY <1>1, <1>2, <1>3, <2>2, <3>2, <3>3, SMTT(30) DEF MapBudget, ReduceBudget
  <2>9. CASE AssignNothing(t)
    <3>1. NoTask \notin Maps /\ NoTask \notin Reduces
      BY TaskFacts DEF Tasks
    <3>2. Polled(Maps)' = Polled(Maps) /\ Polled(Reduces)' = Polled(Reduces)
      BY <1>2, <2>3, <2>9, <3>1, PolledGoto DEF AssignNothing
    <3>3. UNCHANGED <<pending_maps, pushed, maps_completed, reduces_completed, created>>
      BY <2>9 DEF AssignNothing
    <3>4. QED
      BY <1>3, <2>2, <3>2, <3>3 DEF MapBudget, ReduceBudget
  <2>10. QED
    BY <1>7, <2>6, <2>7, <2>8, <2>9 DEF PollForTask

<1>8. ASSUME NEW t \in Trackers, PollReply(t)
      PROVE  MapBudget' /\ ReduceBudget'
  <2>0. /\ UNCHANGED <<pending_maps, pushed, maps_completed, reduces_completed, created>>
        /\ poll' = [poll EXCEPT ![t] = Ready] /\ Ready \notin Maps /\ Ready \notin Reduces
    BY <1>8, TaskFacts DEF PollReply, jtVars, Tasks
  <2>1. CASE poll[t] \notin Tasks
    <3>1. thread' = thread
      BY <1>8, <2>1 DEF PollReply
    <3>2. poll[t] \notin Maps /\ poll[t] \notin Reduces
      BY <2>1 DEF Tasks
    <3>3. Polled(Maps)' = Polled(Maps) /\ Polled(Reduces)' = Polled(Reduces)
      BY <1>2, <2>0, <3>2, PolledGoto
    <3>4. Busy(Maps)' = Busy(Maps) /\ Busy(Reduces)' = Busy(Reduces)
      BY <3>1 DEF Busy
    <3>5. QED
      BY <1>3, <2>0, <3>3, <3>4 DEF MapBudget, ReduceBudget
  <2>2. CASE poll[t] \in Tasks
    <3>1. PICK k \in Tasks : k = poll[t]
      BY <2>2
    <3>2. ThreadGoto(t, k, "running")
      BY <1>8, <2>2, <3>1 DEF PollReply
    <3>3. "running" \in Active
      BY DEF Active
    <3>4. ASSUME NEW K \in {Maps, Reduces}
          PROVE  /\ Cardinality(Busy(K)') \in Nat /\ Cardinality(Polled(K)') \in Nat
                 /\ Cardinality(Busy(K)') + Cardinality(Polled(K)')
                      <= Cardinality(Busy(K)) + Cardinality(Polled(K))
      <4>1. /\ Cardinality(Busy(K)') \in Nat /\ Cardinality(Polled(K)') \in Nat
            /\ Cardinality(Busy(K)) \in Nat /\ Cardinality(Polled(K)) \in Nat
        BY <1>2, <2>0, <3>2, BusyGoto, PolledGoto, CountsNat
      <4>2. CASE k \in K
        <5>1. Cardinality(Polled(K)') = Cardinality(Polled(K)) - 1
          BY <1>2, <2>0, <3>1, <4>2, PolledGoto
        <5>2. Busy(K)' = Busy(K) \/ Cardinality(Busy(K)') = Cardinality(Busy(K)) + 1
          BY <1>2, <3>2, <3>3, <4>2, BusyGoto
        <5>3. QED
          BY <4>1, <5>1, <5>2
      <4>3. CASE k \notin K
        <5>1. Polled(K)' = Polled(K)
          BY <1>2, <2>0, <3>1, <4>3, PolledGoto
        <5>2. Busy(K)' = Busy(K)
          BY <1>2, <3>2, <4>3, BusyGoto
        <5>3. QED
          BY <4>1, <5>1, <5>2
      <4>4. QED
        BY <4>2, <4>3
    <3>5. /\ Cardinality(Busy(Maps)') \in Nat /\ Cardinality(Polled(Maps)') \in Nat
          /\ Cardinality(Busy(Maps)') + Cardinality(Polled(Maps)') <= nM + pM
      BY <3>4
    <3>6. /\ Cardinality(Busy(Reduces)') \in Nat /\ Cardinality(Polled(Reduces)') \in Nat
          /\ Cardinality(Busy(Reduces)') + Cardinality(Polled(Reduces)') <= nR + pR
      BY <3>4
    <3>7. MapBudget'
      <4>1. maps_completed + Cardinality(Busy(Maps)') + Cardinality(Polled(Maps)') + Len(pending_maps)
              <= MapLimit
        <5> HIDE DEF nM, pM
        <5>1. QED
          BY <1>1, <1>2, <1>3, <3>5, SMTT(30)
      <4>2. QED
        BY <1>3, <2>0, <4>1 DEF MapBudget
    <3>8. ReduceBudget'
      BY <1>1, <1>2, <1>3, <2>0, <3>6, SMTT(30) DEF ReduceBudget
    <3>9. QED
      BY <3>7, <3>8
  <2>3. QED
    BY <2>1, <2>2
<1>9. ASSUME NEW t \in Trackers, NEW k \in Tasks, NEW l \in Places, ThreadGoto(t, k, l),
             thread[t][k] \in Active <=> l \in Active,
             UNCHANGED <<jtVars, poll>>
      PROVE  MapBudget' /\ ReduceBudget'
  <2>1. Busy(Maps)' = Busy(Maps) /\ Busy(Reduces)' = Busy(Reduces)
    BY <1>2, <1>9, BusyGoto
  <2>2. Polled(Maps)' = Polled(Maps) /\ Polled(Reduces)' = Polled(Reduces)
    BY <1>9 DEF Polled
  <2>3. QED
    BY <1>3, <1>9, <2>1, <2>2 DEF MapBudget, ReduceBudget, jtVars
<1>10. ASSUME NEW t \in Trackers, NEW k \in Tasks, ExecuteMapTask(t, k)
       PROVE  MapBudget' /\ ReduceBudget'
  <2>1. ThreadGoto(t, k, "report") /\ thread[t][k] = "running" /\ UNCHANGED <<jtVars, poll>>
    BY <1>10 DEF ExecuteMapTask
  <2>2. "report" \in Places /\ (thread[t][k] \in Active <=> "report" \in Active)
    BY <2>1 DEF Places, Active
  <2>3. QED
    BY <1>9, <2>1, <2>2
<1>11. ASSUME NEW t \in Trackers, NEW k \in Reduces, FetchMapOutput(t, k)
       PROVE  MapBudget' /\ ReduceBudget'
  BY <1>4, <1>11 DEF FetchMapOutput, jtVars
<1>12. ASSUME NEW t \in Trackers, NEW k \in Tasks, OpenOutput(t, k) \/ WriteOutput(t, k)
       PROVE  MapBudget' /\ ReduceBudget'
  <2>1. PICK l \in Active : ThreadGoto(t, k, l) /\ thread[t][k] \in Active /\ UNCHANGED <<jtVars, poll>>
    BY <1>12 DEF OpenOutput, WriteOutput, Active
  <2>2. l \in Places
    BY <2>1 DEF Places
  <2>3. QED
    BY <1>9, <2>1, <2>2
<1>13. ASSUME NEW t \in Trackers, NEW k \in Tasks, ReportTaskComplete(t, k)
       PROVE  MapBudget' /\ ReduceBudget'
  <2>1. PICK l \in {"reply", "lost"} : ThreadGoto(t, k, l)
    BY <1>13 DEF ReportTaskComplete
  <2>2. thread[t][k] = "report" /\ thread[t][k] \in Active /\ l \notin Active
    BY <1>13, <2>1 DEF ReportTaskComplete, Active
  <2>3. UNCHANGED <<pending_maps, pushed, created, poll>>
    BY <1>13 DEF ReportTaskComplete, TaskCompleted, jtVars
  <2>4. Polled(Maps)' = Polled(Maps) /\ Polled(Reduces)' = Polled(Reduces)
    BY <2>3 DEF Polled
  <2>5. CASE k \in Maps
    <3>1. k \notin Reduces
      BY <2>5, TaskFacts
    <3>2. Cardinality(Busy(Maps)') = nM - 1 /\ Busy(Reduces)' = Busy(Reduces)
      BY <1>2, <2>1, <2>2, <2>5, <3>1, BusyGoto
    <3>3. maps_completed' \in {maps_completed, maps_completed + 1} /\ UNCHANGED reduces_completed
      BY <1>13, <3>1 DEF ReportTaskComplete, TaskCompleted, jtVars
    <3>4. QED
      BY <1>1, <1>2, <1>3, <2>3, <2>4, <3>2, <3>3, SMTT(30) DEF MapBudget, ReduceBudget
  <2>6. CASE k \in Reduces
    <3>1. k \notin Maps
      BY <2>6, TaskFacts
    <3>2. Cardinality(Busy(Reduces)') = nR - 1 /\ Busy(Maps)' = Busy(Maps)
      BY <1>2, <2>1, <2>2, <2>6, <3>1, BusyGoto
    <3>3. reduces_completed' \in {reduces_completed, reduces_completed + 1} /\ UNCHANGED maps_completed
      BY <1>13, <3>1 DEF ReportTaskComplete, TaskCompleted, jtVars
    <3>4. MapBudget'
      BY <1>3, <2>3, <2>4, <3>2, <3>3 DEF MapBudget
    <3>5. ReduceBudget'
      BY <1>1, <1>2, <1>3, <2>3, <2>4, <3>2, <3>3, SMTT(30) DEF ReduceBudget
    <3>6. QED
      BY <3>4, <3>5
  <2>7. QED
    BY <2>5, <2>6 DEF Tasks
<1>14. ASSUME NEW t \in Trackers, NEW k \in Tasks, ReportReply(t, k)
       PROVE  MapBudget' /\ ReduceBudget'
  <2>1. ThreadGoto(t, k, "done") /\ thread[t][k] = "reply" /\ UNCHANGED <<jtVars, poll>>
    BY <1>14 DEF ReportReply
  <2>2. "done" \in Places /\ (thread[t][k] \in Active <=> "done" \in Active)
    BY <2>1 DEF Places, Active, Past, Reported
  <2>3. QED
    BY <1>9, <2>1, <2>2
<1>15. ASSUME NEW t \in Trackers, CrossTalk(t) \/ TrackerStop(t) \/ TrackerKill(t)
       PROVE  MapBudget' /\ ReduceBudget'
  BY <1>4, <1>15 DEF CrossTalk, TrackerStop, TrackerKill, jtVars
<1>16. CASE UNCHANGED vars
  BY <1>4, <1>16 DEF vars, jtVars, ttVars
<1>17. QED
  BY <1>5, <1>6, <1>7, <1>8, <1>10, <1>11, <1>12, <1>13, <1>14, <1>15, <1>16
     DEF JobNext, PollThread, TaskThread

\* The type invariant without the bounds of the two counters, and without the
\* file.
JobShape ==
    /\ pending_maps \in Seq(Maps)
    /\ maps_completed \in Nat /\ reduces_completed \in Nat
    /\ locations \in Seq(Location) /\ job_done \in BOOLEAN
    /\ tracker \in [Trackers -> {"up", "wedged", "stopped", "dead"}]
    /\ poll \in [Trackers -> {Ready, NoTask} \cup Tasks]
    /\ thread \in [Trackers -> [Tasks -> Places]]
    /\ rest \in [Trackers -> [Reduces -> Seq(Location)]]
    /\ got \in [Trackers -> [Reduces -> Seq(Maps)]]
    /\ map_outputs \in [Trackers -> SUBSET Maps] /\ blank \in [Trackers -> SUBSET Maps]
    /\ unopened \in SUBSET Reduces

\* The names of the places are the ones of the type invariant.
LEMMA PlacesAre ==
    Places = {"none", "running", "write1", "write2", "report", "reply", "done", "lost"}
BY DEF Places, Active, Past, Reported

LEMMA ShapeOf == JobTypeOK => JobShape
BY PlacesAre, JobAssumption DEF JobTypeOK, JobShape

\* Every step keeps the shape.
LEMMA ShapeStep ==
    ASSUME JobInv, [JobNext]_vars
    PROVE  JobShape'
<1>0. JobShape /\ SubmitPhases /\ JobTypeOK
  BY ShapeOf DEF JobInv
<1> USE DEF JobShape
<1>1. CASE SubmitJob
  BY <1>0, <1>1 DEF SubmitJob, ttVars
<1>2. pushed < NumMaps => <<"m", pushed>> \in Maps
  BY <1>0, TaskFacts, JobAssumption DEF JobTypeOK
<1>3. CASE SubmitMap
  <2>1. pending_maps' \in Seq(Maps)
    BY <1>0, <1>2, <1>3, AppendProperties DEF SubmitMap, PushOne, SubmitPhases
  <2>2. QED
    BY <1>0, <1>3, <2>1 DEF SubmitMap, ttVars
<1>4. ASSUME NEW t \in Trackers, PollForTask(t)
      PROVE  JobShape'
  <2>0. UNCHANGED <<tracker, thread, got, map_outputs, blank, unopened>>
    BY <1>4 DEF PollForTask
  <2>1. CASE AssignMap(t) \/ RacingAssignMap(t)
    <3>1. pending_maps # <<>> /\ poll' = [poll EXCEPT ![t] = Last(pending_maps)]
      BY <2>1 DEF AssignMap, RacingAssignMap
    <3>2. Last(pending_maps) \in Tasks /\ Front(pending_maps) \in Seq(Maps)
      BY <1>0, <3>1, PopFacts DEF Tasks
    <3>3. RacingAssignMap(t) => Append(pending_maps, <<"m", pushed>>) \in Seq(Maps)
      BY <1>0, <1>2, AppendProperties DEF RacingAssignMap, PushOne, SubmitPhases
    <3>4. pending_maps' \in Seq(Maps)
      BY <2>1, <3>2, <3>3 DEF AssignMap, RacingAssignMap
    <3>5. poll' \in [Trackers -> {Ready, NoTask} \cup Tasks]
      BY <1>0, <3>1, <3>2
    <3>6. UNCHANGED <<maps_completed, reduces_completed, locations, job_done, rest>>
      BY <2>1 DEF AssignMap, RacingAssignMap
    <3>7. QED
      BY <1>0, <2>0, <3>4, <3>5, <3>6
  <2>2. CASE AssignReduce(t)
    <3>1. <<"r", created>> \in Reduces
      BY <1>0, <2>2, TaskFacts, JobAssumption DEF AssignReduce, JobTypeOK
    <3>2. poll' \in [Trackers -> {Ready, NoTask} \cup Tasks]
      BY <1>0, <2>2, <3>1 DEF AssignReduce, Tasks
    <3>3. rest' \in [Trackers -> [Reduces -> Seq(Location)]]
      BY <1>0, <2>2, <3>1 DEF AssignReduce
    <3>4. QED
      BY <1>0, <2>0, <2>2, <3>2, <3>3 DEF AssignReduce
  <2>3. CASE AssignNothing(t)
    <3>1. poll' \in [Trackers -> {Ready, NoTask} \cup Tasks]
      BY <1>0, <2>3 DEF AssignNothing
    <3>2. job_done' \in BOOLEAN
      BY <1>0, <2>3 DEF AssignNothing
    <3>3. QED
      BY <1>0, <2>0, <2>3, <3>1, <3>2 DEF AssignNothing
  <2>4. QED
    BY <1>4, <2>1, <2>2, <2>3 DEF PollForTask
<1>5. ASSUME NEW t \in Trackers, NEW k \in Tasks, NEW l \in Places, ThreadGoto(t, k, l)
      PROVE  thread' \in [Trackers -> [Tasks -> Places]]
  BY <1>0, <1>5 DEF ThreadGoto
<1>6. ASSUME NEW t \in Trackers, PollReply(t)
      PROVE  JobShape'
  <2>1. thread' \in [Trackers -> [Tasks -> Places]]
    <3>1. CASE poll[t] \in Tasks
      <4>1. ThreadGoto(t, poll[t], "running")
        BY <1>6, <3>1 DEF PollReply
      <4>2. "running" \in Places
        BY PlacesAre
      <4>3. QED
        BY <1>5, <3>1, <4>1, <4>2
    <3>2. CASE poll[t] \notin Tasks
      BY <1>0, <1>6, <3>2 DEF PollReply
    <3>3. QED
      BY <3>1, <3>2
  <2>2. poll' \in [Trackers -> {Ready, NoTask} \cup Tasks]
    BY <1>0, <1>6 DEF PollReply
  <2>3. QED
    BY <1>0, <1>6, <2>1, <2>2 DEF PollReply, jtVars
<1>7. ASSUME NEW t \in Trackers, NEW m \in Maps, ExecuteMapTask(t, m)
      PROVE  JobShape'
  <2>1. thread' \in [Trackers -> [Tasks -> Places]]
    BY <1>5, <1>7, PlacesAre DEF ExecuteMapTask, Tasks
  <2>2. map_outputs' \in [Trackers -> SUBSET Maps] /\ blank' \in [Trackers -> SUBSET Maps]
    <3>1. CASE map_outputs' = [map_outputs EXCEPT ![t] = @ \cup {m}] /\ blank' = blank
      BY <1>0, <3>1
    <3>2. CASE blank' = [blank EXCEPT ![t] = @ \cup {m}] /\ map_outputs' = map_outputs
      BY <1>0, <3>2
    <3>3. QED
      BY <1>7, <3>1, <3>2 DEF ExecuteMapTask
  <2>3. QED
    BY <1>0, <1>7, <2>1, <2>2 DEF ExecuteMapTask, jtVars
<1>8. ASSUME NEW t \in Trackers, NEW r \in Reduces, FetchMapOutput(t, r)
      PROVE  JobShape'
  <2>1. rest[t][r] \in Seq(Location) /\ rest[t][r] # <<>> /\ got[t][r] \in Seq(Maps)
    BY <1>0, <1>8 DEF FetchMapOutput
  <2>2. Head(rest[t][r]) \in Location /\ Tail(rest[t][r]) \in Seq(Location)
    BY <2>1, HeadTailProperties
  <2>3. Head(rest[t][r]).task \in Maps
    BY <2>2 DEF Location
  <2>4. Append(got[t][r], Head(rest[t][r]).task) \in Seq(Maps)
    BY <2>1, <2>3, AppendProperties
  <2>5. PICK g \in Seq(Maps) : got' = [got EXCEPT ![t][r] = g]
    BY <1>8, <2>1, <2>4 DEF FetchMapOutput
  <2>6. got' \in [Trackers -> [Reduces -> Seq(Maps)]]
    BY <1>0, <2>5
  <2>7. rest' \in [Trackers -> [Reduces -> Seq(Location)]]
    BY <1>0, <1>8, <2>2 DEF FetchMapOutput
  <2>8. QED
    BY <1>0, <1>8, <2>6, <2>7 DEF FetchMapOutput, jtVars
<1>9. ASSUME NEW t \in Trackers, NEW r \in Reduces, OpenOutput(t, r) \/ WriteOutput(t, r)
      PROVE  JobShape'
  <2>1. PICK l \in Places : ThreadGoto(t, r, l)
    BY <1>9, PlacesAre DEF OpenOutput, WriteOutput
  <2>2. thread' \in [Trackers -> [Tasks -> Places]]
    BY <1>5, <2>1 DEF Tasks
  <2>3. unopened' \in SUBSET Reduces
    BY <1>0, <1>9 DEF OpenOutput, WriteOutput
  <2>4. QED
    BY <1>0, <1>9, <2>2, <2>3 DEF OpenOutput, WriteOutput, jtVars
<1>10. ASSUME NEW t \in Trackers, NEW k \in Tasks, ReportTaskComplete(t, k)
       PROVE  JobShape'
  <2>1. thread' \in [Trackers -> [Tasks -> Places]]
    BY <1>5, <1>10, PlacesAre DEF ReportTaskComplete
  <2>2. k \in Maps => [task |-> k, at |-> t, partition |-> 0] \in Location
    BY DEF Location
  <2>3. locations' \in Seq(Location)
    <3>1. k \in Maps => Append(locations, [task |-> k, at |-> t, partition |-> 0]) \in Seq(Location)
      BY <1>0, <2>2, AppendProperties
    <3>2. \/ locations' = locations
          \/ k \in Maps /\ locations' = Append(locations, [task |-> k, at |-> t, partition |-> 0])
      BY <1>10 DEF ReportTaskComplete, TaskCompleted, jtVars
    <3>3. QED
      BY <1>0, <3>1, <3>2
  <2>4. maps_completed' \in Nat /\ reduces_completed' \in Nat
    BY <1>0, <1>10 DEF ReportTaskComplete, TaskCompleted, jtVars
  <2>5. pending_maps' = pending_maps /\ job_done' = job_done
    BY <1>10 DEF ReportTaskComplete, TaskCompleted, jtVars
  <2>6. QED
    BY <1>0, <1>10, <2>1, <2>3, <2>4, <2>5 DEF ReportTaskComplete
<1>11. ASSUME NEW t \in Trackers, NEW k \in Tasks, ReportReply(t, k)
       PROVE  JobShape'
  <2>1. thread' \in [Trackers -> [Tasks -> Places]]
    BY <1>5, <1>11, PlacesAre DEF ReportReply
  <2>2. QED
    BY <1>0, <1>11, <2>1 DEF ReportReply, jtVars
<1>12. ASSUME NEW t \in Trackers, CrossTalk(t) \/ TrackerStop(t) \/ TrackerKill(t)
       PROVE  JobShape'
  <2>1. tracker' \in [Trackers -> {"up", "wedged", "stopped", "dead"}]
    BY <1>0, <1>12 DEF CrossTalk, TrackerStop, TrackerKill
  <2>2. QED
    BY <1>0, <1>12, <2>1 DEF CrossTalk, TrackerStop, TrackerKill, jtVars
<1>13. CASE UNCHANGED vars
  BY <1>0, <1>13 DEF vars, jtVars, ttVars
<1>14. QED
  BY <1>1, <1>3, <1>4, <1>6, <1>7, <1>8, <1>9, <1>10, <1>11, <1>12, <1>13
     DEF JobNext, PollThread, TaskThread

\* The counters stay within what the job can produce.
LEMMA CountersStep ==
    ASSUME JobInv, [JobNext]_vars
    PROVE  /\ maps_completed' \in 0..(2 * NumMaps - 1)
           /\ reduces_completed' \in 0..NumReduces
<1>1. maps_completed' \in Nat /\ reduces_completed' \in Nat /\ Len(pending_maps') \in Nat
  BY ShapeStep, LenProperties DEF JobShape
<1>2. /\ Cardinality(Busy(Maps)') \in Nat /\ Cardinality(Busy(Reduces)') \in Nat
      /\ Cardinality(Polled(Maps)') \in Nat /\ Cardinality(Polled(Reduces)') \in Nat
  <2>1. IsFiniteSet(Trackers \X Maps) /\ IsFiniteSet(Trackers \X Reduces)
    BY FS_Product, TaskCounts, JobAssumption
  <2>2. IsFiniteSet(Busy(Maps)') /\ IsFiniteSet(Busy(Reduces)')
    BY <2>1, FS_Subset DEF Busy
  <2>3. IsFiniteSet(Polled(Maps)') /\ IsFiniteSet(Polled(Reduces)')
    BY FS_Subset, JobAssumption DEF Polled
  <2>4. QED
    BY <2>2, <2>3, FS_CardinalityType
<1>3. pushed' \in 0..NumMaps /\ created' \in 0..NumReduces
  BY PhasesStep DEF JobInv
<1>4. NumMaps \in Nat /\ NumMaps > 0 /\ NumReduces \in Nat
  BY JobAssumption
<1>5. MapLimit' \in Nat /\ MapLimit' <= 2 * NumMaps - 1
  <2>1. pushed' \in Nat /\ pushed' <= NumMaps
    BY <1>3, <1>4
  <2>2. CASE pushed' = 0
    BY <1>4, <2>2 DEF MapLimit
  <2>3. CASE pushed' # 0
    <3>1. MapLimit' = 2 * pushed' - 1
      BY <2>3 DEF MapLimit
    <3>2. QED
      <4>1. \A i, j \in Nat : i > 0 /\ i <= j => 2 * i - 1 \in Nat /\ 2 * i - 1 <= 2 * j - 1
        OBVIOUS
      <4>2. pushed' > 0
        BY <2>1, <2>3
      <4>3. QED
        BY <1>4, <2>1, <3>1, <4>1, <4>2
  <2>4. QED
    BY <2>2, <2>3
<1>6. maps_completed' <= MapLimit'
  BY <1>1, <1>2, <1>5, BudgetStep, SMTT(30) DEF MapBudget
<1>7. reduces_completed' <= created'
  BY <1>1, <1>2, <1>3, <1>4, BudgetStep DEF ReduceBudget
<1>8. maps_completed' <= 2 * NumMaps - 1
  BY <1>1, <1>4, <1>5, <1>6
<1>9. QED
  BY <1>1, <1>3, <1>4, <1>7, <1>8

-----------------------------------------------------------------------------
\* A write keeps the file a file.
LEMMA PutFile ==
    ASSUME NEW f \in File, NEW i \in {1, 2}, NEW ms \in Seq(Maps)
    PROVE  Put(f, i, Half(i, ms)) \in File
<1> DEFINE n == IF Len(f) < i THEN i ELSE Len(f)
           S == (0..2) \X Seq(Maps)
<1>1. Len(f) \in Nat /\ f \in [1..Len(f) -> S]
  BY LenProperties DEF File
<1>2. n \in Nat
  BY <1>1
<1>3. Half(i, ms) \in S /\ Hole \in S
  <2>1. i \in 0..2 /\ 0 \in 0..2 /\ <<>> \in Seq(Maps)
    BY EmptySeq
  <2>2. QED
    BY <2>1 DEF Half, Hole
<1>4. \A j \in 1..n : (IF j = i THEN Half(i, ms) ELSE IF j <= Len(f) THEN f[j] ELSE Hole) \in S
  <2> HIDE DEF S
  <2>1. \A j \in 1..n : j <= Len(f) => f[j] \in S
    BY <1>1, <1>2
  <2>2. QED
    BY <1>3, <2>1
<1>5. Put(f, i, Half(i, ms)) \in [1..n -> S]
  BY <1>4 DEF Put
<1>6. QED
  <2> HIDE DEF S
  <2>1. Put(f, i, Half(i, ms)) \in Seq(S)
    BY <1>2, <1>5
  <2>2. QED
    BY <2>1 DEF File, S

\* An opened file stays a file, and a reduce task past its shuffle has opened it
\* or could not.
LEMMA OutputStep ==
    ASSUME JobInv, [JobNext]_vars
    PROVE  /\ OutputOpened'
           /\ output' = NoFile \/ output' \in File
<1> DEFINE P == OutputOpened' /\ (output' = NoFile \/ output' \in File)
<1>0. /\ JobShape /\ OutputOpened
      /\ output = NoFile \/ output \in File
  BY ShapeOf DEF JobInv, JobTypeOK, File
<1>1. CASE UNCHANGED <<thread, output, unopened>>
  BY <1>0, <1>1 DEF OutputOpened
<1>2. CASE SubmitJob \/ SubmitMap \/ UNCHANGED vars
  BY <1>1, <1>2 DEF SubmitJob, SubmitMap, vars, ttVars
<1>3. ASSUME NEW t \in Trackers,
             PollForTask(t) \/ CrossTalk(t) \/ TrackerStop(t) \/ TrackerKill(t)
      PROVE  UNCHANGED <<thread, output, unopened>>
  BY <1>3 DEF PollForTask, CrossTalk, TrackerStop, TrackerKill
<1>4. ASSUME NEW t \in Trackers, NEW k \in Tasks, NEW l, ThreadGoto(t, k, l), output' = output,
             unopened \subseteq unopened',
             \/ k \in Maps \/ l = "running"
             \/ l \in Past /\ (thread[t][k] \in Past \/ k \in unopened')
      PROVE  P
  <2>1. \A u \in Trackers, j \in Tasks :
          thread'[u][j] = IF u = t /\ j = k THEN l ELSE thread[u][j]
    BY <1>0, <1>4 DEF ThreadGoto, JobShape
  <2>2. \A r \in Reduces : r \in Tasks /\ r \notin Maps
    BY TaskFacts DEF Tasks
  <2>3. OutputOpened'
    <3> SUFFICES ASSUME NEW u \in Trackers, NEW r \in Reduces
                 PROVE  /\ thread'[u][r] \in {"write1", "write2"} => output \in File
                        /\ thread'[u][r] \in Past => output \in File \/ r \in unopened'
      BY <1>4 DEF OutputOpened
    <3>1. CASE u = t /\ r = k
      <4>1. thread'[u][r] = l /\ k \in Reduces /\ k \notin Maps
        BY <2>1, <2>2, <3>1
      <4>2. CASE l = "running"
        BY <4>1, <4>2 DEF Past, Reported
      <4>3. CASE l \in Past /\ (thread[t][k] \in Past \/ k \in unopened')
        BY <1>0, <1>4, <3>1, <4>1, <4>3 DEF OutputOpened, Past, Reported
      <4>4. QED
        BY <1>4, <4>1, <4>2, <4>3
    <3>2. CASE ~ (u = t /\ r = k)
      BY <1>0, <1>4, <2>1, <2>2, <3>2 DEF OutputOpened
    <3>3. QED
      BY <3>1, <3>2
  <2>4. QED
    BY <1>0, <1>4, <2>3
<1>5. ASSUME NEW t \in Trackers, PollReply(t)
      PROVE  P
  <2>1. CASE poll[t] \in Tasks
    <3>1. ThreadGoto(t, poll[t], "running") /\ output' = output /\ unopened' = unopened
      BY <1>5, <2>1 DEF PollReply
    <3>2. QED
      BY <1>4, <2>1, <3>1
  <2>2. CASE poll[t] \notin Tasks
    BY <1>1, <1>5, <2>2 DEF PollReply
  <2>3. QED
    BY <2>1, <2>2
<1>6. ASSUME NEW t \in Trackers, NEW m \in Maps, ExecuteMapTask(t, m)
      PROVE  P
  <2>1. ThreadGoto(t, m, "report") /\ output' = output /\ unopened' = unopened /\ m \in Tasks
    BY <1>6 DEF ExecuteMapTask, Tasks
  <2>2. QED
    BY <1>4, <2>1
<1>7. ASSUME NEW t \in Trackers, NEW r \in Reduces, FetchMapOutput(t, r)
      PROVE  UNCHANGED <<thread, output, unopened>>
  BY <1>7 DEF FetchMapOutput
<1>8. ASSUME NEW t \in Trackers, NEW r \in Reduces, OpenOutput(t, r)
      PROVE  P
  <2>1. CASE output' = <<>>
    <3>1. output' \in File
      BY <2>1, EmptySeq DEF File
    <3>2. QED
      BY <3>1 DEF OutputOpened
  <2>2. CASE output' # <<>>
    <3>1. /\ ThreadGoto(t, r, "report") /\ output' = output /\ unopened' = unopened \cup {r}
          /\ r \in Tasks
      BY <1>8, <2>2 DEF OpenOutput, Tasks
    <3>2. "report" \in Past /\ unopened \subseteq unopened' /\ r \in unopened'
      BY <3>1 DEF Past
    <3>3. QED
      BY <1>4, <3>1, <3>2
  <2>3. QED
    BY <2>1, <2>2
<1>9. ASSUME NEW t \in Trackers, NEW r \in Reduces, WriteOutput(t, r)
      PROVE  P
  <2>1. output \in File /\ got[t][r] \in Seq(Maps)
    BY <1>0, <1>9 DEF WriteOutput, OutputOpened, JobShape
  <2>2. PICK i \in {1, 2} : output' = Put(output, i, Half(i, got[t][r]))
    BY <1>9 DEF WriteOutput
  <2>3. output' \in File
    BY <2>1, <2>2, PutFile
  <2>4. QED
    BY <2>3 DEF OutputOpened
<1>10. ASSUME NEW t \in Trackers, NEW k \in Tasks, ReportTaskComplete(t, k) \/ ReportReply(t, k)
       PROVE  P
  <2>1. PICK l \in {"reply", "done", "lost"} : ThreadGoto(t, k, l)
    BY <1>10 DEF ReportTaskComplete, ReportReply
  <2>2. thread[t][k] \in Past /\ l \in Past /\ output' = output /\ unopened' = unopened
    BY <1>10 DEF ReportTaskComplete, ReportReply, Past, Reported
  <2>3. QED
    BY <1>4, <2>1, <2>2
<1>11. P
  BY <1>1, <1>2, <1>3, <1>5, <1>6, <1>7, <1>8, <1>9, <1>10 DEF JobNext, PollThread, TaskThread
<1>12. QED
  BY <1>11

\* Outputs come from a map task's step, and are kept.
LEMMA StoreMoves ==
    ASSUME JobShape, [JobNext]_vars
    PROVE  /\ \/ UNCHANGED <<map_outputs, blank>>
              \/ \E t \in Trackers, m \in Maps : ExecuteMapTask(t, m)
           /\ \A t \in Trackers : map_outputs[t] \subseteq map_outputs'[t] /\ blank[t] \subseteq blank'[t]
<1>1. ASSUME NEW t \in Trackers, NEW m \in Maps, ExecuteMapTask(t, m)
      PROVE  \A u \in Trackers : map_outputs[u] \subseteq map_outputs'[u] /\ blank[u] \subseteq blank'[u]
  BY <1>1 DEF ExecuteMapTask, JobShape
<1>2. ASSUME NEW t \in Trackers, NEW k \in Tasks, TaskThread(t, k)
      PROVE  UNCHANGED <<map_outputs, blank>> \/ (k \in Maps /\ ExecuteMapTask(t, k))
  BY <1>2 DEF TaskThread, FetchMapOutput, OpenOutput, WriteOutput, ReportTaskComplete, ReportReply
<1>3. ASSUME NEW t \in Trackers,
             PollThread(t) \/ CrossTalk(t) \/ TrackerStop(t) \/ TrackerKill(t)
      PROVE  UNCHANGED <<map_outputs, blank>>
  BY <1>3 DEF PollThread, PollForTask, PollReply, CrossTalk, TrackerStop, TrackerKill
<1>4. CASE SubmitJob \/ SubmitMap \/ UNCHANGED vars
  BY <1>4 DEF SubmitJob, SubmitMap, vars, ttVars
<1>5. UNCHANGED <<map_outputs, blank>> \/ \E t \in Trackers, m \in Maps : ExecuteMapTask(t, m)
  BY <1>2, <1>3, <1>4 DEF JobNext
<1>6. QED
  BY <1>1, <1>5

\* Outputs are published before they are reported, and are kept.
LEMMA StoredStep ==
    ASSUME JobInv, [JobNext]_vars
    PROVE  Published' /\ LocationsStored'
<1> DEFINE At(l) == map_outputs[l.at] # {} /\ l.task \in map_outputs[l.at] \cup blank[l.at]
           Stored(ls) == \A l \in ToSet(ls) : At(l)
<1>0. /\ JobShape /\ Published /\ Stored(locations)
      /\ \A t \in Trackers, r \in Reduces : Stored(rest[t][r])
  BY ShapeOf DEF JobInv, LocationsStored
<1>1. \A ls \in Seq(Location) : \A l \in ToSet(ls) : l \in Location
  BY DEF ToSet
<1>2. \A t \in Trackers : map_outputs[t] \subseteq map_outputs'[t] /\ blank[t] \subseteq blank'[t]
  BY <1>0, StoreMoves
<1>3. ASSUME NEW ls \in Seq(Location), Stored(ls)
      PROVE  \A l \in ToSet(ls) : At(l)'
  BY <1>1, <1>2, <1>3 DEF Location
<1>4. ASSUME locations' = locations \/ \E t \in Trackers, m \in Maps :
                /\ map_outputs[t] # {} /\ m \in map_outputs[t] \cup blank[t]
                /\ locations' = Append(locations, [task |-> m, at |-> t, partition |-> 0]),
             \A t \in Trackers, r \in Reduces :
                \/ rest'[t][r] \in {rest[t][r], locations}
                \/ rest[t][r] # <<>> /\ rest'[t][r] = Tail(rest[t][r])
      PROVE  LocationsStored'
  <2>1. \A l \in ToSet(locations') : At(l)'
    <3>1. CASE locations' = locations
      BY <1>0, <1>3, <3>1 DEF JobShape
    <3>2. ASSUME NEW t \in Trackers, NEW m \in Maps,
                 map_outputs[t] # {}, m \in map_outputs[t] \cup blank[t],
                 locations' = Append(locations, [task |-> m, at |-> t, partition |-> 0])
          PROVE  \A l \in ToSet(locations') : At(l)'
      <4> DEFINE x == [task |-> m, at |-> t, partition |-> 0]
      <4>1. x \in Location /\ x.task = m /\ x.at = t
        BY DEF Location
      <4>2. ToSet(locations') = ToSet(locations) \cup {x}
        BY <1>0, <3>2, <4>1, PushFacts DEF JobShape
      <4>3. map_outputs'[t] # {} /\ m \in map_outputs'[t] \cup blank'[t]
        BY <1>2, <3>2
      <4>4. \A l \in ToSet(locations) : At(l)'
        BY <1>0, <1>3 DEF JobShape
      <4>5. QED
        BY <4>1, <4>2, <4>3, <4>4
    <3>3. QED
      BY <1>4, <3>1, <3>2
  <2>2. ASSUME NEW t \in Trackers, NEW r \in Reduces
        PROVE  \A l \in ToSet(rest'[t][r]) : At(l)'
    <3>1. locations \in Seq(Location) /\ rest[t][r] \in Seq(Location)
      BY <1>0 DEF JobShape
    <3>2. ToSet(rest'[t][r]) \subseteq ToSet(rest[t][r]) \cup ToSet(locations)
      <4>1. CASE rest'[t][r] \in {rest[t][r], locations}
        BY <4>1
      <4>2. CASE rest[t][r] # <<>> /\ rest'[t][r] = Tail(rest[t][r])
        BY <3>1, <4>2, TailFacts
      <4>3. QED
        BY <1>4, <4>1, <4>2
    <3>3. QED
      BY <1>0, <1>3, <3>1, <3>2
  <2>3. QED
    BY <2>1, <2>2 DEF LocationsStored
<1>5. \A t \in Trackers, r \in Reduces :
        \/ rest'[t][r] \in {rest[t][r], locations}
        \/ rest[t][r] # <<>> /\ rest'[t][r] = Tail(rest[t][r])
  <2>1. ASSUME NEW t \in Trackers, AssignReduce(t)
        PROVE  \A u \in Trackers, r \in Reduces : rest'[u][r] \in {rest[u][r], locations}
    BY <1>0, <2>1 DEF AssignReduce, JobShape
  <2>2. ASSUME NEW t \in Trackers, NEW k \in Reduces, FetchMapOutput(t, k)
        PROVE  \A u \in Trackers, r \in Reduces :
                 \/ rest'[u][r] = rest[u][r]
                 \/ rest[u][r] # <<>> /\ rest'[u][r] = Tail(rest[u][r])
    BY <1>0, <2>2 DEF FetchMapOutput, JobShape
  <2>3. \/ rest' = rest
        \/ \E t \in Trackers : AssignReduce(t)
        \/ \E t \in Trackers, k \in Reduces : FetchMapOutput(t, k)
    BY ZenonT(60) DEF JobNext, SubmitJob, SubmitMap, PollThread, PollForTask, AssignMap, RacingAssignMap,
         AssignNothing, PollReply, TaskThread, ExecuteMapTask, OpenOutput, WriteOutput,
         ReportTaskComplete, ReportReply, CrossTalk, TrackerStop, TrackerKill, vars, ttVars
  <2>4. QED
    BY <2>1, <2>2, <2>3
<1>6. locations' = locations \/ \E t \in Trackers, m \in Maps :
        /\ map_outputs[t] # {} /\ m \in map_outputs[t] \cup blank[t]
        /\ locations' = Append(locations, [task |-> m, at |-> t, partition |-> 0])
  <2>1. ASSUME NEW t \in Trackers, NEW k \in Tasks, ReportTaskComplete(t, k), locations' # locations
        PROVE  /\ k \in Maps /\ map_outputs[t] # {} /\ k \in map_outputs[t] \cup blank[t]
               /\ locations' = Append(locations, [task |-> k, at |-> t, partition |-> 0])
    <3>1. /\ k \in Maps /\ thread[t][k] = "report"
          /\ \E n \in NumParts(t, k) : n # 0
          /\ locations' = Append(locations, [task |-> k, at |-> t, partition |-> 0])
      BY <2>1 DEF ReportTaskComplete, TaskCompleted, jtVars
    <3>2. map_outputs[t] # {}
      BY <3>1 DEF NumParts
    <3>3. QED
      BY <1>0, <3>1, <3>2 DEF Published
  <2>2. locations' = locations \/ \E t \in Trackers, k \in Tasks : ReportTaskComplete(t, k)
    <3>1. ASSUME NEW t \in Trackers, NEW k \in Tasks, TaskThread(t, k)
          PROVE  locations' = locations \/ ReportTaskComplete(t, k)
      BY <3>1 DEF TaskThread, ExecuteMapTask, FetchMapOutput, OpenOutput, WriteOutput, ReportReply, jtVars
    <3>2. ASSUME NEW t \in Trackers, PollThread(t)
          PROVE  locations' = locations
      BY <3>2 DEF PollThread, PollForTask, AssignMap, RacingAssignMap, AssignReduce, AssignNothing,
                  PollReply, jtVars
    <3>3. ASSUME NEW t \in Trackers, CrossTalk(t) \/ TrackerStop(t) \/ TrackerKill(t)
          PROVE  locations' = locations
      BY <3>3 DEF CrossTalk, TrackerStop, TrackerKill, jtVars
    <3>4. CASE SubmitJob \/ SubmitMap \/ UNCHANGED vars
      BY <3>4 DEF SubmitJob, SubmitMap, vars, jtVars
    <3>5. QED
      BY <3>1, <3>2, <3>3, <3>4 DEF JobNext
  <2>3. QED
    BY <2>1, <2>2
<1>7. Published'
  <2>1. ASSUME NEW t \in Trackers, NEW k \in Tasks, NEW l, ThreadGoto(t, k, l),
               l = "report" => k \in Reduces \/ k \in map_outputs'[t] \cup blank'[t]
        PROVE  Published'
    <3>1. \A u \in Trackers, j \in Tasks :
            thread'[u][j] = IF u = t /\ j = k THEN l ELSE thread[u][j]
      BY <1>0, <2>1 DEF ThreadGoto, JobShape
    <3>2. \A m \in Maps : m \in Tasks /\ m \notin Reduces
      BY TaskFacts DEF Tasks
    <3>3. QED
      BY <1>0, <1>2, <2>1, <3>1, <3>2 DEF Published
  <2>2. CASE UNCHANGED thread
    BY <1>0, <1>2, <2>2 DEF Published
  <2>3. ASSUME NEW t \in Trackers, PollReply(t)
        PROVE  Published'
    BY <2>1, <2>2, <2>3 DEF PollReply
  <2>4. ASSUME NEW t \in Trackers, NEW m \in Maps, ExecuteMapTask(t, m)
        PROVE  Published'
    <3>1. m \in map_outputs'[t] \cup blank'[t] /\ ThreadGoto(t, m, "report")
      BY <1>0, <2>4 DEF ExecuteMapTask, JobShape
    <3>2. QED
      BY <2>1, <3>1 DEF Tasks
  <2>5. ASSUME NEW t \in Trackers, NEW r \in Reduces, OpenOutput(t, r) \/ WriteOutput(t, r)
        PROVE  Published'
    BY <2>1, <2>5 DEF OpenOutput, WriteOutput, Tasks
  <2>6. ASSUME NEW t \in Trackers, NEW k \in Tasks, ReportTaskComplete(t, k) \/ ReportReply(t, k)
        PROVE  Published'
    <3>1. PICK l \in {"reply", "done", "lost"} : ThreadGoto(t, k, l)
      BY <2>6 DEF ReportTaskComplete, ReportReply
    <3>2. QED
      BY <2>1, <3>1
  <2>7. \/ UNCHANGED thread
        \/ \E t \in Trackers : PollReply(t)
        \/ \E t \in Trackers, m \in Maps : ExecuteMapTask(t, m)
        \/ \E t \in Trackers, r \in Reduces : OpenOutput(t, r) \/ WriteOutput(t, r)
        \/ \E t \in Trackers, k \in Tasks : ReportTaskComplete(t, k) \/ ReportReply(t, k)
    BY DEF JobNext, SubmitJob, SubmitMap, PollThread, PollForTask, TaskThread, FetchMapOutput,
           CrossTalk, TrackerStop, TrackerKill, vars, ttVars
  <2>8. QED
    BY <2>2, <2>3, <2>4, <2>5, <2>6, <2>7
<1>8. QED
  BY <1>4, <1>5, <1>6, <1>7

\* The invariant holds in every reachable state.
LEMMA JobInvStep == JobInv /\ [JobNext]_vars => JobInv'
<1> SUFFICES ASSUME JobInv, [JobNext]_vars
             PROVE  JobInv'
  OBVIOUS
<1>1. JobTypeOK'
  BY ShapeStep, PhasesStep, CountersStep, OutputStep, PlacesAre DEF JobInv, JobTypeOK, JobShape, File
<1>2. QED
  BY <1>1, PhasesStep, BudgetStep, OutputStep, StoredStep DEF JobInv

LEMMA JobInvariant == JobSpec => []JobInv
BY JobInitInv, JobInvStep, PTL DEF JobSpec

\* The variables of the job have their types: in particular maps_completed_
\* stays below twice the number of maps however polls race with SubmitJob, and
\* reduces_completed_ within the number of reduces.
THEOREM JobTypeCorrect == JobSpec => []JobTypeOK
<1>1. JobInv => JobTypeOK
  BY DEF JobInv
<1>2. QED
  BY <1>1, JobInvariant, PTL

\* Whatever the polls do to a submission under way, a location leads to a tracker
\* with outputs, and to the one its task stored before the report, if any.
THEOREM LocationsStoredHolds == JobSpec => []LocationsStored
<1>1. JobInv => LocationsStored
  BY DEF JobInv
<1>2. QED
  BY <1>1, JobInvariant, PTL

-----------------------------------------------------------------------------
(***************************************************************************)
(* A job whose trackers start after the submission                         *)
(***************************************************************************)

\* The initial states satisfy QuietInv.
LEMMA QuietInit == JobInit => QuietInv
<1> SUFFICES ASSUME JobInit
             PROVE  QuietInv
  OBVIOUS
<1>1. JobInv
  BY JobInitInv
<1>2. \A t \in Trackers, k \in Tasks : thread[t][k] = "none" /\ poll[t] = Ready /\ ~ Holds(t, k)
  BY TaskFacts DEF JobInit, Holds
<1>3. pending_maps = <<>> /\ locations = <<>> /\ ToSet(pending_maps) = {} /\ DOMAIN locations = {}
      /\ DOMAIN pending_maps = {}
  BY DEF JobInit, ToSet
<1>4. AssignedOnce /\ PendingOnce /\ HeldIsCreated
  BY <1>2, <1>3 DEF AssignedOnce, PendingOnce, HeldIsCreated
<1>5. PolledIsFresh
  BY <1>2 DEF PolledIsFresh
<1>6. LocationsReported /\ RanOnce /\ FileIsCreated
  <2>1. IsFiniteSet(MapsReported)
    BY TaskCounts, FS_Subset DEF MapsReported
  <2>2. Cardinality(MapsReported) \in Nat /\ maps_completed = 0
    BY <2>1, FS_CardinalityType DEF JobInit
  <2>3. /\ \A t \in Trackers, m \in Maps : thread[t][m] \notin Reported
        /\ \A t \in Trackers : map_outputs[t] = {} /\ blank[t] = {}
    BY <1>2 DEF Reported, Tasks, JobInit
  <2>4. LocationsReported
    BY <1>3, <2>2, <2>3 DEF LocationsReported
  <2>5. QED
    BY <2>3, <2>4 DEF RanOnce, FileIsCreated, JobInit
<1>7. CreatedAfterMaps
  BY DEF JobInit, CreatedAfterMaps
<1>8. DoneCounted
  <2>1. IsFiniteSet(ReducesReported)
    BY TaskCounts, FS_Subset DEF ReducesReported
  <2>2. Cardinality(ReducesReported) \in Nat
    BY <2>1, FS_CardinalityType
  <2>3. QED
    BY <2>2 DEF JobInit, DoneCounted
<1>9. QED
  BY <1>1, <1>4, <1>5, <1>6, <1>7, <1>8 DEF QuietInv

\* A task's thread starts when the reply that hands it out is read, and a
\* thread past its report does not start again.
LEMMA ThreadStep ==
    ASSUME JobShape, PolledIsFresh, [JobNext]_vars, NEW u \in Trackers, NEW j \in Tasks
    PROVE  /\ thread[u][j] # "none" => thread'[u][j] # "none"
           /\ thread[u][j] \in Reported => thread'[u][j] \in Reported
           /\ thread[u][j] = "none" /\ thread'[u][j] # "none" => poll[u] = j /\ poll'[u] = Ready
           /\ thread'[u][j] \in Reported /\ thread[u][j] \notin Reported
                => ReportTaskComplete(u, j)
<1> DEFINE P == /\ thread[u][j] # "none" => thread'[u][j] # "none"
                /\ thread[u][j] \in Reported => thread'[u][j] \in Reported
                /\ thread[u][j] = "none" /\ thread'[u][j] # "none" => poll[u] = j /\ poll'[u] = Ready
                /\ thread'[u][j] \in Reported /\ thread[u][j] \notin Reported
                     => ReportTaskComplete(u, j)
<1>1. CASE UNCHANGED thread
  BY <1>1
<1>2. ASSUME NEW t \in Trackers, NEW k \in Tasks, NEW l, ThreadGoto(t, k, l)
      PROVE  thread'[u][j] = IF u = t /\ j = k THEN l ELSE thread[u][j]
  BY <1>2 DEF ThreadGoto, JobShape
<1>3. ASSUME NEW t \in Trackers, PollReply(t)
      PROVE  P
  <2>1. CASE poll[t] \in Tasks
    <3>1. PICK k \in Tasks : k = poll[t]
      BY <2>1
    <3>2. ThreadGoto(t, k, "running") /\ poll'[t] = Ready
      BY <1>3, <2>1, <3>1 DEF PollReply, JobShape
    <3>3. thread[t][k] = "none"
      BY <3>1 DEF PolledIsFresh
    <3>4. thread'[u][j] = IF u = t /\ j = k THEN "running" ELSE thread[u][j]
      BY <1>2, <3>2
    <3>5. QED
      BY <3>1, <3>2, <3>3, <3>4 DEF Reported
  <2>2. CASE poll[t] \notin Tasks
    BY <1>1, <1>3, <2>2 DEF PollReply
  <2>3. QED
    BY <2>1, <2>2
<1>4. ASSUME NEW t \in Trackers, NEW k \in Tasks, NEW l, ThreadGoto(t, k, l),
             thread[t][k] # "none", l # "none", thread[t][k] \in Reported => l \in Reported,
             l \in Reported /\ thread[t][k] \notin Reported => ReportTaskComplete(t, k)
      PROVE  P
  <2>1. thread'[u][j] = IF u = t /\ j = k THEN l ELSE thread[u][j]
    BY <1>2, <1>4
  <2>2. QED
    BY <1>4, <2>1
<1>5. ASSUME NEW t \in Trackers, NEW m \in Maps, ExecuteMapTask(t, m)
      PROVE  P
  <2>1. m \in Tasks /\ ThreadGoto(t, m, "report") /\ thread[t][m] = "running"
    BY <1>5 DEF ExecuteMapTask, Tasks
  <2>2. "report" \notin Reported /\ "running" \notin Reported
    BY DEF Reported
  <2>3. QED
    BY <1>4, <2>1, <2>2
<1>6. ASSUME NEW t \in Trackers, NEW r \in Reduces, OpenOutput(t, r) \/ WriteOutput(t, r)
      PROVE  P
  <2>1. PICK l \in {"report", "write1", "write2"} : ThreadGoto(t, r, l)
    BY <1>6 DEF OpenOutput, WriteOutput
  <2>2. r \in Tasks /\ thread[t][r] \in {"running", "write1", "write2"}
    BY <1>6 DEF OpenOutput, WriteOutput, Tasks
  <2>3. l \notin Reported /\ thread[t][r] \notin Reported /\ l # "none" /\ thread[t][r] # "none"
    BY <2>2 DEF Reported
  <2>4. QED
    BY <1>4, <2>1, <2>2, <2>3
<1>7. ASSUME NEW t \in Trackers, NEW k \in Tasks, ReportTaskComplete(t, k)
      PROVE  P
  <2>1. PICK l \in {"reply", "lost"} : ThreadGoto(t, k, l)
    BY <1>7 DEF ReportTaskComplete
  <2>2. thread[t][k] # "none" /\ l # "none" /\ thread[t][k] \notin Reported
    BY <1>7, <2>1 DEF ReportTaskComplete, Reported
  <2>3. QED
    BY <1>4, <1>7, <2>1, <2>2
<1>8. ASSUME NEW t \in Trackers, NEW k \in Tasks, ReportReply(t, k)
      PROVE  P
  <2>1. ThreadGoto(t, k, "done") /\ thread[t][k] = "reply"
    BY <1>8 DEF ReportReply
  <2>2. "done" \in Reported /\ "reply" \in Reported
    BY DEF Reported
  <2>3. QED
    BY <1>4, <2>1, <2>2
<1>9. \/ UNCHANGED thread
      \/ \E t \in Trackers : PollReply(t)
      \/ \E t \in Trackers, m \in Maps : ExecuteMapTask(t, m)
      \/ \E t \in Trackers, r \in Reduces : OpenOutput(t, r) \/ WriteOutput(t, r)
      \/ \E t \in Trackers, k \in Tasks : ReportTaskComplete(t, k) \/ ReportReply(t, k)
  BY DEF JobNext, SubmitJob, SubmitMap, PollThread, PollForTask, TaskThread, FetchMapOutput,
         CrossTalk, TrackerStop, TrackerKill, vars, ttVars
<1>10. P
  BY <1>1, <1>3, <1>5, <1>6, <1>7, <1>8, <1>9
<1>11. QED
  BY <1>10

\* When nothing is handed out, everybody holds what he held.
LEMMA HoldsSame ==
    ASSUME JobShape, PolledIsFresh, [JobNext]_vars,
           \/ poll' = poll
           \/ \E t \in Trackers : poll[t] = Ready /\ poll' = [poll EXCEPT ![t] = NoTask]
           \/ \E t \in Trackers : PollReply(t),
           NEW u \in Trackers, NEW j \in Tasks
    PROVE  Holds(u, j)' <=> Holds(u, j)
<1>0. Ready \notin Tasks /\ NoTask \notin Tasks
  BY TaskFacts
<1>1. /\ thread[u][j] # "none" => thread'[u][j] # "none"
      /\ thread[u][j] = "none" /\ thread'[u][j] # "none" => poll[u] = j /\ poll'[u] = Ready
  BY ThreadStep
<1>2. CASE poll' = poll
  BY <1>0, <1>1, <1>2 DEF Holds
<1>3. ASSUME NEW t \in Trackers, poll[t] = Ready, poll' = [poll EXCEPT ![t] = NoTask]
      PROVE  Holds(u, j)' <=> Holds(u, j)
  <2>1. \A v \in Trackers : poll'[v] = IF v = t THEN NoTask ELSE poll[v]
    BY <1>3 DEF JobShape
  <2>2. QED
    BY <1>0, <1>1, <1>3, <2>1 DEF Holds
<1>4. ASSUME NEW t \in Trackers, PollReply(t)
      PROVE  Holds(u, j)' <=> Holds(u, j)
  <2>1. \A v \in Trackers : poll'[v] = IF v = t THEN Ready ELSE poll[v]
    BY <1>4 DEF PollReply, JobShape
  <2>2. poll[t] \in Tasks => thread'[t][poll[t]] = "running"
    BY <1>4 DEF PollReply, ThreadGoto, JobShape
  <2>3. QED
    BY <1>0, <1>1, <2>1, <2>2 DEF Holds
<1>5. QED
  BY <1>2, <1>3, <1>4

\* What a step can hand out when the trackers start after the submission.
LEMMA Handout ==
    ASSUME SubmitFirst, SubmitPhases, [JobNext]_vars
    PROVE  \/ SubmitMap
           \/ \E t \in Trackers : AssignMap(t) /\ poll[t] = Ready /\ thread' = thread /\ submitted = "yes"
           \/ \E t \in Trackers : AssignReduce(t) /\ poll[t] = Ready /\ thread' = thread /\ submitted = "yes"
           \/ /\ \/ poll' = poll
                 \/ \E t \in Trackers : poll[t] = Ready /\ poll' = [poll EXCEPT ![t] = NoTask]
                 \/ \E t \in Trackers : PollReply(t)
              /\ UNCHANGED <<pending_maps, created, pushed>>
              /\ submitted' = submitted \/ (submitted = "no" /\ submitted' = "pushing")
<1>1. CASE SubmitJob
  BY <1>1 DEF SubmitJob, ttVars
<1>2. ASSUME NEW t \in Trackers, PollForTask(t)
      PROVE  /\ poll[t] = Ready /\ thread' = thread /\ submitted = "yes"
             /\ \/ AssignMap(t)
                \/ AssignReduce(t)
                \/ /\ poll' = [poll EXCEPT ![t] = NoTask]
                   /\ UNCHANGED <<pending_maps, created, pushed, submitted>>
  BY <1>2 DEF PollForTask, RacingAssignMap, PushOne, AssignNothing
<1>3. ASSUME NEW t \in Trackers, PollReply(t)
      PROVE  UNCHANGED <<pending_maps, created, pushed, submitted>>
  BY <1>3 DEF PollReply, jtVars
<1>4. ASSUME NEW t \in Trackers, NEW k \in Tasks, TaskThread(t, k)
      PROVE  UNCHANGED <<poll, pending_maps, created, pushed, submitted>>
  BY <1>4 DEF TaskThread, ExecuteMapTask, FetchMapOutput, OpenOutput, WriteOutput,
              ReportTaskComplete, ReportReply, TaskCompleted, jtVars
<1>5. ASSUME NEW t \in Trackers, CrossTalk(t) \/ TrackerStop(t) \/ TrackerKill(t)
      PROVE  UNCHANGED <<poll, pending_maps, created, pushed, submitted>>
  BY <1>5 DEF CrossTalk, TrackerStop, TrackerKill, jtVars
<1>6. CASE UNCHANGED vars
  BY <1>6 DEF vars, jtVars, ttVars
<1>7. QED
  BY <1>1, <1>2, <1>3, <1>4, <1>5, <1>6 DEF JobNext, PollThread

\* A task that is handed out is held by the tracker that asked, and by no other.
LEMMA HoldsNew ==
    ASSUME JobShape, NEW t \in Trackers, NEW k \in Tasks, poll[t] = Ready,
           poll' = [poll EXCEPT ![t] = k], thread' = thread
    PROVE  \A u \in Trackers, j \in Tasks : Holds(u, j)' <=> Holds(u, j) \/ (u = t /\ j = k)
<1>1. \A v \in Trackers : poll'[v] = IF v = t THEN k ELSE poll[v]
  BY DEF JobShape
<1>2. QED
  BY <1>1, TaskFacts DEF Holds

\* Every step keeps each task in one place.
LEMMA AssignStep ==
    ASSUME SubmitFirst, QuietInv, [JobNext]_vars
    PROVE  AssignedOnce' /\ PendingOnce' /\ HeldIsCreated' /\ PolledIsFresh'
<1>0. /\ JobShape /\ SubmitPhases /\ JobTypeOK
      /\ AssignedOnce /\ PendingOnce /\ HeldIsCreated /\ PolledIsFresh
  BY ShapeOf DEF QuietInv, JobInv
<1>1. /\ pending_maps \in Seq(Maps) /\ pushed \in Nat /\ created \in Nat
      /\ ToSet(pending_maps) \subseteq Maps
  <2>1. pending_maps \in Seq(Maps) /\ pushed \in Nat /\ created \in Nat
    BY <1>0, JobAssumption DEF JobTypeOK
  <2>2. QED
    BY <2>1 DEF ToSet
<1>2. ASSUME \A t \in Trackers, k \in Tasks : Holds(t, k)' => Holds(t, k),
             UNCHANGED <<pending_maps, created, pushed>>,
             submitted' = submitted \/ submitted = "no"
      PROVE  AssignedOnce' /\ PendingOnce' /\ HeldIsCreated'
  <2>1. AssignedOnce'
    BY <1>0, <1>1, <1>2 DEF AssignedOnce, Tasks
  <2>2. PendingOnce'
    BY <1>0, <1>2 DEF PendingOnce
  <2>3. HeldIsCreated'
    BY <1>0, <1>2 DEF HeldIsCreated
  <2>4. QED
    BY <2>1, <2>2, <2>3
<1>3. CASE /\ \/ poll' = poll
              \/ \E t \in Trackers : poll[t] = Ready /\ poll' = [poll EXCEPT ![t] = NoTask]
              \/ \E t \in Trackers : PollReply(t)
           /\ UNCHANGED <<pending_maps, created, pushed>>
           /\ submitted' = submitted \/ (submitted = "no" /\ submitted' = "pushing")
  <2>1. \A u \in Trackers, j \in Tasks : Holds(u, j)' <=> Holds(u, j)
    BY <1>0, <1>3, HoldsSame
  <2>2. AssignedOnce' /\ PendingOnce' /\ HeldIsCreated'
    BY <1>2, <1>3, <2>1
  <2>3. ASSUME NEW u \in Trackers, NEW j \in Tasks, poll'[u] = j
        PROVE  thread'[u][j] = "none"
    <3>1. Ready \notin Tasks /\ NoTask \notin Tasks
      BY TaskFacts
    <3>2. poll[u] = j
      <4>1. CASE poll' = poll
        BY <2>3, <4>1
      <4>2. ASSUME NEW t \in Trackers, poll' = [poll EXCEPT ![t] = NoTask]
            PROVE  poll[u] = j
        BY <1>0, <2>3, <3>1, <4>2 DEF JobShape
      <4>3. ASSUME NEW t \in Trackers, PollReply(t)
            PROVE  poll[u] = j
        BY <1>0, <2>3, <3>1, <4>3 DEF JobShape, PollReply
      <4>4. QED
        BY <1>3, <4>1, <4>2, <4>3
    <3>3. thread[u][j] = "none"
      BY <1>0, <3>2 DEF PolledIsFresh
    <3>4. thread'[u][j] # "none" => poll'[u] = Ready
      BY <1>0, <3>3, ThreadStep
    <3>5. QED
      BY <2>3, <3>1, <3>4
  <2>4. QED
    BY <2>2, <2>3 DEF PolledIsFresh
<1>4. CASE SubmitMap
  <2>1. /\ pending_maps' = Append(pending_maps, <<"m", pushed>>) /\ pushed' = pushed + 1
        /\ submitted = "pushing" /\ pushed < NumMaps
        /\ UNCHANGED <<poll, thread, created>>
    BY <1>0, <1>4 DEF SubmitMap, PushOne, ttVars, SubmitPhases
  <2>2. <<"m", pushed>> \in Maps /\ <<"m", pushed>>[2] = pushed
    BY <1>1, <2>1, TaskFacts, JobAssumption
  <2>3. \A t \in Trackers, k \in Tasks : ~ Holds(t, k) /\ ~ Holds(t, k)'
    BY <1>0, <2>1 DEF HeldIsCreated, Holds
  <2>4. <<"m", pushed>> \notin ToSet(pending_maps)
    BY <1>0, <1>1, <2>2 DEF PendingOnce
  <2>5. /\ ToSet(pending_maps') = ToSet(pending_maps) \cup {<<"m", pushed>>}
        /\ \A i, j \in DOMAIN pending_maps' : pending_maps'[i] = pending_maps'[j] => i = j
    <3> DEFINE e == <<"m", pushed>>
    <3> HIDE DEF e
    <3>1. e \in Maps /\ e \notin ToSet(pending_maps) /\ pending_maps' = Append(pending_maps, e)
      BY <2>1, <2>2, <2>4 DEF e
    <3>2. \A i, j \in DOMAIN pending_maps : pending_maps[i] = pending_maps[j] => i = j
      BY <1>0 DEF PendingOnce
    <3>3. /\ ToSet(pending_maps') = ToSet(pending_maps) \cup {e}
          /\ \A i, j \in DOMAIN pending_maps' : pending_maps'[i] = pending_maps'[j] => i = j
      BY <1>1, <3>1, <3>2, PushFacts
    <3>4. QED
      BY <3>3 DEF e
  <2>6. \A m \in ToSet(pending_maps') : m[2] < pushed'
    <3>1. \A m \in ToSet(pending_maps) : m[2] < pushed + 1
      <4>1. \A m \in ToSet(pending_maps) : m[2] \in Nat /\ m[2] < pushed
        BY <1>0, <1>1, TaskFacts, JobAssumption DEF PendingOnce
      <4>2. QED
        BY <1>1, <4>1
    <3>2. <<"m", pushed>>[2] < pushed + 1
      BY <1>1, <2>2
    <3>3. \A m \in ToSet(pending_maps') : m \in ToSet(pending_maps) \/ m = <<"m", pushed>>
      BY <2>5
    <3>4. \A m \in ToSet(pending_maps') : m[2] < pushed + 1
      BY <3>1, <3>2, <3>3, Zenon
    <3>5. QED
      BY <2>1, <3>4
  <2>7. PolledIsFresh'
    BY <1>0, <2>1 DEF PolledIsFresh
  <2>8. AssignedOnce' /\ HeldIsCreated'
    <3>1. ToSet(pending_maps') \subseteq Tasks
      BY <1>1, <2>2, <2>5 DEF Tasks
    <3>2. QED
      BY <2>3, <3>1 DEF AssignedOnce, HeldIsCreated
  <2>9. QED
    BY <2>5, <2>6, <2>7, <2>8 DEF PendingOnce
<1>5. ASSUME NEW t \in Trackers, AssignMap(t), poll[t] = Ready, thread' = thread, submitted = "yes"
      PROVE  AssignedOnce' /\ PendingOnce' /\ HeldIsCreated' /\ PolledIsFresh'
  <2>1. /\ pending_maps # <<>> /\ poll' = [poll EXCEPT ![t] = Last(pending_maps)]
        /\ pending_maps' = Front(pending_maps)
        /\ UNCHANGED <<created, pushed, submitted>>
    BY <1>5 DEF AssignMap
  <2>2. /\ Last(pending_maps) \in Maps /\ Last(pending_maps) \in ToSet(pending_maps)
        /\ ToSet(pending_maps') = ToSet(pending_maps) \ {Last(pending_maps)}
        /\ \A i, j \in DOMAIN pending_maps' : pending_maps'[i] = pending_maps'[j] => i = j
    BY <1>0, <1>1, <2>1, PopFacts DEF PendingOnce
  <2>3. PICK k \in Maps : k = Last(pending_maps)
    BY <2>2
  <2>4. k \in Tasks /\ k \notin Reduces
    BY TaskFacts DEF Tasks
  <2>5. \A u \in Trackers : ~ Holds(u, k)
    BY <1>0, <2>2, <2>3 DEF AssignedOnce
  <2>6. \A u \in Trackers, j \in Tasks : Holds(u, j)' <=> Holds(u, j) \/ (u = t /\ j = k)
    BY <1>0, <1>5, <2>1, <2>3, <2>4, HoldsNew, ZenonT(60)
  <2>7. AssignedOnce'
    <3>1. ToSet(pending_maps) \subseteq Tasks
      BY <1>1 DEF Tasks
    <3>2. QED
      BY <1>0, <2>2, <2>3, <2>5, <2>6, <3>1 DEF AssignedOnce
  <2>8. PendingOnce'
    BY <1>0, <2>1, <2>2 DEF PendingOnce
  <2>9. HeldIsCreated'
    BY <1>0, <1>5, <2>1, <2>4, <2>6 DEF HeldIsCreated
  <2>10. PolledIsFresh'
    <3>1. \A u \in Trackers : poll'[u] = IF u = t THEN k ELSE poll[u]
      BY <1>0, <2>1, <2>3 DEF JobShape
    <3>2. thread[t][k] = "none"
      BY <2>5 DEF Holds
    <3>3. QED
      BY <1>0, <1>5, <3>1, <3>2 DEF PolledIsFresh
  <2>11. QED
    BY <2>7, <2>8, <2>9, <2>10
<1>6. ASSUME NEW t \in Trackers, AssignReduce(t), poll[t] = Ready, thread' = thread, submitted = "yes"
      PROVE  AssignedOnce' /\ PendingOnce' /\ HeldIsCreated' /\ PolledIsFresh'
  <2>1. /\ created < NumReduces /\ created' = created + 1
        /\ poll' = [poll EXCEPT ![t] = <<"r", created>>]
        /\ UNCHANGED <<pending_maps, pushed, submitted>>
    BY <1>0, <1>6 DEF AssignReduce, SubmitPhases
  <2>2. PICK k \in Reduces : k = <<"r", created>>
    <3>1. created \in 0..(NumReduces - 1)
      BY <1>1, <2>1, JobAssumption
    <3>2. QED
      BY <3>1, TaskFacts
  <2>3. k \in Tasks /\ k \notin Maps /\ k[2] = created
    BY <2>2, TaskFacts DEF Tasks
  <2>4. \A u \in Trackers : ~ Holds(u, k)
    BY <1>0, <1>1, <2>3 DEF HeldIsCreated
  <2>5. \A u \in Trackers, j \in Tasks : Holds(u, j)' <=> Holds(u, j) \/ (u = t /\ j = k)
    BY <1>0, <1>6, <2>1, <2>2, <2>3, HoldsNew
  <2>6. AssignedOnce'
    <3>1. ToSet(pending_maps') \subseteq Tasks /\ k \notin ToSet(pending_maps')
      BY <1>1, <2>1, <2>3 DEF Tasks
    <3>2. QED
      BY <1>0, <2>1, <2>4, <2>5, <3>1 DEF AssignedOnce
  <2>7. PendingOnce'
    BY <1>0, <2>1 DEF PendingOnce
  <2>8. HeldIsCreated'
    <3>1. \A j \in Reduces : j[2] \in Nat /\ (j[2] < created => j[2] < created + 1)
      BY <1>1, TaskFacts, JobAssumption
    <3>2. created < created + 1
      BY <1>1
    <3>3. QED
      BY <1>0, <1>6, <2>1, <2>3, <2>5, <3>1, <3>2 DEF HeldIsCreated
  <2>9. PolledIsFresh'
    <3>1. \A u \in Trackers : poll'[u] = IF u = t THEN k ELSE poll[u]
      BY <1>0, <2>1, <2>2 DEF JobShape
    <3>2. thread[t][k] = "none"
      BY <2>4 DEF Holds
    <3>3. QED
      BY <1>0, <1>6, <3>1, <3>2 DEF PolledIsFresh
  <2>10. QED
    BY <2>6, <2>7, <2>8, <2>9
<1>7. QED
  BY <1>0, <1>3, <1>4, <1>5, <1>6, Handout

\* The counters and the locations change with a report only: nothing has been
\* counted when SubmitJob clears the counters.
LEMMA CountMoves ==
    ASSUME JobInv, [JobNext]_vars
    PROVE  \/ \E t \in Trackers, k \in Tasks : ReportTaskComplete(t, k)
           \/ UNCHANGED <<maps_completed, reduces_completed, locations>>
<1>1. CASE SubmitJob
  <2>1. submitted = "no" /\ maps_completed' = 0 /\ reduces_completed' = 0 /\ locations' = locations
    BY <1>1 DEF SubmitJob
  <2>2. created <= 0 /\ created \in Nat /\ MapLimit = 0
    BY <2>1, JobAssumption DEF JobInv, SubmitPhases, JobTypeOK, MapLimit
  <2>3. /\ Cardinality(Busy(Maps)) \in Nat /\ Cardinality(Busy(Reduces)) \in Nat
        /\ Cardinality(Polled(Maps)) \in Nat /\ Cardinality(Polled(Reduces)) \in Nat
    BY CountsNat
  <2>4. maps_completed \in Nat /\ reduces_completed \in Nat /\ Len(pending_maps) \in Nat
    BY ShapeOf, LenProperties DEF JobInv, JobShape
  <2>5. maps_completed = 0
    BY <2>2, <2>3, <2>4 DEF JobInv, MapBudget
  <2>6. reduces_completed = 0
    BY <2>2, <2>3, <2>4 DEF JobInv, ReduceBudget
  <2>7. QED
    BY <2>1, <2>5, <2>6
<1>2. ASSUME NEW t \in Trackers, NEW k \in Tasks, TaskThread(t, k)
      PROVE  ReportTaskComplete(t, k) \/ UNCHANGED <<maps_completed, reduces_completed, locations>>
  BY <1>2 DEF TaskThread, ExecuteMapTask, FetchMapOutput, OpenOutput, WriteOutput, ReportReply, jtVars
<1>3. ASSUME NEW t \in Trackers, PollThread(t)
      PROVE  UNCHANGED <<maps_completed, reduces_completed, locations>>
  BY <1>3 DEF PollThread, PollForTask, AssignMap, RacingAssignMap, AssignReduce, AssignNothing,
              PollReply, jtVars
<1>4. ASSUME NEW t \in Trackers, CrossTalk(t) \/ TrackerStop(t) \/ TrackerKill(t)
      PROVE  UNCHANGED <<maps_completed, reduces_completed, locations>>
  BY <1>4 DEF CrossTalk, TrackerStop, TrackerKill, jtVars
<1>5. CASE SubmitMap \/ UNCHANGED vars
  BY <1>5 DEF SubmitMap, vars, jtVars
<1>6. QED
  BY <1>1, <1>2, <1>3, <1>4, <1>5 DEF JobNext

\* The map tasks past their report are finitely many, and no fewer after a step.
LEMMA MapsReportedGrows ==
    ASSUME JobShape, PolledIsFresh, [JobNext]_vars
    PROVE  /\ MapsReported \subseteq MapsReported'
           /\ IsFiniteSet(MapsReported) /\ IsFiniteSet(MapsReported')
           /\ Cardinality(MapsReported) \in Nat /\ Cardinality(MapsReported') \in Nat
           /\ Cardinality(MapsReported) <= Cardinality(MapsReported')
<1>1. MapsReported \subseteq MapsReported'
  BY ThreadStep DEF MapsReported, Tasks
<1>2. IsFiniteSet(MapsReported) /\ IsFiniteSet(MapsReported')
  BY TaskCounts, FS_Subset DEF MapsReported
<1>3. QED
  BY <1>1, <1>2, FS_Subset, FS_CardinalityType

\* Every step keeps the locations the reports of different maps.
LEMMA LocationsStep ==
    ASSUME QuietInv, [JobNext]_vars
    PROVE  LocationsReported' /\ maps_completed <= maps_completed'
<1>0. /\ JobShape /\ JobInv /\ AssignedOnce /\ PolledIsFresh /\ LocationsReported
      /\ Maps \subseteq Tasks
  BY ShapeOf DEF QuietInv, JobInv, Tasks
<1>1. /\ locations \in Seq(Location) /\ DOMAIN locations = 1..Len(locations) /\ Len(locations) \in Nat
      /\ maps_completed \in Nat
  BY <1>0, LenProperties DEF JobShape
<1>2. \A i \in DOMAIN locations : /\ locations[i].task \in Maps /\ locations[i].task \in Tasks
                                  /\ locations[i].at \in Trackers
  <2>1. \A i \in DOMAIN locations : locations[i] \in Location
    BY <1>1, ElementOfSeq
  <2>2. QED
    BY <2>1 DEF Location, Tasks
<1>3. \A i \in DOMAIN locations : thread'[locations[i].at][locations[i].task] \in Reported
  BY <1>0, <1>2, ThreadStep DEF LocationsReported
<1>4. CASE UNCHANGED <<maps_completed, locations>>
  <2>1. maps_completed' <= Cardinality(MapsReported')
    BY <1>0, <1>1, <1>4, MapsReportedGrows DEF LocationsReported
  <2>2. ASSUME NEW t \in Trackers, NEW m \in Maps, thread'[t][m] \in Reported, m \in map_outputs'[t]
        PROVE  \E i \in DOMAIN locations : locations[i].task = m
    <3>1. thread[t][m] \in Reported
      <4> SUFFICES ASSUME thread[t][m] \notin Reported
                   PROVE  FALSE
        OBVIOUS
      <4>1. ReportTaskComplete(t, m)
        BY <1>0, <2>2, ThreadStep
      <4>2. thread'[t][m] # "lost"
        BY <2>2 DEF Reported
      <4>3. TaskCompleted(t, m)
        BY <1>0, <4>1, <4>2 DEF ReportTaskComplete, ThreadGoto, JobShape
      <4>4. maps_completed' = maps_completed + 1
        BY <4>3, TaskFacts DEF TaskCompleted
      <4>5. QED
        BY <1>1, <1>4, <4>4
    <3>2. m \in map_outputs[t]
      <4> SUFFICES ASSUME m \notin map_outputs[t]
                   PROVE  FALSE
        OBVIOUS
      <4>1. PICK u \in Trackers, n \in Maps : ExecuteMapTask(u, n)
        BY <1>0, <2>2, StoreMoves
      <4>2. u = t /\ n = m
        <5>1. map_outputs' = [map_outputs EXCEPT ![u] = @ \cup {n}]
          BY <2>2, <4>1 DEF ExecuteMapTask
        <5>2. map_outputs'[t] = IF t = u THEN map_outputs[t] \cup {n} ELSE map_outputs[t]
          BY <1>0, <5>1 DEF JobShape
        <5>3. QED
          BY <2>2, <5>2
      <4>3. QED
        BY <3>1, <4>1, <4>2 DEF ExecuteMapTask, Reported
    <3>3. QED
      BY <1>0, <3>1, <3>2 DEF LocationsReported
  <2>3. QED
    BY <1>0, <1>1, <1>3, <1>4, <2>1, <2>2 DEF LocationsReported
<1>5. ASSUME NEW t \in Trackers, NEW k \in Tasks, ReportTaskComplete(t, k),
             ~ UNCHANGED <<maps_completed, locations>>
      PROVE  LocationsReported' /\ maps_completed <= maps_completed'
  <2> DEFINE x == [task |-> k, at |-> t, partition |-> 0]
  <2>1. /\ k \in Maps /\ maps_completed' = maps_completed + 1
        /\ locations' \in {locations, Append(locations, x)}
        /\ k \in map_outputs[t] => locations' = Append(locations, x)
        /\ thread[t][k] = "report" /\ ThreadGoto(t, k, "reply") /\ map_outputs' = map_outputs
    <3>1. /\ k \in Maps /\ maps_completed' = maps_completed + 1
          /\ thread[t][k] = "report" /\ ThreadGoto(t, k, "reply") /\ map_outputs' = map_outputs
          /\ \E n \in NumParts(t, k) :
               locations' = IF n = 0 THEN locations ELSE Append(locations, x)
      BY <1>5 DEF ReportTaskComplete, TaskCompleted, jtVars
    <3>2. k \in map_outputs[t] => \A n \in NumParts(t, k) : n = 1
      BY DEF NumParts
    <3>3. QED
      BY <3>1, <3>2
  <2>2. x \in Location /\ x.task = k /\ x.at = t
    BY <2>1 DEF Location
  <2>3. \A u \in Trackers : thread[u][k] \notin Reported
    <3> SUFFICES ASSUME NEW u \in Trackers, thread[u][k] \in Reported
                 PROVE  FALSE
      OBVIOUS
    <3>1. Holds(u, k) /\ Holds(t, k)
      BY <2>1 DEF Holds, Reported
    <3>2. u = t
      BY <1>0, <3>1 DEF AssignedOnce
    <3>3. QED
      BY <2>1, <3>2 DEF Reported
  <2>4. \A i \in DOMAIN locations : locations[i].task # k
    BY <1>0, <1>2, <2>3 DEF LocationsReported
  <2>5. /\ thread'[t][k] \in Reported
        /\ \A u \in Trackers, m \in Maps :
             thread'[u][m] \in Reported => (u = t /\ m = k) \/ thread[u][m] \in Reported
    BY <1>0, <2>1 DEF ThreadGoto, JobShape, Reported
  <2> HIDE DEF x
  <2>6. \/ locations' = locations
        \/ /\ DOMAIN locations' = 1..(Len(locations) + 1)
           /\ \A i \in 1..Len(locations) : locations'[i] = locations[i]
           /\ locations'[Len(locations) + 1] = x
    BY <1>1, <2>1, <2>2, AppendProperties, LenProperties
  <2>7. /\ \A i \in DOMAIN locations : i \in DOMAIN locations' /\ locations'[i] = locations[i]
        /\ \A i \in DOMAIN locations' :
             \/ i \in DOMAIN locations /\ locations'[i] = locations[i]
             \/ i = Len(locations) + 1 /\ locations'[i] = x
    BY <1>1, <2>6
  <2>8. k \in map_outputs[t] => \E i \in DOMAIN locations' : locations'[i].task = k
    <3> SUFFICES ASSUME k \in map_outputs[t]
                 PROVE  \E i \in DOMAIN locations' : locations'[i].task = k
      OBVIOUS
    <3>1. locations' = Append(locations, x)
      BY <2>1
    <3>2. Len(locations) + 1 \in DOMAIN locations' /\ locations'[Len(locations) + 1] = x
      BY <1>1, <2>2, <3>1, AppendProperties, LenProperties
    <3>3. QED
      BY <2>2, <3>2
  <2>9. \A i, j \in DOMAIN locations' : locations'[i].task = locations'[j].task => i = j
    BY <1>0, <2>2, <2>4, <2>7 DEF LocationsReported
  <2>10. \A i \in DOMAIN locations' : thread'[locations'[i].at][locations'[i].task] \in Reported
    BY <1>3, <2>2, <2>5, <2>7
  <2>11. \A u \in Trackers, m \in Maps :
            thread'[u][m] \in Reported /\ m \in map_outputs'[u]
              => \E i \in DOMAIN locations' : locations'[i].task = m
    BY <1>0, <2>1, <2>5, <2>7, <2>8 DEF LocationsReported
  <2>12. maps_completed' <= Cardinality(MapsReported')
    <3>1. k \notin MapsReported /\ k \in MapsReported'
      BY <2>1, <2>3, <2>5 DEF MapsReported
    <3>2. /\ MapsReported \cup {k} \subseteq MapsReported'
          /\ IsFiniteSet(MapsReported) /\ IsFiniteSet(MapsReported')
          /\ Cardinality(MapsReported) \in Nat /\ Cardinality(MapsReported') \in Nat
      BY <1>0, <3>1, MapsReportedGrows
    <3>3. Cardinality(MapsReported \cup {k}) = Cardinality(MapsReported) + 1
      BY <3>1, <3>2, FS_AddElement
    <3>4. Cardinality(MapsReported \cup {k}) <= Cardinality(MapsReported')
      BY <3>2, FS_Subset
    <3>5. maps_completed <= Cardinality(MapsReported)
      BY <1>0 DEF LocationsReported
    <3>6. QED
      BY <1>1, <2>1, <3>2, <3>3, <3>4, <3>5
  <2>13. maps_completed <= maps_completed'
    BY <1>1, <2>1
  <2>14. QED
    BY <2>9, <2>10, <2>11, <2>12, <2>13 DEF LocationsReported
<1>6. QED
  BY <1>0, <1>1, <1>4, <1>5, CountMoves

\* Every step keeps the tasks that stored their output past it.
LEMMA RanOnceStep ==
    ASSUME QuietInv, [JobNext]_vars
    PROVE  RanOnce'
<1>0. JobShape /\ PolledIsFresh /\ RanOnce /\ Maps \subseteq Tasks /\ Maps \cap Reduces = {}
  BY ShapeOf, TaskFacts DEF QuietInv, JobInv, Tasks
<1>1. ASSUME NEW t \in Trackers, NEW m \in Maps, thread[t][m] \in Past
      PROVE  thread'[t][m] \in Past
  <2>1. ASSUME NEW u \in Trackers, NEW k \in Tasks, NEW l, ThreadGoto(u, k, l),
               l \in Past \/ thread[u][k] \notin Past \/ k \notin Maps
        PROVE  thread'[t][m] \in Past
    <3>1. thread'[t][m] = IF t = u /\ m = k THEN l ELSE thread[t][m]
      BY <1>0, <2>1 DEF ThreadGoto, JobShape
    <3>2. QED
      BY <1>1, <2>1, <3>1
  <2>2. ASSUME NEW u \in Trackers, PollReply(u)
        PROVE  thread'[t][m] \in Past
    <3>1. CASE poll[u] \in Tasks
      <4>1. ThreadGoto(u, poll[u], "running") /\ thread[u][poll[u]] = "none"
        BY <1>0, <2>2, <3>1 DEF PollReply, PolledIsFresh
      <4>2. thread[u][poll[u]] \notin Past
        BY <4>1 DEF Past, Reported
      <4>3. QED
        BY <2>1, <3>1, <4>1, <4>2
    <3>2. CASE poll[u] \notin Tasks
      BY <1>1, <2>2, <3>2 DEF PollReply
    <3>3. QED
      BY <3>1, <3>2
  <2>3. ASSUME NEW u \in Trackers, NEW n \in Maps, ExecuteMapTask(u, n)
        PROVE  thread'[t][m] \in Past
    BY <1>0, <2>1, <2>3 DEF ExecuteMapTask, Past
  <2>4. ASSUME NEW u \in Trackers, NEW r \in Reduces, OpenOutput(u, r) \/ WriteOutput(u, r)
        PROVE  thread'[t][m] \in Past
    <3>1. r \in Tasks /\ r \notin Maps /\ \E l : ThreadGoto(u, r, l)
      BY <1>0, <2>4 DEF OpenOutput, WriteOutput, Tasks
    <3>2. QED
      BY <2>1, <3>1
  <2>5. ASSUME NEW u \in Trackers, NEW k \in Tasks, ReportTaskComplete(u, k) \/ ReportReply(u, k)
        PROVE  thread'[t][m] \in Past
    <3>1. PICK l \in {"reply", "done", "lost"} : ThreadGoto(u, k, l)
      BY <2>5 DEF ReportTaskComplete, ReportReply
    <3>2. l \in Past
      BY DEF Past, Reported
    <3>3. QED
      BY <2>1, <3>1, <3>2
  <2>6. \/ UNCHANGED thread
        \/ \E u \in Trackers : PollReply(u)
        \/ \E u \in Trackers, n \in Maps : ExecuteMapTask(u, n)
        \/ \E u \in Trackers, r \in Reduces : OpenOutput(u, r) \/ WriteOutput(u, r)
        \/ \E u \in Trackers, k \in Tasks : ReportTaskComplete(u, k) \/ ReportReply(u, k)
    BY DEF JobNext, SubmitJob, SubmitMap, PollThread, PollForTask, TaskThread, FetchMapOutput,
           CrossTalk, TrackerStop, TrackerKill, vars, ttVars
  <2>7. QED
    BY <1>1, <2>2, <2>3, <2>4, <2>5, <2>6
<1>2. CASE UNCHANGED <<map_outputs, blank>>
  BY <1>0, <1>1, <1>2 DEF RanOnce
<1>3. ASSUME NEW u \in Trackers, NEW n \in Maps, ExecuteMapTask(u, n)
      PROVE  RanOnce'
  <2>1. \A t \in Trackers, m \in Maps :
          m \in map_outputs'[t] \cup blank'[t] => m \in map_outputs[t] \cup blank[t] \/ (t = u /\ m = n)
    BY <1>0, <1>3 DEF ExecuteMapTask, JobShape
  <2>2. thread'[u][n] \in Past
    BY <1>0, <1>3 DEF ExecuteMapTask, ThreadGoto, JobShape, Past
  <2>3. QED
    BY <1>0, <1>1, <2>1, <2>2 DEF RanOnce
<1>4. QED
  BY <1>0, <1>2, <1>3, StoreMoves

\* Every step opens the file for a reduce task only.
LEMMA FileCreatedStep ==
    ASSUME SubmitFirst, QuietInv, [JobNext]_vars
    PROVE  FileIsCreated'
<1>0. JobShape /\ SubmitPhases /\ HeldIsCreated /\ FileIsCreated /\ created \in Nat
  BY ShapeOf, JobAssumption DEF QuietInv, JobInv, JobTypeOK
<1>1. created' \in Nat /\ created' >= created
  <2>1. created' = created \/ created' = created + 1
    BY <1>0, Handout DEF SubmitMap, AssignMap, AssignReduce
  <2>2. QED
    BY <1>0, <2>1
<1>2. CASE output' = output
  BY <1>0, <1>1, <1>2 DEF FileIsCreated
<1>3. ASSUME NEW t \in Trackers, NEW r \in Reduces, OpenOutput(t, r) \/ WriteOutput(t, r)
      PROVE  created > 0
  <2>1. Holds(t, r) /\ r \in Tasks
    BY <1>3 DEF OpenOutput, WriteOutput, Holds, Tasks
  <2>2. r[2] < created /\ r[2] \in Nat
    BY <1>0, <2>1, TaskFacts, JobAssumption DEF HeldIsCreated
  <2>3. QED
    BY <1>0, <2>2
<1>4. output' = output \/ \E t \in Trackers, r \in Reduces : OpenOutput(t, r) \/ WriteOutput(t, r)
  <2>1. ASSUME NEW t \in Trackers, NEW k \in Tasks, TaskThread(t, k)
        PROVE  output' = output \/ (k \in Reduces /\ (OpenOutput(t, k) \/ WriteOutput(t, k)))
    BY <2>1 DEF TaskThread, ExecuteMapTask, FetchMapOutput, ReportTaskComplete, ReportReply
  <2>2. ASSUME NEW t \in Trackers, PollThread(t) \/ CrossTalk(t) \/ TrackerStop(t) \/ TrackerKill(t)
        PROVE  output' = output
    BY <2>2 DEF PollThread, PollForTask, PollReply, CrossTalk, TrackerStop, TrackerKill
  <2>3. CASE SubmitJob \/ SubmitMap \/ UNCHANGED vars
    BY <2>3 DEF SubmitJob, SubmitMap, vars, ttVars
  <2>4. QED
    BY <2>1, <2>2, <2>3, Zenon DEF JobNext
<1>5. QED
  BY <1>0, <1>1, <1>2, <1>3, <1>4 DEF FileIsCreated

\* Every step makes reduce tasks after the maps only, and counts reports of
\* different reduces.
LEMMA DoneStep ==
    ASSUME SubmitFirst, QuietInv, [JobNext]_vars
    PROVE  CreatedAfterMaps' /\ DoneCounted'
<1>0. /\ JobShape /\ JobTypeOK /\ JobInv /\ SubmitPhases /\ AssignedOnce /\ PolledIsFresh
      /\ CreatedAfterMaps /\ DoneCounted
  BY ShapeOf DEF QuietInv, JobInv
<1>1. /\ maps_completed \in Nat /\ maps_completed' \in Nat /\ maps_completed <= maps_completed'
      /\ NumMaps \in Nat /\ reduces_completed \in Nat /\ NumReduces \in Nat /\ created \in Nat
  BY <1>0, LocationsStep, ShapeStep, JobAssumption DEF JobShape, JobTypeOK
<1>2. CreatedAfterMaps'
  <2>1. CASE created' = created
    BY <1>0, <1>1, <2>1 DEF CreatedAfterMaps
  <2>2. ASSUME NEW t \in Trackers, AssignReduce(t), submitted = "yes"
        PROVE  maps_completed' >= NumMaps
    <3>1. maps_completed >= NumMaps
      BY <1>0, <2>2 DEF AssignReduce, MapsDone, SubmitPhases
    <3>2. QED
      BY <1>1, <3>1
  <2>3. created' = created \/ \E t \in Trackers : AssignReduce(t) /\ submitted = "yes"
    BY <1>0, Handout DEF SubmitMap, AssignMap
  <2>4. QED
    BY <2>1, <2>2, <2>3 DEF CreatedAfterMaps
<1>3. ReducesReported \subseteq ReducesReported' /\ IsFiniteSet(ReducesReported')
      /\ Cardinality(ReducesReported) \in Nat /\ Cardinality(ReducesReported') \in Nat
      /\ Cardinality(ReducesReported) <= Cardinality(ReducesReported')
      /\ IsFiniteSet(ReducesReported)
  <2>1. ReducesReported \subseteq ReducesReported'
    BY <1>0, ThreadStep DEF ReducesReported, Tasks
  <2>2. IsFiniteSet(ReducesReported) /\ IsFiniteSet(ReducesReported')
    BY TaskCounts, FS_Subset DEF ReducesReported
  <2>3. QED
    BY <2>1, <2>2, FS_Subset, FS_CardinalityType
<1>4. reduces_completed' <= Cardinality(ReducesReported') /\ reduces_completed' >= reduces_completed
  <2>1. CASE reduces_completed' = reduces_completed
    BY <1>0, <1>1, <1>3, <2>1 DEF DoneCounted
  <2>2. ASSUME NEW t \in Trackers, NEW k \in Tasks, ReportTaskComplete(t, k),
               reduces_completed' # reduces_completed
        PROVE  reduces_completed' <= Cardinality(ReducesReported') /\ reduces_completed' >= reduces_completed
    <3>1. /\ k \in Reduces /\ reduces_completed' = reduces_completed + 1
          /\ thread[t][k] = "report" /\ ThreadGoto(t, k, "reply")
      BY <2>2 DEF ReportTaskComplete, TaskCompleted, jtVars
    <3>2. k \in ReducesReported'
      BY <1>0, <3>1 DEF ThreadGoto, JobShape, Reported, ReducesReported
    <3>3. k \notin ReducesReported
      <4> SUFFICES ASSUME NEW u \in Trackers, thread[u][k] \in Reported
                   PROVE  FALSE
        BY DEF ReducesReported
      <4>1. Holds(u, k) /\ Holds(t, k)
        BY <3>1 DEF Holds, Reported
      <4>2. u = t
        BY <1>0, <4>1 DEF AssignedOnce
      <4>3. QED
        BY <3>1, <4>2 DEF Reported
    <3>4. Cardinality(ReducesReported \cup {k}) = Cardinality(ReducesReported) + 1
      BY <1>3, <3>3, FS_AddElement
    <3>5. Cardinality(ReducesReported \cup {k}) <= Cardinality(ReducesReported')
      <4>1. ReducesReported \cup {k} \subseteq ReducesReported'
        BY <1>3, <3>2
      <4>2. QED
        BY <1>3, <4>1, FS_Subset
    <3>6. QED
      BY <1>0, <1>1, <1>3, <3>1, <3>4, <3>5 DEF DoneCounted
  <2>3. QED
    BY <1>0, <2>1, <2>2, CountMoves
<1>5. job_done' => reduces_completed' >= NumReduces
  <2>1. reduces_completed' \in Nat
    BY <1>0, ShapeStep DEF JobShape
  <2>2. ASSUME NEW t \in Trackers, PollForTask(t), job_done' # job_done
        PROVE  reduces_completed >= NumReduces
    BY <1>0, <2>2 DEF PollForTask, AssignMap, RacingAssignMap, AssignReduce, AssignNothing,
                      SubmitPhases, JobShape
  <2>3. job_done' = job_done \/ \E t \in Trackers : PollForTask(t)
    <3>1. ASSUME NEW t \in Trackers, NEW k \in Tasks, TaskThread(t, k)
          PROVE  job_done' = job_done
      BY <3>1 DEF TaskThread, ExecuteMapTask, FetchMapOutput, OpenOutput, WriteOutput,
                  ReportTaskComplete, TaskCompleted, ReportReply, jtVars
    <3>2. ASSUME NEW t \in Trackers, PollReply(t) \/ CrossTalk(t) \/ TrackerStop(t) \/ TrackerKill(t)
          PROVE  job_done' = job_done
      BY <3>2 DEF PollReply, CrossTalk, TrackerStop, TrackerKill, jtVars
    <3>3. CASE SubmitJob \/ SubmitMap \/ UNCHANGED vars
      BY <3>3 DEF SubmitJob, SubmitMap, vars, jtVars
    <3>4. QED
      BY <3>1, <3>2, <3>3 DEF JobNext, PollThread
  <2>4. job_done' => reduces_completed >= NumReduces
    BY <1>0, <2>2, <2>3 DEF DoneCounted
  <2>5. QED
    BY <1>1, <1>4, <2>1, <2>4
<1>6. QED
  BY <1>2, <1>4, <1>5 DEF DoneCounted

\* The invariant of a job submitted in peace holds in every reachable state.
LEMMA QuietInvariant ==
    ASSUME SubmitFirst
    PROVE  JobSpec => []QuietInv
<1>1. QuietInv /\ [JobNext]_vars => QuietInv'
  <2> SUFFICES ASSUME QuietInv, [JobNext]_vars
               PROVE  QuietInv'
    OBVIOUS
  <2>1. JobInv'
    BY JobInvStep DEF QuietInv
  <2>2. QED
    BY <2>1, AssignStep, LocationsStep, RanOnceStep, FileCreatedStep, DoneStep DEF QuietInv
<1>2. QED
  BY <1>1, QuietInit, PTL DEF JobSpec

\* Once the job has been submitted in peace, a task is with the JobTracker or
\* with one tracker, never with two.
THEOREM AssignedOnceHolds ==
    ASSUME SubmitFirst
    PROVE  JobSpec => []AssignedOnce
<1>1. QuietInv => AssignedOnce
  BY DEF QuietInv
<1>2. QED
  BY <1>1, QuietInvariant, PTL

\* When the counter has reached its end every map task has been reported.
LEMMA AllReported ==
    ASSUME QuietInv, maps_completed >= NumMaps
    PROVE  \A m \in Maps : \E t \in Trackers : thread[t][m] \in Reported
<1>1. maps_completed \in Nat /\ maps_completed <= Cardinality(MapsReported) /\ NumMaps \in Nat
  BY ShapeOf, JobAssumption DEF QuietInv, JobInv, JobShape, LocationsReported
<1>2. /\ Cardinality(MapsReported) \in Nat /\ Cardinality(MapsReported) <= NumMaps
      /\ Cardinality(MapsReported) = NumMaps => MapsReported = Maps
  <2>1. MapsReported \in SUBSET Maps
    BY DEF MapsReported
  <2>2. QED
    BY <2>1, TaskCounts, FS_Subset, FS_CardinalityType
<1>3. MapsReported = Maps
  BY <1>1, <1>2
<1>4. QED
  BY <1>3 DEF MapsReported

\* A reduce task exists only when every map task has been reported, and then the
\* locations name each stored output once: the counter maps_completed_ that
\* PollForTask trusts is the number of different maps, although TaskCompleted does
\* not look at the name.
THEOREM ReduceAfterMapsHolds ==
    ASSUME SubmitFirst
    PROVE  JobSpec => []ReduceAfterMaps
<1>1. QuietInv => ReduceAfterMaps
  <2> DEFINE Of(m) == {i \in DOMAIN locations : locations[i].task = m}
  <2> SUFFICES ASSUME QuietInv, created > 0, NEW m \in Maps
               PROVE  \E t \in Trackers :
                         /\ thread[t][m] \in {"reply", "done"}
                         /\ Cardinality(Of(m)) <= 1 /\ (m \in map_outputs[t] => Cardinality(Of(m)) = 1)
    BY DEF ReduceAfterMaps
  <2>1. maps_completed >= NumMaps
    BY DEF QuietInv, CreatedAfterMaps
  <2>2. PICK t \in Trackers : thread[t][m] \in Reported
    BY <2>1, AllReported
  <2>3. /\ \A i, j \in DOMAIN locations : locations[i].task = locations[j].task => i = j
        /\ m \in map_outputs[t] => Of(m) # {}
    BY <2>2 DEF QuietInv, LocationsReported
  <2>4. CASE Of(m) = {}
    <3>1. Cardinality(Of(m)) = 0 /\ m \notin map_outputs[t]
      BY <2>3, <2>4, FS_EmptySet
    <3> HIDE DEF Of
    <3>2. QED
      BY <2>2, <3>1 DEF Reported
  <2>5. CASE Of(m) # {}
    <3>1. PICK i \in DOMAIN locations : locations[i].task = m
      BY <2>5
    <3>2. Of(m) = {i}
      BY <2>3, <3>1
    <3>3. Cardinality(Of(m)) = 1
      BY <3>2, FS_Singleton
    <3> HIDE DEF Of
    <3>4. QED
      BY <2>2, <3>3 DEF Reported
  <2>6. QED
    BY <2>4, <2>5
<1>2. QED
  BY <1>1, QuietInvariant, PTL

\* No file at all is not the content of one.
LEMMA NoFileIsNoFile == NoFile \notin File
<1> SUFFICES ASSUME NoFile \in File
             PROVE  FALSE
  OBVIOUS
<1>1. NoFile[1] \in (0..2) \X Seq(Maps)
  BY DEF NoFile, File
<1>2. NoFile[1] = <<3, <<>>>>
  BY DEF NoFile, Half
<1>3. QED
  BY <1>1, <1>2

\* IsJobDone() of a submitted job means that every task has run to its end and
\* reported it: the counters are the numbers of different tasks.  The file is
\* there unless no reduce task could open it.
THEOREM DoneMeansReportedHolds ==
    ASSUME SubmitFirst
    PROVE  JobSpec => []DoneMeansReported
<1>1. QuietInv => DoneMeansReported
  <2> SUFFICES ASSUME QuietInv, job_done
               PROVE  /\ \A k \in Tasks : \E t \in Trackers : thread[t][k] \in {"reply", "done"}
                      /\ output # NoFile \/ unopened = Reduces
    BY DEF DoneMeansReported
  <2>1. /\ reduces_completed \in Nat /\ reduces_completed >= NumReduces
        /\ reduces_completed <= Cardinality(ReducesReported)
        /\ unopened \subseteq Reduces /\ created \in Nat
    BY ShapeOf, JobAssumption DEF QuietInv, JobInv, JobShape, JobTypeOK, DoneCounted
  <2>2. /\ IsFiniteSet(ReducesReported) /\ Cardinality(ReducesReported) \in Nat
        /\ Cardinality(ReducesReported) <= NumReduces
        /\ Cardinality(ReducesReported) = NumReduces => ReducesReported = Reduces
    <3>1. ReducesReported \in SUBSET Reduces
      BY DEF ReducesReported
    <3>2. QED
      BY <3>1, TaskCounts, FS_Subset, FS_CardinalityType
  <2>3. ReducesReported = Reduces
    BY <2>1, <2>2, JobAssumption
  <2>4. \A r \in Reduces : \E t \in Trackers : thread[t][r] \in Reported
    BY <2>3 DEF ReducesReported
  <2>5. \A m \in Maps : \E t \in Trackers : thread[t][m] \in Reported
    <3>1. Cardinality(Busy(Reduces)) \in Nat /\ Cardinality(Polled(Reduces)) \in Nat
      BY CountsNat
    <3>2. created > 0
      BY <2>1, <3>1, JobAssumption DEF QuietInv, JobInv, ReduceBudget
    <3>3. QED
      BY <3>2, AllReported DEF QuietInv, CreatedAfterMaps
  <2>6. ASSUME NEW r \in Reduces, r \notin unopened
        PROVE  output # NoFile
    <3>1. PICK t \in Trackers : thread[t][r] \in Reported
      BY <2>4
    <3>2. output \in File
      BY <2>6, <3>1 DEF QuietInv, JobInv, OutputOpened, Past
    <3>3. QED
      BY <3>2, NoFileIsNoFile
  <2>7. QED
    BY <2>1, <2>4, <2>5, <2>6 DEF Reported, Tasks
<1>2. QED
  BY <1>1, QuietInvariant, PTL

-----------------------------------------------------------------------------
\* No tracker has been lost.
AllUp == \A u \in Trackers : tracker[u] = "up"

\* The one reduce task whose partition has data.
First == <<"r", 0>>

Opened == {"write1", "write2"} \cup Past
TasksOf(ls) == {l.task : l \in ToSet(ls)}

\* What a reduce task has read and has still to fetch are outputs of different
\* maps, and what it has read is stored.
Once(ms, ls) ==
    /\ IsInjective(ms) /\ ToSet(ms) \subseteq Outputs
    /\ \A i, j \in DOMAIN ls : ls[i].task = ls[j].task => i = j
    /\ ToSet(ms) \cap TasksOf(ls) = {}
FetchedOnce ==
    \A t \in Trackers, r \in Reduces :
        /\ Once(got[t][r], rest[t][r])
        /\ thread[t][r] = "none" => got[t][r] = <<>>

\* What is in the file is a hole or half a merge of different outputs, in its place.
HalvesOnce ==
    \/ output = NoFile
    \/ \A i \in DOMAIN output :
          \/ output[i] = Hole
          \/ output[i][1] = i /\ IsInjective(output[i][2]) /\ ToSet(output[i][2]) \subseteq Outputs

\* Reduce task 0 has read, or has still to fetch, every output; the other reduce
\* tasks read nothing.
Shuffled ==
    \A t \in Trackers :
        /\ \A r \in Reduces \ {First} : got[t][r] = <<>> /\ thread[t][r] \notin {"write1", "write2"}
        /\ Holds(t, First) => Outputs \subseteq ToSet(got[t][First]) \cup TasksOf(rest[t][First])
        /\ thread[t][First] \in Opened => rest[t][First] = <<>>
        /\ thread[t][First] \in {"write1", "write2"} => got[t][First] # <<>>

\* What is in the file is a hole or half a merge of all outputs.
InPlace ==
    output = NoFile \/ \A i \in DOMAIN output : output[i] = Hole \/ ToSet(output[i][2]) = Outputs

\* Until another reduce task opens the file, it has what reduce task 0 has written.
OthersShut ==
    \A t \in Trackers, r \in Reduces \ {First} : thread[t][r] \in {"none", "running"}
Whole == IF Outputs = {} THEN output = <<>>
         ELSE Len(output) = 2 /\ output[1][1] = 1 /\ output[2][1] = 2
Written ==
    OthersShut => \A t \in Trackers :
        /\ thread[t][First] = "write1" => output = <<>>
        /\ thread[t][First] = "write2" => Len(output) = 1 /\ output[1][1] = 1
        /\ thread[t][First] \in {"report", "reply", "done"} /\ First \notin unopened => Whole

\* The inductive invariant of the output; the second part is about the time before
\* a tracker is lost.
OutputInv ==
    /\ QuietInv
    /\ FetchedOnce
    /\ HalvesOnce
    /\ AllUp => Shuffled /\ InPlace /\ Written

\* Initially nothing has been read or written.
LEMMA OutputInit == JobInit => OutputInv
<1> SUFFICES ASSUME JobInit
             PROVE  OutputInv
  OBVIOUS
<1>1. First \in Reduces /\ First \in Tasks /\ Reduces \subseteq Tasks /\ Ready \notin Tasks
  BY TaskFacts, JobAssumption DEF First, Tasks
<1>2. \A t \in Trackers : /\ \A k \in Tasks : thread[t][k] = "none" /\ poll[t] # k
                          /\ \A r \in Reduces : got[t][r] = <<>> /\ rest[t][r] = <<>>
  BY <1>1 DEF JobInit
<1>3. "none" \notin Opened
  BY DEF Opened, Past, Reported
<1>4. Shuffled
  BY <1>1, <1>2, <1>3 DEF Shuffled, Holds
<1>5. ToSet(<<>>) = {} /\ TasksOf(<<>>) = {} /\ DOMAIN <<>> = {}
  BY DEF ToSet, TasksOf
<1>6. Once(<<>>, <<>>)
  BY <1>5 DEF Once, IsInjective
<1>7. FetchedOnce
  BY <1>2, <1>6 DEF FetchedOnce
<1>8. InPlace /\ Written /\ HalvesOnce
  BY <1>1, <1>2 DEF InPlace, Written, HalvesOnce, JobInit
<1>9. QED
  BY <1>4, <1>7, <1>8, QuietInit DEF OutputInv

\* The tracker that holds a stored output is the one that holds its task.
LEMMA OutputHeld ==
    ASSUME QuietInv, NEW m \in Maps, NEW t \in Trackers, m \in map_outputs[t]
    PROVE  /\ Holds(t, m)
           /\ \A u \in Trackers : Holds(u, m) => u = t
<1>1. thread[t][m] \in Past /\ m \in Tasks
  BY DEF QuietInv, RanOnce, Tasks
<1>2. Holds(t, m)
  BY <1>1 DEF Past, Reported, Holds
<1>3. QED
  BY <1>1, <1>2 DEF QuietInv, AssignedOnce

\* A location of a task that stored its output, anywhere, leads to it.
LEMMA LocationLeads ==
    ASSUME QuietInv, NEW l \in Location, l.task \in map_outputs[l.at] \cup blank[l.at],
           l.task \in Outputs
    PROVE  l.task \in map_outputs[l.at]
<1>1. l.task \in Maps /\ l.at \in Trackers
  BY DEF Location
<1>2. PICK u \in Trackers : l.task \in map_outputs[u]
  BY DEF Outputs
<1>3. thread[l.at][l.task] \in Past
  BY <1>1 DEF QuietInv, RanOnce
<1>4. Holds(l.at, l.task)
  BY <1>3 DEF Holds, Past, Reported
<1>5. l.at = u
  BY <1>1, <1>2, <1>4, OutputHeld
<1>6. QED
  BY <1>2, <1>5

\* After the first reduce task is made no output is stored any more.
LEMMA OutputsMove ==
    ASSUME QuietInv, [JobNext]_vars
    PROVE  /\ Outputs \subseteq Outputs'
           /\ \/ Outputs' = Outputs
              \/ created = 0 /\ \E t \in Trackers, m \in Maps : ExecuteMapTask(t, m)
<1>0. JobShape /\ created \in Nat
  BY ShapeOf, JobAssumption DEF QuietInv, JobInv, JobTypeOK
<1>1. Outputs \subseteq Outputs'
  BY <1>0, StoreMoves DEF Outputs
<1>2. CASE UNCHANGED map_outputs
  BY <1>1, <1>2 DEF Outputs
<1>3. ASSUME NEW t \in Trackers, NEW m \in Maps, ExecuteMapTask(t, m)
      PROVE  created = 0
  <2> SUFFICES ASSUME created > 0
               PROVE  FALSE
    BY <1>0
  <2>1. PICK u \in Trackers : thread[u][m] \in Reported
    BY AllReported DEF QuietInv, CreatedAfterMaps
  <2>2. Holds(u, m) /\ Holds(t, m) /\ m \in Tasks
    BY <1>3, <2>1 DEF ExecuteMapTask, Holds, Reported, Tasks
  <2>3. u = t
    BY <2>2 DEF QuietInv, AssignedOnce
  <2>4. QED
    BY <1>3, <2>1, <2>3 DEF ExecuteMapTask, Reported
<1>4. QED
  BY <1>0, <1>1, <1>2, <1>3, StoreMoves

\* The locations given to a reduce task name every stored output.
LEMMA CoversNew ==
    ASSUME QuietInv, maps_completed >= NumMaps
    PROVE  Outputs \subseteq TasksOf(locations)
<1> SUFFICES ASSUME NEW t \in Trackers, NEW m \in map_outputs[t]
             PROVE  m \in TasksOf(locations)
  BY DEF Outputs
<1>1. m \in Maps /\ locations \in Seq(Location)
  BY ShapeOf DEF QuietInv, JobInv, JobShape
<1>2. PICK u \in Trackers : thread[u][m] \in Reported
  BY <1>1, AllReported
<1>3. u = t
  <2>1. Holds(u, m)
    BY <1>2 DEF Holds, Reported
  <2>2. QED
    BY <1>1, <2>1, OutputHeld
<1>4. PICK i \in DOMAIN locations : locations[i].task = m
  BY <1>1, <1>2, <1>3 DEF QuietInv, LocationsReported
<1>5. QED
  BY <1>4 DEF TasksOf, ToSet

\* A fetch moves an output from what is left to what is read, or drops it.
LEMMA OnceFetch ==
    ASSUME NEW ms \in Seq(Maps), NEW ls \in Seq(Location), ls # <<>>, Once(ms, ls)
    PROVE  /\ Once(ms, Tail(ls))
           /\ Head(ls).task \in Outputs => Once(Append(ms, Head(ls).task), Tail(ls))
           /\ TasksOf(ls) = {Head(ls).task} \cup TasksOf(Tail(ls))
           /\ ToSet(Append(ms, Head(ls).task)) = ToSet(ms) \cup {Head(ls).task}
<1> DEFINE l == Head(ls)
           n == Len(ls)
<1>1. /\ l \in Location /\ Tail(ls) \in Seq(Location)
      /\ Len(Tail(ls)) = n - 1 /\ n \in Nat \ {0}
      /\ ToSet(ls) = {l} \cup ToSet(Tail(ls))
  BY TailFacts
<1>2. /\ DOMAIN ls = 1..n /\ DOMAIN Tail(ls) = 1..(n - 1) /\ l = ls[1]
      /\ \A i \in 1..(n - 1) : Tail(ls)[i] = ls[i + 1]
  BY <1>1, HeadTailProperties, LenProperties
<1>3. l.task \in Maps
  BY <1>1 DEF Location
<1>4. TasksOf(ls) = {l.task} \cup TasksOf(Tail(ls))
  BY <1>1 DEF TasksOf
<1>5. \A i, j \in DOMAIN ls : ls[i].task = ls[j].task => i = j
  BY DEF Once
<1> HIDE DEF l, n
<1>6. \A i, j \in DOMAIN Tail(ls) : Tail(ls)[i].task = Tail(ls)[j].task => i = j
  <2> SUFFICES ASSUME NEW i \in 1..(n - 1), NEW j \in 1..(n - 1), Tail(ls)[i].task = Tail(ls)[j].task
               PROVE  i = j
    BY <1>2
  <2>1. i + 1 \in DOMAIN ls /\ j + 1 \in DOMAIN ls /\ ls[i + 1].task = ls[j + 1].task
    BY <1>1, <1>2
  <2>2. i + 1 = j + 1
    BY <1>5, <2>1
  <2>3. QED
    BY <1>1, <2>2
<1>7. l.task \notin TasksOf(Tail(ls))
  <2> SUFFICES ASSUME NEW x \in ToSet(Tail(ls)), x.task = l.task
               PROVE  FALSE
    BY DEF TasksOf
  <2>1. PICK i \in 1..(n - 1) : x = Tail(ls)[i]
    BY <1>2 DEF ToSet
  <2>2. i + 1 \in DOMAIN ls /\ 1 \in DOMAIN ls /\ ls[i + 1].task = ls[1].task
    BY <1>1, <1>2, <2>1
  <2>3. i + 1 = 1
    BY <1>5, <2>2
  <2>4. QED
    BY <1>1, <2>3
<1>8. Once(ms, Tail(ls))
  BY <1>4, <1>6 DEF Once
<1>9. /\ ToSet(Append(ms, l.task)) = ToSet(ms) \cup {l.task}
      /\ IsInjective(Append(ms, l.task))
  <2>1. l.task \notin ToSet(ms) /\ \A i, j \in DOMAIN ms : ms[i] = ms[j] => i = j
    BY <1>4 DEF Once, IsInjective
  <2>2. \A i, j \in DOMAIN Append(ms, l.task) :
          Append(ms, l.task)[i] = Append(ms, l.task)[j] => i = j
    BY <1>3, <2>1, PushFacts
  <2>3. QED
    BY <1>3, <2>2, PushFacts DEF IsInjective
<1>10. l.task \in Outputs => Once(Append(ms, l.task), Tail(ls))
  BY <1>6, <1>7, <1>8, <1>9 DEF Once
<1>11. QED
  BY <1>4, <1>8, <1>9, <1>10 DEF l

\* Every step keeps what a reduce task has read, and has to fetch, different
\* outputs.
LEMMA FetchedOnceStep ==
    ASSUME SubmitFirst, QuietInv, FetchedOnce, [JobNext]_vars
    PROVE  FetchedOnce'
<1>0. /\ JobShape /\ SubmitPhases /\ PolledIsFresh /\ HeldIsCreated /\ JobTypeOK
      /\ Reduces \subseteq Tasks
  BY ShapeOf DEF QuietInv, JobInv, Tasks
<1>1. Outputs \subseteq Outputs'
  BY OutputsMove
<1>2. ASSUME NEW ms, NEW ls, Once(ms, ls)
      PROVE  Once(ms, ls)'
  BY <1>1, <1>2 DEF Once, TasksOf
<1>3. \A t \in Trackers, r \in Reduces : thread'[t][r] = "none" => thread[t][r] = "none"
  BY <1>0, ThreadStep
<1>4. CASE UNCHANGED <<rest, got>>
  <2> SUFFICES ASSUME NEW t \in Trackers, NEW r \in Reduces
               PROVE  /\ Once(got[t][r], rest[t][r])'
                      /\ thread'[t][r] = "none" => got'[t][r] = <<>>
    BY DEF FetchedOnce
  <2>1. Once(got[t][r], rest[t][r]) /\ (thread[t][r] = "none" => got[t][r] = <<>>)
    BY DEF FetchedOnce
  <2>2. PICK ms, ls : ms = got[t][r] /\ ls = rest[t][r]
    OBVIOUS
  <2>3. Once(ms, ls)'
    BY <1>2, <2>1, <2>2
  <2>4. got'[t][r] = ms /\ rest'[t][r] = ls
    BY <1>4, <2>2
  <2>5. QED
    BY <1>3, <1>4, <2>1, <2>3, <2>4 DEF Once, TasksOf
<1>5. ASSUME NEW t \in Trackers, AssignReduce(t), submitted = "yes", thread' = thread, got' = got
      PROVE  FetchedOnce'
  <2>1. /\ created < NumReduces /\ created \in Nat
        /\ rest' = [rest EXCEPT ![t][<<"r", created>>] = locations]
    BY <1>0, <1>5, JobAssumption DEF AssignReduce, SubmitPhases, JobTypeOK
  <2>2. PICK k \in Reduces : k = <<"r", created>>
    <3>1. created \in 0..(NumReduces - 1)
      BY <2>1, JobAssumption
    <3>2. QED
      BY <3>1, TaskFacts
  <2>3. \A u \in Trackers, r \in Reduces :
           rest'[u][r] = IF u = t /\ r = k THEN locations ELSE rest[u][r]
    BY <1>0, <2>1, <2>2 DEF JobShape
  <2>4. got[t][k] = <<>>
    <3>1. k \in Tasks /\ k[2] = created
      BY <1>0, <2>2
    <3>2. ~ Holds(t, k)
      BY <1>0, <2>1, <2>2, <3>1 DEF HeldIsCreated
    <3>3. QED
      BY <3>2 DEF Holds, FetchedOnce
  <2>5. Once(<<>>, locations)
    <3>1. ToSet(<<>>) = {} /\ IsInjective(<<>>)
      BY DEF ToSet, IsInjective
    <3>2. \A i, j \in DOMAIN locations : locations[i].task = locations[j].task => i = j
      BY DEF QuietInv, LocationsReported
    <3>3. QED
      BY <3>1, <3>2 DEF Once
  <2> SUFFICES ASSUME NEW u \in Trackers, NEW r \in Reduces
               PROVE  /\ Once(got[u][r], rest[u][r])'
                      /\ thread'[u][r] = "none" => got'[u][r] = <<>>
    BY DEF FetchedOnce
  <2>6. PICK ms, ls : /\ ms = got[u][r]
                      /\ ls = IF u = t /\ r = k THEN locations ELSE rest[u][r]
    OBVIOUS
  <2>7. Once(ms, ls)
    BY <2>4, <2>5, <2>6 DEF FetchedOnce
  <2>8. Once(ms, ls)' /\ got'[u][r] = ms /\ rest'[u][r] = ls
    BY <1>2, <1>5, <2>3, <2>6, <2>7
  <2>9. QED
    BY <1>5, <2>8 DEF Once, TasksOf, FetchedOnce
<1>6. ASSUME NEW t \in Trackers, NEW k \in Reduces, FetchMapOutput(t, k)
      PROVE  FetchedOnce'
  <2> DEFINE l == Head(rest[t][k])
             new == IF l.partition = k[2] /\ Served(l) THEN Append(got[t][k], l.task) ELSE got[t][k]
  <2>1. /\ thread[t][k] = "running" /\ rest[t][k] # <<>> /\ thread' = thread
        /\ got' = [got EXCEPT ![t][k] = new] /\ rest' = [rest EXCEPT ![t][k] = Tail(@)]
    BY <1>6 DEF FetchMapOutput
  <2>2. rest[t][k] \in Seq(Location) /\ got[t][k] \in Seq(Maps) /\ Once(got[t][k], rest[t][k])
    BY <1>0 DEF JobShape, FetchedOnce
  <2>3. l \in Location
    BY <2>1, <2>2, TailFacts
  <2>4. Served(l) => l.task \in Outputs
    BY <2>3 DEF Served, Outputs, Location
  <2>5. Once(new, Tail(rest[t][k]))
    BY <2>1, <2>2, <2>4, OnceFetch
  <2> HIDE DEF new
  <2>6. \A u \in Trackers, j \in Reduces :
          /\ got'[u][j] = IF u = t /\ j = k THEN new ELSE got[u][j]
          /\ rest'[u][j] = IF u = t /\ j = k THEN Tail(rest[t][k]) ELSE rest[u][j]
    BY <1>0, <2>1 DEF JobShape
  <2> SUFFICES ASSUME NEW u \in Trackers, NEW r \in Reduces
               PROVE  /\ Once(got[u][r], rest[u][r])'
                      /\ thread'[u][r] = "none" => got'[u][r] = <<>>
    BY DEF FetchedOnce
  <2>7. PICK ms, ls : /\ ms = IF u = t /\ r = k THEN new ELSE got[u][r]
                      /\ ls = IF u = t /\ r = k THEN Tail(rest[t][k]) ELSE rest[u][r]
    OBVIOUS
  <2>8. Once(ms, ls)
    BY <2>5, <2>7 DEF FetchedOnce
  <2>9. Once(ms, ls)' /\ got'[u][r] = ms /\ rest'[u][r] = ls
    BY <1>2, <2>6, <2>7, <2>8
  <2>10. Once(got[u][r], rest[u][r])'
    BY <2>9 DEF Once, TasksOf
  <2>11. thread'[u][r] = "none" => got'[u][r] = <<>>
    BY <2>1, <2>6 DEF FetchedOnce
  <2>12. QED
    BY <2>10, <2>11
<1>7. \/ UNCHANGED <<rest, got>>
      \/ \E t \in Trackers : AssignReduce(t) /\ submitted = "yes" /\ thread' = thread /\ got' = got
      \/ \E t \in Trackers, k \in Reduces : FetchMapOutput(t, k)
  <2>1. ASSUME NEW t \in Trackers, PollForTask(t)
        PROVE  \/ UNCHANGED <<rest, got>>
               \/ AssignReduce(t) /\ submitted = "yes" /\ thread' = thread /\ got' = got
    BY <2>1 DEF PollForTask, AssignMap, RacingAssignMap, AssignNothing
  <2>2. ASSUME NEW t \in Trackers, NEW k \in Tasks, TaskThread(t, k)
        PROVE  UNCHANGED <<rest, got>> \/ (k \in Reduces /\ FetchMapOutput(t, k))
    BY <2>2 DEF TaskThread, ExecuteMapTask, OpenOutput, WriteOutput, ReportTaskComplete, ReportReply
  <2>3. ASSUME NEW t \in Trackers, PollReply(t) \/ CrossTalk(t) \/ TrackerStop(t) \/ TrackerKill(t)
        PROVE  UNCHANGED <<rest, got>>
    BY <2>3 DEF PollReply, CrossTalk, TrackerStop, TrackerKill
  <2>4. CASE SubmitJob \/ SubmitMap \/ UNCHANGED vars
    BY <2>4 DEF SubmitJob, SubmitMap, vars, ttVars
  <2>5. QED
    BY <2>1, <2>2, <2>3, <2>4 DEF JobNext, PollThread
<1>8. QED
  BY <1>4, <1>5, <1>6, <1>7

\* A write puts its half in its place and leaves the others, or a hole.
LEMMA PutFacts ==
    ASSUME NEW f \in File, NEW i \in {1, 2}, NEW ms \in Seq(Maps), NEW g,
           g = Put(f, i, Half(i, ms))
    PROVE  /\ i \in DOMAIN g /\ g[i] = Half(i, ms)
           /\ \A j \in DOMAIN g : j = i \/ g[j] = Hole \/ (j \in DOMAIN f /\ g[j] = f[j])
           /\ f = <<>> /\ i = 1 => Len(g) = 1
           /\ Len(f) = 1 /\ i = 2 => Len(g) = 2 /\ g[1] = f[1]
<1> DEFINE n == IF Len(f) < i THEN i ELSE Len(f)
<1>1. Len(f) \in Nat /\ DOMAIN f = 1..Len(f) /\ (f = <<>> => Len(f) = 0)
  BY LenProperties DEF File
<1>2. n \in Nat /\ i \in 1..n /\ i \in Nat
  BY <1>1
<1>3. /\ DOMAIN g = 1..n
      /\ \A j \in 1..n : g[j] = IF j = i THEN Half(i, ms) ELSE IF j <= Len(f) THEN f[j] ELSE Hole
  BY DEF Put
<1>4. Len(g) \in Nat /\ DOMAIN g = 1..Len(g)
  BY PutFile, LenProperties DEF File
<1> HIDE DEF n
<1>5. Len(g) = n
  BY <1>2, <1>3, <1>4
<1>6. \A j \in DOMAIN g : j = i \/ g[j] = Hole \/ (j \in DOMAIN f /\ g[j] = f[j])
  BY <1>1, <1>2, <1>3
<1>7. f = <<>> /\ i = 1 => Len(g) = 1
  BY <1>1, <1>5 DEF n
<1>8. Len(f) = 1 /\ i = 2 => Len(g) = 2 /\ g[1] = f[1]
  <2> SUFFICES ASSUME Len(f) = 1, i = 2
               PROVE  Len(g) = 2 /\ g[1] = f[1]
    OBVIOUS
  <2>1. n = 2
    BY DEF n
  <2>2. QED
    BY <1>3, <1>5, <2>1
<1>9. QED
  BY <1>2, <1>3, <1>6, <1>7, <1>8

\* Every step keeps the file made of merges of different outputs, in their place.
LEMMA HalvesOnceStep ==
    ASSUME QuietInv, FetchedOnce, HalvesOnce, [JobNext]_vars
    PROVE  HalvesOnce'
<1>0. JobShape /\ OutputOpened
  BY ShapeOf DEF QuietInv, JobInv
<1>1. Outputs \subseteq Outputs'
  BY OutputsMove
<1>2. CASE output' = output
  BY <1>1, <1>2 DEF HalvesOnce
<1>3. CASE output' = <<>>
  BY <1>3 DEF HalvesOnce
<1>4. ASSUME NEW t \in Trackers, NEW r \in Reduces, WriteOutput(t, r)
      PROVE  HalvesOnce'
  <2>1. PICK i \in {1, 2}, ms \in Seq(Maps) :
          ms = got[t][r] /\ output' = Put(output, i, Half(i, ms))
    BY <1>0, <1>4 DEF WriteOutput, JobShape
  <2>2. output \in File /\ output # NoFile
    BY <1>0, <1>4, NoFileIsNoFile DEF WriteOutput, OutputOpened
  <2>3. IsInjective(ms) /\ ToSet(ms) \subseteq Outputs
    BY <2>1 DEF FetchedOnce, Once
  <2>4. /\ output'[i] = Half(i, ms)
        /\ \A j \in DOMAIN output' :
              j = i \/ output'[j] = Hole \/ (j \in DOMAIN output /\ output'[j] = output[j])
    BY <2>1, <2>2, PutFacts
  <2>5. output'[i][1] = i /\ output'[i][2] = ms
    BY <2>4 DEF Half
  <2>6. QED
    BY <1>1, <2>2, <2>3, <2>4, <2>5 DEF HalvesOnce
<1>5. \/ output' = output \/ output' = <<>>
      \/ \E t \in Trackers, r \in Reduces : WriteOutput(t, r)
  <2>1. ASSUME NEW t \in Trackers, NEW k \in Tasks, TaskThread(t, k)
        PROVE  output' = output \/ output' = <<>> \/ (k \in Reduces /\ WriteOutput(t, k))
    BY <2>1 DEF TaskThread, ExecuteMapTask, FetchMapOutput, OpenOutput, ReportTaskComplete, ReportReply
  <2>2. ASSUME NEW t \in Trackers, PollThread(t) \/ CrossTalk(t) \/ TrackerStop(t) \/ TrackerKill(t)
        PROVE  output' = output
    BY <2>2 DEF PollThread, PollForTask, PollReply, CrossTalk, TrackerStop, TrackerKill
  <2>3. CASE SubmitJob \/ SubmitMap \/ UNCHANGED vars
    BY <2>3 DEF SubmitJob, SubmitMap, vars, ttVars
  <2>4. QED
    BY <2>1, <2>2, <2>3, Zenon DEF JobNext
<1>6. QED
  BY <1>2, <1>3, <1>4, <1>5

\* While no reduce task is made, nobody holds one and there is no file.
LEMMA BeforeReduces ==
    ASSUME QuietInv, created = 0
    PROVE  output = NoFile /\ \A t \in Trackers, r \in Reduces : ~ Holds(t, r)
<1>1. \A r \in Reduces : r \in Tasks /\ r[2] \in Nat
  BY TaskFacts, JobAssumption DEF Tasks
<1>2. QED
  BY <1>1 DEF QuietInv, HeldIsCreated, FileIsCreated

\* Every step keeps what reduce task 0 has read and has to fetch complete.
LEMMA ShuffledStep ==
    ASSUME SubmitFirst, QuietInv, FetchedOnce, AllUp, Shuffled, [JobNext]_vars
    PROVE  Shuffled'
<1>0. /\ JobShape /\ SubmitPhases /\ JobTypeOK /\ PolledIsFresh /\ LocationsStored
      /\ HeldIsCreated /\ AssignedOnce
  BY ShapeOf DEF QuietInv, JobInv
<1>1. /\ First \in Reduces /\ First \in Tasks /\ Reduces \subseteq Tasks /\ First \notin Maps
      /\ Maps \cap Reduces = {}
  BY TaskFacts, JobAssumption DEF First, Tasks
<1>2. Outputs' = Outputs \/ (created = 0 /\ \E t \in Trackers, m \in Maps : ExecuteMapTask(t, m))
  BY OutputsMove
<1>3. CASE UNCHANGED <<thread, poll, rest, got>> /\ Outputs' = Outputs
  BY <1>3 DEF Shuffled, Holds, TasksOf
<1>4. ASSUME NEW t \in Trackers, NEW k \in Tasks, NEW l, ThreadGoto(t, k, l), Outputs' = Outputs,
             UNCHANGED <<rest, got>>, poll' = poll \/ PollReply(t),
             k = First /\ l \in Opened => rest[t][First] = <<>>,
             k = First /\ l \in {"write1", "write2"} => got[t][First] # <<>>,
             k \in Reduces \ {First} => l \notin {"write1", "write2"}
      PROVE  Shuffled'
  <2>1. \A u \in Trackers, j \in Tasks :
          thread'[u][j] = IF u = t /\ j = k THEN l ELSE thread[u][j]
    BY <1>0, <1>4 DEF ThreadGoto, JobShape
  <2>2. \A u \in Trackers : Holds(u, First)' <=> Holds(u, First)
    BY <1>0, <1>1, <1>4, HoldsSame
  <2>3. QED
    BY <1>1, <1>4, <2>1, <2>2 DEF Shuffled, TasksOf
<1>5. ASSUME NEW t \in Trackers, PollReply(t)
      PROVE  Shuffled'
  <2>0. Outputs' = Outputs
    BY <1>5 DEF PollReply, Outputs
  <2>1. CASE poll[t] \in Tasks
    <3>1. ThreadGoto(t, poll[t], "running") /\ UNCHANGED <<rest, got>>
      BY <1>5, <2>1 DEF PollReply
    <3>2. "running" \notin Opened
      BY DEF Opened, Past, Reported
    <3>3. QED
      BY <1>4, <1>5, <2>0, <2>1, <3>1, <3>2
  <2>2. CASE poll[t] \notin Tasks
    <3>1. UNCHANGED <<thread, rest, got>>
      BY <1>5, <2>2 DEF PollReply
    <3>2. \A u \in Trackers : Holds(u, First)' <=> Holds(u, First)
      BY <1>0, <1>1, <1>5, HoldsSame
    <3>3. QED
      BY <2>0, <3>1, <3>2 DEF Shuffled, TasksOf
  <2>3. QED
    BY <2>1, <2>2
<1>6. ASSUME NEW t \in Trackers, PollForTask(t)
      PROVE  Shuffled'
  <2>1. /\ poll[t] = Ready /\ submitted = "yes" /\ UNCHANGED <<thread, got>> /\ Outputs' = Outputs
        /\ AssignMap(t) \/ AssignReduce(t) \/ AssignNothing(t)
    BY <1>6 DEF PollForTask, RacingAssignMap, PushOne, Outputs
  <2>2. CASE AssignMap(t)
    <3>1. PICK k \in Maps : k = Last(pending_maps)
      BY <1>0, <2>2, PopFacts DEF AssignMap, JobShape
    <3>2. k \in Tasks /\ k # First /\ poll' = [poll EXCEPT ![t] = k] /\ rest' = rest
      BY <1>1, <2>2, <3>1 DEF AssignMap, Tasks
    <3>3. \A u \in Trackers : Holds(u, First)' <=> Holds(u, First)
      BY <1>0, <1>1, <2>1, <3>2, HoldsNew
    <3>4. QED
      BY <2>1, <3>2, <3>3 DEF Shuffled, TasksOf
  <2>3. CASE AssignNothing(t)
    <3>1. poll' = [poll EXCEPT ![t] = NoTask] /\ rest' = rest
      BY <2>3 DEF AssignNothing
    <3>2. \A u \in Trackers : Holds(u, First)' <=> Holds(u, First)
      BY <1>0, <1>1, <2>1, <3>1, HoldsSame
    <3>3. QED
      BY <2>1, <3>1, <3>2 DEF Shuffled, TasksOf
  <2>4. CASE AssignReduce(t)
    <3>1. /\ created < NumReduces /\ maps_completed >= NumMaps /\ created \in Nat
          /\ rest' = [rest EXCEPT ![t][<<"r", created>>] = locations]
          /\ poll' = [poll EXCEPT ![t] = <<"r", created>>]
      BY <1>0, <2>1, <2>4 DEF AssignReduce, MapsDone, SubmitPhases, JobTypeOK
    <3>2. PICK k \in Reduces : k = <<"r", created>>
      <4>1. created \in 0..(NumReduces - 1)
        BY <3>1, JobAssumption
      <4>2. QED
        BY <4>1, TaskFacts
    <3>3. /\ \A u \in Trackers, r \in Reduces :
               rest'[u][r] = IF u = t /\ r = k THEN locations ELSE rest[u][r]
          /\ k \in Tasks /\ k[2] = created
      BY <1>0, <1>1, <3>1, <3>2 DEF JobShape
    <3>4. \A u \in Trackers, j \in Tasks : Holds(u, j)' <=> Holds(u, j) \/ (u = t /\ j = k)
      BY <1>0, <2>1, <3>1, <3>2, <3>3, HoldsNew
    <3>5. \A u \in Trackers : ~ Holds(u, k)
      BY <1>0, <3>1, <3>2, <3>3 DEF HeldIsCreated
    <3>6. Outputs \subseteq TasksOf(locations)
      BY <3>1, CoversNew
    <3>7. ASSUME NEW u \in Trackers, Holds(u, First)'
          PROVE  Outputs' \subseteq ToSet(got'[u][First]) \cup TasksOf(rest'[u][First])
      <4>1. CASE u = t /\ k = First
        <5>1. rest'[u][First] = locations
          BY <1>1, <3>3, <4>1
        <5>2. QED
          BY <2>1, <3>6, <5>1
      <4>2. CASE ~ (u = t /\ k = First)
        <5>1. Holds(u, First) /\ got'[u][First] = got[u][First] /\ rest'[u][First] = rest[u][First]
          BY <1>1, <2>1, <3>3, <3>4, <3>7, <4>2
        <5>2. QED
          BY <2>1, <5>1 DEF Shuffled
      <4>3. QED
        BY <4>1, <4>2
    <3>8. \A u \in Trackers : thread'[u][First] \in Opened => rest'[u][First] = <<>>
      <4> SUFFICES ASSUME NEW u \in Trackers, thread'[u][First] \in Opened
                   PROVE  rest'[u][First] = <<>>
        OBVIOUS
      <4>1. Holds(u, First) /\ rest[u][First] = <<>>
        BY <2>1 DEF Shuffled, Holds, Opened, Past, Reported
      <4>2. QED
        BY <1>1, <3>3, <3>5, <4>1
    <3>9. QED
      BY <2>1, <3>7, <3>8 DEF Shuffled, TasksOf
  <2>5. QED
    BY <2>1, <2>2, <2>3, <2>4
<1>7. ASSUME NEW t \in Trackers, NEW r \in Reduces, FetchMapOutput(t, r)
      PROVE  Shuffled'
  <2> DEFINE l == Head(rest[t][r])
             new == IF l.partition = r[2] /\ Served(l) THEN Append(got[t][r], l.task) ELSE got[t][r]
  <2>1. /\ thread[t][r] = "running" /\ rest[t][r] # <<>> /\ UNCHANGED <<thread, poll>>
        /\ got' = [got EXCEPT ![t][r] = new] /\ rest' = [rest EXCEPT ![t][r] = Tail(@)]
        /\ Outputs' = Outputs
    BY <1>7 DEF FetchMapOutput, Outputs
  <2>2. /\ rest[t][r] \in Seq(Location) /\ got[t][r] \in Seq(Maps) /\ Once(got[t][r], rest[t][r])
        /\ l \in Location /\ ToSet(rest[t][r]) = {l} \cup ToSet(Tail(rest[t][r]))
    <3>1. rest[t][r] \in Seq(Location) /\ got[t][r] \in Seq(Maps) /\ Once(got[t][r], rest[t][r])
      BY <1>0 DEF JobShape, FetchedOnce
    <3>2. QED
      BY <2>1, <3>1, TailFacts
  <2>3. l.task \in Outputs => Served(l)
    <3> SUFFICES ASSUME l.task \in Outputs
                 PROVE  Served(l)
      OBVIOUS
    <3>1. l \in ToSet(rest[t][r]) /\ l.at \in Trackers
      BY <2>2 DEF Location
    <3>2. l.task \in map_outputs[l.at] \cup blank[l.at]
      BY <1>0, <3>1 DEF LocationsStored
    <3>3. l.task \in map_outputs[l.at]
      BY <2>2, <3>2, LocationLeads
    <3>4. tracker[l.at] = "up"
      BY <3>1 DEF AllUp
    <3>5. QED
      BY <3>3, <3>4 DEF Served
  <2>4. l.partition = 0
    BY <2>2 DEF Location
  <2>5. r = First <=> r[2] = 0
    BY TaskFacts DEF First
  <2>6. /\ r = First /\ l.task \in Outputs => new = Append(got[t][r], l.task)
        /\ new \in {got[t][r], Append(got[t][r], l.task)}
        /\ r # First => new = got[t][r]
    BY <2>3, <2>4, <2>5
  <2> HIDE DEF new
  <2>7. \A u \in Trackers, j \in Reduces :
          /\ got'[u][j] = IF u = t /\ j = r THEN new ELSE got[u][j]
          /\ rest'[u][j] = IF u = t /\ j = r THEN Tail(rest[t][r]) ELSE rest[u][j]
    BY <1>0, <2>1 DEF JobShape
  <2>8. \A u \in Trackers : Holds(u, First)' <=> Holds(u, First)
    BY <2>1 DEF Holds
  <2>9. CASE r = First
    <3>1. Holds(t, First)
      BY <2>1, <2>9 DEF Holds
    <3>2. Outputs \subseteq ToSet(got[t][First]) \cup TasksOf(rest[t][First])
      BY <3>1 DEF Shuffled
    <3>3. /\ TasksOf(rest[t][r]) = {l.task} \cup TasksOf(Tail(rest[t][r]))
          /\ ToSet(Append(got[t][r], l.task)) = ToSet(got[t][r]) \cup {l.task}
      BY <2>1, <2>2, OnceFetch
    <3>4. Outputs \subseteq ToSet(new) \cup TasksOf(Tail(rest[t][First]))
      <4>1. CASE l.task \in Outputs
        BY <2>6, <2>9, <3>2, <3>3, <4>1
      <4>2. CASE l.task \notin Outputs
        BY <2>6, <2>9, <3>2, <3>3, <4>2
      <4>3. QED
        BY <4>1, <4>2
    <3>5. "running" \notin Opened
      BY DEF Opened, Past, Reported
    <3>6. \A u \in Trackers : Holds(u, First)' =>
            Outputs' \subseteq ToSet(got'[u][First]) \cup TasksOf(rest'[u][First])
      <4> SUFFICES ASSUME NEW u \in Trackers, Holds(u, First)
                   PROVE  Outputs \subseteq ToSet(got'[u][First]) \cup TasksOf(rest'[u][First])
        BY <2>1, <2>8
      <4>1. CASE u = t
        BY <1>1, <2>7, <2>9, <3>4, <4>1
      <4>2. CASE u # t
        <5>1. got'[u][First] = got[u][First] /\ rest'[u][First] = rest[u][First]
          BY <1>1, <2>7, <4>2
        <5>2. QED
          BY <5>1 DEF Shuffled
      <4>3. QED
        BY <4>1, <4>2
    <3>7. QED
      BY <1>1, <2>1, <2>7, <2>9, <3>5, <3>6 DEF Shuffled, TasksOf
  <2>10. CASE r # First
    <3>1. new = got[t][r]
      BY <2>6, <2>10
    <3>2. QED
      BY <1>1, <2>1, <2>7, <2>8, <2>10, <3>1 DEF Shuffled, TasksOf
  <2>11. QED
    BY <2>9, <2>10
<1>8. ASSUME NEW t \in Trackers, NEW r \in Reduces, OpenOutput(t, r)
      PROVE  Shuffled'
  <2>1. PICK l : /\ ThreadGoto(t, r, l) /\ UNCHANGED <<rest, got, poll, map_outputs>>
                 /\ rest[t][r] = <<>>
                 /\ l \in {"report", "write1"} /\ (l = "write1" => got[t][r] # <<>>)
    BY <1>8 DEF OpenOutput
  <2>2. r # First => l = "report"
    BY <2>1 DEF Shuffled
  <2>3. Outputs' = Outputs
    BY <2>1 DEF Outputs
  <2>4. QED
    BY <1>1, <1>4, <2>1, <2>2, <2>3
<1>9. ASSUME NEW t \in Trackers, NEW r \in Reduces, WriteOutput(t, r)
      PROVE  Shuffled'
  <2>1. PICK l : /\ ThreadGoto(t, r, l) /\ UNCHANGED <<rest, got, poll, map_outputs>>
                 /\ thread[t][r] \in {"write1", "write2"}
    BY <1>9 DEF WriteOutput
  <2>2. r = First /\ rest[t][First] = <<>> /\ got[t][First] # <<>>
    BY <2>1 DEF Shuffled, Opened
  <2>3. Outputs' = Outputs
    BY <2>1 DEF Outputs
  <2>4. QED
    BY <1>1, <1>4, <2>1, <2>2, <2>3
<1>10. ASSUME NEW t \in Trackers, NEW k \in Tasks,
              ReportTaskComplete(t, k) \/ ReportReply(t, k)
       PROVE  Shuffled'
  <2>1. PICK l \in {"reply", "done", "lost"} :
            /\ ThreadGoto(t, k, l) /\ UNCHANGED <<rest, got, poll, map_outputs>>
            /\ thread[t][k] \in Opened
    BY <1>10 DEF ReportTaskComplete, ReportReply, Opened, Past, Reported
  <2>2. k = First => rest[t][First] = <<>>
    BY <2>1 DEF Shuffled
  <2>3. Outputs' = Outputs
    BY <2>1 DEF Outputs
  <2>4. QED
    BY <1>4, <2>1, <2>2, <2>3
<1>11. ASSUME NEW t \in Trackers, NEW m \in Maps, ExecuteMapTask(t, m)
       PROVE  Shuffled'
  <2>1. /\ ThreadGoto(t, m, "report") /\ UNCHANGED <<rest, got, poll>>
        /\ m \in Tasks /\ m # First /\ m \notin Reduces
    BY <1>1, <1>11 DEF ExecuteMapTask, Tasks
  <2>2. CASE Outputs' = Outputs
    BY <1>4, <2>1, <2>2
  <2>3. CASE created = 0
    <3>1. \A u \in Trackers : ~ Holds(u, First)
      BY <1>1, <2>3, BeforeReduces
    <3>2. \A u \in Trackers, r \in Reduces : thread'[u][r] = thread[u][r]
      BY <1>0, <1>1, <2>1 DEF ThreadGoto, JobShape
    <3>3. \A u \in Trackers : ~ Holds(u, First)'
      BY <1>1, <2>1, <3>1, <3>2 DEF Holds
    <3>4. QED
      BY <1>1, <2>1, <3>2, <3>3 DEF Shuffled
  <2>4. QED
    BY <1>2, <2>2, <2>3
<1>12. ASSUME NEW t \in Trackers, CrossTalk(t) \/ TrackerStop(t) \/ TrackerKill(t)
       PROVE  UNCHANGED <<thread, poll, rest, got>> /\ Outputs' = Outputs
  BY <1>12 DEF CrossTalk, TrackerStop, TrackerKill, Outputs
<1>13. CASE SubmitJob \/ SubmitMap \/ UNCHANGED vars
  BY <1>3, <1>13 DEF SubmitJob, SubmitMap, vars, ttVars, Outputs
<1>14. QED
  BY <1>3, <1>5, <1>6, <1>7, <1>8, <1>9, <1>10, <1>11, <1>12, <1>13
     DEF JobNext, PollThread, TaskThread

\* With nothing left to fetch, reduce task 0 has read every output.
LEMMA AllRead ==
    ASSUME FetchedOnce, Shuffled, NEW t \in Trackers, Holds(t, First), rest[t][First] = <<>>
    PROVE  ToSet(got[t][First]) = Outputs
<1>1. First \in Reduces
  BY TaskFacts, JobAssumption DEF First
<1>2. TasksOf(<<>>) = {}
  BY DEF TasksOf, ToSet
<1>3. Once(got[t][First], rest[t][First])
  BY <1>1 DEF FetchedOnce
<1>4. ToSet(got[t][First]) \subseteq Outputs
  BY <1>3 DEF Once
<1>5. Outputs \subseteq ToSet(got[t][First]) \cup TasksOf(rest[t][First])
  BY DEF Shuffled
<1>6. QED
  BY <1>2, <1>4, <1>5

\* Every step keeps the file made of whole merges, and reduce task 0's own until
\* another opens it.
LEMMA FileStep ==
    ASSUME QuietInv, FetchedOnce, Shuffled, InPlace, Written, [JobNext]_vars
    PROVE  InPlace' /\ Written'
<1>0. JobShape /\ PolledIsFresh /\ AssignedOnce /\ OutputOpened
  BY ShapeOf DEF QuietInv, JobInv
<1>1. First \in Reduces /\ First \in Tasks /\ Reduces \subseteq Tasks /\ First \notin Maps
      /\ Maps \cap Reduces = {}
  BY TaskFacts, JobAssumption DEF First, Tasks
<1>2. CASE UNCHANGED <<thread, output, unopened>> /\ Outputs' = Outputs
  BY <1>2 DEF InPlace, Written, OthersShut, Whole
<1>3. ASSUME NEW t \in Trackers, NEW k \in Tasks, NEW l, ThreadGoto(t, k, l), output' = output,
             unopened' = unopened, Outputs' = Outputs,
             \/ k \in Maps
             \/ thread[t][k] = "none" /\ l = "running"
             \/ thread[t][k] \in {"report", "reply"} /\ l \in {"reply", "done", "lost"}
      PROVE  InPlace' /\ Written'
  <2>1. \A u \in Trackers, j \in Tasks :
          thread'[u][j] = IF u = t /\ j = k THEN l ELSE thread[u][j]
    BY <1>0, <1>3 DEF ThreadGoto, JobShape
  <2>2. InPlace'
    BY <1>3 DEF InPlace
  <2>3. OthersShut' => OthersShut
    <3> SUFFICES ASSUME OthersShut', NEW u \in Trackers, NEW r \in Reduces \ {First}
                 PROVE  thread[u][r] \in {"none", "running"}
      BY DEF OthersShut
    <3>1. thread'[u][r] \in {"none", "running"} /\ r \in Tasks /\ r \notin Maps
      BY <1>1 DEF OthersShut
    <3>2. QED
      BY <1>3, <2>1, <3>1
  <2>4. \A u \in Trackers : \/ thread'[u][First] = thread[u][First]
                            \/ thread'[u][First] \in {"running", "lost"}
                            \/ /\ thread[u][First] \in {"report", "reply"}
                               /\ thread'[u][First] \in {"reply", "done"}
    BY <1>1, <1>3, <2>1
  <2>5. QED
    BY <1>3, <2>2, <2>3, <2>4 DEF Written, Whole
<1>4. ASSUME NEW t \in Trackers, PollReply(t)
      PROVE  InPlace' /\ Written'
  <2>0. Outputs' = Outputs /\ unopened' = unopened
    BY <1>4 DEF PollReply, Outputs
  <2>1. CASE poll[t] \in Tasks
    <3>1. ThreadGoto(t, poll[t], "running") /\ output' = output /\ thread[t][poll[t]] = "none"
      BY <1>0, <1>4, <2>1 DEF PollReply, PolledIsFresh
    <3>2. QED
      BY <1>3, <2>0, <2>1, <3>1
  <2>2. CASE poll[t] \notin Tasks
    BY <1>2, <1>4, <2>0, <2>2 DEF PollReply
  <2>3. QED
    BY <2>1, <2>2
<1>5. ASSUME NEW t \in Trackers, NEW r \in Reduces, OpenOutput(t, r)
      PROVE  InPlace' /\ Written'
  <2>1. PICK l : /\ ThreadGoto(t, r, l) /\ thread[t][r] = "running" /\ rest[t][r] = <<>>
                 /\ \/ /\ output' = <<>>
                       /\ l = IF got[t][r] = <<>> THEN "report" ELSE "write1"
                    \/ output' = output /\ l = "report" /\ r \in unopened'
    BY <1>5 DEF OpenOutput
  <2>2. \A u \in Trackers, j \in Tasks :
          thread'[u][j] = IF u = t /\ j = r THEN l ELSE thread[u][j]
    BY <1>0, <1>1, <2>1 DEF ThreadGoto, JobShape
  <2>3. Outputs' = Outputs
    BY <1>5 DEF OpenOutput, Outputs
  <2>4. InPlace'
    BY <2>1, <2>3 DEF InPlace
  <2>5. CASE r # First
    <3>1. l = "report"
      BY <2>1, <2>5 DEF Shuffled
    <3>2. ~ OthersShut'
      BY <1>1, <2>2, <2>5, <3>1 DEF OthersShut
    <3>3. QED
      BY <2>4, <3>2 DEF Written
  <2>6. CASE r = First
    <3>1. \A u \in Trackers : u = t \/ thread'[u][First] = "none"
      <4> SUFFICES ASSUME NEW u \in Trackers, thread[u][First] # "none"
                   PROVE  u = t
        BY <1>1, <2>2
      <4>1. Holds(u, First) /\ Holds(t, First)
        BY <2>1, <2>6 DEF Holds
      <4>2. QED
        BY <1>0, <1>1, <4>1 DEF AssignedOnce
    <3>2. thread'[t][First] = l
      BY <1>1, <2>2, <2>6
    <3>3. l = "report" => First \in unopened' \/ Whole'
      <4> SUFFICES ASSUME l = "report", First \notin unopened'
                   PROVE  Whole'
        OBVIOUS
      <4>1. output' = <<>> /\ got[t][First] = <<>>
        BY <2>1, <2>6
      <4>2. ToSet(got[t][First]) = Outputs
        BY <2>1, <2>6, AllRead DEF Holds
      <4>3. Outputs = {}
        BY <4>1, <4>2 DEF ToSet
      <4>4. QED
        BY <2>3, <4>1, <4>3 DEF Whole
    <3>4. l = "write1" => output' = <<>>
      BY <2>1
    <3>5. l \in {"report", "write1"}
      BY <2>1
    <3>6. QED
      BY <2>4, <3>1, <3>2, <3>3, <3>4, <3>5 DEF Written
  <2>7. QED
    BY <2>5, <2>6
<1>6. ASSUME NEW t \in Trackers, NEW r \in Reduces, WriteOutput(t, r)
      PROVE  InPlace' /\ Written'
  <2>0. Outputs' = Outputs
    BY <1>6 DEF WriteOutput, Outputs
  <2>1. r = First /\ thread[t][First] \in {"write1", "write2"}
    BY <1>6 DEF WriteOutput, Shuffled
  <2>2. PICK i \in {1, 2}, ms \in Seq(Maps) :
          /\ i = IF thread[t][First] = "write1" THEN 1 ELSE 2
          /\ ms = got[t][First]
    BY <1>0, <1>1 DEF JobShape
  <2>3. /\ output' = Put(output, i, Half(i, ms))
        /\ ThreadGoto(t, First, IF i = 1 THEN "write2" ELSE "report")
    BY <1>6, <2>1, <2>2 DEF WriteOutput
  <2>4. output \in File
    BY <1>0, <1>1, <2>1 DEF OutputOpened
  <2>5. ToSet(ms) = Outputs /\ Outputs # {}
    <3>1. rest[t][First] = <<>> /\ Holds(t, First) /\ ms # <<>>
      BY <2>1, <2>2 DEF Shuffled, Holds, Opened
    <3>2. ToSet(ms) = Outputs
      BY <2>2, <3>1, AllRead
    <3>3. Len(ms) \in Nat /\ DOMAIN ms = 1..Len(ms) /\ Len(ms) # 0
      BY <3>1, EmptySeq, LenProperties
    <3>4. 1 \in DOMAIN ms
      BY <3>3
    <3>5. QED
      BY <3>2, <3>4 DEF ToSet
  <2>6. /\ i \in DOMAIN output' /\ output'[i] = Half(i, ms)
        /\ \A j \in DOMAIN output' :
              j = i \/ output'[j] = Hole \/ (j \in DOMAIN output /\ output'[j] = output[j])
        /\ output = <<>> /\ i = 1 => Len(output') = 1
        /\ Len(output) = 1 /\ i = 2 => Len(output') = 2 /\ output'[1] = output[1]
    BY <2>3, <2>4, PutFacts
  <2>7. output'[i][1] = i /\ output'[i][2] = ms
    BY <2>6 DEF Half
  <2>8. InPlace'
    <3>1. output # NoFile
      BY <2>4, NoFileIsNoFile
    <3>2. QED
      BY <2>0, <2>5, <2>6, <2>7, <3>1 DEF InPlace
  <2>9. \A u \in Trackers, j \in Tasks :
          thread'[u][j] = IF u = t /\ j = First THEN IF i = 1 THEN "write2" ELSE "report"
                                                 ELSE thread[u][j]
    BY <1>0, <1>1, <2>3 DEF ThreadGoto, JobShape
  <2>10. \A u \in Trackers : u = t \/ thread'[u][First] = "none"
    <3> SUFFICES ASSUME NEW u \in Trackers, thread[u][First] # "none"
                 PROVE  u = t
      BY <1>1, <2>9
    <3>1. Holds(u, First) /\ Holds(t, First)
      BY <2>1 DEF Holds
    <3>2. QED
      BY <1>0, <1>1, <3>1 DEF AssignedOnce
  <2>11. OthersShut' => OthersShut
    BY <1>1, <2>9 DEF OthersShut
  <2>12. CASE i = 1
    <3>1. thread[t][First] = "write1" /\ thread'[t][First] = "write2"
      BY <1>1, <2>1, <2>2, <2>9, <2>12
    <3>2. OthersShut' => Len(output') = 1 /\ output'[1][1] = 1
      BY <2>6, <2>7, <2>11, <2>12, <3>1 DEF Written
    <3>3. QED
      BY <2>8, <2>10, <3>1, <3>2 DEF Written
  <2>13. CASE i = 2
    <3>1. thread[t][First] = "write2" /\ thread'[t][First] = "report"
      BY <1>1, <2>1, <2>2, <2>9, <2>13
    <3>2. OthersShut' => Len(output') = 2 /\ output'[1][1] = 1 /\ output'[2][1] = 2
      BY <2>6, <2>7, <2>11, <2>13, <3>1 DEF Written
    <3>3. OthersShut' => Whole'
      BY <2>0, <2>5, <3>2 DEF Whole
    <3>4. QED
      BY <2>8, <2>10, <3>1, <3>3 DEF Written
  <2>14. QED
    BY <2>12, <2>13
<1>7. ASSUME NEW t \in Trackers, NEW k \in Tasks, ReportTaskComplete(t, k) \/ ReportReply(t, k)
      PROVE  InPlace' /\ Written'
  <2>1. PICK l \in {"reply", "done", "lost"} :
            /\ ThreadGoto(t, k, l) /\ UNCHANGED <<output, unopened, map_outputs>>
            /\ thread[t][k] \in {"report", "reply"}
    BY <1>7 DEF ReportTaskComplete, ReportReply
  <2>2. Outputs' = Outputs
    BY <2>1 DEF Outputs
  <2>3. QED
    BY <1>3, <2>1, <2>2
<1>8. ASSUME NEW t \in Trackers, NEW m \in Maps, ExecuteMapTask(t, m)
      PROVE  InPlace' /\ Written'
  <2>1. ThreadGoto(t, m, "report") /\ UNCHANGED <<output, unopened>> /\ m \in Tasks
    BY <1>8 DEF ExecuteMapTask, Tasks
  <2>2. CASE Outputs' = Outputs
    BY <1>3, <2>1, <2>2
  <2>3. CASE created = 0
    <3>1. output = NoFile /\ \A u \in Trackers : thread[u][First] = "none"
      BY <1>1, <2>3, BeforeReduces DEF Holds
    <3>2. \A u \in Trackers : thread'[u][First] = "none"
      BY <1>0, <1>1, <2>1, <3>1 DEF ThreadGoto, JobShape
    <3>3. QED
      BY <2>1, <3>1, <3>2 DEF InPlace, Written
  <2>4. QED
    BY <2>2, <2>3, OutputsMove
<1>9. ASSUME NEW t \in Trackers,
             PollForTask(t) \/ CrossTalk(t) \/ TrackerStop(t) \/ TrackerKill(t)
      PROVE  UNCHANGED <<thread, output, unopened>> /\ Outputs' = Outputs
  BY <1>9 DEF PollForTask, CrossTalk, TrackerStop, TrackerKill, Outputs
<1>10. ASSUME NEW t \in Trackers, NEW r \in Reduces, FetchMapOutput(t, r)
       PROVE  UNCHANGED <<thread, output, unopened>> /\ Outputs' = Outputs
  BY <1>10 DEF FetchMapOutput, Outputs
<1>11. CASE SubmitJob \/ SubmitMap \/ UNCHANGED vars
  BY <1>2, <1>11 DEF SubmitJob, SubmitMap, vars, ttVars, Outputs
<1>12. QED
  BY <1>2, <1>4, <1>5, <1>6, <1>7, <1>8, <1>9, <1>10, <1>11 DEF JobNext, PollThread, TaskThread

\* A tracker lost does not come back.
LEMMA LostIsLost ==
    ASSUME JobShape, [JobNext]_vars, AllUp'
    PROVE  AllUp
<1>1. CASE UNCHANGED tracker
  BY <1>1 DEF AllUp
<1>2. ASSUME NEW t \in Trackers, CrossTalk(t) \/ TrackerStop(t) \/ TrackerKill(t)
      PROVE  FALSE
  <2>1. PICK s \in {"dead", "wedged", "stopped"} : tracker' = [tracker EXCEPT ![t] = s]
    BY <1>2 DEF CrossTalk, TrackerStop, TrackerKill
  <2>2. tracker'[t] # "up"
    BY <2>1 DEF JobShape
  <2>3. QED
    BY <2>2 DEF AllUp
<1>3. ASSUME NEW t \in Trackers, PollThread(t)
      PROVE  UNCHANGED tracker
  BY <1>3 DEF PollThread, PollForTask, PollReply
<1>4. ASSUME NEW t \in Trackers, NEW k \in Tasks, TaskThread(t, k)
      PROVE  UNCHANGED tracker
  BY <1>4 DEF TaskThread, ExecuteMapTask, FetchMapOutput, OpenOutput, WriteOutput,
              ReportTaskComplete, ReportReply
<1>5. CASE SubmitJob \/ SubmitMap \/ UNCHANGED vars
  BY <1>1, <1>5 DEF SubmitJob, SubmitMap, vars, ttVars
<1>6. QED
  BY <1>1, <1>2, <1>3, <1>4, <1>5 DEF JobNext

\* Whatever the file at output_path holds is in its place and is a merge of
\* stored outputs, none twice, even when fetches fail.  While no tracker has been
\* lost it is a merge of all of them, and the file is whole once reduce task 0 has
\* opened and written it and no other reduce task has opened it.
THEOREM OutputCompleteHolds ==
    ASSUME SubmitFirst
    PROVE  JobSpec => []OutputComplete
<1>1. QuietInv /\ OutputInv /\ [JobNext]_vars /\ QuietInv' => OutputInv'
  <2> SUFFICES ASSUME QuietInv, OutputInv, [JobNext]_vars, QuietInv'
               PROVE  OutputInv'
    OBVIOUS
  <2>1. FetchedOnce /\ HalvesOnce
    BY DEF OutputInv
  <2>2. FetchedOnce' /\ HalvesOnce'
    BY <2>1, FetchedOnceStep, HalvesOnceStep
  <2>3. ASSUME AllUp'
        PROVE  Shuffled' /\ InPlace' /\ Written'
    <3>1. AllUp
      BY <2>3, ShapeOf, LostIsLost DEF QuietInv, JobInv
    <3>2. Shuffled /\ InPlace /\ Written
      BY <3>1 DEF OutputInv
    <3>3. QED
      BY <2>1, <3>1, <3>2, ShuffledStep, FileStep
  <2>4. QED
    BY <2>2, <2>3 DEF OutputInv
<1>2. OutputInv => OutputComplete
  <2> SUFFICES ASSUME OutputInv
               PROVE  OutputComplete
    OBVIOUS
  <2>1. HalvesOnce
    BY DEF OutputInv
  <2>2. ASSUME \A u \in Trackers : tracker[u] = "up"
        PROVE  InPlace /\ Written
    BY <2>2 DEF OutputInv, AllUp
  <2>3. QED
    BY <2>1, <2>2 DEF OutputComplete, HalvesOnce, InPlace, Written, OthersShut, First, Whole
<1>3. QED
  BY <1>1, <1>2, OutputInit, QuietInvariant, PTL DEF JobSpec

=============================================================================
