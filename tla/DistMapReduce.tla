--------------------------- MODULE DistMapReduce ----------------------------
(***************************************************************************)
(* Distributed MapReduce: the DistJobTracker's three RPC handlers          *)
(* (src/mapred/dist_job_tracker.h) and the TaskTrackers                    *)
(* (src/mapred/task_tracker.h), each with a poll thread, one thread per    *)
(* task and a shuffle server.  One job is submitted.                       *)
(*                                                                         *)
(* A handler that locks mutex_ is one action; the reply reaches the        *)
(* tracker in a later step. SubmitJob takes no lock: polls come between    *)
(* its pushes, or overlap one (RacingAssignMap). Each map task reads the   *)
(* whole input file and puts everything into partition 0 (num_reduces = 1  *)
(* in ExecuteMapTask), so its output is represented by the task itself; of *)
(* an input that is empty or cannot be read it stores nothing.  A result   *)
(* is the sequence of the map outputs merged; it reaches its file in two   *)
(* writes, a half each, and a file is the sequence of the halves in it.    *)
(*                                                                         *)
(* All threads of a tracker share the connection jt_client_ and take no    *)
(* lock: with two calls under way a thread can read the other's reply, or  *)
(* part of it.  The poll thread then throws (InputBuffer::CheckBounds) and *)
(* ends the process, or waits for ever.                                    *)
(***************************************************************************)
EXTENDS Naturals, Sequences, SequencesExt, FiniteSets

CONSTANTS
    Trackers,
    NumMaps, NumReduces,   \* the parameters of the job
    SubmitFirst,           \* the trackers start when the job is submitted
    MaxFaults              \* bound: trackers stopped or killed

ASSUME JobAssumption ==
    /\ IsFiniteSet(Trackers)
    /\ NumMaps \in Nat \ {0} /\ NumReduces \in Nat \ {0}
    /\ SubmitFirst \in BOOLEAN
    /\ MaxFaults \in Nat

VARIABLES
    submitted,                        \* "no", "pushing" or "yes"
    num_maps, num_reduces,            \* num_maps_, num_reduces_
    pending_maps,                     \* pending_maps_
    pushed,                           \* map tasks SubmitJob has pushed
    maps_completed, reduces_completed,
    created,                          \* pending_reduces_created_
    locations,                        \* map_output_locations_
    job_done,                         \* job_done_
    tracker,                          \* "up", "wedged", "stopped" or "dead"
    poll,                             \* the poll thread: Ready, or its reply
    thread,                           \* thread[t][k]: task k's thread in t
    rest, got,                        \* reduce: locations to fetch, outputs read
    map_outputs,                      \* map_outputs_
    blank,                            \* history: the maps that had nothing to store
    output,                           \* the file at output_path_
    unopened,                         \* history: the reduces that could not open it
    faults

jtVars == <<submitted, num_maps, num_reduces, pending_maps, pushed, maps_completed,
            reduces_completed, created, locations, job_done>>
ttVars == <<tracker, poll, thread, rest, got, map_outputs, blank, output, unopened, faults>>
vars == <<jtVars, ttVars>>

Maps == {<<"m", i>> : i \in 0..(NumMaps - 1)}
Reduces == {<<"r", i>> : i \in 0..(NumReduces - 1)}
Tasks == Maps \cup Reduces
Location == [task : Maps, at : Trackers, partition : {0}]

Ready == <<"ready">>
NoTask == <<"none">>

\* In a file: a half of the result merged from ms; bytes nobody wrote; no file.
Half(i, ms) == <<i, ms>>
Hole == Half(0, <<>>)
NoFile == <<Half(3, <<>>)>>

JobInit ==
    /\ submitted = "no" /\ num_maps = 0 /\ num_reduces = 0
    /\ pending_maps = <<>> /\ pushed = 0
    /\ maps_completed = 0 /\ reduces_completed = 0 /\ created = 0
    /\ locations = <<>> /\ job_done = FALSE
    /\ tracker = [t \in Trackers |-> "up"]
    /\ poll = [t \in Trackers |-> Ready]
    /\ thread = [t \in Trackers |-> [k \in Tasks |-> "none"]]
    /\ rest = [t \in Trackers |-> [r \in Reduces |-> <<>>]]
    /\ got = [t \in Trackers |-> [r \in Reduces |-> <<>>]]
    /\ map_outputs = [t \in Trackers |-> {}]
    /\ blank = [t \in Trackers |-> {}]
    /\ output = NoFile /\ unopened = {}
    /\ faults = 0

-----------------------------------------------------------------------------
\* The JobTracker

\* SubmitJob up to its loop.  created, locations and job_done are not reset.
SubmitJob ==
    /\ submitted = "no" /\ submitted' = "pushing"
    /\ num_maps' = NumMaps /\ num_reduces' = NumReduces
    /\ maps_completed' = 0 /\ reduces_completed' = 0
    /\ UNCHANGED <<pending_maps, pushed, created, locations, job_done, ttVars>>

PushOne ==
    /\ submitted = "pushing"
    /\ pushed' = pushed + 1
    /\ submitted' = IF pushed + 1 = num_maps THEN "yes" ELSE "pushing"

\* One round of its loop.
SubmitMap ==
    /\ PushOne
    /\ pending_maps' = Append(pending_maps, <<"m", pushed>>)
    /\ UNCHANGED <<num_maps, num_reduces, maps_completed, reduces_completed, created,
                   locations, job_done, ttVars>>

MapsDone == maps_completed >= num_maps

\* A plausible bug: the task is read with back() and not popped.
BugAssignMap(t) ==
    /\ pending_maps # <<>>
    /\ poll' = [poll EXCEPT ![t] = Last(pending_maps)]
    /\ UNCHANGED <<submitted, num_maps, num_reduces, pending_maps, pushed, maps_completed,
                   reduces_completed, created, locations, job_done, rest>>

\* PollForTask, first case: the newest map task.
AssignMap(t) ==
    /\ pending_maps # <<>>
    /\ poll' = [poll EXCEPT ![t] = Last(pending_maps)]
    /\ pending_maps' = Front(pending_maps)
    /\ UNCHANGED <<submitted, num_maps, num_reduces, pushed, maps_completed,
                   reduces_completed, created, locations, job_done, rest>>

\* The same while SubmitJob's push_back runs: one of the two updates of the
\* vector's end is lost, so the task handed out is still on the list, or the new
\* one is not.  (A reallocation at that moment may also end the process: then
\* nothing more happens.)
RacingAssignMap(t) ==
    /\ PushOne /\ pending_maps # <<>>
    /\ poll' = [poll EXCEPT ![t] = Last(pending_maps)]
    /\ \/ pending_maps' = Append(pending_maps, <<"m", pushed>>)
       \/ pending_maps' = Front(pending_maps)
    /\ UNCHANGED <<num_maps, num_reduces, maps_completed, reduces_completed, created,
                   locations, job_done, rest>>

\* A plausible bug: the maps handed out are taken for the maps reported.
BugAssignReduce(t) ==
    /\ pending_maps = <<>> /\ created < num_reduces /\ pushed > 0
    /\ poll' = [poll EXCEPT ![t] = <<"r", created>>]
    /\ rest' = [rest EXCEPT ![t][<<"r", created>>] = locations]
    /\ created' = created + 1
    /\ UNCHANGED <<submitted, num_maps, num_reduces, pending_maps, pushed, maps_completed,
                   reduces_completed, locations, job_done>>

\* Second case: make the next reduce task, with the locations known now, and
\* hand it out at once.
AssignReduce(t) ==
    /\ pending_maps = <<>> /\ MapsDone /\ created < num_reduces
    /\ poll' = [poll EXCEPT ![t] = <<"r", created>>]
    /\ rest' = [rest EXCEPT ![t][<<"r", created>>] = locations]
    /\ created' = created + 1
    /\ UNCHANGED <<submitted, num_maps, num_reduces, pending_maps, pushed, maps_completed,
                   reduces_completed, locations, job_done>>

\* A plausible bug: the job is done once all reduces are handed out.
BugAssignNothing(t) ==
    /\ pending_maps = <<>> /\ ~ (MapsDone /\ created < num_reduces)
    /\ poll' = [poll EXCEPT ![t] = NoTask]
    /\ job_done' = (job_done \/ (MapsDone /\ created >= num_reduces))
    /\ UNCHANGED <<submitted, num_maps, num_reduces, pending_maps, pushed, maps_completed,
                   reduces_completed, created, locations, rest>>

\* Otherwise there is no task; only then is the end of the job noticed.
AssignNothing(t) ==
    /\ pending_maps = <<>> /\ ~ (MapsDone /\ created < num_reduces)
    /\ poll' = [poll EXCEPT ![t] = NoTask]
    /\ job_done' = (job_done \/ (MapsDone /\ reduces_completed >= num_reduces))
    /\ UNCHANGED <<submitted, num_maps, num_reduces, pending_maps, pushed, maps_completed,
                   reduces_completed, created, locations, rest>>

PollForTask(t) ==
    /\ tracker[t] = "up" /\ poll[t] = Ready
    /\ SubmitFirst => submitted = "yes"
    /\ AssignMap(t) \/ RacingAssignMap(t) \/ AssignReduce(t) \/ AssignNothing(t)
    /\ UNCHANGED <<tracker, thread, got, map_outputs, blank, output, unopened, faults>>

\* A plausible bug: there is one partition, so one location is sent.
BugNumParts(t, k) == {1}

\* num_parts as ReportTaskComplete sends it: the partitions of ALL outputs stored
\* in t, read before the call.  A task without output of its own sends 1 when
\* another's is there, 0 when it was stored after the reading.
NumParts(t, k) ==
    IF k \in map_outputs[t] THEN {1} ELSE IF map_outputs[t] = {} THEN {0} ELSE {0, 1}

\* A plausible bug: every report is counted as a map's.
BugTaskCompleted(t, k) ==
    /\ maps_completed' = maps_completed + 1
    /\ locations' = IF k \in map_outputs[t]
                      THEN Append(locations, [task |-> k, at |-> t, partition |-> 0])
                      ELSE locations
    /\ UNCHANGED <<submitted, num_maps, num_reduces, pending_maps, pushed,
                   reduces_completed, created, job_done>>

\* A map's report adds num_parts locations; which task reported is not looked at.
TaskCompleted(t, k) ==
    /\ \/ /\ k \in Maps
          /\ \E n \in NumParts(t, k) :
               locations' = IF n = 0 THEN locations
                            ELSE Append(locations, [task |-> k, at |-> t, partition |-> 0])
          /\ maps_completed' = maps_completed + 1
          /\ UNCHANGED reduces_completed
       \/ /\ k \in Reduces
          /\ reduces_completed' = reduces_completed + 1
          /\ UNCHANGED <<locations, maps_completed>>
    /\ UNCHANGED <<submitted, num_maps, num_reduces, pending_maps, pushed, created, job_done>>

-----------------------------------------------------------------------------
\* TaskTrackers

ThreadGoto(t, k, l) == thread' = [thread EXCEPT ![t][k] = l]

\* The poll thread reads its reply and starts a thread for the task.
PollReply(t) ==
    /\ tracker[t] = "up" /\ poll[t] # Ready
    /\ IF poll[t] \in Tasks THEN ThreadGoto(t, poll[t], "running") ELSE UNCHANGED thread
    /\ poll' = [poll EXCEPT ![t] = Ready]
    /\ UNCHANGED <<jtVars, tracker, rest, got, map_outputs, blank, output, unopened, faults>>

\* The task maps the whole file and stores what came out, if anything did.
ExecuteMapTask(t, m) ==
    /\ tracker[t] # "dead" /\ thread[t][m] = "running"
    /\ \/ map_outputs' = [map_outputs EXCEPT ![t] = @ \cup {m}] /\ UNCHANGED blank
       \/ blank' = [blank EXCEPT ![t] = @ \cup {m}] /\ UNCHANGED map_outputs
    /\ ThreadGoto(t, m, "report")
    /\ UNCHANGED <<jtVars, tracker, poll, rest, got, output, unopened, faults>>

\* The shuffle server of l.at answers, and has the output.
Served(l) == tracker[l.at] \in {"up", "wedged"} /\ l.task \in map_outputs[l.at]

\* One round of the shuffle: a location of another partition is passed over,
\* and so is one that cannot be fetched.
FetchMapOutput(t, r) ==
    /\ tracker[t] # "dead" /\ thread[t][r] = "running" /\ rest[t][r] # <<>>
    /\ LET l == Head(rest[t][r]) IN
         got' = [got EXCEPT ![t][r] =
                   IF l.partition = r[2] /\ Served(l) THEN Append(@, l.task) ELSE @]
    /\ rest' = [rest EXCEPT ![t][r] = Tail(@)]
    /\ UNCHANGED <<jtVars, tracker, poll, thread, map_outputs, blank, output, unopened, faults>>

\* Sort and reduce, and open the file, which empties it: every reduce task has
\* the same output_path.  A task without results writes nothing, and nobody looks
\* whether the stream is open: all writes to one that is not are dropped.
OpenOutput(t, r) ==
    /\ tracker[t] # "dead" /\ thread[t][r] = "running" /\ rest[t][r] = <<>>
    /\ \/ /\ output' = <<>> /\ UNCHANGED unopened
          /\ ThreadGoto(t, r, IF got[t][r] = <<>> THEN "report" ELSE "write1")
       \/ /\ unopened' = unopened \cup {r} /\ UNCHANGED output
          /\ ThreadGoto(t, r, "report")
    /\ UNCHANGED <<jtVars, tracker, poll, rest, got, map_outputs, blank, faults>>

\* The file f after a write of x as its i-th half: what is before it in a file
\* that another task has emptied meanwhile is a hole.
Put(f, i, x) ==
    [j \in 1..(IF Len(f) < i THEN i ELSE Len(f)) |->
        IF j = i THEN x ELSE IF j <= Len(f) THEN f[j] ELSE Hole]

\* A plausible bug: the task has its file open for appending.
BugWriteOutput(t, r) ==
    /\ tracker[t] # "dead" /\ thread[t][r] \in {"write1", "write2"}
    /\ LET i == IF thread[t][r] = "write1" THEN 1 ELSE 2 IN
         /\ output' = Append(output, Half(i, got[t][r]))
         /\ ThreadGoto(t, r, IF i = 1 THEN "write2" ELSE "report")
    /\ UNCHANGED <<jtVars, tracker, poll, rest, got, map_outputs, blank, unopened, faults>>

\* The stream writes out its buffer, and the rest when it is closed.
WriteOutput(t, r) ==
    /\ tracker[t] # "dead" /\ thread[t][r] \in {"write1", "write2"}
    /\ LET i == IF thread[t][r] = "write1" THEN 1 ELSE 2 IN
         /\ output' = Put(output, i, Half(i, got[t][r]))
         /\ ThreadGoto(t, r, IF i = 1 THEN "write2" ELSE "report")
    /\ UNCHANGED <<jtVars, tracker, poll, rest, got, map_outputs, blank, unopened, faults>>

\* ReportTaskComplete: the call; after Stop the connection is gone and the
\* report with it.
ReportTaskComplete(t, k) ==
    /\ thread[t][k] = "report"
    /\ \/ /\ tracker[t] \in {"up", "wedged"}
          /\ TaskCompleted(t, k)
          /\ ThreadGoto(t, k, "reply")
       \/ tracker[t] = "stopped" /\ ThreadGoto(t, k, "lost") /\ UNCHANGED jtVars
    /\ UNCHANGED <<tracker, poll, rest, got, map_outputs, blank, output, unopened, faults>>

ReportReply(t, k) ==
    /\ tracker[t] # "dead" /\ thread[t][k] = "reply"
    /\ ThreadGoto(t, k, "done")
    /\ UNCHANGED <<jtVars, tracker, poll, rest, got, map_outputs, blank, output, unopened, faults>>

\* Two replies are on their way to two threads that read one socket.
CrossTalk(t) ==
    /\ tracker[t] = "up"
    /\ Cardinality({k \in Tasks : thread[t][k] = "reply"}) + (IF poll[t] = Ready THEN 0 ELSE 1) > 1
    /\ \E s \in {"dead", "wedged"} : tracker' = [tracker EXCEPT ![t] = s]
    /\ UNCHANGED <<jtVars, poll, thread, rest, got, map_outputs, blank, output, unopened, faults>>

\* Stop lets the detached task threads go on; a kill does not.
TrackerStop(t) ==
    /\ tracker[t] = "up" /\ poll[t] = Ready /\ faults < MaxFaults
    /\ tracker' = [tracker EXCEPT ![t] = "stopped"]
    /\ faults' = faults + 1
    /\ UNCHANGED <<jtVars, poll, thread, rest, got, map_outputs, blank, output, unopened>>

TrackerKill(t) ==
    /\ tracker[t] # "dead" /\ faults < MaxFaults
    /\ tracker' = [tracker EXCEPT ![t] = "dead"]
    /\ faults' = faults + 1
    /\ UNCHANGED <<jtVars, poll, thread, rest, got, map_outputs, blank, output, unopened>>

-----------------------------------------------------------------------------
PollThread(t) == PollForTask(t) \/ PollReply(t)
TaskThread(t, k) ==
    \/ k \in Maps /\ ExecuteMapTask(t, k)
    \/ k \in Reduces /\ (FetchMapOutput(t, k) \/ OpenOutput(t, k) \/ WriteOutput(t, k))
    \/ ReportTaskComplete(t, k) \/ ReportReply(t, k)

JobNext ==
    \/ SubmitJob \/ SubmitMap
    \/ \E t \in Trackers :
         \/ PollThread(t)
         \/ \E k \in Tasks : TaskThread(t, k)
         \/ CrossTalk(t) \/ TrackerStop(t) \/ TrackerKill(t)

JobSpec == JobInit /\ [][JobNext]_vars

\* Threads run, and a submission begun goes on.
JobFairness ==
    /\ WF_vars(SubmitMap)
    /\ \A t \in Trackers : WF_vars(PollThread(t))
    /\ \A t \in Trackers, k \in Tasks : WF_vars(TaskThread(t, k))

JobFairSpec == JobSpec /\ JobFairness

-----------------------------------------------------------------------------
(***************************************************************************)
(* Properties                                                              *)
(***************************************************************************)

\* The type invariant.
JobTypeOK ==
    /\ submitted \in {"no", "pushing", "yes"}
    /\ num_maps \in {0, NumMaps} /\ num_reduces \in {0, NumReduces}
    /\ pending_maps \in Seq(Maps) /\ pushed \in 0..NumMaps
    /\ maps_completed \in 0..(2 * NumMaps - 1) /\ reduces_completed \in 0..NumReduces
    /\ created \in 0..NumReduces
    /\ locations \in Seq(Location) /\ job_done \in BOOLEAN
    /\ tracker \in [Trackers -> {"up", "wedged", "stopped", "dead"}]
    /\ poll \in [Trackers -> {Ready, NoTask} \cup Tasks]
    /\ thread \in [Trackers -> [Tasks -> {"none", "running", "write1", "write2", "report", "reply", "done", "lost"}]]
    /\ rest \in [Trackers -> [Reduces -> Seq(Location)]]
    /\ got \in [Trackers -> [Reduces -> Seq(Maps)]]
    /\ map_outputs \in [Trackers -> SUBSET Maps] /\ blank \in [Trackers -> SUBSET Maps]
    /\ unopened \subseteq Reduces
    /\ output = NoFile \/ output \in Seq((0..2) \X Seq(Maps))

Holds(t, k) == thread[t][k] # "none" \/ poll[t] = k

\* Once the job has been submitted in peace, a task is with the JobTracker or
\* with one tracker, never with two: handed out means taken off the list, and no
\* loss of a tracker brings a task back.
AssignedOnce ==
    /\ \A k \in Tasks, t, u \in Trackers : Holds(t, k) /\ Holds(u, k) => t = u
    /\ \A k \in ToSet(pending_maps), t \in Trackers : ~ Holds(t, k)

\* A reduce task exists only when every map task has been reported, and then the
\* output of each is known, exactly once, if it has one: the counter
\* maps_completed_ can be trusted even though TaskCompleted does not look at the
\* task's name, and the length of map_output_locations_ cannot.
ReduceAfterMaps ==
    created > 0 => \A m \in Maps : \E t \in Trackers :
        /\ thread[t][m] \in {"reply", "done"}
        /\ LET n == Cardinality({i \in DOMAIN locations : locations[i].task = m})
           IN  n <= 1 /\ (m \in map_outputs[t] => n = 1)

\* A location, at the JobTracker or still to be fetched by a reduce task, leads to
\* a tracker that has outputs, and to the task's own, stored before the report, or
\* to a task that had none, whatever the polls do to a submission under way.
LocationsStored ==
    LET Stored(ls) == \A l \in ToSet(ls) :
                          map_outputs[l.at] # {} /\ l.task \in map_outputs[l.at] \cup blank[l.at]
    IN  Stored(locations) /\ \A t \in Trackers, r \in Reduces : Stored(rest[t][r])

\* IsJobDone() of a submitted job means that every task has run to its end and
\* reported it, whatever became of the trackers since; but a file is there only if
\* one of the reduce tasks could open it.
DoneMeansReported ==
    (job_done /\ submitted = "yes") =>
        /\ \A k \in Tasks : \E t \in Trackers : thread[t][k] \in {"reply", "done"}
        /\ output # NoFile \/ unopened = Reduces

Outputs == UNION {map_outputs[t] : t \in Trackers}

\* Whatever the file at output_path holds is in its place and comes from a merge
\* of map outputs, none twice, however the reduce tasks that share the file open
\* and write it and whichever fetches failed.  While no tracker has been lost it
\* is a merge of every output that is stored; and the file is whole once
\* reduce task 0, which gets all the data, has opened and written it and no other
\* has opened it.
OutputComplete ==
    LET Merged(ms) == IsInjective(ms) /\ ToSet(ms) \subseteq Outputs
        Whole == IF Outputs = {} THEN output = <<>>
                 ELSE Len(output) = 2 /\ output[1][1] = 1 /\ output[2][1] = 2
    IN
    /\ output = NoFile \/ \A i \in DOMAIN output :
           output[i] = Hole \/ (output[i][1] = i /\ Merged(output[i][2]))
    /\ (\A u \in Trackers : tracker[u] = "up") =>
        /\ output = NoFile \/ \A i \in DOMAIN output :
               output[i] = Hole \/ ToSet(output[i][2]) = Outputs
        /\ (/\ <<"r", 0>> \notin unopened
            /\ \E t \in Trackers : thread[t][<<"r", 0>>] \in {"report", "reply", "done"}
            /\ \A t \in Trackers, r \in Reduces \ {<<"r", 0>>} :
                  thread[t][r] \in {"none", "running"})
             => Whole

\* A submitted job ends, or a tracker has been lost, or a map task has: a poll
\* that takes a task off the list while SubmitJob, which holds no lock, pushes
\* the next one may leave the list without a task that nobody was given.
JobEndsOrTrackerLost ==
    (submitted = "yes") ~>
        \/ job_done
        \/ \E t \in Trackers : tracker[t] # "up"
        \/ \E m \in Maps : m \notin ToSet(pending_maps) /\ \A t \in Trackers : ~ Holds(t, m)
=============================================================================
