---------------------------- MODULE MapReduceJob ----------------------------
(***************************************************************************)
(* What a word count computes: the local JobTracker (SubmitJob and RunJob, *)
(* src/mapred/job_tracker.h) with the text input (api/input_format.h), the *)
(* hash partitioner (api/mapper.h) and the classes of examples/wordcount.h,*)
(* and, by DistributedRun, the data side of the tasks that DistMapReduce   *)
(* schedules (ExecuteMapTask and ExecuteReduceTask, task_tracker.h), for a *)
(* job with one reduce task; the output file that several reduce tasks     *)
(* truncate in turn is DistMapReduce's.                                    *)
(*                                                                         *)
(* A text is a sequence of words and line ends; what separates the words   *)
(* of a line is left out.  A list of pairs is a sequence of <<word, n>>.   *)
(***************************************************************************)
EXTENDS Integers, Sequences, FiniteSets, SequencesExt

CONSTANTS
    Words,        \* numbers, in the order of the strings they stand for
    NL,           \* the end of a line
    MaxText,      \* bound: length of the input
    MaxReduces,   \* bound: num_reduce_tasks
    MaxMaps,      \* bound: map tasks of a distributed job
    MaxRuns       \* bound: jobs run

ASSUME MapReduceAssumption ==
    /\ Words \subseteq Nat /\ NL \notin Words
    /\ MaxReduces \in Nat \ {0} /\ MaxMaps \in Nat \ {0} /\ MaxText \in Nat /\ MaxRuns \in Nat

VARIABLES
    text,       \* the file "in"; there is no file "missing"
    hash,       \* std::hash of the words, the low 31 bits
    config,     \* the JobTracker's config_ and whether combiner_factory_ is set
    job_done,   \* the JobTracker's job_done_
    dist,       \* history: the distributed job that wrote "dist": its input, its
                \* map tasks and how many of their outputs were fetched
    output,     \* the file at each output path
    runs        \* the number of jobs run

vars == <<text, hash, config, job_done, dist, output, runs>>

Texts == UNION {[1..n -> Words \cup {NL}] : n \in 0..MaxText}

\* Distributed jobs write "dist", local ones "out"; either may be given
\* "no_dir/out", which cannot be opened.
Paths == {"out", "no_dir/out", "dist"}
Inputs == {"in", "missing"}

Configs == [input : Inputs, path : {"out", "no_dir/out"}, reduces : 1..MaxReduces,
            combiner : BOOLEAN]

NoConfig == [input |-> "", path |-> "", reduces |-> 1, combiner |-> FALSE]
NoFile == << <<"no file">> >>

Init ==
    /\ text \in Texts
    /\ hash \in [Words -> 0..(MaxReduces - 1)]
    /\ config = NoConfig /\ job_done = FALSE
    /\ dist = [input |-> "", maps |-> 0, fetched |-> 0] /\ runs = 0
    /\ output = [p \in Paths |-> NoFile]

-----------------------------------------------------------------------------
\* The elements of S in the strict total order R: the k-th has k - 1 before it.
InOrder(S, R) ==
    [k \in 1..Cardinality(S) |->
       CHOOSE i \in S : Cardinality({j \in S : <<j, i>> \in R}) = k - 1]

Ascending(S) == InOrder(S, {x \in S \X S : x[1] < x[2]})

\* The elements of s at the positions that a sequence gives.
At(s, positions) == [k \in DOMAIN positions |-> s[positions[k]]]

-----------------------------------------------------------------------------
\* The input and the mapper

\* Where getline stops: at a line end, and at the end of a file that lacks one.
LineEnds(s) ==
    {i \in DOMAIN s : s[i] = NL}
      \cup (IF s # <<>> /\ Last(s) # NL THEN {Len(s) + 1} ELSE {})

\* The lines that TextRecordReader::Next returns, the empty ones too.
Records(s) ==
    LET stop == Ascending(LineEnds(s))
    IN  [i \in DOMAIN stop |->
           SubSeq(s, IF i = 1 THEN 1 ELSE stop[i - 1] + 1, stop[i] - 1)]

\* WordCountMapper::Map
Map(line) == [i \in DOMAIN line |-> <<line[i], 1>>]

\* What the map phase collects from a file; a missing file reads as empty.
Collected(path) ==
    LET rs == Records(IF path = "in" THEN text ELSE <<>>)
    IN  FlattenSeq([i \in DOMAIN rs |-> Map(rs[i])])

-----------------------------------------------------------------------------
\* Partition, sort, combine, reduce

GetPartition(w, n) == hash[w] % n

Partitioned(pairs, n) ==
    [p \in 1..n |->
       At(pairs, Ascending({i \in DOMAIN pairs : GetPartition(pairs[i][1], n) = p - 1}))]

\* The positions whose pairs std::sort puts before each other, the ones of
\* equal pairs as they stand.
Before(pairs) ==
    {x \in (DOMAIN pairs) \X (DOMAIN pairs) :
       LET a == pairs[x[1]]
           b == pairs[x[2]]
       IN  \/ a[1] < b[1]
           \/ a[1] = b[1] /\ a[2] < b[2]
           \/ a = b /\ x[1] < x[2]}

\* std::sort; the order among equal keys makes no difference to a sum.
Sorted(pairs) == At(pairs, InOrder(DOMAIN pairs, Before(pairs)))

\* The position that ends each group of equal keys.
GroupEnds(pairs) ==
    Ascending({j \in DOMAIN pairs : j = Len(pairs) \/ pairs[j + 1][1] # pairs[j][1]})

\* A plausible bug: the pair that starts a group is not added to its sum.
BugSumRuns(pairs) ==
    LET sum[j \in DOMAIN pairs] ==
          IF j = 1 \/ pairs[j - 1][1] # pairs[j][1] THEN 0 ELSE sum[j - 1] + pairs[j][2]
        last == GroupEnds(pairs)
    IN  [k \in DOMAIN last |-> <<pairs[last[k]][1], sum[last[k]]>>]

\* The loops that group by key: a maximal run of equal keys is one group,
\* and becomes one pair with the sum.
SumRuns(pairs) ==
    LET sum[j \in DOMAIN pairs] ==
          IF j = 1 \/ pairs[j - 1][1] # pairs[j][1] THEN pairs[j][2] ELSE sum[j - 1] + pairs[j][2]
        last == GroupEnds(pairs)
    IN  [k \in DOMAIN last |-> <<pairs[last[k]][1], sum[last[k]]>>]

\* A plausible bug: a combined pair counts as one.
BugCombine(pairs) == [i \in DOMAIN SumRuns(pairs) |-> <<SumRuns(pairs)[i][1], 1>>]

\* RunJob's combiner sums by itself: it makes the Combiner and never calls it.
Combine(pairs) == SumRuns(pairs)

\* WordCountReducer::Reduce for every group
Reduce(pairs) == SumRuns(pairs)

-----------------------------------------------------------------------------
\* The JobTracker's operations

SubmitJob(c) ==
    /\ config' = c /\ job_done' = FALSE
    /\ UNCHANGED <<text, hash, dist, output, runs>>

\* The output stream's state is not looked at.
WriteOutput(path, pairs) ==
    output' = IF path = "no_dir/out" THEN output ELSE [output EXCEPT ![path] = pairs]

\* What RunJob computes under config.
LocalResult ==
    LET parts == Partitioned(Collected(config.input), config.reduces)
        part(p) == IF config.combiner THEN Combine(Sorted(parts[p])) ELSE Sorted(parts[p])
    IN  Sorted(FlattenSeq([p \in 1..config.reduces |-> Reduce(part(p))]))

RunJob ==
    /\ config # NoConfig /\ runs < MaxRuns
    /\ WriteOutput(config.path, LocalResult)
    /\ job_done' = TRUE /\ runs' = runs + 1
    /\ UNCHANGED <<text, hash, config, dist>>

-----------------------------------------------------------------------------
\* The tasks of a distributed job

\* ExecuteMapTask: every map task reads the whole input, and num_reduces is 1.
MapTaskOutput(path) == Sorted(Collected(path))

\* ExecuteReduceTask on the map outputs it fetched, n of them.
ReduceTaskResult(path, n) ==
    Reduce(Sorted(FlattenSeq([i \in 1..n |-> MapTaskOutput(path)])))

\* A job of `maps` map tasks and one reduce task, which skips the outputs that
\* it cannot fetch and does not look at the state of the stream it writes.
DistributedRun(path, dest, maps, fetched) ==
    /\ runs < MaxRuns
    /\ WriteOutput(dest, ReduceTaskResult(path, fetched))
    /\ dist' = IF dest = "dist" THEN [input |-> path, maps |-> maps, fetched |-> fetched]
                                ELSE dist
    /\ runs' = runs + 1
    /\ UNCHANGED <<text, hash, config, job_done>>

-----------------------------------------------------------------------------
Next ==
    \/ \E c \in Configs : SubmitJob(c)
    \/ RunJob
    \/ \E path \in Inputs, dest \in {"dist", "no_dir/out"}, maps \in 1..MaxMaps :
         \E fetched \in 0..maps : DistributedRun(path, dest, maps, fetched)

Spec == Init /\ [][Next]_vars

-----------------------------------------------------------------------------
Pair == Words \X (Nat \ {0})

\* The types of the tracker's state and of the result files.
MrTypeOK ==
    /\ text \in Seq(Words \cup {NL})
    /\ config \in Configs \cup {NoConfig} /\ job_done \in BOOLEAN
    /\ dist.maps \in 0..MaxMaps /\ dist.fetched \in 0..dist.maps /\ runs \in 0..MaxRuns
    /\ \A p \in Paths : output[p] = NoFile \/ output[p] \in Seq(Pair)

Occurrences(w, input) ==
    IF input = "in" THEN Cardinality({i \in DOMAIN text : text[i] = w}) ELSE 0

\* The file o has the words of the input, each once and in order, with n times
\* the number of its occurrences.
CountsOf(o, input, n) ==
    /\ o # NoFile
    /\ \A i, j \in DOMAIN o : i < j => o[i][1] < o[j][1]
    /\ ToSet(o) = {<<w, n * Occurrences(w, input)>> :
                       w \in {v \in Words : Occurrences(v, input) > 0}}

\* When IsJobDone() holds and the output file could be opened, the file has
\* exactly the word counts of the input of the job last submitted: no word is
\* lost or split by the line ends, the hash, the number of partitions or the
\* combiner, and no pair of an earlier job is left.
LocalCountsExact ==
    job_done /\ config.path = "out" => CountsOf(output["out"], config.input, 1)

\* What stress_test.cpp:201 says of a distributed word count ("each word appears
\* ~20000/6" times, with two map tasks and one reduce task): once every map
\* output was fetched, the file has the word counts of the input.  It fails with
\* two map tasks, since ExecuteMapTask makes each of them read the whole input.
DistributedCountsExact ==
    dist.maps > 0 /\ dist.fetched = dist.maps => CountsOf(output["dist"], dist.input, 1)
=============================================================================
