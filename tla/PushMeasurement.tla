-------------------------- MODULE PushMeasurement --------------------------
(***************************************************************************)
(* The measurement of a guarded workflow: seven pushes fixed before any    *)
(* result is read - three on the base workflow, three on the candidate and *)
(* one direct push - are read from GitHub one after the other, while pull  *)
(* request runs are re-run, judged by the per-push gate, and retained in   *)
(* files that a later reader judges again.                                 *)
(***************************************************************************)
EXTENDS Integers, Sequences, FiniteSets, SequencesExt

CONSTANTS
    OddEntries,     \* the entries that may differ from a push in order
    Conclusions,    \* of the jobs of such an entry
    Durations,      \* of its jobs, in seconds
    Verdicts,       \* what its classifier job left behind
    MaxReruns,      \* re-runs of its pull request's run
    MaxFaults       \* reads that fail, and crashes

Roles == <<"baseline", "baseline", "baseline", "candidate", "candidate", "candidate", "control">>
Entries == DOMAIN Roles
Of(role) == {i \in Entries : Roles[i] = role}

(* The guarded jobs: a matrix of two legs and a single job. *)
Legs == [test |-> {"test-1", "test-2"}, lint |-> {"lint"}]
Guarded == DOMAIN Legs
AllLegs == UNION {Legs[j] : j \in Guarded}

VARIABLES
    push,       \* what each push's run left on GitHub
    pr,         \* the attempts of each pull request's run: their conclusions, the last one current
    entry,      \* the entry being read
    phase,
    pulled,     \* the attempt of the pull request's run whose jobs are wanted
    runs,       \* the evidence read so far
    errors,     \* entries whose reads failed
    files,      \* what is on disk
    faults

vars == <<push, pr, entry, phase, pulled, runs, errors, files, faults>>

Ordinary(role) ==
    [verdict |-> CASE role = "baseline" -> "absent" [] role = "candidate" -> "valid" [] OTHER -> "direct",
     legs |-> [l \in AllLegs |-> IF role = "candidate" THEN "skipped" ELSE "success"],
     seconds |-> 60, workflow |-> IF role = "baseline" THEN "base" ELSE "candidate",
     sameTree |-> TRUE, coverage |-> "all", copied |-> FALSE]

(* A push with a slip: another workflow, a tree nobody tested, fewer jobs in the pull request's run, an entry listed twice. *)
Slips(p) == {p, [p EXCEPT !.workflow = "other"], [p EXCEPT !.sameTree = FALSE],
             [p EXCEPT !.coverage = "fewer"], [p EXCEPT !.copied = TRUE]}

(* A job that ended before it began has a negative duration. *)
Odd(role) ==
    UNION {Slips([Ordinary(role) EXCEPT !.verdict = v, !.seconds = s,
                  !.legs = [l \in AllLegs |-> IF l = "test-2" THEN c ELSE d]]) :
           v \in Verdicts, s \in Durations \union {-1}, c \in Conclusions, d \in Conclusions}

(* An entry that repeats the one before it names its run, head and pull request again. *)
Repeated(i) == push[i].copied /\ i > 1 /\ Roles[i] = Roles[i - 1]
CohortAccepted == \A i \in Entries : ~Repeated(i)

Init ==
    /\ \E o \in OddEntries : \E odd \in Odd(Roles[o]), green \in BOOLEAN :
           /\ push = [i \in Entries |-> IF i = o THEN odd ELSE Ordinary(Roles[i])]
           /\ pr = [i \in Entries |-> IF i = o /\ ~green THEN <<"failure">> ELSE <<"success">>]
    /\ entry = 1 /\ pulled = 0 /\ runs = <<>> /\ errors = {} /\ faults = 0
    /\ phase = IF CohortAccepted THEN "run" ELSE "refused"
    /\ files = {}

HasRequest(i) == Roles[i] # "control"
Reruns == LET extra(n, i) == n + Len(pr[i]) - 1 IN FoldLeft(extra, 0, [i \in Entries |-> i])

(* The pull request's run is re-run; a run in progress has no conclusion. *)
Rerun(i) ==
    /\ HasRequest(i) /\ i \in OddEntries /\ Last(pr[i]) # "running" /\ Reruns < MaxReruns
    /\ phase \in {"run", "pull", "prJobs"}
    /\ pr' = [pr EXCEPT ![i] = Append(@, "running")]
    /\ UNCHANGED <<push, entry, phase, pulled, runs, errors, files, faults>>

RerunEnds(i) ==
    /\ Last(pr[i]) = "running"
    /\ \E c \in {"success", "failure"} : pr' = [pr EXCEPT ![i][Len(pr[i])] = c]
    /\ UNCHANGED <<push, entry, phase, pulled, runs, errors, files, faults>>

NextEntry == entry' = entry + 1 /\ phase' = IF entry = Len(Roles) THEN "judge" ELSE "run"

FailEntry ==
    /\ errors' = errors \union {entry} /\ pulled' = 0
    /\ NextEntry
    /\ UNCHANGED <<push, pr, runs, files, faults>>

(* The verdict of the classifier's log: none on the base workflow, one line of a successful job. *)
Verdict(v) ==
    CASE v = "absent" -> [present |-> FALSE, validated |-> FALSE, reason |-> "none"]
      [] v = "valid"  -> [present |-> TRUE, validated |-> TRUE, reason |-> "validated"]
      [] v = "direct" -> [present |-> TRUE, validated |-> FALSE, reason |-> "no-merged-pr"]
      [] OTHER        -> [present |-> TRUE, validated |-> FALSE, reason |-> "classifier-not-successful"]

(* The push's run of the recorded attempt, its workflow, its jobs and the classifier's log. *)
ReadRun ==
    /\ phase = "run"
    /\ LET p == push[entry] IN
         IF p.verdict = "twice" THEN FailEntry
         ELSE /\ runs' = Append(runs, [role |-> Roles[entry], of |-> entry, classifier |-> Verdict(p.verdict),
                                       green |-> p.verdict # "red", legs |-> p.legs, seconds |-> p.seconds,
                                       workflow |-> p.workflow, prJobs |-> "none", coverage |-> "none"])
              /\ IF HasRequest(entry) THEN phase' = "pull" /\ entry' = entry ELSE NextEntry
              /\ UNCHANGED <<push, pr, pulled, errors, files, faults>>

Drop == SubSeq(runs, 1, Len(runs) - 1)

FailRead ==
    /\ errors' = errors \union {entry} /\ runs' = Drop /\ pulled' = 0
    /\ NextEntry
    /\ UNCHANGED <<push, pr, files, faults>>

(* The pull request and the current attempt of its run, and for a validated push both trees. *)
ReadPull ==
    /\ phase = "pull"
    /\ IF Last(pr[entry]) = "running" \/ (Last(runs).classifier.validated /\ ~push[entry].sameTree) THEN FailRead
       ELSE /\ pulled' = Len(pr[entry]) /\ phase' = "prJobs"
            /\ UNCHANGED <<push, pr, entry, runs, errors, files, faults>>

(* The jobs of the attempt seen before, which no re-run changes. *)
ReadPrJobs ==
    /\ phase = "prJobs"
    /\ runs' = Append(Drop, [Last(runs) EXCEPT !.prJobs = pr[entry][pulled], !.coverage = push[entry].coverage])
    /\ pulled' = 0
    /\ NextEntry
    /\ UNCHANGED <<push, pr, errors, files, faults>>

(* A request fails, or an answer has expired. *)
ReadFails ==
    /\ faults < MaxFaults /\ phase \in {"run", "pull", "prJobs"}
    /\ faults' = faults + 1
    /\ errors' = errors \union {entry} /\ pulled' = 0
    /\ runs' = IF phase = "run" THEN runs ELSE Drop
    /\ NextEntry
    /\ UNCHANGED <<push, pr, files>>

(* GitHub bills a job by the minutes it began; -1 stands for a job that cannot be measured. *)
BillableMinutes(seconds) == IF seconds < 0 THEN -1 ELSE (seconds + 59) \div 60

LegMinutes(run, l) == IF run.legs[l] = "skipped" THEN 0 ELSE BillableMinutes(run.seconds)
ClassifierMinutes(run) == IF run.classifier.present THEN BillableMinutes(run.seconds) ELSE 0

Billed(run) ==
    FoldSet(LAMBDA l, n : n + LegMinutes(run, l), ClassifierMinutes(run), AllLegs)

(* The middle of a list of numbers of odd length. *)
Median(values) == SortSeq(values, <)[Len(values) \div 2 + 1]

(* One conclusion per guarded job: the least favourable of its legs. *)
GuardedConclusion(run, j) ==
    LET found == {run.legs[l] : l \in Legs[j]}
    IN CHOOSE c \in found :
         \A d \in found : LET order == <<"failure", "cancelled", "skipped", "success">>
                              place(x) == CHOOSE n \in 1..4 : order[n] = x
                          IN place(c) <= place(d)

RunSet == {runs[n] : n \in DOMAIN runs}
MinutesOf(role) ==
    LET mine(run) == run.role = role
        chosen == SelectSeq(runs, mine)
    IN [n \in DOMAIN chosen |-> Billed(chosen[n])]

Unmeasured(run) ==
    \/ \E l \in AllLegs : LegMinutes(run, l) < 0
    \/ ClassifierMinutes(run) < 0

Ran(run) == \A l \in AllLegs : run.legs[l] = "success"

(* Why one run rejects the whole measurement. *)
Rejected(run) ==
    \/ Unmeasured(run)
    \/ run.classifier.present = (run.role = "baseline")
    \/ run.workflow # (IF run.role = "baseline" THEN "base" ELSE "candidate")
    \/ run.role # "baseline" /\ ~run.green
    \/ run.role = "baseline" /\ ~Ran(run)
    \/ run.role = "control" /\ (run.classifier.validated \/ ~Ran(run))
    \/ run.role = "control" /\ run.classifier.reason # "no-merged-pr"
    \/ run.role = "candidate" /\ run.classifier.validated /\ \E l \in AllLegs : run.legs[l] # "skipped"
    \/ run.role = "candidate" /\ ~run.classifier.validated /\ ~Ran(run)
    \/ run.role # "control" /\ run.prJobs # "success"
    \/ run.role # "control" /\ run.coverage # runs[1].coverage

NotValidated == \E run \in RunSet : run.role = "candidate" /\ run.classifier.present /\ ~run.classifier.validated

SavingBelowOneMinute ==
    \E m \in Range(MinutesOf("candidate")) : m > Median(MinutesOf("baseline")) - 1

Status ==
    IF Len(runs) # Len(Roles) \/ \E run \in RunSet : Rejected(run) THEN "rejected"
    ELSE IF NotValidated \/ SavingBelowOneMinute THEN "no-improvement"
    ELSE "measured-improvement"

(* What the artifact decoder demands of an improvement, on the reduced samples. *)
Decodes(status) ==
    LET guarded(run, c) == \A j \in Guarded : GuardedConclusion(run, j) = c
        middle == SortSeq(MinutesOf("baseline"), <)[2]
    IN status = "measured-improvement" =>
         /\ Len(MinutesOf("baseline")) = 3 /\ Len(MinutesOf("candidate")) = 3
         /\ \A run \in RunSet :
              /\ run.role = "baseline" => guarded(run, "success")
              /\ run.role = "candidate" => run.classifier.validated /\ guarded(run, "skipped")
              /\ run.role = "control" => ~run.classifier.validated /\ guarded(run, "success")
              /\ run.role # "control" => run.prJobs = "success" /\ run.coverage = runs[1].coverage
         /\ \A m \in Range(MinutesOf("candidate")) : m <= middle - 1

(* All reads are in: incomplete evidence is kept but not judged. *)
Judge ==
    /\ phase = "judge"
    /\ IF errors # {} THEN phase' = "failed" /\ files' = files \union {"incomplete"}
       ELSE IF Decodes(Status) THEN phase' = "measurement" /\ files' = files \union {"evidence"}
       ELSE phase' = "interrupted" /\ files' = files
    /\ UNCHANGED <<push, pr, entry, pulled, runs, errors, faults>>

Write(now, file, next) ==
    /\ phase = now /\ phase' = next
    /\ files' = files \union {file}
    /\ UNCHANGED <<push, pr, entry, pulled, runs, errors, faults>>

WriteMeasurement == Write("measurement", "measurement", "receipt")
WriteReceipt == Write("receipt", "receipt", "operation")
WriteOperation == Write("operation", "operation", "done")

Crash ==
    /\ faults < MaxFaults /\ phase \in {"measurement", "receipt", "operation"}
    /\ phase' = "crashed" /\ faults' = faults + 1
    /\ UNCHANGED <<push, pr, entry, pulled, runs, errors, files>>

(* A later stage takes a measurement whose receipt binds all files and whose evidence gives it again. *)
Readable == {"evidence", "measurement", "receipt"} \subseteq files /\ Decodes(Status)

Next ==
    \/ \E i \in Entries : Rerun(i) \/ RerunEnds(i)
    \/ ReadRun \/ ReadPull \/ ReadPrJobs \/ ReadFails
    \/ Judge \/ WriteMeasurement \/ WriteReceipt \/ WriteOperation \/ Crash

Spec == Init /\ [][Next]_vars

-----------------------------------------------------------------------------
(* The type invariant of the measurement. *)
TypeOK ==
    /\ entry \in 1..(Len(Roles) + 1) /\ Len(runs) + Cardinality(errors) <= Len(Roles)
    /\ phase \in {"refused", "run", "pull", "prJobs", "judge", "measurement", "receipt", "operation",
                  "done", "failed", "interrupted", "crashed"}
    /\ pulled # 0 <=> phase = "prJobs"
    /\ files \subseteq {"incomplete", "evidence", "measurement", "receipt", "operation"}
    /\ \A i \in Entries : \A n \in 1..(Len(pr[i]) - 1) : pr[i][n] # "running"

WholeMinutes(seconds) == Cardinality({m \in 0..seconds : 60 * m < seconds})

(* What a push really cost, and what half of the baseline pushes cost at least. *)
JobsRun(i) ==
    {l \in AllLegs : push[i].legs[l] # "skipped"} \union (IF push[i].verdict = "absent" THEN {} ELSE {"classifier"})
Cost(i) == Cardinality(JobsRun(i)) * WholeMinutes(push[i].seconds)
Typical(c) == Cardinality({i \in Of("baseline") : Cost(i) >= c}) >= 2

(* comparePushMeasurement and assertPushMeasuredEvidence: an improvement a later stage can read is real.  Seven    *)
(* different pushes; every candidate left all guarded jobs out, carried the tree of its pull request, whose run    *)
(* passed; the direct push ran everything; and each candidate cost a minute less than the typical baseline push.   *)
ImprovementIsReal ==
    Readable /\ Status = "measured-improvement" =>
        /\ \A i \in Entries : ~Repeated(i) /\ push[i].verdict # "red"
        /\ \A i \in Of("candidate") :
             /\ push[i].verdict = "valid" /\ push[i].sameTree /\ push[i].workflow = "candidate"
             /\ \A l \in AllLegs : push[i].legs[l] = "skipped"
             /\ "success" \in Range(pr[i])
             /\ Typical(Cost(i) + 1)
        /\ \A i \in Of("baseline") \union Of("control") : \A l \in AllLegs : push[i].legs[l] = "success"
        /\ \A i \in Of("control") : push[i].verdict = "direct"

(* The gate and the decoder of its artifact state the same conditions twice, the one on legs and the other on the  *)
(* reduced samples: no complete measurement ends as an interrupted one because they disagree.                      *)
GateAndDecoderAgree == phase # "interrupted"

(* measurement-incomplete: a measurement with an entry that could not be read is never judged, whatever is read    *)
(* after it, and what a crash leaves half written is not readable.                                                 *)
OnlyCompleteIsReadable ==
    /\ "measurement" \in files => errors = {} /\ [n \in DOMAIN runs |-> runs[n].of] = [n \in Entries |-> n]
    /\ Readable => "incomplete" \notin files

(* runEvidence: the jobs of a pull request's run are read as one attempt left them, also when the run is re-run     *)
(* between the request for the run and the request for its jobs.                                                  *)
JobsOfOneAttempt ==
    \A n \in DOMAIN runs : runs[n].prJobs \in {"none", "success", "failure"}
=============================================================================
