-------------------------- MODULE QueueObservation --------------------------
(***************************************************************************)
(* How one tick of the controller learns what GitHub has queued and what   *)
(* its own runner is doing: observe of packages/cli/src/runner-service.ts  *)
(* over listActiveRuns, listJobs, listRunners, classifyOwnedRunners and    *)
(* buildQueueSnapshot of packages/runner/src/adapters/github.ts. The runs  *)
(* are read status by status and the runners at the same time, then the    *)
(* jobs run by run, then the guest; GitHub moves between any two reads.    *)
(*                                                                         *)
(* Every run has one job for the runner's label; its other jobs show only  *)
(* in the status of the run. Two files outlive the process: the known      *)
(* assignments and the active-job marker.                                  *)
(***************************************************************************)
EXTENDS Naturals, Sequences, FiniteSets

CONSTANTS
    Runs,
    MaxMoves,       \* bound: status changes of runs other than by their label job
    MaxFails,       \* bound: reads that fail, and restarts
    Strangers       \* runners registered beside the owned one: subset of {"twin", "other"}

QueueAssumption == MaxMoves \in Nat /\ MaxFails \in Nat /\ Strangers \subseteq {"twin", "other"}

VARIABLES
    status, job,            \* GitHub: run statuses and the label job of each run
    obs,                    \* the observation in progress
    assignments, marker,    \* assignments.json (run -> "open" or "closed"), active-job.json
    steady, moved,          \* history: runs whose job did not change since the observation began,
                            \* and runs whose status did
    moves, fails

vars == <<status, job, obs, assignments, marker, steady, moved, moves, fails>>
world == <<status, job, moves>>
files == <<assignments, marker>>

StatusList == <<"queued", "in_progress", "waiting", "requested", "pending">>
ActiveStatuses == {"queued", "in_progress", "waiting", "requested", "pending"}

IdleObs == [pc |-> "idle", next |-> 1, runs |-> {}, runners |-> "unread", complete |-> TRUE,
            jobs |-> <<>>, queued |-> 0, busy |-> "null"]

RunnerBusy == \E r \in Runs : job[r] = "in_progress"

Init ==
    /\ status = [r \in Runs |-> "none"] /\ job = [r \in Runs |-> "none"]
    /\ obs = IdleObs /\ assignments = <<>> /\ marker = FALSE
    /\ steady = {} /\ moved = {} /\ moves = 0 /\ fails = 0
-----------------------------------------------------------------------------
(***************************************************************************)
(* GitHub and the runner.                                                  *)
(***************************************************************************)
Touch(r) == steady' = steady \ {r} /\ moved' = moved \cup {r}

Push(r) ==
    /\ status[r] = "none" /\ Touch(r)
    /\ \E s \in {"requested", "pending", "waiting", "queued"} : status' = [status EXCEPT ![r] = s]
    /\ UNCHANGED <<job, obs, files, moves, fails>>

JobQueued(r) ==
    /\ status[r] \in ActiveStatuses /\ job[r] = "none" /\ Touch(r)
    /\ job' = [job EXCEPT ![r] = "queued"]
    /\ \E s \in {"queued", "in_progress", "waiting"} : status' = [status EXCEPT ![r] = s]
    /\ UNCHANGED <<obs, files, moves, fails>>

\* The other jobs of the run start, wait for an approval or end.
RunMoves(r) ==
    /\ moves < MaxMoves /\ moves' = moves + 1
    /\ status[r] \in ActiveStatuses /\ job[r] = "queued"
    /\ \E s \in {"queued", "in_progress", "waiting"} \ {status[r]} : status' = [status EXCEPT ![r] = s]
    /\ moved' = moved \cup {r}
    /\ UNCHANGED <<job, obs, files, steady, fails>>

JobTaken(r) ==
    /\ job[r] = "queued" /\ ~RunnerBusy /\ Touch(r)
    /\ job' = [job EXCEPT ![r] = "in_progress"]
    /\ status' = [status EXCEPT ![r] = "in_progress"]
    /\ UNCHANGED <<obs, files, moves, fails>>

JobEnds(r) ==
    /\ job[r] = "in_progress" /\ Touch(r)
    /\ job' = [job EXCEPT ![r] = "done"]
    /\ \E s \in {"completed", "in_progress"} : status' = [status EXCEPT ![r] = s]
    /\ UNCHANGED <<obs, files, moves, fails>>

RunEnds(r) ==
    /\ job[r] = "done" /\ status[r] # "completed"
    /\ status' = [status EXCEPT ![r] = "completed"] /\ moved' = moved \cup {r}
    /\ UNCHANGED <<job, obs, files, steady, moves, fails>>
-----------------------------------------------------------------------------
(***************************************************************************)
(* The observation.                                                        *)
(***************************************************************************)
Start ==
    /\ obs.pc = "idle"
    /\ obs' = [IdleObs EXCEPT !.pc = "lists"]
    /\ steady' = Runs /\ moved' = {}
    /\ UNCHANGED <<world, files, fails>>

\* listActiveRuns: one status after the other, united by run.
ReadStatus ==
    /\ obs.pc = "lists" /\ obs.next <= Len(StatusList) /\ obs.complete
    /\ obs' = [obs EXCEPT !.next = @ + 1,
                          !.runs = @ \cup {r \in Runs : status[r] = StatusList[obs.next]}]
    /\ UNCHANGED <<world, files, steady, moved, fails>>

\* classifyOwnedRunners without a journaled id: by name and label.
OwnedRunners == {"own"} \cup (Strangers \cap {"twin"})
RunnerView == IF Cardinality(OwnedRunners) > 1 THEN "ambiguous" ELSE IF RunnerBusy THEN "busy" ELSE "idle"

ReadRunners ==
    /\ obs.pc = "lists" /\ obs.runners = "unread"
    /\ obs' = [obs EXCEPT !.runners = RunnerView]
    /\ UNCHANGED <<world, files, steady, moved, fails>>

\* With runs and runners in hand the jobs are read; an incomplete list of runs
\* leaves no jobs to read.
ListsDone ==
    /\ obs.pc = "lists" /\ obs.runners # "unread"
    /\ obs.next > Len(StatusList) \/ ~obs.complete
    /\ obs' = [obs EXCEPT !.pc = "jobs", !.runs = IF obs.complete THEN @ ELSE {}]
    /\ UNCHANGED <<world, files, steady, moved, fails>>

WithJob(jobs, r) == [x \in DOMAIN jobs \cup {r} |-> IF x = r THEN job[r] ELSE jobs[x]]

ReadJobs ==
    /\ obs.pc = "jobs" /\ obs.complete
    /\ \E r \in obs.runs \ DOMAIN obs.jobs : obs' = [obs EXCEPT !.jobs = WithJob(@, r)]
    /\ UNCHANGED <<world, files, steady, moved, fails>>

Open == {r \in DOMAIN assignments : assignments[r] = "open"}

\* Open assignments whose job was in no listed run, for instance because the
\* run is over, are looked up one by one.
UnlistedOpen == Open \ DOMAIN obs.jobs

ReadKnown ==
    /\ obs.pc = "jobs" /\ (obs.complete => obs.runs \subseteq DOMAIN obs.jobs)
    /\ \E r \in UnlistedOpen : obs' = [obs EXCEPT !.jobs = WithJob(@, r)]
    /\ UNCHANGED <<world, files, steady, moved, fails>>

\* Any read may fail, and a rate limit fails every read that follows it; what
\* is left then is incomplete. A failed status ends the list of runs.
ReadFails ==
    /\ fails < MaxFails /\ fails' = fails + 1
    /\ \/ obs.pc = "lists" /\ obs.next <= Len(StatusList) /\ obs.complete /\ obs' = [obs EXCEPT !.complete = FALSE]
       \/ obs.pc = "lists" /\ obs.runners = "unread" /\ obs' = [obs EXCEPT !.runners = "failed"]
       \/ obs.pc = "jobs" /\ obs.complete /\ obs' = [obs EXCEPT !.complete = FALSE, !.runs = DOMAIN obs.jobs]
    /\ UNCHANGED <<world, files, steady, moved>>

\* mergeAssignments: a job seen on the owned runner is known from then on and
\* closed when it is seen completed.
Merged ==
    [r \in DOMAIN assignments \cup {x \in DOMAIN obs.jobs : obs.jobs[x] \in {"in_progress", "done"}} |->
        IF r \in DOMAIN obs.jobs THEN IF obs.jobs[r] = "done" THEN "closed" ELSE "open"
        ELSE assignments[r]]

\* buildQueueSnapshot.
SnapshotComplete == obs.complete /\ obs.runners \in {"busy", "idle"}
SnapshotBusy ==
    IF ~SnapshotComplete THEN "null"
    ELSE IF obs.runners = "busy" \/ \E r \in obs.runs : obs.jobs[r] = "in_progress" THEN "yes" ELSE "no"
SnapshotQueued == IF SnapshotComplete THEN Cardinality({r \in obs.runs : obs.jobs[r] = "queued"}) ELSE 0

\* Mutant: a job known to be active is forgotten when an observation fails.
ActiveJobKnownForgets(preserved, worker) == SnapshotBusy = "yes"

\* worker is what the guest answers: "yes", "no", or "null" when it does not.
ActiveJobKnown(preserved, worker) ==
    LET conclusivelyIdle == SnapshotComplete /\ SnapshotBusy = "no" /\ worker = "no"
    IN  SnapshotBusy = "yes" \/ (preserved /\ ~conclusivelyIdle)

\* The assignments are saved, the guest is asked, the marker is saved.
Conclude ==
    /\ obs.pc = "jobs" /\ (UnlistedOpen = {} \/ ~obs.complete)
    /\ obs.complete => obs.runs \subseteq DOMAIN obs.jobs
    /\ assignments' = Merged
    /\ \E worker \in {IF RunnerBusy THEN "yes" ELSE "no", "null"} :
         LET preserved == marker \/ \E r \in DOMAIN Merged : Merged[r] = "open"
             known == ActiveJobKnown(preserved, worker)
         IN  /\ marker' = known
             /\ obs' = [obs EXCEPT !.pc = "done", !.queued = SnapshotQueued,
                                   !.busy = IF known THEN "yes" ELSE SnapshotBusy]
    /\ UNCHANGED <<world, steady, moved, fails>>

\* The tick uses the observation and the loop goes on.
Finish ==
    /\ obs.pc = "done" /\ obs' = IdleObs
    /\ UNCHANGED <<world, files, steady, moved, fails>>

\* A restart in the middle of an observation leaves the two files.
Crash ==
    /\ fails < MaxFails /\ fails' = fails + 1
    /\ obs.pc # "idle" /\ obs' = IdleObs
    /\ UNCHANGED <<world, files, steady, moved>>

Observing == Start \/ ReadStatus \/ ReadRunners \/ ListsDone \/ ReadJobs \/ ReadKnown \/ Conclude \/ Finish

Next ==
    \/ \E r \in Runs : Push(r) \/ JobQueued(r) \/ RunMoves(r) \/ JobTaken(r) \/ JobEnds(r) \/ RunEnds(r)
    \/ Observing \/ ReadFails \/ Crash

Spec == Init /\ [][Next]_vars
-----------------------------------------------------------------------------
QueueTypeOK ==
    /\ status \in [Runs -> ActiveStatuses \cup {"none", "completed"}]
    /\ job \in [Runs -> {"none", "queued", "in_progress", "done"}]
    /\ obs.pc \in {"idle", "lists", "jobs", "done"} /\ obs.next \in 1..6 /\ obs.runs \subseteq Runs
    /\ obs.busy \in {"yes", "no", "null"} /\ obs.queued \in 0..Cardinality(Runs)
    /\ DOMAIN assignments \subseteq Runs /\ marker \in BOOLEAN
    /\ moves \in 0..MaxMoves /\ fails \in 0..MaxFails

\* An observation never reports the runner idle while one job ran on it from
\* the first read to the last; once the job was known, not even an observation
\* whose reads failed does (the stop decision rests on this).
BusyNeverForgotten ==
    (obs.pc = "done" /\ \E r \in steady : job[r] = "in_progress") =>
       /\ obs.busy # "no"
       /\ (\E r \in DOMAIN assignments : assignments[r] = "open") => obs.busy = "yes"

\* A complete observation misses a job that was queued throughout only if the
\* status of its run changed between the reads of the status lists; so the
\* same job is not missed twice unless its run keeps changing.
MissNeedsMove ==
    (obs.pc = "done" /\ SnapshotComplete) =>
       Cardinality({r \in steady \ moved : job[r] = "queued"}) <= obs.queued

\* assignments.json never calls a job over that still runs, whatever part of
\* the observation saw of it.
AssignmentsTruthful == \A r \in DOMAIN assignments : assignments[r] = "closed" => job[r] = "done"

\* Every assignment whose job is over is closed some time later, although the run
\* may by then be in no list of active runs.
OverButAssigned(r) == r \in DOMAIN assignments /\ job[r] = "done"
AssignmentClosed(r) == r \in DOMAIN assignments /\ assignments[r] = "closed"
=============================================================================
