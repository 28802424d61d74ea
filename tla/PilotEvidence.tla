--------------------------- MODULE PilotEvidence ---------------------------
(***************************************************************************)
(* The pilot fixture (packages/runner/src/pilot.ts): four dispatches of    *)
(* one generated workflow, two on hosted and two on self-hosted runners,   *)
(* whose results are collected by hand and analysed.  A self-hosted runner *)
(* may come back with a fresh disk or with the machine it had; what it     *)
(* still holds is what the second run's sentinel step looks for.           *)
(***************************************************************************)
EXTENDS Integers, Sequences, FiniteSets, SequencesExt, TLC

CONSTANTS
    Candidates,     \* builds under test
    Wanted,         \* the candidate the analysis is for
    MaxRuns,        \* workflow runs in a behaviour
    HostedRuns,     \* of which on hosted runners
    MaxMachines     \* machines and registrations handed out

WantedIsCandidate == Wanted \in Candidates

VARIABLES
    machine,    \* per target: the registration and workspace in use, and its sentinel
    fresh,      \* the next unused registration and workspace number
    history,    \* every run in the order it ended
    results     \* what the operator has collected, as indices of history with a claimed dispatch

vars == <<machine, fresh, history, results>>

Targets == {"hosted", "self-hosted"}
Dispatches == [target : Targets, sequence : {1, 2}]
Steps == <<"node", "pnpm", "deterministic-tests", "sentinel-absent", "docker-fixed-port", "first-run-sentinel">>
-----------------------------------------------------------------------------
\* parsePilotManifest: exactly the four dispatches and the six steps, each once,
\* the sentinel written by the first sequence only.
parsePilotManifest(dispatches, steps, sentinelWhen) ==
    /\ Len(dispatches) = 4 /\ ToSet(dispatches) = Dispatches
    /\ Len(steps) = 6 /\ ToSet(steps) = ToSet(Steps)
    /\ sentinelWhen = 1

\* The workload fixture (packages/runner/fixtures/pilot/workload.json).
FixtureParses == parsePilotManifest(SetToSeq(Dispatches), Steps, 1)

\* materializePilotJobs: a job per dispatch, on its target's labels, for one candidate.
materializePilotJobs(candidate) ==
    {[target |-> d.target, sequence |-> d.sequence, candidate |-> candidate] : d \in Dispatches}

\* renderPilotWorkflow: the steps run in order until one fails; the last one runs
\* for sequence 1 only.  broken is the step the environment breaks.
StepsReached(sequence, broken, dirty) ==
    LET fails(s) == s = broken \/ (s = "sentinel-absent" /\ dirty)
        bad == {i \in 1..5 : fails(Steps[i])}
    IN  IF bad = {} THEN {Steps[i] : i \in 1..(IF sequence = 1 THEN 6 ELSE 5)}
        ELSE {Steps[i] : i \in 1..((CHOOSE i \in bad : \A j \in bad : i <= j) - 1)}

Conclusion(reached) == IF {Steps[i] : i \in 1..5} \subseteq reached THEN "success" ELSE "failure"
-----------------------------------------------------------------------------
\* The bug that compares registrations and forgets the disks behind them.
DistinctRegistrations(rs) ==
    \A i, j \in DOMAIN rs : i # j /\ rs[i].target = rs[j].target =>
        rs[i].registration # rs[j].registration

\* No two results of a target share a registration, and none a workspace.
DistinctMachines(rs) ==
    \A i, j \in DOMAIN rs : i # j /\ rs[i].target = rs[j].target =>
        rs[i].registration # rs[j].registration /\ rs[i].workspace # rs[j].workspace

Passing(r, d) ==
    /\ r.target = d.target /\ r.sequence = d.sequence
    /\ r.candidate = Wanted
    /\ r.conclusion = "success"
    /\ {Steps[i] : i \in 1..5} \subseteq r.reached

\* analyzePilotResults: complete when it finds no reason against it.
analyzePilotResults(rs) ==
    /\ \A d \in Dispatches :
          LET matches == SelectSeq(rs, LAMBDA r : r.claimed = d)
          IN  Len(matches) = 1 /\ Passing(matches[1], d)
    /\ \A i \in DOMAIN rs : rs[i].claimed \in Dispatches
    /\ DistinctMachines(rs)
-----------------------------------------------------------------------------
Clean(n) == [registration |-> n, workspace |-> n, sentinel |-> FALSE]

Init == /\ machine = [t \in Targets |-> Clean(0)]
        /\ fresh = 1 /\ history = <<>> /\ results = <<>>

\* The self-hosted runner is replaced: a new registration on a new disk, or only a
\* new registration on the disk it had.
Replace ==
    /\ fresh <= MaxMachines /\ Len(history) >= HostedRuns
    /\ \/ machine' = [machine EXCEPT !["self-hosted"] = Clean(fresh)]
       \/ machine' = [machine EXCEPT !["self-hosted"].registration = fresh]
    /\ fresh' = fresh + 1
    /\ UNCHANGED <<history, results>>

\* One run of the workflow: the concurrency group lets one run per target go on,
\* so that it is one step of the target's machine.  A hosted run has a machine of
\* its own.  The two targets share nothing: here the
\* hosted runs go first and in order, and the interesting machine is the other one.
Run(job, broken) ==
    LET m == IF job.target = "hosted" THEN Clean(fresh) ELSE machine[job.target]
        reached == StepsReached(job.sequence, broken, m.sentinel)
    IN  /\ Len(history) < MaxRuns
        /\ job.target = "hosted" => Len(history) < HostedRuns /\ broken = "none" /\ job.sequence = Len(history) + 1
        /\ job.target = "self-hosted" => Len(history) >= HostedRuns
        /\ history' = Append(history,
              [target |-> job.target, sequence |-> job.sequence, candidate |-> job.candidate,
               reached |-> reached, conclusion |-> Conclusion(reached),
               registration |-> m.registration, workspace |-> m.workspace, dirty |-> m.sentinel])
        /\ machine' = [machine EXCEPT ![job.target] =
                         [m EXCEPT !.sentinel = @ \/ "first-run-sentinel" \in reached]]
        /\ fresh' = IF job.target = "hosted" THEN fresh + 1 ELSE fresh
        /\ UNCHANGED results

\* When the runs are over, the operator writes one down as the result of each
\* dispatch, rightly or not but of the right target, and possibly one more.
Collect ==
    /\ Len(history) = MaxRuns /\ results = <<>>
    /\ \E run \in [Dispatches -> DOMAIN history], extra \in BOOLEAN :
          LET order == SetToSeq(Dispatches)
              rows == [k \in 1..4 |-> [run |-> run[order[k]], claimed |-> order[k]]]
          IN  /\ \A d \in Dispatches : history[run[d]].target = d.target
              /\ extra => Cardinality({run[d] : d \in Dispatches}) = 4
              /\ results' = IF extra THEN Append(rows, rows[1]) ELSE rows
    /\ UNCHANGED <<machine, fresh, history>>

Next == \/ Replace
        \/ \E c \in Candidates : \E job \in materializePilotJobs(c), b \in {"none", "node"} : Run(job, b)
        \/ Collect

Spec == Init /\ [][Next]_vars
-----------------------------------------------------------------------------
Collected == [k \in DOMAIN results |->
                [claimed |-> results[k].claimed] @@ history[results[k].run]]

Complete == analyzePilotResults(Collected)

\* A complete analysis speaks of four different runs of the wanted candidate, and
\* of two on each target neither of which could see what the other left
\* (pilot.ts:318-368).
CompleteMeansIsolated ==
    Complete =>
        /\ Cardinality({results[k].run : k \in DOMAIN results}) = 4
        /\ \A k \in DOMAIN results :
              /\ Collected[k].candidate = Wanted /\ Collected[k].conclusion = "success"
              /\ ~Collected[k].dirty
        /\ \A i, j \in DOMAIN results :
              i # j /\ Collected[i].target = Collected[j].target =>
                  Collected[i].workspace # Collected[j].workspace
=============================================================================
