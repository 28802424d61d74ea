---------------------------- MODULE RunnerReport ----------------------------
(***************************************************************************)
(* The acceptance evidence of a runner candidate.  Scenarios are run       *)
(* against builds, rows are written down, the provider is cleaned up and   *)
(* read back, and at some moment the report is made of what is on paper    *)
(* (packages/runner/src/report.ts; validateR14Matrix in pilot.ts for the   *)
(* live matrix).  Rebuilding makes a new candidate; a VM may come back     *)
(* between the cleanup readback and the final provider state.              *)
(***************************************************************************)
EXTENDS Integers, Sequences, FiniteSets, SequencesExt

CONSTANTS
    Scenarios,     \* the required scenarios: R10 .. R13, or the nine of R14
    Builds,        \* candidate digests in the order they are built: 1 .. n
    MaxRows,       \* rows written
    MaxAssignments,
    MaxWork        \* the hours of use the cost evidence counts

BuildsCount == Builds = 1..Cardinality(Builds)

VARIABLES
    build,       \* the candidate at hand
    rows,        \* the report's checks
    assignments, \* workflow attempts written down as assignment evidence
    vm, disk,    \* the provider now
    work,        \* hours of use so far
    cleanup,     \* the cleanup readback
    report       \* the report, once made

vars == <<build, rows, assignments, vm, disk, work, cleanup, report>>

Unread == [read |-> FALSE]
NoReport == [made |-> FALSE, complete |-> FALSE]
-----------------------------------------------------------------------------
\* hasDuplicateAssignments: two rows name the same run, attempt and job.
hasDuplicateAssignments(as) == Cardinality(ToSet(as)) # Len(as)

\* parseRunnerReportInput: what is refused outright.
Refused(in) == in.assignments = <<>> \/ hasDuplicateAssignments(in.assignments)

\* The bug that lets a second row of a scenario stand beside the one selected.
\* One scenario's reasons: exactly one row, of this candidate, passed and with evidence.
ScenarioHolds(checks, scenario, candidate) ==
    LET results == SelectSeq(checks, LAMBDA r : r.scenario = scenario)
        own == SelectSeq(results, LAMBDA r : r.candidate = candidate)
        selected == IF own # <<>> THEN own[1] ELSE results[1]
    IN  /\ results # <<>>
        /\ Len(results) = 1
        /\ \A i \in DOMAIN results : results[i].candidate = candidate
        /\ selected.status = "passed" /\ selected.evidence

\* The bug that takes the cleanup's word for the final state.
\* The provider is read back clean, and still is when the final state is read.
CleanupHolds(readback, final) ==
    /\ readback.read
    /\ readback.runners = 0 /\ ~readback.disk
    /\ readback.vm = final

TerminalState(final) == final \in {"absent", "stopped"}

\* validCompleteCost, and no silent zero.
CostHolds(cost) == cost.complete /\ cost.total > 0

\* completenessReasons: empty.
NoReasons(in) ==
    /\ in.candidate = in.expected
    /\ \E i \in DOMAIN in.checks : in.checks[i].status = "passed"
    /\ in.assignments # <<>> /\ ~hasDuplicateAssignments(in.assignments)
    /\ \A s \in Scenarios : ScenarioHolds(in.checks, s, in.candidate)
    /\ CleanupHolds(in.cleanup, in.final)
    /\ TerminalState(in.final)
    /\ CostHolds(in.cost)

\* validateR14Matrix: the same of the live matrix, which must also be authorized.
validateR14Matrix(in, authorized) ==
    /\ authorized
    /\ \E i \in DOMAIN in.checks : in.checks[i].status = "passed"
    /\ \A i \in DOMAIN in.checks : in.checks[i].scenario \in Scenarios
    /\ \A s \in Scenarios : ScenarioHolds(in.checks, s, in.candidate)
-----------------------------------------------------------------------------
Init ==
    /\ build = 1
    /\ rows = <<>> /\ assignments = <<>>
    /\ vm = "absent" /\ disk = FALSE /\ work = 0
    /\ cleanup = Unread /\ report = NoReport

Unreported == ~report.made

\* The candidate is repaired; rows of the old one stay on paper.
Rebuild ==
    /\ Unreported /\ build + 1 \in Builds
    /\ build' = build + 1
    /\ UNCHANGED <<rows, assignments, vm, disk, work, cleanup, report>>

\* A scenario runs on the VM and is written down, if at all, with or without evidence.
RunScenario(s, status, evidence, written) ==
    /\ Unreported /\ vm = "running" /\ work < MaxWork
    /\ work' = work + 1
    /\ IF written /\ Len(rows) < MaxRows
       THEN rows' = Append(rows, [scenario |-> s, status |-> status, candidate |-> build, evidence |-> evidence])
       ELSE rows' = rows
    /\ UNCHANGED <<build, assignments, vm, disk, cleanup, report>>

\* A job's assignment is written down, maybe a second time.
RecordAssignment(a) ==
    /\ Unreported /\ work > 0 /\ Len(assignments) < MaxAssignments
    /\ assignments' = Append(assignments, a)
    /\ UNCHANGED <<build, rows, vm, disk, work, cleanup, report>>

\* The provider: a VM is started, stopped, or deleted with its disk.
Power ==
    /\ Unreported
    /\ \/ vm \in {"absent", "stopped"} /\ vm' = "running" /\ disk' = TRUE
       \/ vm = "running" /\ vm' = "stopped" /\ UNCHANGED disk
       \/ vm = "stopped" /\ vm' = "absent" /\ disk' \in {FALSE, disk}
    /\ UNCHANGED <<build, rows, assignments, work, cleanup, report>>

\* The cleanup reads the provider back; the runner list may still name one.
ReadBack(runners) ==
    /\ Unreported
    /\ cleanup' = [read |-> TRUE, vm |-> vm, disk |-> disk, runners |-> runners]
    /\ UNCHANGED <<build, rows, assignments, vm, disk, work, report>>

\* runner report: the final provider state is read now; the costs are those of
\* the work done, or unknown.
Report(expected, priced, authorized) ==
    LET in == [candidate |-> build, expected |-> expected, checks |-> rows, assignments |-> assignments,
               cleanup |-> cleanup, final |-> vm, cost |-> [complete |-> priced, total |-> work]]
    IN  /\ Unreported /\ ~Refused(in)
        /\ report' = [made |-> TRUE, complete |-> NoReasons(in), expected |-> expected,
                      live |-> validateR14Matrix(in, authorized)]
        /\ UNCHANGED <<build, rows, assignments, vm, disk, work, cleanup>>

Next == \/ Rebuild \/ Power
        \/ \E s \in Scenarios, st \in {"passed", "failed"}, e, w \in BOOLEAN : RunScenario(s, st, e, w)
        \/ \E a \in 1..2 : RecordAssignment(a)
        \/ \E n \in {0, 1} : ReadBack(n)
        \/ \E b \in Builds, p, l \in BOOLEAN : Report(b, p, l)

Spec == Init /\ [][Next]_vars
-----------------------------------------------------------------------------
WrittenFailures == {s \in Scenarios : \E i \in DOMAIN rows :
                       rows[i].scenario = s /\ rows[i].status = "failed"}

\* A complete report hides no failure it was told of: every required scenario has
\* its one passing row of the expected build and no failure written down, and so
\* has a valid live matrix (report.ts:183-195, pilot.ts:466-479).
NoFailureHidden ==
    report.complete \/ (report.made /\ report.live) =>
        /\ WrittenFailures = {}
        /\ \A s \in Scenarios : \E i \in DOMAIN rows :
              rows[i].scenario = s /\ rows[i].candidate = build /\ rows[i].evidence

\* When a complete report is made, nothing billable of the run is left: the VM is
\* not up, and its disk is gone as far as the cleanup that found it in the same
\* state (report.ts:197-212).
NothingLeftRunning ==
    report.complete => vm \in {"absent", "stopped"} /\ ~cleanup.disk /\ cleanup.vm = vm
=============================================================================
