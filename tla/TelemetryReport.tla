-------------------------- MODULE TelemetryReport --------------------------
(***************************************************************************)
(* The net-savings report of the fleet, made from three things that move   *)
(* on while it is made: the registry of enrollments, the journals of their *)
(* controllers and the jobs the telemetry collector has stored.  Jobs of   *)
(* an enrolled workflow run on GitHub's machines or on the enrollment's    *)
(* runner; an enrollment is proposed, cut over, reverted, and its workflow *)
(* enrolled again.  No two enrolled workflows have the same name.  A tick  *)
(* is half a minute; a minute saves one unit and a start costs one.        *)
(***************************************************************************)
EXTENDS Integers, Sequences, FiniteSets, SequencesExt

CONSTANTS
    Jobs,           \* of GitHub, numbered in the order they are created
    Workflows,
    MaxEnrollments,
    WindowEnd,      \* the last tick of the registry's measurement window
    MaxTime

VARIABLES
    now,
    live,           \* the enrollment whose label each workflow carries at its head; 0: none
    registry,       \* the enrollments, oldest first
    job,            \* the jobs of GitHub
    journal,        \* per enrollment: the jobs its controller recorded an assignment for
    stored,         \* the jobs in the telemetry store
    stage,          \* of the command that makes a report
    read,           \* the registry and journals it has read
    shown           \* the report it printed

vars == <<now, live, registry, job, journal, stored, stage, read, shown>>

NoJob == [wf |-> "none", label |-> 0, created |-> 0, started |-> 0, ended |-> 0, ran |-> 0, state |-> "none"]
NoReport == [rows |-> <<>>, net |-> [known |-> FALSE, usd |-> 0], cost |-> [known |-> FALSE, usd |-> 0], gross |-> 0,
             notes |-> {}, names |-> FALSE]
Ids == DOMAIN registry

Init ==
    /\ now = 1
    /\ live = [w \in Workflows |-> 0] /\ registry = <<>>
    /\ job = [j \in Jobs |-> NoJob] /\ journal = [e \in 1..MaxEnrollments |-> {}]
    /\ stored = {} /\ stage = "idle" /\ read = <<<<>>, journal>> /\ shown = NoReport

Tick ==
    /\ now < MaxTime /\ now' = now + 1
    /\ UNCHANGED <<live, registry, job, journal, stored, stage, read, shown>>

Active(w) == {e \in Ids : registry[e].wf = w /\ registry[e].status # "reverted"}

Enroll(w) ==
    /\ Len(registry) < MaxEnrollments /\ Active(w) = {} /\ live[w] = 0
    /\ registry' = Append(registry, [wf |-> w, status |-> "proposed", before |-> now, after |-> 0])
    /\ UNCHANGED <<now, live, job, journal, stored, stage, read, shown>>

(* The owner pushes a workflow that selects the runner, or one that no longer does. *)
Push(w) ==
    /\ live[w] # 0 \/ Active(w) # {}
    /\ live' = [live EXCEPT ![w] = IF @ # 0 THEN 0 ELSE CHOOSE e \in Active(w) : TRUE]
    /\ UNCHANGED <<now, registry, job, journal, stored, stage, read, shown>>

Cutover(e) ==
    /\ registry[e].status = "proposed" /\ live[registry[e].wf] = e
    /\ registry' = [registry EXCEPT ![e].status = "cut-over", ![e].after = now]
    /\ UNCHANGED <<now, live, job, journal, stored, stage, read, shown>>

Revert(e) ==
    /\ registry[e].status = "cut-over" /\ live[registry[e].wf] = 0
    /\ registry' = [registry EXCEPT ![e].status = "reverted"]
    /\ UNCHANGED <<now, live, job, journal, stored, stage, read, shown>>

Set(j, r) ==
    /\ job' = [job EXCEPT ![j] = r]
    /\ UNCHANGED <<now, live, registry, stored, stage, read, shown>>

(* A job is queued with the labels its workflow has then; the gate may still choose a hosted machine. *)
Queue(j, w) ==
    /\ job[j].state = "none" /\ \A i \in Jobs : i < j => job[i].state # "none"
    /\ \E label \in {0, live[w]} :
           Set(j, [NoJob EXCEPT !.wf = w, !.label = label, !.created = now, !.state = "queued"])
    /\ UNCHANGED journal

Start(j) ==
    /\ job[j].state = "queued"
    /\ Set(j, [job[j] EXCEPT !.started = now, !.ran = job[j].label, !.state = "running"])
    /\ UNCHANGED journal

(* A poll of the runner's controller sees the job; none may. *)
Assign(j) ==
    /\ job[j].state = "running" /\ job[j].ran # 0
    /\ journal' = [journal EXCEPT ![job[j].ran] = @ \union {j}]
    /\ UNCHANGED <<now, live, registry, job, stored, stage, read, shown>>

(* It ends; GitHub may report times that do not fit, or leave the end out. *)
End(j) ==
    /\ job[j].state = "running"
    /\ \E t \in {0, now} : Set(j, [job[j] EXCEPT !.ended = t, !.state = "done"])
    /\ UNCHANGED journal

(* It is cancelled in the queue. *)
Skip(j) ==
    /\ job[j].state = "queued"
    /\ Set(j, [job[j] EXCEPT !.state = "done"])
    /\ UNCHANGED journal

Collect ==
    /\ {j \in Jobs : job[j].state = "done"} # stored
    /\ stored' = {j \in Jobs : job[j].state = "done"}
    /\ UNCHANGED <<now, live, registry, job, journal, stage, read, shown>>

-----------------------------------------------------------------------------
Measurement(j) ==
    CASE job[j].started # 0 /\ job[j].ended >= job[j].started -> "measured"
      [] job[j].started = 0 /\ job[j].ended = 0               -> "not-run"
      [] OTHER                                                -> "incomplete"

(* A job that was given a runner of the fleet; its label alone does not say so. *)
OnCirujano(j) == job[j].ran # 0
Minutes(j) == IF Measurement(j) = "measured" THEN (job[j].ended - job[j].started + 1) \div 2 ELSE 0
Avoided(j) == IF OnCirujano(j) /\ Measurement(j) = "measured" THEN Minutes(j) ELSE 0
Total(f(_), S) == FoldLeft(LAMBDA n, j : n + f(j), 0, SetToSeq(S))

(* Nearest rank in a sorted list: the least place that has p percent of the list at or before it. *)
Percentile(list, p) ==
    LET place == (p * Len(list) + 99) \div 100
    IN IF list = <<>> THEN -1 ELSE list[IF place < 1 THEN 1 ELSE IF place > Len(list) THEN Len(list) ELSE place]

(* Work counts from its start; what never started counts from its creation. *)
Moment(j) == IF job[j].started # 0 THEN job[j].started ELSE job[j].created
InReport == {j \in stored : job[j].created <= WindowEnd}

(* Mutant: a reverted enrollment keeps the jobs of its workflow. *)
EndOfNever(reg, e) == MaxTime + 1

(* The next enrollment of the workflow owns the jobs from its baseline on. *)
EndOf(reg, e) ==
    LET later == {k \in DOMAIN reg : k > e /\ reg[k].wf = reg[e].wf}
    IN IF reg[e].status = "reverted" /\ later # {}
       THEN reg[CHOOSE k \in later : \A m \in later : k <= m].before ELSE MaxTime + 1

Enrolled(reg, e) == {j \in InReport : job[j].wf = reg[e].wf /\ Moment(j) < EndOf(reg, e)}
AfterCutover(reg, e) == {j \in Enrolled(reg, e) : reg[e].after # 0 /\ Moment(j) >= reg[e].after}
Credited(reg, e) == {j \in AfterCutover(reg, e) : OnCirujano(j)}
Latencies(S) == SortSeq([k \in 1..Cardinality(S) |-> LET j == SetToSeq(S)[k] IN job[j].started - job[j].created], <)

(* What the controller's journals cost: every start they hold. *)
CostOf(assigned) == Cardinality(assigned)
Unknown == [known |-> FALSE, usd |-> 0]
Known(usd) == [known |-> TRUE, usd |-> usd]

enrollmentReport(reg, journals, e) ==
    LET credited == Credited(reg, e)
        proposed == reg[e].status = "proposed"
        complete == ~proposed /\ credited \subseteq journals[e]
    IN [status |-> reg[e].status, complete |-> complete, credited |-> credited, gross |-> Total(Avoided, credited),
        hosted |-> Cardinality(AfterCutover(reg, e) \ credited),
        p50 |-> Percentile(Latencies(credited), 50), p95 |-> Percentile(Latencies(credited), 95),
        cost |-> IF proposed THEN Unknown ELSE Known(CostOf(journals[e]))]

CutOver(rows) == {e \in DOMAIN rows : rows[e].status # "proposed"}

fleetSavings(rows) ==
    LET gross == Total(LAMBDA e : rows[e].gross, CutOver(rows))
        cost == Total(LAMBDA e : rows[e].cost.usd, CutOver(rows))
    IN [gross |-> gross, cost |-> Known(cost),
        net |-> IF \A e \in CutOver(rows) : rows[e].complete THEN Known(gross - cost) ELSE Unknown]

(* The command reads the registry, then the journals of its controllers, then the store. *)
ReadRegistry ==
    /\ stage = "idle"
    /\ read' = <<registry, read[2]>> /\ stage' = "journals"
    /\ UNCHANGED <<now, live, registry, job, journal, stored, shown>>

LoadEvidence ==
    /\ stage = "journals"
    /\ read' = <<read[1], journal>> /\ stage' = "report"
    /\ UNCHANGED <<now, live, registry, job, journal, stored, shown>>

aggregateTelemetry(reg, journals) ==
    LET rows == [e \in DOMAIN reg |-> enrollmentReport(reg, journals, e)]
        fleet == fleetSavings(rows)
    IN [rows |-> rows, net |-> fleet.net, cost |-> fleet.cost, gross |-> fleet.gross]

(* The enrollments a footnote calls incomplete. *)
Footnotes(rows) == {e \in DOMAIN rows : ~rows[e].complete /\ rows[e].status # "proposed"}

(* The private report lists the fleet's usage and the enrollments by repository, the published one by handle. *)
renderTelemetryMarkdown(report) ==
    [rows |-> report.rows, net |-> report.net, cost |-> report.cost, gross |-> report.gross,
     notes |-> Footnotes(report.rows), names |-> DOMAIN report.rows # {}]
renderFleetSavingsMarkdown(report) == [renderTelemetryMarkdown(report) EXCEPT !.names = FALSE]

Output(document) ==
    /\ stage = "report" /\ stage' = "printed" /\ shown' = document
    /\ UNCHANGED <<now, live, registry, job, journal, stored, read>>

Report == Output(renderTelemetryMarkdown(aggregateTelemetry(read[1], read[2])))

(* The publication is refused when it names a repository. *)
Publish ==
    LET document == renderFleetSavingsMarkdown(aggregateTelemetry(read[1], read[2]))
    IN ~document.names /\ Output(document)

(* Nothing that happens after the report changes what it said. *)
Next ==
  /\ stage # "printed"
  /\ \/ Tick \/ Collect
     \/ \E w \in Workflows : Enroll(w) \/ Push(w) \/ \E j \in Jobs : Queue(j, w)
     \/ \E e \in Ids : Cutover(e) \/ Revert(e)
     \/ \E j \in Jobs : Start(j) \/ Assign(j) \/ End(j) \/ Skip(j)
     \/ ReadRegistry \/ LoadEvidence \/ Report \/ Publish

Spec == Init /\ [][Next]_vars

-----------------------------------------------------------------------------
(* The type invariant of the report. *)
TypeOK ==
    /\ now \in 1..MaxTime /\ \A w \in Workflows : live[w] \in 0..Len(registry)
    /\ \A e \in Ids : (registry[e].after = 0) = (registry[e].status = "proposed")
    /\ \A j \in Jobs : job[j].state = "done" /\ job[j].ended # 0 => job[j].ended >= job[j].started
    /\ stored \subseteq {j \in Jobs : job[j].state = "done"}
    /\ stage \in {"idle", "journals", "report", "printed"}

Rows == DOMAIN shown.rows

(* aggregateTelemetry: a job is credited to one enrollment, also when its workflow was reverted and enrolled again  *)
(* while it waited in the queue.                                                                                   *)
CreditedOnce == \A d, e \in Rows : d # e => shown.rows[d].credited \cap shown.rows[e].credited = {}

(* fleetSavings: net savings are only shown when every minute they count was executed on the runner of the         *)
(* enrollment that is credited with it, and the provider cost of the start that executed it is subtracted, however *)
(* the journals and the store move on while the report is made.                                                    *)
NetSavingsEarned ==
    shown.net.known =>
        LET all == UNION {shown.rows[e].credited : e \in Rows}
        IN /\ \A e \in Rows : \A j \in shown.rows[e].credited : job[j].ran = e /\ j \in journal[e]
           /\ shown.net.usd <= Total(Minutes, all) - Cardinality(all)
           /\ shown.gross = Total(Minutes, all)

(* enrollmentFootnotes and fleetLine: a report that has no net savings to show says which enrollment lacks the      *)
(* evidence, a reverted one included, and one that shows them calls no enrollment incomplete.                      *)
IncompleteIsSaid == stage = "printed" => (shown.net.known <=> shown.notes = {})

(* percentile: p50 and p95 of the queue latency are samples that enough of the others do not exceed, and the       *)
(* smallest such sample.                                                                                           *)
NearestRank ==
    \A e \in Rows :
        LET waits == {<<j, job[j].started - job[j].created>> : j \in shown.rows[e].credited}
            right(value, p) ==
                LET upTo(x) == Cardinality({s \in waits : s[2] <= x})
                IN /\ \E s \in waits : s[2] = value
                   /\ 100 * upTo(value) >= p * Cardinality(waits)
                   /\ \A s \in waits : s[2] < value => 100 * upTo(s[2]) < p * Cardinality(waits)
        IN IF waits = {} THEN shown.rows[e].p50 = -1 /\ shown.rows[e].p95 = -1
           ELSE right(shown.rows[e].p50, 50) /\ right(shown.rows[e].p95, 95)

(* docs/runbooks/fleet-telemetry.md: with a registry the report is bounded by its measurement window, so a report  *)
(* produced later stops there: what it charges is what was started until then.                                     *)
ReportStopsThere ==
    shown.cost.usd <= Cardinality({j \in Jobs : job[j].ran # 0 /\ job[j].started <= WindowEnd})
=============================================================================
