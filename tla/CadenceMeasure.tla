--------------------------- MODULE CadenceMeasure ---------------------------
(***************************************************************************)
(* The measurement of the CI cadence.  A collector pages through the runs  *)
(* created in a wide interval, newest first, then reads the jobs of every  *)
(* attempt of each, while runs go on being created, run and rerun.  From   *)
(* what it kept, the minutes executed in an accounting window are summed   *)
(* and compared with the target.  The repository is private, an attempt    *)
(* has one job, and a minute has two ticks.                                *)
(***************************************************************************)
EXTENDS Integers, Sequences, FiniteSets, FiniteSetsExt

CONSTANTS
    Lanes,          \* that the configuration gives runs, some of LaneNames
    Kinds,          \* of machines jobs ask for, some of KindNames
    Supplied,       \* whether the rates a caller supplies may cover the window
    WindowStart, WindowEnd,
    Early,          \* TRUE when a collection may begin before the window closes
    PageSize,       \* of the list of runs
    Cap,            \* the most runs GitHub lists for a created filter
    Limit,          \* routine minutes the target allows in the window
    MaxRuns, MaxAttempts, MaxTime

WindowIsOrdered == WindowStart < WindowEnd

VARIABLES
    clock,
    run,        \* the runs of the repository, oldest first, with the job of every attempt
    rates,      \* whether the dated rates supplied cover the window
    step,       \* of the collector
    listed,     \* the runs it has kept
    expected,   \* the total the first page gave
    complete,   \* FALSE once a page failed or a total changed
    todo,       \* the attempts whose jobs it has not read
    jobs,       \* the jobs it has kept
    report

vars == <<clock, run, rates, step, listed, expected, complete, todo, jobs, report>>

LaneNames == {"nightly", "release", "unknown"}
KindNames == {"hosted", "new hosted", "self-hosted", "unheard"}
NoJob == [start |-> 0, end |-> 0, conclusion |-> "none"]
NoReport == [made |-> FALSE, complete |-> FALSE, counted |-> {}, minutes |-> 0, routine |-> 0, status |-> "unavailable"]
Ids == DOMAIN run
LastOf(seq) == seq[Len(seq)]

Init ==
    /\ clock = 1 /\ run = <<>> /\ rates \in Supplied
    /\ step = "idle" /\ listed = <<>> /\ expected = -1 /\ complete = TRUE /\ todo = {} /\ jobs = {}
    /\ report = NoReport

collector == <<step, listed, expected, complete, todo, jobs, report>>

Tick == clock < MaxTime /\ step # "done" /\ clock' = clock + 1 /\ UNCHANGED <<run, rates, collector>>

Create(lane, kind) ==
    /\ Len(run) < MaxRuns /\ step # "done"
    /\ run' = Append(run, [created |-> clock, lane |-> lane, kind |-> kind, attempts |-> <<NoJob>>])
    /\ UNCHANGED <<clock, rates, collector>>

(* The job of the latest attempt starts, ends, or is skipped with its end stamped before its start. *)
SetJob(r, from, job) ==
    /\ step # "done" /\ LastOf(run[r].attempts) = from
    /\ run' = [run EXCEPT ![r].attempts[Len(run[r].attempts)] = job]
    /\ UNCHANGED <<clock, rates, collector>>

StartJob(r) == SetJob(r, NoJob, [NoJob EXCEPT !.start = clock])
EndJob(r) ==
    /\ LastOf(run[r].attempts).start \in 1..(clock - 1)
    /\ LastOf(run[r].attempts).conclusion = "none"
    /\ SetJob(r, LastOf(run[r].attempts), [start |-> LastOf(run[r].attempts).start, end |-> clock, conclusion |-> "success"])
SkipJob(r) == SetJob(r, NoJob, [start |-> clock, end |-> clock - 1, conclusion |-> "skipped"])

Rerun(r) ==
    /\ step # "done" /\ LastOf(run[r].attempts).conclusion # "none" /\ Len(run[r].attempts) < MaxAttempts
    /\ run' = [run EXCEPT ![r].attempts = Append(@, NoJob)]
    /\ UNCHANGED <<clock, rates, collector>>

world == <<clock, run, rates>>

Begin ==
    /\ step = "idle" /\ (Early \/ clock >= WindowEnd)
    /\ step' = "list"
    /\ UNCHANGED <<world, listed, expected, complete, todo, jobs, report>>

(* The page of the newest-first list that starts after so many runs. *)
PageAfter(n) ==
    [i \in 1..Max({0, Min({PageSize, Len(run) - n})}) |->
        LET r == Len(run) + 1 - n - i IN [id |-> r, lane |-> run[r].lane, kind |-> run[r].kind, attempts |-> Len(run[r].attempts)]]

Attempts(entries) == UNION {{<<entries[i].id, a>> : a \in 1..entries[i].attempts} : i \in DOMAIN entries}

(* The list ends on a short page or once as many were read as the page says there are. *)
paginate(entries, exact) ==
    /\ listed' = entries
    /\ complete' = (complete /\ exact /\ Len(entries) = expected' /\ Len(run) <= Cap)
    /\ step' = "jobs" /\ todo' = Attempts(entries)

ListPage ==
    /\ step = "list"
    /\ LET page == PageAfter(Len(listed))
           entries == listed \o page
           exact == expected \in {-1, Len(run)}
       IN /\ expected' = IF expected = -1 THEN Len(run) ELSE expected
          /\ IF Len(entries) >= Len(run) \/ Len(page) < PageSize
             THEN paginate(entries, exact)
             ELSE listed' = entries /\ complete' = (complete /\ exact) /\ UNCHANGED <<step, todo>>
    /\ UNCHANGED <<world, jobs, report>>

ListFails ==
    /\ step = "list" /\ expected' = expected
    /\ paginate(listed, FALSE)
    /\ UNCHANGED <<world, jobs, report>>

(* The jobs of one attempt are read, as they are by now; or the request fails. *)
ReadJobs(r, a) ==
    /\ step = "jobs" /\ todo' = todo \ {<<r, a>>}
    /\ jobs' = jobs \cup {[run |-> r, attempt |-> a, job |-> run[r].attempts[a]]}
    /\ UNCHANGED <<world, step, listed, expected, complete, report>>

JobsFail(r, a) ==
    /\ step = "jobs" /\ todo' = todo \ {<<r, a>>} /\ complete' = FALSE
    /\ UNCHANGED <<world, step, listed, expected, jobs, report>>
-----------------------------------------------------------------------------
Overlaps(job) == job.conclusion # "skipped" /\ job.start # 0 /\ job.end # 0 /\ job.start < WindowEnd /\ job.end > WindowStart
Minutes(job) == (job.end - job.start + 1) \div 2

EntryOf(r) == CHOOSE e \in {listed[i] : i \in DOMAIN listed} : e.id = r
SumMinutes(of) == MapThenSumSet(LAMBDA j : Minutes(j.job), of)
Routine == {"nightly"}
Hosted(j) == EntryOf(j.run).kind \in {"hosted", "new hosted"}
Priced(j) == rates /\ EntryOf(j.run).kind = "hosted"

(* What makes a scan incomplete: the collection's own gaps, a job without its times, a machine or SKU nobody knows, *)
(* hosted minutes no lane accounts for.                                                                            *)
Gaps(counted) ==
    \/ ~complete \/ clock < WindowEnd
    \/ \E j \in jobs : j.job.conclusion # "skipped" /\ (j.job.start = 0 \/ j.job.end = 0)
    \/ \E j \in counted : EntryOf(j.run).kind = "unheard"
    \/ \E j \in counted : EntryOf(j.run).kind = "new hosted" /\ rates
    \/ \E j \in counted : EntryOf(j.run).kind = "hosted" /\ rates /\ EntryOf(j.run).lane = "unknown"

TargetStatus(known, routine) ==
    IF ~known \/ ~rates THEN "unavailable" ELSE IF routine <= Limit THEN "passed" ELSE "failed"

measureCadence ==
    LET counted == {j \in jobs : Overlaps(j.job)}
        hosted == {j \in counted : Hosted(j)}
        priced == {j \in hosted : Priced(j)}
        routine == SumMinutes({j \in priced : EntryOf(j.run).lane \in Routine})
        whole == ~Gaps(counted)
    IN [made |-> TRUE, complete |-> whole, counted |-> counted, minutes |-> SumMinutes(hosted), routine |-> routine,
        status |-> TargetStatus(whole /\ hosted = priced, routine)]

(* A run listed twice is refused: nothing is reported. *)
Measure ==
    /\ step = "jobs" /\ todo = {}
    /\ step' = "done"
    /\ report' = IF \E i, k \in DOMAIN listed : i # k /\ listed[i].id = listed[k].id THEN report ELSE measureCadence
    /\ UNCHANGED <<world, listed, expected, complete, todo, jobs>>

Next ==
    \/ Tick \/ Begin \/ ListPage \/ ListFails \/ Measure
    \/ \E lane \in Lanes, kind \in Kinds : Create(lane, kind)
    \/ \E r \in Ids : StartJob(r) \/ EndJob(r) \/ SkipJob(r) \/ Rerun(r)
    \/ \E t \in todo : ReadJobs(t[1], t[2]) \/ JobsFail(t[1], t[2])

Spec == Init /\ [][Next]_vars
-----------------------------------------------------------------------------
(* A run is kept with no more attempts than it has, and its jobs are those of attempts that were listed. *)
TypeOK ==
    /\ clock \in 1..MaxTime /\ rates \in BOOLEAN /\ complete \in BOOLEAN
    /\ step \in {"idle", "list", "jobs", "done"} /\ report.status \in {"unavailable", "passed", "failed"}
    /\ \A r \in Ids : run[r].lane \in LaneNames /\ run[r].kind \in KindNames
    /\ \A i \in DOMAIN listed : listed[i].id \in Ids /\ listed[i].attempts <= Len(run[listed[i].id].attempts)
    /\ todo \cup {<<j.run, j.attempt>> : j \in jobs} \subseteq Attempts(listed)

(* What really ran in the window: every job that started before it closed and had not ended when it opened. *)
Executed ==
    {<<r, a>> \in Ids \X (1..MaxAttempts) :
        /\ a \in DOMAIN run[r].attempts
        /\ LET job == run[r].attempts[a]
           IN job.conclusion # "skipped" /\ job.start # 0 /\ job.start < WindowEnd /\ (job.end = 0 \/ job.end > WindowStart)}

(* A scan that calls itself complete missed no execution: every job that ran in the window, on any attempt of any   *)
(* run, is counted once with the times it had.                                                                      *)
CompleteMissesNothing ==
    report.complete =>
        /\ Executed = {<<j.run, j.attempt>> : j \in report.counted}
        /\ \A j \in report.counted : j.job = run[j.run].attempts[j.attempt]

(* The target is judged only when all of the window's hosted minutes are known, priced and attributed, and then by  *)
(* the routine minutes that really ran.                                                                             *)
TargetIsReal ==
    report.status # "unavailable" =>
        LET ran == {t \in Executed : run[t[1]].kind # "self-hosted"}
            minutes(t) == Minutes(run[t[1]].attempts[t[2]])
        IN /\ \A t \in ran : run[t[1]].kind = "hosted" /\ run[t[1]].lane # "unknown" /\ run[t[1]].attempts[t[2]].end # 0
           /\ report.minutes = MapThenSumSet(minutes, ran)
           /\ (report.status = "passed") = (MapThenSumSet(minutes, {t \in ran : run[t[1]].lane \in Routine}) <= Limit)
=============================================================================
