--------------------------- MODULE TelemetryStore ---------------------------
(* The Actions telemetry collector and its store                             *)
(* (packages/cli/src/telemetry.ts, telemetry-store.ts, telemetry-service.ts, *)
(* scripts/collect-actions-telemetry.sh).                                    *)
(*                                                                           *)
(* A launch agent collects once a day and at logins.  A collection reads the *)
(* latest daily snapshot, lists the completed workflow runs created in its   *)
(* lookback window, reads their jobs (or reuses the ones the snapshot has)   *)
(* and writes one file named by the UTC day it ends on, replacing a file of  *)
(* that day.  A report merges every file.  GitHub goes on meanwhile: runs    *)
(* start, end and are retried, a job's completion time can arrive late, the  *)
(* repository changes visibility.                                            *)
(*                                                                           *)
(* Time is counted in ticks, Day ticks to a day; 0 stands for null.  One     *)
(* repository, one owner; a run has the jobs "a", which a retry copies, and  *)
(* "b", which a retry executes again.  The members listed and truth of a     *)
(* snapshot are history: the tick of its listing and the jobs GitHub had     *)
(* finished then.                                                            *)
EXTENDS Integers, Sequences, FiniteSets, SequencesExt

CONSTANTS
  RunIds,       \* workflow runs of the repository
  Day,          \* ticks of a UTC day
  Lookback,     \* ticks of --lookback-hours (48 by default)
  Phase,        \* tick of the day at which the launch agent is scheduled
  MaxSpan,      \* longest time from a run's creation to the end of its last attempt
  MaxCollect,   \* ticks a collection may last
  MaxMissed,    \* days without a snapshot
  Days,         \* days modelled
  Since         \* midnight from which the report is made

TelemetryStoreAssumption ==
  /\ Day \in Nat \ {0} /\ Days \in Nat \ {0} /\ Lookback \in Nat \ {0}
  /\ Phase \in 0 .. Day - 1 /\ MaxSpan \in Nat \ {0} /\ MaxMissed \in Nat /\ MaxCollect \in Nat
  /\ Since % Day = 0

VARIABLES
  now,          \* the time
  attempts,     \* per run: the attempts GitHub has, oldest first
  visibility,   \* of the repository
  store,        \* the daily files: a function from days to snapshots
  backfill,     \* the backfill file, as a set of at most one snapshot
  collection,   \* the collection under way, as a sequence of at most one record
  missed        \* days left without a snapshot

vars == <<now, attempts, visibility, store, backfill, collection, missed>>

LastTick == Days * Day - 1
DateOf(t) == t \div Day
Other(v) == IF v = "private" THEN "public" ELSE "private"

-----------------------------------------------------------------------------
(* GitHub.                                                                   *)

\* An attempt of a run: when it was created, when it ended, and whether the
\* completion time of its job "b" is still missing.
Created(r) == attempts[r][1].created
Finished(r) == attempts[r] # <<>> /\ Last(attempts[r]).done # 0
Ongoing(r) == attempts[r] # <<>> /\ Last(attempts[r]).done = 0

\* A job as GitHub reports it for attempt k; a retry's copy of "a" keeps the
\* times of the first attempt.
JobOf(r, k, j) ==
  LET ran == IF j = "a" THEN attempts[r][1] ELSE attempts[r][k]
  IN  [run |-> r, attempt |-> k, job |-> j, created |-> attempts[r][k].created,
       started |-> ran.created,
       completed |-> IF j = "b" /\ attempts[r][k].lag THEN 0 ELSE ran.done,
       visibility |-> visibility]

\* GET /actions/runs?status=completed&created=>=..., every attempt of each run
listRuns(windowStart) ==
  {<<r, k>> \in RunIds \X (1 .. 2) :
     Finished(r) /\ Created(r) >= windowStart /\ k \in DOMAIN attempts[r]}

KeyOf(job) == <<job.run, job.attempt, job.job>>

\* A job belongs to the report by the last time GitHub gives for it.
InReport(job) == (IF job.completed # 0 THEN job.completed ELSE job.started) >= Since

\* Jobs that executed, in runs that ended: history, against which reports are
\* judged.
Truth ==
  {x \in RunIds \X (1 .. 2) \X {"a", "b"} :
     /\ Finished(x[1]) /\ x[2] \in DOMAIN attempts[x[1]]
     /\ x[2] = 1 \/ x[3] = "b"
     /\ InReport(JobOf(x[1], x[2], x[3]))}

-----------------------------------------------------------------------------
(* Collecting.                                                               *)

Measured(job) == job.completed # 0

\* GitHub includes jobs carried forward from a previous attempt: they did not
\* execute on this retry.
Executed(job, created) ==
  \/ job.attempt = 1
  \/ /\ job.started >= created
     /\ job.completed = 0 \/ job.completed >= created

JobsOf(r, k) ==
  {job \in {JobOf(r, k, j) : j \in {"a", "b"}} : Executed(job, attempts[r][k].created)}

ReusableRun(prior, r, k) ==
  \E s \in prior : \E e \in s.runs :
     e.run = r /\ e.attempt = k /\ e.created = attempts[r][k].created /\ e.reusable

\* What a collection records of one listed attempt.
Collected(prior, r, k) ==
  IF ReusableRun(prior, r, k)
  THEN {job \in (CHOOSE s \in prior : TRUE).jobs : job.run = r /\ job.attempt = k}
  ELSE JobsOf(r, k)

Evidence(r, k, jobs) ==
  [run |-> r, attempt |-> k, created |-> attempts[r][k].created,
   jobsObserved |-> Cardinality(jobs), reusable |-> \A job \in jobs : Measured(job)]

Snapshot(c) ==
  LET jobs == [x \in c.listed |-> Collected(c.prior, x[1], x[2])]
  IN  [windowStart |-> c.windowStart, collectedAt |-> now, listed |-> c.at, truth |-> c.truth,
       runs |-> {Evidence(x[1], x[2], jobs[x]) : x \in c.listed},
       jobs |-> UNION {jobs[x] : x \in c.listed}]

\* What validateSnapshot asks of the times and counts of a snapshot read back.
validateSnapshot(s) ==
  /\ s.windowStart <= s.collectedAt
  /\ \A e \in s.runs :
       LET jobs == {job \in s.jobs : job.run = e.run /\ job.attempt = e.attempt}
       IN  /\ s.windowStart <= e.created /\ e.created <= s.collectedAt
           /\ Cardinality(jobs) = e.jobsObserved
           /\ \A job \in jobs : job.created = e.created
           /\ e.reusable <=> \A job \in jobs : Measured(job)
  /\ \A job \in s.jobs :
       /\ \E e \in s.runs : e.run = job.run /\ e.attempt = job.attempt
       /\ job.started >= job.created
       /\ job.completed <= s.collectedAt

\* The latest daily file, if there is one.
Latest == {store[d] : d \in {d \in DOMAIN store : \A e \in DOMAIN store : e <= d}}

-----------------------------------------------------------------------------
(* Reporting.                                                                *)

Daily == {store[d] : d \in DOMAIN store}
Files == Daily \cup backfill
MaxOf(S) == CHOOSE x \in S : \A y \in S : y <= x
Through == MaxOf({Since} \cup {s.collectedAt : s \in Files})

\* The files that establish coverage: backfills do not.
CoverageFiles == Daily

CoversSince == \E s \in CoverageFiles : s.windowStart <= Since /\ Since <= s.collectedAt

\* The sweep over the daily intervals in the order of their starts; it stops
\* at the first gap.
Sweep ==
  LET Step(acc, s) ==
        IF acc.gap \/ acc.covered >= Through \/ s.collectedAt <= acc.covered THEN acc
        ELSE IF s.windowStart > acc.covered THEN [acc EXCEPT !.gap = TRUE]
        ELSE [acc EXCEPT !.covered = s.collectedAt]
  IN  FoldLeft(Step, [covered |-> Since, gap |-> FALSE],
               SetToSortSeq(CoverageFiles, LAMBDA s, t : s.windowStart < t.windowStart))

\* buildStoreReport gives a report instead of refusing the store.
Accepted == CoversSince /\ ~Sweep.gap /\ Sweep.covered >= Through

\* Two observations of one job, the earlier first: missing timing is filled
\* in, a visibility drift and a retry's creation time are corrected, anything
\* else is a conflict.
Merge(old, new) ==
  CASE old = new -> old
    [] ~Measured(old) /\ Measured(new)
         /\ [new EXCEPT !.visibility = old.visibility, !.completed = 0] = old
         -> [new EXCEPT !.visibility = old.visibility]
    [] [new EXCEPT !.visibility = old.visibility] = old -> old
    [] new.attempt > 1 /\ [new EXCEPT !.created = old.created] = old
         -> IF new.created > old.created THEN new ELSE old
    [] OTHER -> [old EXCEPT !.visibility = "conflict"]

\* The jobs of the report, by key.
Report ==
  LET Add(acc, s) ==
        LET jobs == {job \in s.jobs : InReport(job)}
            keys == {KeyOf(job) : job \in jobs}
            new(k) == CHOOSE job \in jobs : KeyOf(job) = k
        IN  [k \in DOMAIN acc \cup keys |->
               IF k \notin keys THEN acc[k]
               ELSE IF k \notin DOMAIN acc THEN new(k) ELSE Merge(acc[k], new(k))]
  IN  FoldLeft(Add, <<>>,
               SetToSortSeq(Files, LAMBDA s, t : s.collectedAt < t.collectedAt))

-----------------------------------------------------------------------------
(* The system.                                                               *)

Init ==
  /\ now = 0
  /\ attempts = [r \in RunIds |-> <<>>]
  /\ visibility = "private"
  /\ store = <<>>
  /\ backfill = {}
  /\ collection = <<>>
  /\ missed = 0

NewAttempt == [created |-> now, done |-> 0, lag |-> FALSE]

CreateRun(r) ==
  /\ attempts[r] = <<>>
  /\ attempts' = [attempts EXCEPT ![r] = <<NewAttempt>>]
  /\ UNCHANGED <<now, visibility, store, backfill, collection, missed>>

\* The last attempt ends; the completion time of its job "b" may come later.
CompleteRun(r) ==
  /\ Ongoing(r) /\ Last(attempts[r]).created < now
  /\ \E late \in BOOLEAN :
       attempts' = [attempts EXCEPT ![r][Len(attempts[r])].done = now,
                                    ![r][Len(attempts[r])].lag = late]
  /\ UNCHANGED <<now, visibility, store, backfill, collection, missed>>

TimingArrives(r) ==
  /\ \E k \in DOMAIN attempts[r] :
       attempts[r][k].lag /\ attempts' = [attempts EXCEPT ![r][k].lag = FALSE]
  /\ UNCHANGED <<now, visibility, store, backfill, collection, missed>>

Retry(r) ==
  /\ Finished(r) /\ Len(attempts[r]) = 1 /\ now < Created(r) + MaxSpan
  /\ attempts' = [attempts EXCEPT ![r] = Append(@, NewAttempt)]
  /\ UNCHANGED <<now, visibility, store, backfill, collection, missed>>

ChangeVisibility ==
  /\ visibility = "private"
  /\ visibility' = Other(visibility)
  /\ UNCHANGED <<now, attempts, store, backfill, collection, missed>>

\* readLatestSnapshot, the window, and the listing of the completed runs.
StartCollect ==
  /\ collection = <<>>
  /\ \A s \in Latest : validateSnapshot(s)
  /\ collection' = <<[prior |-> Latest, windowStart |-> now - Lookback,
                      listed |-> listRuns(now - Lookback), at |-> now, truth |-> Truth]>>
  /\ UNCHANGED <<now, attempts, visibility, store, backfill, missed>>

\* The jobs are read and the file of the day is written, whole.
FinishCollect ==
  /\ collection # <<>>
  /\ \A s \in backfill : s.collectedAt < now
  /\ store' = [d \in DOMAIN store \cup {DateOf(now)} |->
                 IF d = DateOf(now) THEN Snapshot(collection[1]) ELSE store[d]]
  /\ collection' = <<>>
  /\ UNCHANGED <<now, attempts, visibility, backfill, missed>>

\* Collection is all or nothing: a failed read leaves no snapshot.
CollectFails ==
  /\ collection # <<>>
  /\ collection' = <<>>
  /\ UNCHANGED <<now, attempts, visibility, store, backfill, missed>>

\* The owner adds separately fetched evidence of one run.  No two files have
\* the same time.
AddBackfill(r) ==
  /\ backfill = {} /\ Finished(r) /\ now > Since
  /\ \A s \in Daily : s.collectedAt < now
  /\ backfill' = {Snapshot([prior |-> {}, windowStart |-> Created(r), at |-> now, truth |-> {},
                            listed |-> {<<r, k>> : k \in DOMAIN attempts[r]}])}
  /\ UNCHANGED <<now, attempts, visibility, store, collection, missed>>

\* The scheduled collection of the day has been written.
Served == \E s \in Daily : s.listed >= DateOf(now) * Day + Phase

\* Time passes.  Runs end within MaxSpan, collections within MaxCollect; the day's scheduled collection is
\* written by the end of its tick, or the day goes without.
Tick ==
  /\ now < LastTick
  /\ \A r \in {r \in RunIds : Ongoing(r)} : now < Created(r) + MaxSpan
  /\ \A i \in DOMAIN collection : now < collection[i].at + MaxCollect
  /\ now' = now + 1
  /\ IF now % Day = Phase /\ ~Served
     THEN missed < MaxMissed /\ missed' = missed + 1
     ELSE UNCHANGED missed
  /\ UNCHANGED <<attempts, visibility, store, backfill, collection>>

Next ==
  \/ \E r \in RunIds :
       CreateRun(r) \/ CompleteRun(r) \/ TimingArrives(r) \/ Retry(r) \/ AddBackfill(r)
  \/ ChangeVisibility \/ StartCollect \/ FinishCollect \/ CollectFails \/ Tick

Spec == Init /\ [][Next]_vars

-----------------------------------------------------------------------------
(* Properties.                                                               *)

\* What the collector writes, it can read back: no snapshot is one that
\* validateSnapshot refuses, which would stop every later collection and
\* report until somebody removes the file.
SnapshotsValid == \A s \in Files : validateSnapshot(s)

\* The report never stops on a conflicting duplicate: whatever the order of
\* retries, late completion times, visibility changes and overlapping
\* collections, the observations of one job can be merged.
NeverConflicts ==
  LET report == Report IN \A k \in DOMAIN report : report[k].visibility # "conflict"

\* A job measured at its first collection keeps the visibility, and so the
\* price, it had then: a later snapshot that shows another is not believed.
ChargedAsFirstSeen ==
  LET report == Report
      Earlier(s) == {t \in Files : t # s /\ t.collectedAt <= s.collectedAt}
  IN  \A s \in Daily : \A job \in s.jobs :
        /\ Measured(job)
        /\ KeyOf(job) \in DOMAIN report
        /\ \A t \in Earlier(s) : \A old \in t.jobs : KeyOf(old) # KeyOf(job)
        => report[KeyOf(job)].visibility = job.visibility

\* A report that is given rests on daily collections without a gap: every
\* tick from Since to its end lies in the window of some daily snapshot.
ReportCovers ==
  Accepted => \A t \in Since .. Through - 1 :
                \E s \in Daily : s.windowStart <= t /\ t + 1 <= s.collectedAt

\* A report counts no execution twice: of the jobs GitHub copies into a retry
\* none is in it.
NoCopyCounted == \A k \in DOMAIN Report : k[2] = 1 \/ k[3] = "b"

\* A report that is given misses nothing: every job that had ended, in a run
\* that had ended, when the latest daily snapshot was taken is in it.
ReportComplete ==
  Accepted => \A s \in Latest : s.truth \subseteq DOMAIN Report
=============================================================================
