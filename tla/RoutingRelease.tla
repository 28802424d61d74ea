--------------------------- MODULE RoutingRelease ---------------------------
(***************************************************************************)
(* Turning one repository's routing off, against GitHub: releaseRouting of *)
(* packages/cli/src/runner-service.ts, which the controller runs after     *)
(* every tick, and fleetRelease of packages/cli/src/fleet-health.ts, which *)
(* the owner runs by hand. Both delete the switch, list the runs stranded  *)
(* on the runner's label, force-cancel them and re-run one job of each;    *)
(* every call to GitHub is a step of its own, and GitHub, the runner VM    *)
(* and the other process may move between any two of them.                 *)
(***************************************************************************)
EXTENDS Routing, TLAPS

CONSTANTS
    Runs, Jobs,          \* workflow runs, and the jobs every run has
    Gated,               \* the jobs whose runs-on reads the switch
    Procs,               \* subset of {"controller", "owner"}
    Interval,            \* RELEASE_CHECK_INTERVAL_MS in ticks
    MaxPolls,            \* attempts of the bounded wait
    MaxAttempts,         \* bound: attempts per run
    MaxRenewals,         \* bound: permits issued after the first
    MaxFails,            \* bound: GitHub calls that fail
    MayRelease           \* validateReleasePermit holds once service ended

ReleaseAssumption ==
    /\ Gated \subseteq Jobs /\ Procs \subseteq {"controller", "owner"}
    /\ {Interval, MaxPolls, MaxAttempts} \subseteq Nat \ {0}
    /\ {MaxRenewals, MaxFails} \subseteq Nat /\ MayRelease \in BOOLEAN

VARIABLES
    switch,     \* the repository variable
    service,    \* what assessService answers in this permit phase
    renewals,
    vm, intent, \* the owned VM and the journal's outstanding start
    run, job,   \* GitHub: runs and the jobs of their current attempt
    killed,     \* labels of the jobs a force-cancel interrupted
    check,      \* ReleaseCheck of the controller: last reason, age
    proc,       \* the two release processes
    fails

vars == <<switch, service, renewals, vm, intent, run, job, killed, check, proc, fails>>
world == <<switch, service, renewals, vm, intent, check>>
github == <<run, job, killed>>

NoPlan == [cancellable |-> {}, waiting |-> {}, jobs |-> <<>>]
IdleProc == [pc |-> "idle", tries |-> 0, mayTake |-> FALSE, runs |-> <<>>, listing |-> <<>>,
             plan |-> NoPlan, tried |-> {}, cancelled |-> {}, failed |-> {}, polls |-> 0,
             active |-> {}, unknown |-> FALSE, rerun |-> {}, notRerun |-> {}, done |-> {}]

Active == {r \in Runs : run[r].status \in {"active", "cancelling"}}
Unfinished(r) == {j \in Jobs : job[r][j].status \in {"queued", "in_progress"}}
LabelNow(j) == IF j \in Gated /\ switch = "on" THEN "runner" ELSE "hosted"
RunnerBusy == \E r \in Runs, j \in Jobs : job[r][j] = [status |-> "in_progress", label |-> "runner"]
QueuedOnLabel == {x \in Runs \X Jobs : job[x[1]][x[2]] = [status |-> "queued", label |-> "runner"]}

Init ==
    /\ switch = "on" /\ service = "none" /\ renewals = 0
    /\ vm = "stopped" /\ intent = FALSE
    /\ run = [r \in Runs |-> [attempt |-> 0, status |-> "none"]]
    /\ job = [r \in Runs |-> [j \in Jobs |-> [status |-> "none", label |-> "hosted"]]]
    /\ killed = {}
    /\ check = [last |-> "none", age |-> 0]
    /\ proc = [p \in Procs |-> IdleProc]
    /\ fails = 0
-----------------------------------------------------------------------------
(***************************************************************************)
(* The environment: pushes, hosted runners, the owned VM, the permit.      *)
(***************************************************************************)

\* A push: every job asks for the label its runs-on gives it at that moment.
Push(r) ==
    /\ run[r].status = "none"
    /\ run' = [run EXCEPT ![r] = [attempt |-> 1, status |-> "active"]]
    /\ job' = [job EXCEPT ![r] = [j \in Jobs |-> [status |-> "queued", label |-> LabelNow(j)]]]
    /\ UNCHANGED <<world, killed, proc, fails>>

JobStart(r, j) ==
    /\ run[r].status = "active" /\ job[r][j].status = "queued"
    /\ job[r][j].label = "runner" => vm = "running" /\ ~RunnerBusy
    /\ job' = [job EXCEPT ![r][j].status = "in_progress"]
    /\ UNCHANGED <<world, run, killed, proc, fails>>

\* The run completes with its last unfinished job.
JobFinish(r, j) ==
    /\ r \in Active /\ job[r][j].status = "in_progress"
    /\ job' = [job EXCEPT ![r][j].status = "completed"]
    /\ run' = IF Unfinished(r) = {j} THEN [run EXCEPT ![r].status = "completed"] ELSE run
    /\ UNCHANGED <<world, killed, proc, fails>>

\* Force-cancel is asynchronous: GitHub ends the run some time after it
\* accepted the call, with whatever is in progress then; between the two it
\* hands out no further job of that run.
CancelTakesEffect(r) ==
    /\ run[r].status = "cancelling"
    /\ run' = [run EXCEPT ![r].status = "completed"]
    /\ killed' = killed \cup {job[r][j].label : j \in {k \in Jobs : job[r][k].status = "in_progress"}}
    /\ job' = [job EXCEPT ![r] = [j \in Jobs |->
                  IF j \in Unfinished(r) THEN [@[j] EXCEPT !.status = "cancelled"] ELSE @[j]]]
    /\ UNCHANGED <<world, proc, fails>>

\* A start the controller asked for: the VM boots some time later.
VmBoots ==
    /\ intent /\ vm = "stopped" /\ vm' = "starting"
    /\ UNCHANGED <<switch, service, renewals, intent, github, check, proc, fails>>
VmUp ==
    /\ vm = "starting" /\ vm' = "running"
    /\ UNCHANGED <<switch, service, renewals, intent, github, check, proc, fails>>

\* The permit approaches its end, ends, and may be reissued, perhaps without
\* `create`: then a stopped VM can still be started, but nothing is promised.
ServiceMoves ==
    /\ \/ /\ service \in {"none", "permit-operations-missing"} /\ service' = "past-service-end" /\ UNCHANGED renewals
       \/ /\ service = "past-service-end" /\ service' = "permit-expired" /\ UNCHANGED renewals
       \/ /\ service # "none" /\ renewals < MaxRenewals /\ renewals' = renewals + 1
          /\ service' \in {"none", "permit-operations-missing"}
    /\ UNCHANGED <<switch, vm, intent, github, check, proc, fails>>

\* A cut-over turns the switch on while the permit serves.
SwitchOn ==
    /\ service = "none" /\ switch # "on" /\ renewals > 0 /\ switch' = "on"
    /\ UNCHANGED <<service, renewals, vm, intent, github, check, proc, fails>>
-----------------------------------------------------------------------------
(***************************************************************************)
(* The controller: a tick, then releaseRouting.                            *)
(***************************************************************************)

\* The effect the tick decides, as far as the release check can tell: it
\* starts a stopped VM for a queued job, stops an idle one, or does nothing.
TickEffect ==
    {"none"} \cup (IF service \in {"none", "permit-operations-missing"} /\ vm = "stopped" /\ ~intent /\ QueuedOnLabel # {}
                   THEN {"start-vm"} ELSE {})
             \cup (IF vm = "running" /\ ~RunnerBusy THEN {"stop-vm"} ELSE {})

\* tickController and the first half of releaseRouting, up to the first call
\* to GitHub: the assessment, the throttle and the authority. A check that
\* could not read the repository's visibility is throttled under its own
\* reason and so forgets the last one.
Tick ==
    /\ "controller" \in Procs /\ proc["controller"].pc = "idle"
    /\ \E effect \in TickEffect, incomplete \in BOOLEAN :
         LET reason == IF service = "none" /\ incomplete THEN "check-incomplete" ELSE service
             due == ReleaseCheckDue(check.last, check.age, reason, Interval)
             release == due /\ service # "none" /\ MayRelease
         IN  /\ intent' = (effect = "start-vm" \/ (intent /\ vm # "running"))
             /\ vm' = IF effect = "stop-vm" THEN "stopped" ELSE vm
             /\ check' = IF reason = "none" THEN [last |-> "none", age |-> 0]
                         ELSE IF due THEN [last |-> reason, age |-> 0]
                         ELSE [check EXCEPT !.age = Smaller(Interval, @ + 1)]
             /\ proc' = IF release
                        THEN [proc EXCEPT !["controller"] =
                                 [@ EXCEPT !.pc = "switch", !.mayTake = OwnedRunnerMayTakeJobs(vm, intent, effect)]]
                        ELSE proc
    /\ UNCHANGED <<switch, service, renewals, github, fails>>

\* The controller process dies or is restarted: ReleaseCheck and the cancel
\* in progress live in memory only.
Restart ==
    /\ "controller" \in Procs /\ proc["controller"].pc # "idle" /\ fails < MaxFails
    /\ fails' = fails + 1
    /\ proc' = [proc EXCEPT !["controller"] = IdleProc]
    /\ check' = [last |-> "none", age |-> 0]
    /\ UNCHANGED <<switch, service, renewals, vm, intent, github>>

\* fleet release --cancel-stranded.
OwnerStarts ==
    /\ "owner" \in Procs /\ proc["owner"].pc = "idle" /\ service # "none"
    /\ proc' = [proc EXCEPT !["owner"].pc = "switch"]
    /\ UNCHANGED <<world, github, fails>>
-----------------------------------------------------------------------------
(***************************************************************************)
(* The steps both releases share.                                          *)
(***************************************************************************)
At(p, pc) == proc[p].pc = pc
Becomes(p, q) == proc' = [proc EXCEPT ![p] = q]

\* The switch is deleted. The controller looks first and tries once; the
\* owner's command deletes without looking and tries twice.
DeleteSwitch(p) ==
    /\ At(p, "switch")
    /\ IF p = "controller" /\ switch # "on"
       THEN Becomes(p, [proc[p] EXCEPT !.pc = "runs"]) /\ UNCHANGED switch
       ELSE Becomes(p, [proc[p] EXCEPT !.pc = "readback", !.tries = @ + 1]) /\ switch' = "absent"
    /\ UNCHANGED <<service, renewals, vm, intent, github, check, fails>>

Readback(p) ==
    /\ At(p, "readback")
    /\ Becomes(p, IF switch # "on" THEN [proc[p] EXCEPT !.pc = "runs"]
                  ELSE IF p = "owner" /\ proc[p].tries < 2 THEN [proc[p] EXCEPT !.pc = "switch"]
                  ELSE IdleProc)
    /\ UNCHANGED <<world, github, fails>>

\* strandedRuns: the active runs with their attempts, then the jobs of each.
ListRuns(p) ==
    /\ At(p, "runs")
    /\ Becomes(p, [proc[p] EXCEPT !.pc = "jobs", !.runs = [r \in Active |-> run[r].attempt]])
    /\ UNCHANGED <<world, github, fails>>

JobsOf(r, attempt) ==
    [j \in (IF run[r].attempt = attempt THEN Unfinished(r) ELSE {}) |-> job[r][j]]

ListJobs(p) ==
    /\ At(p, "jobs")
    /\ \E r \in DOMAIN proc[p].runs \ DOMAIN proc[p].listing :
         Becomes(p, [proc[p] EXCEPT
            !.listing = [x \in DOMAIN @ \cup {r} |-> IF x = r THEN JobsOf(r, proc[p].runs[r]) ELSE @[x]]])
    /\ UNCHANGED <<world, github, fails>>

\* With every run listed the stranded ones are selected; the controller
\* leaves them alone while its own VM may still take the jobs.
Select(p) ==
    /\ At(p, "jobs") /\ DOMAIN proc[p].listing = DOMAIN proc[p].runs
    /\ Becomes(p, IF p = "controller" /\ proc[p].mayTake THEN IdleProc
                  ELSE [proc[p] EXCEPT !.pc = "cancel", !.plan = SelectStranded(proc[p].listing),
                                       !.runs = <<>>, !.listing = <<>>])
    /\ UNCHANGED <<world, github, fails>>

\* forceCancelRun: accepted while the run is active, 409 once it is over.
ForceCancel(p) ==
    /\ At(p, "cancel")
    /\ \E r \in proc[p].plan.cancellable \ proc[p].tried :
         LET accepted == r \in Active IN
         /\ run' = IF accepted THEN [run EXCEPT ![r].status = "cancelling"] ELSE run
         /\ Becomes(p, [proc[p] EXCEPT !.tried = @ \cup {r},
                                       !.cancelled = IF accepted THEN @ \cup {r} ELSE @])
    /\ UNCHANGED <<world, job, killed, fails>>

CancelsDone(p) ==
    /\ At(p, "cancel") /\ proc[p].tried = proc[p].plan.cancellable
    /\ Becomes(p, [proc[p] EXCEPT !.pc = IF proc[p].cancelled = {} THEN "report" ELSE "wait"])
    /\ UNCHANGED <<world, github, fails>>

\* The bounded wait until GitHub lists none of the cancelled runs as active.
Poll(p) ==
    /\ At(p, "wait")
    /\ LET still == proc[p].cancelled \cap Active IN
       Becomes(p, IF still = {} \/ proc[p].polls + 1 = MaxPolls
                  THEN [proc[p] EXCEPT !.pc = "rerun", !.active = still]
                  ELSE [proc[p] EXCEPT !.polls = @ + 1])
    /\ UNCHANGED <<world, github, fails>>

\* Re-runs the first stranded job of a run that ended; GitHub evaluates its
\* runs-on again. A run that is active again refuses the call.
RerunJob(p) ==
    /\ At(p, "rerun")
    /\ \E r \in proc[p].cancelled \ (proc[p].active \cup proc[p].done) :
       LET first == CHOOSE j \in proc[p].plan.jobs[r] : TRUE
           accepted == run[r].status = "completed"
       IN  /\ run[r].attempt < MaxAttempts
           /\ run' = IF accepted THEN [run EXCEPT ![r] = [attempt |-> @.attempt + 1, status |-> "active"]] ELSE run
           /\ job' = IF accepted THEN [job EXCEPT ![r][first] = [status |-> "queued", label |-> LabelNow(first)]] ELSE job
           /\ Becomes(p, [proc[p] EXCEPT
                 !.done = @ \cup {r},
                 !.rerun = IF accepted THEN @ \cup {<<r, first>>} ELSE @,
                 !.failed = IF accepted THEN @ ELSE @ \cup {<<r, first>>},
                 !.notRerun = @ \cup {<<r, j>> : j \in proc[p].plan.jobs[r] \ {first}}])
    /\ UNCHANGED <<world, killed, fails>>

RerunsDone(p) ==
    /\ At(p, "rerun") /\ proc[p].cancelled \subseteq proc[p].active \cup proc[p].done
    /\ Becomes(p, [proc[p] EXCEPT !.pc = "report"])
    /\ UNCHANGED <<world, github, fails>>

CancelOutcomeClean(q) == ~q.unknown /\ q.active = {} /\ q.notRerun = {} /\ q.failed = {}

Report(p) ==
    /\ At(p, "report") /\ Becomes(p, IdleProc)
    /\ UNCHANGED <<world, github, fails>>

\* A call to GitHub fails: before the cancels the release ends and is
\* reported; a failed cancel or re-run is recorded and the rest goes on; a
\* failed look at the cancelled runs ends the wait without any re-run.
CallFails(p) ==
    /\ fails < MaxFails /\ fails' = fails + 1
    /\ \/ At(p, "switch") /\ Becomes(p, IdleProc)
       \/ At(p, "readback") /\ Becomes(p, IdleProc)
       \/ At(p, "runs") /\ Becomes(p, IdleProc)
       \/ At(p, "jobs") /\ DOMAIN proc[p].runs # DOMAIN proc[p].listing /\ Becomes(p, IdleProc)
       \/ At(p, "cancel") /\ \E r \in proc[p].plan.cancellable \ proc[p].tried :
            Becomes(p, [proc[p] EXCEPT !.tried = @ \cup {r}, !.failed = @ \cup {r}])
       \/ At(p, "wait") /\ Becomes(p, [proc[p] EXCEPT !.pc = "report", !.unknown = TRUE])
       \/ At(p, "rerun") /\ \E r \in proc[p].cancelled \ (proc[p].active \cup proc[p].done) :
            Becomes(p, [proc[p] EXCEPT !.done = @ \cup {r}, !.failed = @ \cup {r}])
    /\ UNCHANGED <<world, github>>

ProcStep(p) ==
    \/ DeleteSwitch(p) \/ Readback(p) \/ ListRuns(p) \/ ListJobs(p) \/ Select(p)
    \/ ForceCancel(p) \/ CancelsDone(p) \/ Poll(p) \/ RerunJob(p) \/ RerunsDone(p) \/ Report(p)

Environment ==
    \/ \E r \in Runs : Push(r) \/ CancelTakesEffect(r)
    \/ \E r \in Runs, j \in Jobs : JobStart(r, j) \/ JobFinish(r, j)
    \/ VmBoots \/ VmUp \/ ServiceMoves \/ SwitchOn

Next ==
    \/ Environment
    \/ Tick \/ Restart \/ OwnerStarts
    \/ \E p \in Procs : ProcStep(p) \/ CallFails(p)

Spec == Init /\ [][Next]_vars
-----------------------------------------------------------------------------
ReleaseTypeOK ==
    /\ switch \in {"on", "absent"}
    /\ service \in {"none", "permit-operations-missing", "past-service-end", "permit-expired"}
    /\ renewals \in 0..MaxRenewals /\ fails \in 0..MaxFails
    /\ vm \in {"stopped", "starting", "running"} /\ intent \in BOOLEAN
    /\ run \in [Runs -> [attempt : 0..MaxAttempts, status : {"none", "active", "cancelling", "completed"}]]
    /\ job \in [Runs -> [Jobs -> [status : {"none", "queued", "in_progress", "completed", "cancelled"},
                                  label : {"runner", "hosted"}]]]
    /\ killed \subseteq {"runner", "hosted"}
    /\ check \in [last : STRING, age : 0..Interval]

\* "cancelling never interrupts a job that is running elsewhere" (routing.ts
\* selectStrandedRuns): no force-cancel ends a hosted job in progress, whatever
\* happens between the listing and the moment the cancel takes effect.
HostedJobNeverKilled == "hosted" \notin killed

\* "stranded runs are cancelled only when no owned VM exists, none is being
\* created or started" (routing.ts ownedRunnerMayTakeJobs): no force-cancel ends
\* a job that the owned runner has begun.
RunnerJobNeverKilled == "runner" \notin killed

\* "Every stranded job was re-run and nothing is left for a push or dispatch"
\* (fleet-health.ts cancelOutcomeClean): when a release reports so, none of the
\* stranded jobs of the runs it cancelled is left cancelled, or about to be.
CleanReportTrue ==
    \A p \in Procs : (At(p, "report") /\ CancelOutcomeClean(proc[p])) =>
       \A r \in proc[p].cancelled : \A j \in proc[p].plan.jobs[r] : job[r][j].status # "cancelled" /\ run[r].status # "cancelling"

\* A job that waits on the runner's label after service ended. While it does not
\* resume, every such job is taken off the label (served by the VM, or cancelled),
\* those of runs with other unfinished jobs by a later check.
Stranded(x) == service \in {"past-service-end", "permit-expired"} /\ x \in QueuedOnLabel
-----------------------------------------------------------------------------
(***************************************************************************)
(* Proofs: the controller's release interrupts no job, for any runs, jobs  *)
(* and bounds, as long as nobody runs fleet release --cancel-stranded      *)
(* beside it.                                                              *)
(***************************************************************************)
ControllerAlone == ReleaseAssumption /\ Procs \subseteq {"controller"}

RunRecords == [attempt : Nat, status : {"none", "active", "cancelling", "completed"}]
JobRecords == [status : {"none", "queued", "in_progress", "completed", "cancelled"},
               label : {"runner", "hosted"}]

(* What GitHub and the provider hold: every run's attempt and state, every job's state and label. *)
GitHubTyped ==
    /\ run \in [Runs -> RunRecords] /\ job \in [Runs -> [Jobs -> JobRecords]]
    /\ vm \in {"stopped", "starting", "running"} /\ intent \in BOOLEAN

(* A job runs on the runner only while the VM does. *)
VmServes == \A r \in Runs, j \in Jobs :
    job[r][j].status = "in_progress" /\ job[r][j].label = "runner" => vm = "running"

(* A run that is being cancelled has no job in progress. *)
CancelledRest == \A r \in Runs, j \in Jobs :
    run[r].status = "cancelling" => job[r][j].status # "in_progress"

Waiting(J, r, j) == J[r][j].status \in {"queued", "in_progress"}

(* A listing of a run knows its unfinished jobs and their labels, and what *)
(* they do on the runner's label.                                          *)
Listed(unfinished, J, r) == \A j \in Jobs : Waiting(J, r, j) =>
    /\ j \in DOMAIN unfinished /\ unfinished[j].label = J[r][j].label
    /\ J[r][j].label = "runner" => unfinished[j].status = J[r][j].status

OnLabelOnly(J, r) == \A j \in Jobs : Waiting(J, r, j) =>
    J[r][j].status = "queued" /\ J[r][j].label = "runner"

Fields == {"pc", "tries", "mayTake", "runs", "listing", "plan", "tried", "cancelled", "failed",
           "polls", "active", "unknown", "rerun", "notRerun", "done"}
Before == {"switch", "readback", "runs"}
After == {"cancel", "wait", "rerun", "report"}

(* What a release q relies on, with the runs at R, the jobs at J, the VM   *)
(* at v and a start outstanding if i: once the VM was found out of reach   *)
(* of the jobs it stays there, and what is cancelled waits on its label.   *)
ReleaseOk(q, R, J, v, i) ==
    /\ DOMAIN q = Fields
    /\ q.mayTake \in BOOLEAN
    /\ q.pc \in {"idle", "jobs"} \cup Before \cup After
    /\ q.pc = "idle" => q = IdleProc
    /\ q.pc # "idle" /\ q.mayTake = FALSE => v = "stopped" /\ i = FALSE
    /\ q.pc \in After => q.mayTake = FALSE
    /\ q.pc \in Before => q.listing = <<>>
    /\ q.pc = "jobs" =>
          /\ DOMAIN q.listing \subseteq DOMAIN q.runs
          /\ \A r \in DOMAIN q.runs : r \in Runs /\ R[r].attempt = q.runs[r] /\ R[r].status # "none"
          /\ q.mayTake = FALSE => \A r \in DOMAIN q.listing : Listed(q.listing[r], J, r)
    /\ q.pc = "cancel" =>
          \A r \in q.plan.cancellable : r \in Runs /\ R[r].status # "none" /\ OnLabelOnly(J, r)

ReleaseInv ==
    /\ GitHubTyped /\ VmServes /\ CancelledRest
    /\ killed = {}
    /\ DOMAIN proc = Procs
    /\ \A p \in Procs : ReleaseOk(proc[p], run, job, vm, intent)

(* A release that does nothing relies on nothing. *)
LEMMA IdleIsOk ==
  /\ DOMAIN IdleProc = Fields /\ IdleProc.pc = "idle" /\ IdleProc.mayTake = FALSE
  /\ IdleProc.listing = <<>>
  /\ \A R, J, v, i : ReleaseOk(IdleProc, R, J, v, i)
<1>1. /\ DOMAIN IdleProc = Fields /\ IdleProc.pc = "idle" /\ IdleProc.mayTake = FALSE
      /\ IdleProc.listing = <<>>
  BY DEF IdleProc, Fields
<1> QED
  BY <1>1 DEF ReleaseOk, Before, After

LEMMA ReleaseInitially == Init => ReleaseInv
<1> SUFFICES ASSUME Init PROVE ReleaseInv
  OBVIOUS
<1>1. GitHubTyped
  BY DEF Init, GitHubTyped, RunRecords, JobRecords
<1>2. VmServes /\ CancelledRest /\ killed = {}
  BY DEF Init, VmServes, CancelledRest
<1>3. DOMAIN proc = Procs /\ \A p \in Procs : proc[p] = IdleProc
  <2>1. proc = [p \in Procs |-> IdleProc]
    BY Zenon DEF Init
  <2> QED
    BY <2>1
<1> QED
  BY <1>1, <1>2, <1>3, IdleIsOk DEF ReleaseInv

(* A job's status is set and nothing else. *)
SetStatus(f, r, j, s) == [f EXCEPT ![r][j].status = s]

LEMMA StatusSet ==
  ASSUME NEW f \in [Runs -> [Jobs -> JobRecords]], NEW r \in Runs, NEW j \in Jobs,
         NEW s \in {"in_progress", "completed"}
  PROVE  /\ SetStatus(f, r, j, s) \in [Runs -> [Jobs -> JobRecords]]
         /\ SetStatus(f, r, j, s)[r][j].status = s
         /\ SetStatus(f, r, j, s)[r][j].label = f[r][j].label
         /\ \A x \in Runs, k \in Jobs : (x # r \/ k # j) => SetStatus(f, r, j, s)[x][k] = f[x][k]
<1> DEFINE new == [f[r][j] EXCEPT !.status = s]
           row == [f[r] EXCEPT ![j] = new]
<1>1. f[r] \in [Jobs -> JobRecords] /\ f[r][j] \in JobRecords
  OBVIOUS
<1>2. new \in JobRecords /\ new.status = s /\ new.label = f[r][j].label
  BY <1>1 DEF JobRecords
<1>3. SetStatus(f, r, j, s) = [f EXCEPT ![r] = row]
  BY DEF SetStatus
<1> HIDE DEF new
<1>4. row \in [Jobs -> JobRecords] /\ row[j] = new /\ \A k \in Jobs : k # j => row[k] = f[r][k]
  BY <1>1, <1>2
<1> HIDE DEF row
<1> QED
  BY <1>2, <1>3, <1>4

(* The VM stays off and the jobs that wait have been waiting, on the same  *)
(* label.                                                                  *)
Lasts(R, S, J, K, v) ==
    /\ \A r \in Runs : R[r].status # "none" => S[r].status # "none" /\ S[r].attempt = R[r].attempt
    /\ \A r \in Runs, j \in Jobs : R[r].status # "none" /\ Waiting(K, r, j) =>
          /\ Waiting(J, r, j) /\ K[r][j].label = J[r][j].label
          /\ v = "stopped" /\ J[r][j].label = "runner" => K[r][j].status = J[r][j].status

(* Then what a release relies on lasts too. *)
LEMMA ReleaseLasts ==
  ASSUME NEW q, NEW R, NEW S, NEW J, NEW K, NEW v, NEW w, NEW i, ReleaseOk(q, R, J, v, i),
         v = "stopped" /\ i = FALSE => w = "stopped", Lasts(R, S, J, K, v)
  PROVE  ReleaseOk(q, S, K, w, i)
<1>1. q.pc = "jobs" =>
          \A r \in DOMAIN q.runs : r \in Runs /\ S[r].attempt = q.runs[r] /\ S[r].status # "none"
  BY DEF ReleaseOk, Lasts
<1>2. q.pc = "jobs" /\ q.mayTake = FALSE =>
          \A r \in DOMAIN q.listing : Listed(q.listing[r], K, r)
  <2> SUFFICES ASSUME q.pc = "jobs", q.mayTake = FALSE, NEW r \in DOMAIN q.listing
               PROVE  Listed(q.listing[r], K, r)
    OBVIOUS
  <2>1. r \in Runs /\ R[r].status # "none" /\ v = "stopped" /\ Listed(q.listing[r], J, r)
    BY DEF ReleaseOk
  <2> QED
    BY <2>1 DEF Listed, Lasts
<1>3. q.pc = "cancel" =>
          \A r \in q.plan.cancellable : r \in Runs /\ S[r].status # "none" /\ OnLabelOnly(K, r)
  <2> SUFFICES ASSUME q.pc = "cancel", NEW r \in q.plan.cancellable
               PROVE  r \in Runs /\ S[r].status # "none" /\ OnLabelOnly(K, r)
    OBVIOUS
  <2>1. r \in Runs /\ R[r].status # "none" /\ v = "stopped" /\ OnLabelOnly(J, r)
    BY DEF ReleaseOk, After
  <2> QED
    BY <2>1 DEF OnLabelOnly, Lasts
<1>4. q.pc # "idle" /\ q.mayTake = FALSE => w = "stopped" /\ i = FALSE
  BY DEF ReleaseOk
<1> QED
  BY <1>1, <1>2, <1>3, <1>4 DEF ReleaseOk

LEMMA SelectedWait ==
  ASSUME NEW listing, NEW r \in SelectStranded(listing).cancellable
  PROVE  /\ r \in DOMAIN listing
         /\ \A j \in DOMAIN listing[r] :
               listing[r][j].status # "in_progress" /\ listing[r][j].label = "runner"
BY DEF SelectStranded, StrandedIn

(* A push: its jobs belong to a run that no release has listed. *)
LEMMA PushKeeps ==
  ASSUME ReleaseInv, NEW r \in Runs, Push(r)
  PROVE  ReleaseInv'
<1>1. /\ run[r].status = "none" /\ UNCHANGED <<killed, proc, vm, intent>>
      /\ run' = [run EXCEPT ![r] = [attempt |-> 1, status |-> "active"]]
      /\ job' = [job EXCEPT ![r] = [k \in Jobs |-> [status |-> "queued", label |-> LabelNow(k)]]]
  BY DEF Push, world
<1> DEFINE row == [k \in Jobs |-> [status |-> "queued", label |-> LabelNow(k)]]
<1>2. row \in [Jobs -> JobRecords] /\ \A k \in Jobs : row[k].status = "queued"
  BY DEF LabelNow, JobRecords
<1>3. [attempt |-> 1, status |-> "active"] \in RunRecords
  BY DEF RunRecords
<1> HIDE DEF row
<1>4. GitHubTyped'
  BY <1>1, <1>2, <1>3 DEF ReleaseInv, GitHubTyped, row
<1>5. \A x \in Runs \ {r} : run'[x] = run[x] /\ job'[x] = job[x]
  BY <1>1 DEF ReleaseInv, GitHubTyped
<1>6. run'[r].status = "active" /\ \A k \in Jobs : job'[r][k].status = "queued"
  BY <1>1, <1>2 DEF ReleaseInv, GitHubTyped, row
<1>7. VmServes' /\ CancelledRest'
  BY <1>1, <1>5, <1>6 DEF ReleaseInv, VmServes, CancelledRest
<1>8. ASSUME NEW p \in Procs PROVE ReleaseOk(proc'[p], run', job', vm', intent')
  <2>1. ReleaseOk(proc[p], run, job, vm, intent)
    BY DEF ReleaseInv
  <2>2. Lasts(run, run', job, job', vm)
    BY <1>1, <1>5 DEF Lasts, Waiting
  <2>4. ReleaseOk(proc[p], run', job', vm, intent)
    BY <2>1, <2>2, ReleaseLasts
  <2> QED
    BY <1>1, <2>4
<1> QED
  BY <1>1, <1>4, <1>7, <1>8 DEF ReleaseInv

(* A job starts on a hosted runner, or on the VM while it runs. *)
LEMMA JobStartKeeps ==
  ASSUME ReleaseInv, NEW r \in Runs, NEW j \in Jobs, JobStart(r, j)
  PROVE  ReleaseInv'
<1>1. /\ run[r].status = "active" /\ job[r][j].status = "queued"
      /\ job[r][j].label = "runner" => vm = "running"
      /\ job' = [job EXCEPT ![r][j].status = "in_progress"]
      /\ UNCHANGED <<run, killed, proc, vm, intent>>
  BY DEF JobStart, world
<1>2. /\ job'[r][j].status = "in_progress" /\ job'[r][j].label = job[r][j].label
      /\ \A x \in Runs, k \in Jobs : (x # r \/ k # j) => job'[x][k] = job[x][k]
      /\ job' \in [Runs -> [Jobs -> JobRecords]]
  <2>1. job \in [Runs -> [Jobs -> JobRecords]] /\ "in_progress" \in {"in_progress", "completed"}
    BY DEF ReleaseInv, GitHubTyped
  <2>2. job' = SetStatus(job, r, j, "in_progress")
    BY <1>1 DEF SetStatus
  <2> QED
    BY <2>1, <2>2, StatusSet
<1>3. GitHubTyped' /\ VmServes' /\ CancelledRest'
  BY <1>1, <1>2 DEF ReleaseInv, GitHubTyped, VmServes, CancelledRest
<1>4. Lasts(run, run, job, job', vm)
  BY <1>1, <1>2 DEF Waiting, Lasts
<1>5. ASSUME NEW p \in Procs PROVE ReleaseOk(proc'[p], run', job', vm', intent')
  <2>1. ReleaseOk(proc[p], run, job, vm, intent)
    BY DEF ReleaseInv
  <2>2. ReleaseOk(proc[p], run, job', vm, intent)
    BY <1>4, <2>1, ReleaseLasts
  <2> QED
    BY <1>1, <2>2
<1> QED
  BY <1>1, <1>3, <1>5 DEF ReleaseInv

(* Jobs and runs end: of what was waiting, less is. *)
LEMMA EndKeeps ==
  ASSUME ReleaseInv, UNCHANGED <<proc, vm, intent>>, killed' = {},
         run' \in [Runs -> RunRecords],
         \A x \in Runs : /\ run'[x].attempt = run[x].attempt
                         /\ run'[x].status = run[x].status \/ run'[x].status = "completed",
         job' \in [Runs -> [Jobs -> JobRecords]],
         \A x \in Runs, k \in Jobs :
            \/ job'[x][k] = job[x][k]
            \/ job'[x][k].label = job[x][k].label /\ job'[x][k].status \in {"completed", "cancelled"}
  PROVE  ReleaseInv'
<1>1. GitHubTyped'
  BY DEF ReleaseInv, GitHubTyped
<1>5. VmServes' /\ CancelledRest'
  BY DEF ReleaseInv, VmServes, CancelledRest
<1>2. Lasts(run, run', job, job', vm)
  BY DEF Waiting, Lasts
<1>4. ASSUME NEW p \in Procs PROVE ReleaseOk(proc'[p], run', job', vm', intent')
  <2>1. ReleaseOk(proc[p], run, job, vm, intent)
    BY DEF ReleaseInv
  <2>2. ReleaseOk(proc[p], run', job', vm, intent)
    BY <1>2, <2>1, ReleaseLasts
  <2> QED
    BY <2>2
<1> QED
  BY <1>1, <1>4, <1>5 DEF ReleaseInv

(* So is the status of a run. *)
SetRun(f, r, s) == [f EXCEPT ![r].status = s]

LEMMA RunSet ==
  ASSUME NEW f \in [Runs -> RunRecords], NEW r, NEW s \in {"cancelling", "completed"}
  PROVE  /\ SetRun(f, r, s) \in [Runs -> RunRecords]
         /\ \A x \in Runs : /\ SetRun(f, r, s)[x].attempt = f[x].attempt
                            /\ SetRun(f, r, s)[x].status = IF x = r THEN s ELSE f[x].status
<1> DEFINE new == [f[r] EXCEPT !.status = s]
<1>1. r \in Runs => new \in RunRecords /\ new.status = s /\ new.attempt = f[r].attempt
  BY DEF RunRecords
<1>2. SetRun(f, r, s) = [f EXCEPT ![r] = new]
  BY DEF SetRun
<1> HIDE DEF new
<1> QED
  BY <1>1, <1>2

(* GitHub ends a job, and the run with its last one. *)
LEMMA JobFinishKeeps ==
  ASSUME ReleaseInv, NEW r \in Runs, NEW j \in Jobs, JobFinish(r, j)
  PROVE  ReleaseInv'
<1>1. /\ job' = [job EXCEPT ![r][j].status = "completed"]
      /\ run' = [run EXCEPT ![r].status = "completed"] \/ run' = run
      /\ UNCHANGED <<killed, proc, vm, intent>>
  BY DEF JobFinish, world
<1>2. /\ run' \in [Runs -> RunRecords]
      /\ \A x \in Runs : /\ run'[x].attempt = run[x].attempt
                         /\ run'[x].status = run[x].status \/ run'[x].status = "completed"
  <2>1. run \in [Runs -> RunRecords]
    BY DEF ReleaseInv, GitHubTyped
  <2>2. run' = SetRun(run, r, "completed") \/ run' = run
    BY <1>1 DEF SetRun
  <2> QED
    BY <2>1, <2>2, RunSet
<1>3. /\ job' \in [Runs -> [Jobs -> JobRecords]]
      /\ \A x \in Runs, k \in Jobs :
            \/ job'[x][k] = job[x][k]
            \/ job'[x][k].label = job[x][k].label /\ job'[x][k].status \in {"completed", "cancelled"}
  <2>1. job \in [Runs -> [Jobs -> JobRecords]] /\ "completed" \in {"in_progress", "completed"}
    BY DEF ReleaseInv, GitHubTyped
  <2>3. job' = SetStatus(job, r, j, "completed")
    BY <1>1 DEF SetStatus
  <2>2. /\ job'[r][j].status = "completed" /\ job'[r][j].label = job[r][j].label
        /\ \A x \in Runs, k \in Jobs : (x # r \/ k # j) => job'[x][k] = job[x][k]
        /\ job' \in [Runs -> [Jobs -> JobRecords]]
    BY <2>1, <2>3, StatusSet
  <2> QED
    BY <2>2
<1> QED
  BY <1>1, <1>2, <1>3, EndKeeps DEF ReleaseInv

(* A cancel takes effect on a run whose jobs wait: it interrupts none. *)
LEMMA CancelKeeps ==
  ASSUME ReleaseInv, NEW r \in Runs, CancelTakesEffect(r)
  PROVE  ReleaseInv'
<1> DEFINE row == [k \in Jobs |-> IF k \in Unfinished(r)
                                  THEN [job[r][k] EXCEPT !.status = "cancelled"] ELSE job[r][k]]
<1>1. /\ run[r].status = "cancelling"
      /\ run' = [run EXCEPT ![r].status = "completed"]
      /\ killed' = killed \cup {job[r][k].label : k \in {k \in Jobs : job[r][k].status = "in_progress"}}
      /\ UNCHANGED <<proc, vm, intent>>
  BY DEF CancelTakesEffect, world
<1>2. job' = [job EXCEPT ![r] = row]
  BY DEF CancelTakesEffect, ReleaseInv, GitHubTyped
<1>3. /\ run' \in [Runs -> RunRecords]
      /\ \A x \in Runs : /\ run'[x].attempt = run[x].attempt
                         /\ run'[x].status = run[x].status \/ run'[x].status = "completed"
  <2>1. run \in [Runs -> RunRecords]
    BY DEF ReleaseInv, GitHubTyped
  <2>2. run' = SetRun(run, r, "completed")
    BY <1>1 DEF SetRun
  <2> QED
    BY <2>1, <2>2, RunSet
<1>4. job[r] \in [Jobs -> JobRecords]
  BY DEF ReleaseInv, GitHubTyped
<1>5. ASSUME NEW k \in Jobs
      PROVE  /\ row[k] \in JobRecords
             /\ row[k] = job[r][k] \/ (row[k].label = job[r][k].label /\ row[k].status = "cancelled")
  BY <1>4 DEF JobRecords
<1>6. row \in [Jobs -> JobRecords]
  BY <1>5
<1> HIDE DEF row
<1>7. /\ job' \in [Runs -> [Jobs -> JobRecords]]
      /\ \A x \in Runs, k \in Jobs :
            \/ job'[x][k] = job[x][k]
            \/ job'[x][k].label = job[x][k].label /\ job'[x][k].status \in {"completed", "cancelled"}
  BY <1>2, <1>5, <1>6 DEF ReleaseInv, GitHubTyped
<1>8. killed' = {}
  <2>1. {k \in Jobs : job[r][k].status = "in_progress"} = {}
    BY <1>1 DEF ReleaseInv, CancelledRest
  <2> QED
    BY <1>1, <2>1 DEF ReleaseInv
<1> QED
  BY <1>1, <1>3, <1>7, <1>8, EndKeeps

(* The VM boots only for a start that is outstanding. *)
LEMMA VmKeeps ==
  ASSUME ReleaseInv, VmBoots \/ VmUp \/ ServiceMoves \/ SwitchOn
  PROVE  ReleaseInv'
<1>1. /\ UNCHANGED <<run, job, killed, proc, intent>>
      /\ \/ vm' = vm \/ (vm = "stopped" /\ intent /\ vm' = "starting")
         \/ (vm = "starting" /\ vm' = "running")
  BY Zenon DEF VmBoots, VmUp, ServiceMoves, SwitchOn, github
<1>2. GitHubTyped' /\ VmServes' /\ CancelledRest'
  BY <1>1 DEF ReleaseInv, GitHubTyped, VmServes, CancelledRest
<1>3. (vm = "stopped" /\ intent = FALSE => vm' = "stopped") /\ Lasts(run, run, job, job, vm)
  BY <1>1 DEF Lasts
<1>4. ASSUME NEW p \in Procs PROVE ReleaseOk(proc'[p], run', job', vm', intent')
  <2>1. ReleaseOk(proc[p], run, job, vm, intent)
    BY DEF ReleaseInv
  <2>2. ReleaseOk(proc[p], run, job, vm', intent)
    BY <1>3, <2>1, ReleaseLasts
  <2> QED
    BY <1>1, <2>2
<1> QED
  BY <1>1, <1>2, <1>4 DEF ReleaseInv

(* A tick stops only an idle VM, and starts a release on what it decided. *)
LEMMA TickKeeps ==
  ASSUME ControllerAlone, ReleaseInv, Tick
  PROVE  ReleaseInv'
<1>1. "controller" \in Procs /\ proc["controller"].pc = "idle" /\ UNCHANGED <<run, job, killed>>
  BY DEF Tick, github
<1>2. PICK effect \in TickEffect : \E release \in BOOLEAN :
         /\ intent' = (effect = "start-vm" \/ (intent /\ vm # "running"))
         /\ vm' = IF effect = "stop-vm" THEN "stopped" ELSE vm
         /\ proc' = IF release
                    THEN [proc EXCEPT !["controller"] =
                             [@ EXCEPT !.pc = "switch", !.mayTake = OwnedRunnerMayTakeJobs(vm, intent, effect)]]
                    ELSE proc
  BY DEF Tick
<1>3. PICK release \in BOOLEAN :
         proc' = IF release
                 THEN [proc EXCEPT !["controller"] =
                          [@ EXCEPT !.pc = "switch", !.mayTake = OwnedRunnerMayTakeJobs(vm, intent, effect)]]
                 ELSE proc
  BY <1>2
<1>4. intent' \in BOOLEAN
  BY <1>2, Zenon
<1>5. vm' \in {"stopped", "starting", "running"}
  BY <1>2 DEF ReleaseInv, GitHubTyped
<1>6. VmServes'
  <2>1. CASE effect = "stop-vm"
    <3>1. ~RunnerBusy
      BY <2>1 DEF TickEffect
    <3> QED
      BY <1>1, <3>1 DEF RunnerBusy, VmServes, ReleaseInv, GitHubTyped, JobRecords
  <2>2. CASE effect # "stop-vm"
    BY <1>1, <1>2, <2>2 DEF ReleaseInv, VmServes
  <2> QED
    BY <2>1, <2>2
<1>7. GitHubTyped' /\ CancelledRest'
  BY <1>1, <1>4, <1>5 DEF ReleaseInv, GitHubTyped, CancelledRest
<1>8. PICK m \in BOOLEAN : /\ m = OwnedRunnerMayTakeJobs(vm, intent, effect)
                           /\ m = FALSE => vm = "stopped" /\ intent = FALSE /\ effect = "none"
  <2>1. OwnedRunnerMayTakeJobs(vm, intent, effect) \in BOOLEAN
    BY Zenon DEF OwnedRunnerMayTakeJobs
  <2>2. ~OwnedRunnerMayTakeJobs(vm, intent, effect) => vm = "stopped" /\ ~intent /\ effect = "none"
    BY DEF OwnedRunnerMayTakeJobs, ReleaseInv, GitHubTyped
  <2>3. intent \in BOOLEAN
    BY DEF ReleaseInv, GitHubTyped
  <2> QED
    BY <2>1, <2>2, <2>3, Zenon
<1>9. m = FALSE => vm' = "stopped" /\ intent' = FALSE
  <2>1. m = FALSE => vm' = "stopped" /\ effect # "start-vm"
    BY <1>2, <1>8
  <2>2. m = FALSE => ~intent'
    BY <1>2, <1>8, <2>1, Zenon
  <2> QED
    BY <1>4, <2>1, <2>2, Zenon
<1>10. ASSUME NEW p \in Procs PROVE ReleaseOk(proc'[p], run', job', vm', intent')
  <2>1. ReleaseOk(proc[p], run, job, vm, intent) /\ ReleaseOk(proc["controller"], run, job, vm, intent)
    BY <1>1 DEF ReleaseInv
  <2>2. p = "controller"
    BY DEF ControllerAlone
  <2>3. proc[p] = IdleProc
    BY <1>1, <2>1, <2>2 DEF ReleaseOk
  <2>4. CASE release
    <3> DEFINE q == [IdleProc EXCEPT !.pc = "switch", !.mayTake = m]
    <3>1. proc'[p] = q
      BY <1>1, <1>3, <1>8, <2>2, <2>3, <2>4 DEF ReleaseInv
    <3>2. DOMAIN q = Fields /\ q.pc = "switch" /\ q.mayTake = m /\ q.listing = <<>>
      BY IdleIsOk DEF Fields
    <3> HIDE DEF q
    <3>3. ReleaseOk(q, run', job', vm', intent')
      BY <1>9, <3>2 DEF ReleaseOk, Before, After
    <3> QED
      BY <3>1, <3>3
  <2>5. CASE ~release
    <3>1. proc'[p] = IdleProc
      BY <1>3, <2>3, <2>5
    <3> QED
      BY <3>1, IdleIsOk, Zenon
  <2> QED
    BY <2>4, <2>5
<1>11. DOMAIN proc' = Procs
  BY <1>3 DEF ReleaseInv
<1> QED
  BY <1>1, <1>6, <1>7, <1>10, <1>11 DEF ReleaseInv
-----------------------------------------------------------------------------
(* A step of the only release, which leaves the VM alone. *)
LEMMA MoveKeeps ==
  ASSUME ControllerAlone, ReleaseInv, NEW p \in Procs, NEW q, Becomes(p, q),
         GitHubTyped', VmServes', CancelledRest', killed' = killed,
         ReleaseOk(q, run', job', vm', intent')
  PROVE  ReleaseInv'
<1>1. proc' = [proc EXCEPT ![p] = q]
  BY DEF Becomes
<1>2. \A x \in Procs : x = p
  BY DEF ControllerAlone
<1>3. DOMAIN proc' = Procs /\ proc'[p] = q
  BY <1>1 DEF ReleaseInv
<1>4. \A x \in Procs : ReleaseOk(proc'[x], run', job', vm', intent')
  BY <1>2, <1>3
<1> QED
  BY <1>3, <1>4 DEF ReleaseInv

(* A step of it that leaves GitHub alone too. *)
LEMMA QuietKeeps ==
  ASSUME ControllerAlone, ReleaseInv, NEW p \in Procs, NEW q, Becomes(p, q),
         UNCHANGED <<run, job, killed, vm, intent>>, ReleaseOk(q, run, job, vm, intent)
  PROVE  ReleaseInv'
<1>1. GitHubTyped' /\ VmServes' /\ CancelledRest' /\ killed' = killed
  BY DEF ReleaseInv, GitHubTyped, VmServes, CancelledRest
<1>2. ReleaseOk(q, run', job', vm', intent')
  OBVIOUS
<1> QED
  BY <1>1, <1>2, MoveKeeps

(* A release that goes on, before it lists jobs or after it cancelled runs. *)
LEMMA GoesOn ==
  ASSUME NEW c, NEW q, NEW R, NEW J, NEW v, NEW i, ReleaseOk(c, R, J, v, i),
         DOMAIN q = Fields, q.mayTake = c.mayTake, q.listing = c.listing, q.plan = c.plan,
         \/ c.pc \in Before /\ q.pc \in Before
         \/ c.pc \in After /\ q.pc \in After \ {"cancel"}
         \/ c.pc = "cancel" /\ q.pc = "cancel"
  PROVE  ReleaseOk(q, R, J, v, i)
BY DEF ReleaseOk, Before, After

LEMMA ProcOk ==
  ASSUME ReleaseInv, NEW p \in Procs
  PROVE  ReleaseOk(proc[p], run, job, vm, intent) /\ DOMAIN proc[p] = Fields
BY DEF ReleaseInv, ReleaseOk

LEMMA RestartKeeps ==
  ASSUME ControllerAlone, ReleaseInv, Restart
  PROVE  ReleaseInv'
<1>1. /\ "controller" \in Procs /\ Becomes("controller", IdleProc)
      /\ UNCHANGED <<run, job, killed, vm, intent>>
  BY DEF Restart, Becomes, github
<1> QED
  BY <1>1, QuietKeeps, IdleIsOk

(* The switch is deleted and read back. *)
LEMMA SwitchKeeps ==
  ASSUME ControllerAlone, ReleaseInv, NEW p \in Procs, DeleteSwitch(p) \/ Readback(p)
  PROVE  ReleaseInv'
<1>1. /\ proc[p].pc \in Before /\ UNCHANGED <<run, job, killed, vm, intent>>
      /\ \/ Becomes(p, [proc[p] EXCEPT !.pc = "runs"])
         \/ Becomes(p, [proc[p] EXCEPT !.pc = "readback", !.tries = @ + 1])
         \/ Becomes(p, [proc[p] EXCEPT !.pc = "switch"])
         \/ Becomes(p, IdleProc)
  BY DEF DeleteSwitch, Readback, At, Before, github, world
<1>2. ASSUME NEW t \in Before, NEW n, NEW q, q = [proc[p] EXCEPT !.pc = t, !.tries = n]
      PROVE  ReleaseOk(q, run, job, vm, intent)
  <2>1. /\ DOMAIN q = Fields /\ q.mayTake = proc[p].mayTake /\ q.listing = proc[p].listing
        /\ q.plan = proc[p].plan /\ q.pc = t
    BY <1>2, ProcOk DEF Fields
  <2> QED
    BY <1>1, <2>1, GoesOn, ProcOk
<1>3. ASSUME NEW t \in Before, NEW q, q = [proc[p] EXCEPT !.pc = t]
      PROVE  ReleaseOk(q, run, job, vm, intent)
  <2>1. /\ DOMAIN q = Fields /\ q.mayTake = proc[p].mayTake /\ q.listing = proc[p].listing
        /\ q.plan = proc[p].plan /\ q.pc = t
    BY <1>3, ProcOk DEF Fields
  <2> QED
    BY <1>1, <2>1, GoesOn, ProcOk
<1>4. PICK q : Becomes(p, q) /\ ReleaseOk(q, run, job, vm, intent)
  <2>1. CASE Becomes(p, [proc[p] EXCEPT !.pc = "runs"])
    BY <1>3, <2>1 DEF Before
  <2>2. CASE Becomes(p, [proc[p] EXCEPT !.pc = "readback", !.tries = @ + 1])
    BY <1>2, <2>2 DEF Before
  <2>3. CASE Becomes(p, [proc[p] EXCEPT !.pc = "switch"])
    BY <1>3, <2>3 DEF Before
  <2>4. CASE Becomes(p, IdleProc)
    BY <2>4, IdleIsOk
  <2> QED
    BY <1>1, <2>1, <2>2, <2>3, <2>4
<1> QED
  BY <1>1, <1>4, QuietKeeps

(* The runs are listed with their attempts. *)
LEMMA ListRunsKeeps ==
  ASSUME ControllerAlone, ReleaseInv, NEW p \in Procs, ListRuns(p)
  PROVE  ReleaseInv'
<1> DEFINE listed == [r \in Active |-> run[r].attempt]
           q == [proc[p] EXCEPT !.pc = "jobs", !.runs = listed]
<1>1. proc[p].pc = "runs" /\ Becomes(p, q) /\ UNCHANGED <<run, job, killed, vm, intent>>
  BY DEF ListRuns, At, github, world
<1>2. DOMAIN listed = Active /\ \A r \in Active : listed[r] = run[r].attempt
  OBVIOUS
<1>3. \A r \in Active : r \in Runs /\ run[r].status # "none"
  BY DEF Active
<1> HIDE DEF listed
<1>4. /\ DOMAIN q = Fields /\ q.pc = "jobs" /\ q.mayTake = proc[p].mayTake
      /\ q.listing = proc[p].listing /\ q.runs = listed
  BY ProcOk DEF Fields
<1> HIDE DEF q
<1>5. proc[p].listing = <<>>
  BY <1>1, ProcOk DEF ReleaseOk, Before
<1>6. DOMAIN q.listing = {}
  BY <1>4, <1>5
<1>7. q.mayTake \in BOOLEAN /\ (q.mayTake = FALSE => vm = "stopped" /\ intent = FALSE)
  BY <1>1, <1>4, ProcOk DEF ReleaseOk
<1>8. ReleaseOk(q, run, job, vm, intent)
  BY <1>2, <1>3, <1>4, <1>6, <1>7 DEF ReleaseOk, Before, After
<1> QED
  BY <1>1, <1>8, QuietKeeps

(* The jobs of a run are listed in the attempt that was listed. *)
LEMMA ListJobsKeeps ==
  ASSUME ControllerAlone, ReleaseInv, NEW p \in Procs, ListJobs(p)
  PROVE  ReleaseInv'
<1>1. PICK r \in DOMAIN proc[p].runs \ DOMAIN proc[p].listing :
         Becomes(p, [proc[p] EXCEPT
            !.listing = [x \in DOMAIN @ \cup {r} |-> IF x = r THEN JobsOf(r, proc[p].runs[r]) ELSE @[x]]])
  BY DEF ListJobs
<1> DEFINE L == [x \in DOMAIN proc[p].listing \cup {r} |->
                   IF x = r THEN JobsOf(r, proc[p].runs[r]) ELSE proc[p].listing[x]]
           q == [proc[p] EXCEPT !.listing = L]
<1>2. Becomes(p, q) /\ proc[p].pc = "jobs" /\ UNCHANGED <<run, job, killed, vm, intent>>
  BY <1>1 DEF ListJobs, At, github, world
<1>3. /\ DOMAIN L = DOMAIN proc[p].listing \cup {r}
      /\ L[r] = JobsOf(r, proc[p].runs[r])
      /\ \A x \in DOMAIN proc[p].listing : L[x] = proc[p].listing[x]
  BY <1>1
<1> HIDE DEF L
<1>4. /\ DOMAIN q = Fields /\ q.pc = "jobs" /\ q.mayTake = proc[p].mayTake
      /\ q.listing = L /\ q.runs = proc[p].runs
  BY <1>2, ProcOk DEF Fields
<1> HIDE DEF q
<1>5. /\ DOMAIN proc[p].listing \subseteq DOMAIN proc[p].runs
      /\ \A x \in DOMAIN proc[p].runs : x \in Runs /\ run[x].attempt = proc[p].runs[x] /\ run[x].status # "none"
      /\ proc[p].mayTake = FALSE => \A x \in DOMAIN proc[p].listing : Listed(proc[p].listing[x], job, x)
      /\ proc[p].mayTake \in BOOLEAN
      /\ proc[p].mayTake = FALSE => vm = "stopped" /\ intent = FALSE
  BY <1>2, ProcOk DEF ReleaseOk
<1>6. Listed(L[r], job, r)
  <2>1. L[r] = [j \in Unfinished(r) |-> job[r][j]]
    BY <1>1, <1>3, <1>5 DEF JobsOf
  <2> QED
    BY <2>1 DEF Listed, Waiting, Unfinished
<1>7. DOMAIN q.listing \subseteq DOMAIN q.runs
  BY <1>1, <1>3, <1>4, <1>5
<1>8. q.mayTake = FALSE => \A x \in DOMAIN q.listing : Listed(q.listing[x], job, x)
  BY <1>3, <1>4, <1>5, <1>6
<1>9. ReleaseOk(q, run, job, vm, intent)
  BY <1>4, <1>5, <1>7, <1>8 DEF ReleaseOk, Before, After
<1> QED
  BY <1>2, <1>9, QuietKeeps

(* The selected runs have no job but queued ones on the runner's label. *)
LEMMA SelectKeeps ==
  ASSUME ControllerAlone, ReleaseInv, NEW p \in Procs, Select(p)
  PROVE  ReleaseInv'
<1> DEFINE plan == SelectStranded(proc[p].listing)
           q == [proc[p] EXCEPT !.pc = "cancel", !.plan = plan, !.runs = <<>>, !.listing = <<>>]
<1>1. /\ proc[p].pc = "jobs" /\ DOMAIN proc[p].listing = DOMAIN proc[p].runs
      /\ Becomes(p, IF p = "controller" /\ proc[p].mayTake THEN IdleProc ELSE q)
      /\ UNCHANGED <<run, job, killed, vm, intent>>
  BY DEF Select, At, github, world
<1>2. p = "controller" /\ proc[p].mayTake \in BOOLEAN
  BY ProcOk DEF ControllerAlone, ReleaseOk
<1>3. CASE proc[p].mayTake = TRUE
  <2>1. Becomes(p, IdleProc)
    BY <1>1, <1>2, <1>3
  <2> QED
    BY <1>1, <2>1, QuietKeeps, IdleIsOk
<1>4. CASE proc[p].mayTake = FALSE
  <2>1. Becomes(p, q)
    BY <1>1, <1>2, <1>4
  <2>2. ASSUME NEW r \in plan.cancellable
        PROVE  r \in Runs /\ run[r].status # "none" /\ OnLabelOnly(job, r)
    <3>1. /\ r \in DOMAIN proc[p].listing
          /\ \A j \in DOMAIN proc[p].listing[r] : /\ proc[p].listing[r][j].status # "in_progress"
                                                /\ proc[p].listing[r][j].label = "runner"
      BY <2>2, SelectedWait
    <3>2. r \in Runs /\ run[r].status # "none" /\ Listed(proc[p].listing[r], job, r)
      BY <1>1, <1>4, <3>1, ProcOk DEF ReleaseOk
    <3> QED
      BY <3>1, <3>2 DEF Listed, OnLabelOnly, Waiting
  <2> HIDE DEF plan
  <2>3. DOMAIN q = Fields /\ q.pc = "cancel" /\ q.mayTake = proc[p].mayTake /\ q.plan = plan
    BY ProcOk DEF Fields
  <2> HIDE DEF q
  <2>4. vm = "stopped" /\ intent = FALSE
    BY <1>1, <1>4, ProcOk DEF ReleaseOk
  <2>5. ReleaseOk(q, run, job, vm, intent)
    BY <1>4, <2>2, <2>3, <2>4 DEF ReleaseOk, Before, After
  <2> QED
    BY <1>1, <2>1, <2>5, QuietKeeps
<1> QED
  BY <1>2, <1>3, <1>4

(* Force-cancel: the run has no job in progress, and none can begin. *)
LEMMA ForceCancelKeeps ==
  ASSUME ControllerAlone, ReleaseInv, NEW p \in Procs, ForceCancel(p)
  PROVE  ReleaseInv'
<1>1. PICK r \in proc[p].plan.cancellable \ proc[p].tried :
         /\ run' = IF r \in Active THEN [run EXCEPT ![r].status = "cancelling"] ELSE run
         /\ Becomes(p, [proc[p] EXCEPT !.tried = @ \cup {r},
                                       !.cancelled = IF r \in Active THEN @ \cup {r} ELSE @])
  BY DEF ForceCancel
<1>2. proc[p].pc = "cancel" /\ UNCHANGED <<job, killed, vm, intent>>
  BY DEF ForceCancel, At, world
<1>3. r \in Runs /\ OnLabelOnly(job, r)
  BY <1>1, <1>2, ProcOk DEF ReleaseOk
<1>4. run' = SetRun(run, r, "cancelling") \/ run' = run
  BY <1>1 DEF SetRun
<1>5. /\ run' \in [Runs -> RunRecords]
      /\ \A x \in Runs : /\ run'[x].attempt = run[x].attempt
                         /\ run'[x].status = run[x].status \/ (x = r /\ run'[x].status = "cancelling")
  <2>1. run \in [Runs -> RunRecords]
    BY DEF ReleaseInv, GitHubTyped
  <2> QED
    BY <1>4, <2>1, RunSet
<1>6. GitHubTyped'
  BY <1>2, <1>5 DEF ReleaseInv, GitHubTyped
<1>7. VmServes' /\ killed' = killed
  BY <1>2 DEF ReleaseInv, VmServes
<1>8. CancelledRest'
  BY <1>2, <1>3, <1>5 DEF ReleaseInv, CancelledRest, OnLabelOnly, Waiting
<1>9. PICK t, c : Becomes(p, [proc[p] EXCEPT !.tried = t, !.cancelled = c])
  BY <1>1
<1> DEFINE q == [proc[p] EXCEPT !.tried = t, !.cancelled = c]
<1>10. /\ DOMAIN q = Fields /\ q.mayTake = proc[p].mayTake /\ q.listing = proc[p].listing
       /\ q.plan = proc[p].plan /\ q.pc = proc[p].pc
  BY ProcOk DEF Fields
<1>11. Becomes(p, q)
  BY <1>9
<1> HIDE DEF q
<1>12. ReleaseOk(q, run, job, vm, intent)
  BY <1>2, <1>10, GoesOn, ProcOk
<1>13. Lasts(run, run', job, job, vm)
  BY <1>5 DEF Lasts
<1>14. ReleaseOk(q, run', job', vm', intent')
  <2>1. ReleaseOk(q, run', job, vm, intent)
    BY <1>12, <1>13, ReleaseLasts
  <2> QED
    BY <1>2, <2>1
<1> QED
  BY <1>6, <1>7, <1>8, <1>11, <1>14, MoveKeeps

(* What follows the cancels changes nothing a release relies on. *)
LEMMA LaterKeeps ==
  ASSUME ControllerAlone, ReleaseInv, NEW p \in Procs,
         CancelsDone(p) \/ Poll(p) \/ RerunsDone(p) \/ Report(p)
  PROVE  ReleaseInv'
<1>1. proc[p].pc \in After /\ UNCHANGED <<run, job, killed, vm, intent>>
  BY DEF CancelsDone, Poll, RerunsDone, Report, At, After, github, world
<1>2. PICK t, a, n :
         /\ t \in After \ {"cancel"}
         /\ \/ Becomes(p, [proc[p] EXCEPT !.pc = t])
            \/ Becomes(p, [proc[p] EXCEPT !.pc = t, !.active = a])
            \/ Becomes(p, [proc[p] EXCEPT !.polls = n]) /\ proc[p].pc \in After \ {"cancel"}
            \/ Becomes(p, IdleProc)
  <2>1. CASE CancelsDone(p)
    <3>1. \/ Becomes(p, [proc[p] EXCEPT !.pc = "report"])
          \/ Becomes(p, [proc[p] EXCEPT !.pc = "wait"])
      BY <2>1 DEF CancelsDone
    <3> QED
      BY <3>1 DEF After
  <2>2. CASE Poll(p)
    <3> DEFINE still == proc[p].cancelled \cap Active
    <3>1. \/ Becomes(p, [proc[p] EXCEPT !.pc = "rerun", !.active = still])
          \/ Becomes(p, [proc[p] EXCEPT !.polls = @ + 1])
      BY <2>2 DEF Poll
    <3>2. proc[p].pc = "wait"
      BY <2>2 DEF Poll, At
    <3> HIDE DEF still
    <3> QED
      BY <3>1, <3>2 DEF After
  <2>3. CASE RerunsDone(p)
    BY <2>3 DEF RerunsDone, After
  <2>4. CASE Report(p)
    BY <2>4 DEF Report, After
  <2> QED
    BY <2>1, <2>2, <2>3, <2>4
<1>3. PICK q : Becomes(p, q) /\ ReleaseOk(q, run, job, vm, intent)
  <2>1. CASE Becomes(p, [proc[p] EXCEPT !.pc = t])
    <3> DEFINE q == [proc[p] EXCEPT !.pc = t]
    <3>1. /\ DOMAIN q = Fields /\ q.mayTake = proc[p].mayTake /\ q.listing = proc[p].listing
          /\ q.plan = proc[p].plan /\ q.pc = t
      BY ProcOk DEF Fields
    <3> HIDE DEF q
    <3>2. ReleaseOk(q, run, job, vm, intent)
      BY <1>1, <1>2, <3>1, GoesOn, ProcOk
    <3> QED
      BY <2>1, <3>2 DEF q
  <2>2. CASE Becomes(p, [proc[p] EXCEPT !.pc = t, !.active = a])
    <3> DEFINE q == [proc[p] EXCEPT !.pc = t, !.active = a]
    <3>1. /\ DOMAIN q = Fields /\ q.mayTake = proc[p].mayTake /\ q.listing = proc[p].listing
          /\ q.plan = proc[p].plan /\ q.pc = t
      BY ProcOk DEF Fields
    <3> HIDE DEF q
    <3>2. ReleaseOk(q, run, job, vm, intent)
      BY <1>1, <1>2, <3>1, GoesOn, ProcOk
    <3> QED
      BY <2>2, <3>2 DEF q
  <2>3. CASE Becomes(p, [proc[p] EXCEPT !.polls = n]) /\ proc[p].pc \in After \ {"cancel"}
    <3> DEFINE q == [proc[p] EXCEPT !.polls = n]
    <3>1. /\ DOMAIN q = Fields /\ q.mayTake = proc[p].mayTake /\ q.listing = proc[p].listing
          /\ q.plan = proc[p].plan /\ q.pc = proc[p].pc
      BY ProcOk DEF Fields
    <3> HIDE DEF q
    <3>2. ReleaseOk(q, run, job, vm, intent)
      BY <1>1, <2>3, <3>1, GoesOn, ProcOk
    <3> QED
      BY <2>3, <3>2 DEF q
  <2>4. CASE Becomes(p, IdleProc)
    BY <2>4, IdleIsOk
  <2> QED
    BY <1>2, <2>1, <2>2, <2>3, <2>4
<1> QED
  BY <1>1, <1>3, QuietKeeps

(* A re-run queues a job again, on the label the switch gives it now. *)
LEMMA RerunKeeps ==
  ASSUME ControllerAlone, ReleaseInv, NEW p \in Procs, RerunJob(p)
  PROVE  ReleaseInv'
<1>1. PICK r, first :
         /\ \/ /\ run[r].status = "completed"
               /\ run' = [run EXCEPT ![r] = [attempt |-> @.attempt + 1, status |-> "active"]]
               /\ job' = [job EXCEPT ![r][first] = [status |-> "queued", label |-> LabelNow(first)]]
            \/ run' = run /\ job' = job
         /\ \E d, e, f, n : Becomes(p, [proc[p] EXCEPT !.done = d, !.rerun = e, !.failed = f, !.notRerun = n])
  <2>1. PICK r \in proc[p].cancelled \ (proc[p].active \cup proc[p].done) :
           LET first == CHOOSE j \in proc[p].plan.jobs[r] : TRUE
               accepted == run[r].status = "completed"
           IN  /\ run' = IF accepted THEN [run EXCEPT ![r] = [attempt |-> @.attempt + 1, status |-> "active"]] ELSE run
               /\ job' = IF accepted THEN [job EXCEPT ![r][first] = [status |-> "queued", label |-> LabelNow(first)]] ELSE job
               /\ Becomes(p, [proc[p] EXCEPT
                     !.done = @ \cup {r},
                     !.rerun = IF accepted THEN @ \cup {<<r, first>>} ELSE @,
                     !.failed = IF accepted THEN @ ELSE @ \cup {<<r, first>>},
                     !.notRerun = @ \cup {<<r, j>> : j \in proc[p].plan.jobs[r] \ {first}}])
    BY Zenon DEF RerunJob
  <2> DEFINE first == CHOOSE j \in proc[p].plan.jobs[r] : TRUE
             d == proc[p].done \cup {r}
             e == IF run[r].status = "completed" THEN proc[p].rerun \cup {<<r, first>>} ELSE proc[p].rerun
             f == IF run[r].status = "completed" THEN proc[p].failed ELSE proc[p].failed \cup {<<r, first>>}
             n == proc[p].notRerun \cup {<<r, j>> : j \in proc[p].plan.jobs[r] \ {first}}
  <2>2. Becomes(p, [proc[p] EXCEPT !.done = d, !.rerun = e, !.failed = f, !.notRerun = n])
    BY <2>1
  <2>3. \/ /\ run[r].status = "completed"
           /\ run' = [run EXCEPT ![r] = [attempt |-> @.attempt + 1, status |-> "active"]]
           /\ job' = [job EXCEPT ![r][first] = [status |-> "queued", label |-> LabelNow(first)]]
        \/ run' = run /\ job' = job
    BY <2>1
  <2> HIDE DEF first, d, e, f, n
  <2> QED
    BY <2>2, <2>3
<1>2. proc[p].pc = "rerun" /\ UNCHANGED <<killed, vm, intent>>
  BY DEF RerunJob, At, world
<1>3. PICK d, e, f, n : Becomes(p, [proc[p] EXCEPT !.done = d, !.rerun = e, !.failed = f, !.notRerun = n])
  BY <1>1
<1> DEFINE q == [proc[p] EXCEPT !.done = d, !.rerun = e, !.failed = f, !.notRerun = n]
<1>4. /\ DOMAIN q = Fields /\ q.mayTake = proc[p].mayTake /\ q.pc = "rerun"
  BY <1>2, ProcOk DEF Fields
<1>5. Becomes(p, q)
  BY <1>3
<1> HIDE DEF q
<1>6. q.mayTake = FALSE /\ vm = "stopped" /\ intent = FALSE
  BY <1>2, <1>4, ProcOk DEF ReleaseOk, After
<1>7. ReleaseOk(q, run', job', vm', intent')
  BY <1>2, <1>4, <1>6 DEF ReleaseOk, Before, After
<1>8. /\ run' \in [Runs -> RunRecords]
      /\ \A x \in Runs : run'[x].status = "cancelling" => run[x].status = "cancelling"
  <2>1. run \in [Runs -> RunRecords]
    BY DEF ReleaseInv, GitHubTyped
  <2>2. CASE run' = [run EXCEPT ![r] = [attempt |-> @.attempt + 1, status |-> "active"]]
    <3> DEFINE new == [attempt |-> run[r].attempt + 1, status |-> "active"]
    <3>1. run' = [run EXCEPT ![r] = new]
      BY <2>2
    <3>2. r \in Runs => new \in RunRecords
      BY <2>1 DEF RunRecords
    <3>3. new.status = "active"
      OBVIOUS
    <3> HIDE DEF new
    <3> QED
      BY <2>1, <3>1, <3>2, <3>3
  <2> QED
    BY <1>1, <2>1, <2>2
<1>9. /\ job' \in [Runs -> [Jobs -> JobRecords]]
      /\ \A x \in Runs, k \in Jobs : job'[x][k] = job[x][k] \/ job'[x][k].status = "queued"
  <2>1. job \in [Runs -> [Jobs -> JobRecords]]
    BY DEF ReleaseInv, GitHubTyped
  <2>2. CASE job' = [job EXCEPT ![r][first] = [status |-> "queued", label |-> LabelNow(first)]]
    <3> DEFINE new == [status |-> "queued", label |-> LabelNow(first)]
               row == [job[r] EXCEPT ![first] = new]
    <3>1. new \in JobRecords /\ new.status = "queued"
      BY DEF JobRecords, LabelNow
    <3>2. job' = [job EXCEPT ![r] = row]
      BY <2>2
    <3> HIDE DEF new
    <3>3. r \in Runs => row \in [Jobs -> JobRecords] /\ \A k \in Jobs : row[k] = job[r][k] \/ row[k].status = "queued"
      BY <2>1, <3>1
    <3> HIDE DEF row
    <3> QED
      BY <2>1, <3>2, <3>3
  <2> QED
    BY <1>1, <2>1, <2>2
<1>10. GitHubTyped' /\ VmServes'
  BY <1>2, <1>8, <1>9 DEF ReleaseInv, GitHubTyped, VmServes
<1>11. CancelledRest'
  BY <1>8, <1>9 DEF ReleaseInv, CancelledRest
<1> QED
  BY <1>2, <1>5, <1>7, <1>10, <1>11, MoveKeeps

(* A call that fails ends the release or is noted by it. *)
LEMMA FailKeeps ==
  ASSUME ControllerAlone, ReleaseInv, NEW p \in Procs, CallFails(p)
  PROVE  ReleaseInv'
<1>1. UNCHANGED <<run, job, killed, vm, intent>>
  BY DEF CallFails, world, github
<1>2. \/ Becomes(p, IdleProc)
      \/ proc[p].pc = "cancel" /\ \E t, f : Becomes(p, [proc[p] EXCEPT !.tried = t, !.failed = f])
      \/ proc[p].pc = "wait" /\ Becomes(p, [proc[p] EXCEPT !.pc = "report", !.unknown = TRUE])
      \/ proc[p].pc = "rerun" /\ \E d, f : Becomes(p, [proc[p] EXCEPT !.done = d, !.failed = f])
  BY DEF CallFails, At
<1>3. CASE Becomes(p, IdleProc)
  BY <1>1, <1>3, QuietKeeps, IdleIsOk
<1>4. CASE proc[p].pc = "cancel" /\ \E t, f : Becomes(p, [proc[p] EXCEPT !.tried = t, !.failed = f])
  <2>1. PICK t, f : Becomes(p, [proc[p] EXCEPT !.tried = t, !.failed = f])
    BY <1>4
  <2> DEFINE q == [proc[p] EXCEPT !.tried = t, !.failed = f]
  <2>2. /\ DOMAIN q = Fields /\ q.mayTake = proc[p].mayTake /\ q.listing = proc[p].listing
        /\ q.plan = proc[p].plan /\ q.pc = proc[p].pc
    BY ProcOk DEF Fields
  <2>3. Becomes(p, q)
    BY <2>1
  <2> HIDE DEF q
  <2>4. ReleaseOk(q, run, job, vm, intent)
    BY <1>4, <2>2, GoesOn, ProcOk
  <2> QED
    BY <1>1, <2>3, <2>4, QuietKeeps
<1>5. CASE proc[p].pc = "wait" /\ Becomes(p, [proc[p] EXCEPT !.pc = "report", !.unknown = TRUE])
  <2> DEFINE q == [proc[p] EXCEPT !.pc = "report", !.unknown = TRUE]
  <2>1. /\ DOMAIN q = Fields /\ q.mayTake = proc[p].mayTake /\ q.listing = proc[p].listing
        /\ q.plan = proc[p].plan /\ q.pc = "report"
    BY ProcOk DEF Fields
  <2>2. Becomes(p, q)
    BY <1>5
  <2> HIDE DEF q
  <2>3. ReleaseOk(q, run, job, vm, intent)
    BY <1>5, <2>1, GoesOn, ProcOk DEF After
  <2> QED
    BY <1>1, <2>2, <2>3, QuietKeeps
<1>6. CASE proc[p].pc = "rerun" /\ \E d, f : Becomes(p, [proc[p] EXCEPT !.done = d, !.failed = f])
  <2>1. PICK d, f : Becomes(p, [proc[p] EXCEPT !.done = d, !.failed = f])
    BY <1>6
  <2> DEFINE q == [proc[p] EXCEPT !.done = d, !.failed = f]
  <2>2. /\ DOMAIN q = Fields /\ q.mayTake = proc[p].mayTake /\ q.listing = proc[p].listing
        /\ q.plan = proc[p].plan /\ q.pc = "rerun"
    BY <1>6, ProcOk DEF Fields
  <2>3. Becomes(p, q)
    BY <2>1
  <2> HIDE DEF q
  <2>4. ReleaseOk(q, run, job, vm, intent)
    BY <1>6, <2>2, GoesOn, ProcOk DEF After
  <2> QED
    BY <1>1, <2>3, <2>4, QuietKeeps
<1> QED
  BY <1>2, <1>3, <1>4, <1>5, <1>6

LEMMA NextKeeps ==
  ASSUME ControllerAlone, ReleaseInv, [Next]_vars
  PROVE  ReleaseInv'
<1>1. CASE Environment
  BY <1>1, PushKeeps, CancelKeeps, JobStartKeeps, JobFinishKeeps, VmKeeps DEF Environment
<1>2. CASE Tick \/ Restart
  BY <1>2, TickKeeps, RestartKeeps
<1>3. CASE OwnerStarts
  BY <1>3 DEF OwnerStarts, ControllerAlone
<1>4. ASSUME NEW p \in Procs, ProcStep(p) PROVE ReleaseInv'
  BY <1>4, SwitchKeeps, ListRunsKeeps, ListJobsKeeps, SelectKeeps, ForceCancelKeeps, LaterKeeps,
     RerunKeeps DEF ProcStep
<1>5. ASSUME NEW p \in Procs, CallFails(p) PROVE ReleaseInv'
  BY <1>5, FailKeeps
<1>6. CASE UNCHANGED vars
  BY <1>6 DEF vars, ReleaseInv, GitHubTyped, VmServes, CancelledRest
<1> QED
  BY <1>1, <1>2, <1>3, <1>4, <1>5, <1>6 DEF Next

(* selectStrandedRuns, ownedRunnerMayTakeJobs and releaseRouting: the        *)
(* controller's release interrupts no job that runs elsewhere and none that  *)
(* the owned runner has begun, however GitHub, the VM and the permit move    *)
(* between its calls.                                                        *)
THEOREM ReleaseInterruptsNothing ==
  ControllerAlone /\ Spec => [](HostedJobNeverKilled /\ RunnerJobNeverKilled)
<1> SUFFICES ASSUME ControllerAlone
             PROVE  Spec => [](HostedJobNeverKilled /\ RunnerJobNeverKilled)
  OBVIOUS
<1>1. ReleaseInv => HostedJobNeverKilled /\ RunnerJobNeverKilled
  BY DEF ReleaseInv, HostedJobNeverKilled, RunnerJobNeverKilled
<1> QED
  BY <1>1, ReleaseInitially, NextKeeps, PTL DEF Spec
=============================================================================
