------------------------------ MODULE Controller ------------------------------
(***************************************************************************)
(* The on-demand runner controller: one watch process (runner watch) that  *)
(* observes GitHub, the provider and the guest, decides, and carries out   *)
(* one mutation at a time through the write-ahead journal of               *)
(* packages/runner/src/controller.ts. A tick is cut where the process can  *)
(* die or the world can move: after each journal write and each external   *)
(* call. The controller lock admits one process, so there is one program   *)
(* counter.                                                                *)
(*                                                                         *)
(* External parts (Nebius, GitHub Actions, the job itself) are modelled    *)
(* from how the code uses them.                                            *)
(***************************************************************************)
EXTENDS Lifecycle
-----------------------------------------------------------------------------
(***************************************************************************)
(* The owned VM as the controller's helpers and the guest's own watchdog   *)
(* see it: the scripts of packages/runner/guest, each run to completion    *)
(* under its lock, as operators on one VM record.                          *)
(*                                                                         *)
(* windowLeft is the running time the watchdog still grants: what is left  *)
(* of grant_deadline - grant_started since the grant was armed, counted on *)
(* the monotonic clock, or what is left of the unarmed window while no     *)
(* grant exists. The disk (grant, admission marker, failure marker, ready  *)
(* marker) survives a power-off; listener and worker processes do not.     *)
(***************************************************************************)

CONSTANT UnarmedWindow   \* watchdog.sh unarmed_window_ms

ASSUME UnarmedAssumption == UnarmedWindow \in Nat \ {0}

PowerStates == {"absent", "stopped", "starting", "running", "stopping", "deleting"}

Vms == [status : PowerStates, generation : Nat, deadline : OptionalTimes, windowLeft : Nat,
        admission : BOOLEAN, listener : BOOLEAN, worker : BOOLEAN, failed : BOOLEAN, ready : BOOLEAN]

NoVm == [status |-> "absent", generation |-> 0, deadline |-> None, windowLeft |-> 0,
         admission |-> TRUE, listener |-> FALSE, worker |-> FALSE, failed |-> FALSE, ready |-> FALSE]

CreatedVm == [NoVm EXCEPT !.status = "stopped"]

Armed(v) == v.generation # 0

\* A boot re-anchors the unarmed window; an armed grant keeps its running time.
BootedVm(v) ==
    [v EXCEPT !.status = "running", !.windowLeft = IF Armed(v) THEN v.windowLeft ELSE UnarmedWindow]

PoweredOff(v, status) == [v EXCEPT !.status = status, !.listener = FALSE, !.worker = FALSE]

\* Mutant: only the unarmed window is enforced.
WatchdogDueUnarmed(v) == v.status = "running" /\ v.windowLeft = 0 /\ ~Armed(v)

\* watchdog.sh: the window is used up; mark the disk and power off.
WatchdogDue(v) == v.status = "running" /\ v.windowLeft = 0

ExpiredVm(v) == [PoweredOff(v, "stopped") EXCEPT !.failed = TRUE]

\* arm-grant.sh: only the next generation after a confirmed stop of the one on
\* disk, and only while that one is not used up.
CanArm(v, generation, started, deadline, confirmedStopped) ==
    /\ generation > 0 /\ deadline > started
    /\ Armed(v) => /\ generation = v.generation + 1
                   /\ confirmedStopped = v.generation
                   /\ v.windowLeft > 0

ArmedVm(v, generation, started, deadline) ==
    [v EXCEPT !.generation = generation, !.deadline = deadline,
              !.windowLeft = deadline - started, !.admission = TRUE]

\* register-runner.sh: the generation lock is free (no listener) and admission
\* is enabled; it leaves a listening ephemeral runner behind.
CanRegister(v) == v.ready /\ ~v.listener /\ v.admission
RegisteredVm(v) == [v EXCEPT !.listener = TRUE]

\* drain.sh: disables admission first, then ends an idle listener; with a
\* worker alive it exits 3 and leaves the job running.
DrainRefused(v) == v.worker
DrainedVm(v) == [v EXCEPT !.admission = FALSE, !.listener = v.listener /\ DrainRefused(v)]

\* resume-admission.sh
CanResume(v) == Armed(v)
ResumedVm(v) == [v EXCEPT !.admission = TRUE]

\* Mutant: the hook leaves room for the shutdown but not for the job.
HookAdmitsLateJob(v) == Armed(v) /\ v.windowLeft >= ShutdownMargin

\* job-start-hook.sh: the remaining running time fits a whole job and the margin.
HookAdmits(v) == Armed(v) /\ v.windowLeft >= MaxJob + ShutdownMargin

YesNo(b) == IF b THEN "yes" ELSE "no"

GrantOnDisk(v) == [generation |-> v.generation, deadline |-> v.deadline]

\* status.sh answers before any runner process can exist: quarantined, or
\* still bootstrapping.
SilentReport(status, grant) ==
    [complete |-> TRUE, status |-> status, admission |-> "no", runner |-> "no",
     worker |-> "no", bootstrapped |-> FALSE, grant |-> grant]

\* status.sh as parseGuestSnapshot reads it.
StatusReport(v) ==
    IF v.failed THEN SilentReport("failed", NoGrant)
    ELSE IF ~v.ready THEN SilentReport("booting", GrantOnDisk(v))
    ELSE [complete |-> TRUE,
          status |-> IF v.worker THEN "busy" ELSE IF v.listener THEN "ready"
                     ELSE IF v.admission THEN "ready" ELSE "drained",
          admission |-> YesNo(v.admission), runner |-> YesNo(v.listener),
          worker |-> YesNo(v.worker), bootstrapped |-> TRUE, grant |-> GrantOnDisk(v)]
-----------------------------------------------------------------------------

CONSTANTS
    Permits,         \* permit files the operator may start the controller with
    MaxTime,         \* bound: later instants are not told apart
    MaxJobs,         \* bound: eligible jobs that ever arrive
    FaultKinds,      \* what may go wrong in this instance, out of AllFaults
    MaxFaults,       \* bound: how often something goes wrong
    TickTime,        \* a tick lasts at most this long: every read and request times out
    OperationTime,   \* Nebius settles a create or start within this time
    WatchdogWorks    \* FALSE: the guest watchdog never fires

AllFaults == {"crash", "read", "reply", "operation", "capacity", "guest"}

ASSUME ControllerAssumption ==
    /\ FaultKinds \subseteq AllFaults
    /\ Permits \subseteq PermitRecords
    /\ \A p \in Permits : p.own => p.id # 0
    /\ {MaxTime, MaxJobs, MaxFaults, TickTime, OperationTime} \subseteq Nat
    /\ WatchdogWorks \in BOOLEAN

VARIABLES
    journal,     \* controller-state.json: lifecycle
    pending,     \* controller-state.json: pendingEffect
    accounting,  \* accounting-state.json: generation and runtime baseline
    activeJob,   \* active-job-state.json
    pc,          \* where the watch process is in its tick
    permit,      \* the permit it was started with
    input,       \* the LifecycleInput of the current tick
    reply,       \* what executeEffect returned or threw
    wakeAt,      \* when the poll delay after the last tick ends
    clock, vm,
    extra,       \* owned VMs beyond the first (must stay 0)
    creating,    \* create requests Nebius accepted and has not settled
    opDue,       \* when the latest create or start settles at the latest
    createOp, startOp,   \* state of the latest create and start operation
    queued,      \* eligible queued jobs
    arrived,     \* jobs that arrived so far
    registered,  \* generation of the registered ephemeral runner, 0 if none
    assigned,    \* GitHub shows that runner busy with a job
    jobLeft,     \* time the running job may still take
    boots, killed, faults   \* history: VM boots, a job cut short, faults so far

journalVars == <<journal, pending>>
processVars == <<pc, permit, input, reply, wakeAt>>
cloudVars == <<vm, extra, creating, opDue, createOp, startOp, boots>>
jobVars == <<queued, arrived, registered, assigned, jobLeft, killed>>
vars == <<journal, pending, accounting, activeJob, pc, permit, input, reply, wakeAt, clock, vm,
          extra, creating, opDue, createOp, startOp, queued, arrived, registered, assigned,
          jobLeft, boots, killed, faults>>

OpStates == {"none", "running", "succeeded", "failed", "capacity"}
Replies == {"none", "accepted", "unidentified", "resolved", "capacity", "error"}
Stages == {"down", "idle", "observing", "observed", "intent", "emitting", "replied"}

PendingEffects == [effect : Effects, createdAt : Nat, status : Statuses,
                   stage : {"intent", "emitting"}, permitId : Nat, permitExpires : Nat,
                   recovery : BOOLEAN, effectDeadline : Int, operationId : BOOLEAN]
NoPending == [effect |-> NoEffect, createdAt |-> 0, status |-> "pending", stage |-> "intent",
              permitId |-> 0, permitExpires |-> 0, recovery |-> FALSE, effectDeadline |-> None,
              operationId |-> FALSE]

NewJournal == [state |-> "absent", startCount |-> 0, runtime |-> 0, intent |-> NoIntent,
               idle |-> NoIdle, grantDeadline |-> None, grantStarted |-> None, wait |-> NoWait]

UnknownProvider == [complete |-> FALSE, vmStatus |-> "unknown", ownership |-> "unknown",
                    ownedMatches |-> 0]
UnknownGuest == [complete |-> FALSE, status |-> "unknown", admission |-> "null", runner |-> "null",
                 worker |-> "null", bootstrapped |-> FALSE, grant |-> NoGrant]
OfflineGuest == [complete |-> TRUE, status |-> "offline", admission |-> "no", runner |-> "no",
                 worker |-> "no", bootstrapped |-> FALSE, grant |-> NoGrant]
NoInput == [now |-> 0, permit |-> NoPermit, provider |-> UnknownProvider,
            queue |-> [complete |-> FALSE, queued |-> 0, busy |-> "null", observedAt |-> 0],
            guest |-> UnknownGuest, journal |-> NewJournal]

JournalTypeOK == journal \in Journals /\ pending \in PendingEffects
ProcessTypeOK ==
    /\ accounting \in [generation : Nat, baseline : Nat] /\ activeJob \in BOOLEAN
    /\ pc \in Stages /\ permit \in Permits /\ input \in Inputs /\ reply \in Replies
    /\ wakeAt \in Nat /\ clock \in Nat
CloudTypeOK ==
    /\ vm \in Vms /\ extra \in Nat /\ creating \in Nat /\ opDue \in Nat
    /\ createOp \in OpStates /\ startOp \in OpStates /\ boots \in Nat
JobTypeOK ==
    /\ queued \in Nat /\ arrived \in Nat /\ registered \in Nat /\ assigned \in BOOLEAN
    /\ jobLeft \in Nat /\ killed \in BOOLEAN /\ faults \in Nat

\* Type invariant: every field of the journal files, of the tick's input and of
\* the world keeps its range.
TypeOK == JournalTypeOK /\ ProcessTypeOK /\ CloudTypeOK /\ JobTypeOK

Init ==
    /\ journal = NewJournal /\ pending = NoPending
    /\ accounting = [generation |-> 0, baseline |-> 0] /\ activeJob = FALSE
    /\ pc = "idle" /\ permit \in Permits /\ input = NoInput /\ reply = "none"
    /\ wakeAt = 0
    /\ clock = 0 /\ vm = NoVm /\ extra = 0 /\ creating = 0 /\ opDue = 0
    /\ createOp = "none" /\ startOp = "none"
    /\ queued = 0 /\ arrived = 0 /\ registered = 0 /\ assigned = FALSE /\ jobLeft = 0
    /\ boots = 0 /\ killed = FALSE /\ faults = 0

HasPending == pending.effect.type # "none"

\* Something goes wrong in this step, within the bound, or nothing does.
Fault(kind) == kind \in FaultKinds /\ faults < MaxFaults /\ faults' = faults + 1
NoFault == UNCHANGED faults
-----------------------------------------------------------------------------
(***************************************************************************)
(* Time, jobs, the provider and the guest.                                 *)
(***************************************************************************)

\* A running job ends, the watchdog acts, and a create or start settles on
\* time; the process takes time in its reads and requests, not in its own steps.
Urgent ==
    \/ pc \in {"observed", "intent", "replied"}
    \/ pc \in {"observing", "emitting"} /\ clock - input.now >= TickTime
    \/ vm.worker /\ jobLeft = 0
    \/ WatchdogWorks /\ WatchdogDue(vm)
    \/ (creating > 0 \/ vm.status = "starting") /\ clock >= opDue

\* Past MaxTime instants are no longer told apart, but a running guest's window
\* and a running job still end.
Tick ==
    /\ ~Urgent
    /\ clock < MaxTime \/ (vm.status = "running" /\ vm.windowLeft > 0) \/ vm.worker
    /\ clock' = Smaller(clock + 1, MaxTime)
    /\ vm' = IF vm.status = "running" THEN [vm EXCEPT !.windowLeft = Larger(0, @ - 1)] ELSE vm
    /\ jobLeft' = IF vm.worker THEN jobLeft - 1 ELSE jobLeft
    /\ UNCHANGED <<journalVars, accounting, activeJob, processVars, extra, creating, opDue,
                   createOp, startOp, boots, queued, arrived, registered, assigned, killed, faults>>

JobArrives ==
    /\ arrived < MaxJobs
    /\ arrived' = arrived + 1 /\ queued' = queued + 1
    /\ UNCHANGED <<journalVars, accounting, activeJob, processVars, clock, cloudVars,
                   registered, assigned, jobLeft, killed, faults>>

JobWithdrawn ==
    /\ queued > 0
    /\ queued' = queued - 1
    /\ UNCHANGED <<journalVars, accounting, activeJob, processVars, clock, cloudVars,
                   arrived, registered, assigned, jobLeft, killed, faults>>

\* GitHub hands a queued job to the listening runner.
AssignJob ==
    /\ queued > 0 /\ vm.status = "running" /\ vm.listener /\ registered # 0 /\ ~assigned
    /\ queued' = queued - 1 /\ assigned' = TRUE
    /\ UNCHANGED <<journalVars, accounting, activeJob, processVars, clock, cloudVars,
                   arrived, registered, jobLeft, killed, faults>>

\* The runner starts the job; the job-start hook refuses one that cannot end in
\* time, which ends the ephemeral runner.
StartJob ==
    /\ assigned /\ vm.listener /\ ~vm.worker
    /\ IF HookAdmits(vm)
       THEN /\ vm' = [vm EXCEPT !.worker = TRUE] /\ jobLeft' = MaxJob
            /\ UNCHANGED <<registered, assigned>>
       ELSE /\ vm' = [vm EXCEPT !.listener = FALSE]
            /\ registered' = 0 /\ assigned' = FALSE /\ UNCHANGED jobLeft
    /\ UNCHANGED <<journalVars, accounting, activeJob, processVars, clock, extra, creating,
                   opDue, createOp, startOp, boots, queued, arrived, killed, faults>>

\* The job ends; the ephemeral runner deregisters itself and exits.
FinishJob ==
    /\ vm.worker
    /\ vm' = [vm EXCEPT !.worker = FALSE, !.listener = FALSE]
    /\ registered' = 0 /\ assigned' = FALSE /\ jobLeft' = 0
    /\ UNCHANGED <<journalVars, accounting, activeJob, processVars, clock, extra, creating,
                   opDue, createOp, startOp, boots, queued, arrived, killed, faults>>

\* GitHub gives up on a job whose runner is gone.
LoseJob ==
    /\ assigned /\ ~vm.listener
    /\ assigned' = FALSE
    /\ UNCHANGED <<journalVars, accounting, activeJob, processVars, clock, cloudVars,
                   queued, arrived, registered, jobLeft, killed, faults>>

OperationFault(outcome) == Fault(IF outcome = "capacity" THEN "capacity" ELSE "operation")

CreateSettles(outcome) ==
    /\ creating > 0
    /\ creating' = creating - 1 /\ createOp' = outcome
    /\ IF outcome # "succeeded" THEN UNCHANGED <<vm, extra>>
       ELSE IF vm.status = "absent" THEN vm' = CreatedVm /\ UNCHANGED extra
       ELSE extra' = extra + 1 /\ UNCHANGED vm
    /\ IF outcome = "succeeded" THEN NoFault ELSE OperationFault(outcome)
    /\ UNCHANGED <<journalVars, accounting, activeJob, processVars, clock, opDue, startOp,
                   boots, jobVars>>

StartSettles(outcome) ==
    /\ vm.status = "starting"
    /\ startOp' = outcome
    /\ IF outcome = "succeeded" THEN vm' = BootedVm(vm) /\ boots' = boots + 1 /\ NoFault
       ELSE vm' = [vm EXCEPT !.status = "stopped"] /\ UNCHANGED boots /\ OperationFault(outcome)
    /\ UNCHANGED <<journalVars, accounting, activeJob, processVars, clock, extra, creating,
                   opDue, createOp, jobVars>>

StopSettles ==
    /\ vm.status = "stopping"
    /\ vm' = [vm EXCEPT !.status = "stopped"]
    /\ UNCHANGED <<journalVars, accounting, activeJob, processVars, clock, extra, creating,
                   opDue, createOp, startOp, boots, jobVars, faults>>

DeleteSettles ==
    /\ vm.status = "deleting"
    /\ vm' = NoVm
    /\ UNCHANGED <<journalVars, accounting, activeJob, processVars, clock, extra, creating,
                   opDue, createOp, startOp, boots, jobVars, faults>>

\* bootstrap.sh finishes on a fresh disk.
GuestBootstrapped ==
    /\ vm.status = "running" /\ ~vm.ready
    /\ vm' = [vm EXCEPT !.ready = TRUE]
    /\ UNCHANGED <<journalVars, accounting, activeJob, processVars, clock, extra, creating,
                   opDue, createOp, startOp, boots, jobVars, faults>>

WatchdogExpires ==
    /\ WatchdogWorks /\ WatchdogDue(vm)
    /\ vm' = ExpiredVm(vm)
    /\ killed' = (killed \/ vm.worker)
    /\ UNCHANGED <<journalVars, accounting, activeJob, processVars, clock, extra, creating,
                   opDue, createOp, startOp, boots, queued, arrived, registered, assigned,
                   jobLeft, faults>>

\* The guest quarantines itself or the provider loses it.
GuestFails ==
    /\ vm.status = "running" /\ Fault("guest")
    /\ vm' = ExpiredVm(vm)
    /\ UNCHANGED <<journalVars, accounting, activeJob, processVars, clock, extra, creating,
                   opDue, createOp, startOp, boots, jobVars>>
-----------------------------------------------------------------------------
(***************************************************************************)
(* Observation (observe in packages/cli/src/runner-service.ts): first the  *)
(* provider and GitHub, then the guest, each of which may fail to read.    *)
(***************************************************************************)

RunnerGeneration == Larger(1, journal.startCount)   \* expectedRunnerName

OwnedVms == (IF vm.status = "absent" THEN 0 ELSE 1) + extra

\* observeProvider over a successful instance list.
ProviderView ==
    [complete |-> TRUE,
     vmStatus |-> IF OwnedVms > 1 THEN "unknown"
                  ELSE IF vm.status = "deleting" THEN "stopping" ELSE vm.status,
     ownership |-> IF OwnedVms > 1 THEN "ambiguous" ELSE IF OwnedVms = 1 THEN "owned" ELSE "absent",
     ownedMatches |-> OwnedVms]

\* buildQueueSnapshot over complete reads.
QueueView ==
    [complete |-> TRUE, queued |-> queued,
     busy |-> YesNo(assigned /\ registered = RunnerGeneration), observedAt |-> clock]

\* observeGuest: nothing is asked of a VM that is off, and only a VM the
\* provider shows running has an address to ask.
GuestView(provider, readable) ==
    IF provider.vmStatus \in {"absent", "stopped"} THEN OfflineGuest
    ELSE IF provider.vmStatus = "running" /\ vm.status = "running" /\ readable THEN StatusReport(vm)
    ELSE [UnknownGuest EXCEPT !.status = IF provider.vmStatus = "starting" THEN "booting" ELSE @]

ObserveCloud ==
    /\ pc = "idle" /\ (clock >= wakeAt \/ clock = MaxTime)
    /\ \E providerRead, queueRead \in BOOLEAN :
          /\ IF providerRead /\ queueRead THEN NoFault ELSE Fault("read")
          /\ input' = [NoInput EXCEPT
                 !.now = clock, !.permit = permit,
                 !.provider = IF providerRead THEN ProviderView ELSE @,
                 !.queue = IF queueRead THEN QueueView ELSE [@ EXCEPT !.observedAt = clock]]
    /\ pc' = "observing" /\ wakeAt' = 0
    /\ UNCHANGED <<journalVars, accounting, activeJob, permit, reply, clock, cloudVars, jobVars>>

\* An active job once seen stays known until queue and guest both prove it gone.
JobKnown(queue, guest) ==
    \/ queue.busy = "yes"
    \/ /\ activeJob
       /\ ~(queue.complete /\ queue.busy = "no" /\ guest.complete /\ guest.worker = "no")

\* advanceObservedLifecycle: the generation the provider runs is charged from
\* its start; without a start time, from its deadline or with a full lifetime.
Charged(provider) ==
    provider.ownership = "owned" /\ provider.vmStatus \notin {"absent", "stopped"}
    /\ journal.startCount > 0

NextAccounting(provider) ==
    IF Charged(provider) /\ accounting.generation # journal.startCount
    THEN [generation |-> journal.startCount, baseline |-> journal.runtime]
    ELSE accounting

ObservedRuntime(provider, now, account) ==
    LET started == IF journal.grantStarted # None THEN journal.grantStarted
                   ELSE journal.grantDeadline - Lifetime
        ran == IF journal.grantStarted = None /\ journal.grantDeadline = None THEN Lifetime
               ELSE Larger(0, now - started)
    IN  IF Charged(provider) THEN Larger(journal.runtime, account.baseline + ran)
        ELSE journal.runtime

\* Two kinds of idle observation: the generation is idle and drained, or it was
\* and is seen working again, which restarts its idle grace.
ObservedIdle(queue, guest, now) ==
    LET current == /\ queue.complete /\ queue.busy # "null" /\ guest.complete
                   /\ guest.grant.generation # 0
                   /\ guest.grant.generation = journal.startCount
        idle == current /\ queue.busy = "no" /\ guest.status = "drained"
        continued == journal.idle.generation = journal.startCount /\ journal.idle.first # None
    IN  IF journal.idle.last = now THEN journal.idle
        ELSE IF idle THEN [generation |-> journal.startCount,
                      first |-> IF continued THEN journal.idle.first ELSE now, last |-> now]
        ELSE IF current /\ continued
        THEN [generation |-> journal.startCount, first |-> None, last |-> now]
        ELSE journal.idle

ObserveGuest ==
    /\ pc = "observing"
    /\ \E readable \in BOOLEAN :
       LET guest == GuestView(input.provider, readable)
           known == JobKnown(input.queue, guest)
           queue == [input.queue EXCEPT !.busy = IF known THEN "yes" ELSE @]
           account == NextAccounting(input.provider)
       IN  /\ IF readable THEN NoFault ELSE Fault("read")
           /\ activeJob' = known
           /\ accounting' = account
           /\ input' = [input EXCEPT
                  !.guest = guest, !.queue = queue,
                  !.journal = [journal EXCEPT
                      !.runtime = ObservedRuntime(input.provider, input.now, account),
                      !.idle = ObservedIdle(queue, guest, input.now)]]
    /\ pc' = "observed"
    /\ UNCHANGED <<journalVars, permit, reply, wakeAt, clock, cloudVars, jobVars>>
-----------------------------------------------------------------------------
(***************************************************************************)
(* tickController: decide, and write the intent before anything is sent.   *)
(***************************************************************************)

\* The tick ends and watch sleeps for one poll interval.
Idle == pc' = "idle" /\ input' = NoInput /\ reply' = "none" /\ wakeAt' = clock + PollInterval

\* The tick throws, which ends the watch process.
Exit == pc' = "down" /\ input' = NoInput /\ reply' = "none" /\ wakeAt' = 0

ApplyDecision(base, effect, state, now) ==
    IF effect.type \in {"create-vm", "start-vm"}
    THEN [base EXCEPT
             !.state = state,
             !.startCount = IF effect.type = "start-vm" THEN effect.generation ELSE @,
             !.grantDeadline = IF effect.type = "start-vm" THEN effect.deadline ELSE None,
             !.grantStarted = IF effect.type = "start-vm" THEN now ELSE None,
             !.intent = [type |-> effect.type, generation |-> effect.generation,
                         status |-> "pending", deadline |-> effect.deadline]]
    ELSE [base EXCEPT !.state = state]

AuthorizationDeadline(effect) ==
    IF effect.deadline # None THEN effect.deadline
    ELSE IF input.journal.grantDeadline # None THEN input.journal.grantDeadline
    ELSE input.guest.grant.deadline

\* recordAndExecuteDecision up to the intent journal.
WriteIntent(base, decision) ==
    /\ journal' = ApplyDecision(base, decision.effect, decision.state, input.now)
    /\ pending' = [effect |-> decision.effect, createdAt |-> input.now, status |-> "pending",
                   stage |-> "intent", permitId |-> input.permit.id,
                   permitExpires |-> input.permit.expires, recovery |-> input.permit.recovery,
                   effectDeadline |-> AuthorizationDeadline(decision.effect), operationId |-> FALSE]
    /\ pc' = "intent"
    /\ UNCHANGED <<input, reply, wakeAt>>

DecideNothing ==
    /\ pc = "observed" /\ ~HasPending
    /\ DecideLifecycle(input).effect.type = "none"
    /\ journal' = input.journal
    /\ Idle
    /\ UNCHANGED <<pending, accounting, activeJob, permit, clock, cloudVars, jobVars, faults>>

RecordDecision ==
    /\ pc = "observed" /\ ~HasPending
    /\ DecideLifecycle(input).effect.type # "none"
    /\ WriteIntent(input.journal, DecideLifecycle(input))
    /\ UNCHANGED <<accounting, activeJob, permit, clock, cloudVars, jobVars, faults>>
-----------------------------------------------------------------------------
(***************************************************************************)
(* A pending effect: its authority, its deadline, and its emission.        *)
(***************************************************************************)

PendingOperation == RequiredPermitOperation(pending.effect.type)
RecoveryOperation == PendingOperation \in {"stop", "delete"}

AuthorizationProblem ==
    LET p == input.permit
    IN  IF ~p.own \/ p.id # pending.permitId \/ p.expires # pending.permitExpires
           \/ PendingOperation \notin p.ops
        THEN "mismatch"
        ELSE IF input.now >= pending.permitExpires
                /\ ~(RecoveryOperation /\ pending.recovery /\ p.recovery)
        THEN "expired" ELSE "none"

\* Mutants: an effect is stale at the next tick, or never.
PendingEffectTimesOut == ~RecoveryOperation /\ input.now > pending.createdAt
PendingEffectIsNeverStale == FALSE

PendingEffectIsStale ==
    /\ ~(pending.effect.type = "start-vm" /\ input.provider.vmStatus = "stopped")
    /\ ~RecoveryOperation
    /\ pending.effectDeadline # None /\ input.now > pending.effectDeadline

SeenOwned(status) ==
    input.provider.complete /\ OwnedOne(input) /\ input.provider.vmStatus = status

CanRetireRunningStart ==
    /\ pending.effect.type = "start-vm" /\ pending.stage = "emitting"
    /\ pending.effect.generation = input.journal.startCount
    /\ SeenOwned("running")

CanAbandon ==
    /\ PendingEffectIsStale
    /\ \/ AuthorizationProblem = "none"
       \/ /\ AuthorizationProblem = "expired" /\ pc = "observed"
          /\ \/ pending.effect.type \in {"begin-drain", "register-runner", "resume-admission"}
             \/ CanRetireRunningStart
          /\ pending.recovery /\ input.permit.recovery

\* The tick has a pending effect whose request has not been sent by this tick.
AtPending == HasPending /\ pc \in {"observed", "intent"}

\* Mutant: the lifecycle intent outlives the abandoned effect.
AbandonPendingKeepsIntent ==
    /\ AtPending /\ CanAbandon
    /\ pending' = NoPending
    /\ Idle
    /\ UNCHANGED <<journal, accounting, activeJob, permit, clock, cloudVars, jobVars, faults>>

AbandonPending ==
    /\ AtPending /\ CanAbandon
    /\ journal' = [journal EXCEPT !.intent = NoIntent]
    /\ pending' = NoPending
    /\ Idle
    /\ UNCHANGED <<accounting, activeJob, permit, clock, cloudVars, jobVars, faults>>

MarkIntent(status) ==
    IF journal.intent.type = "none" THEN journal ELSE [journal EXCEPT !.intent.status = status]

BlockPending ==
    /\ AtPending /\ AuthorizationProblem # "none" /\ ~CanAbandon
    /\ journal' = MarkIntent("blocked")
    /\ pending' = [pending EXCEPT !.status = "blocked"]
    /\ Idle
    /\ UNCHANGED <<accounting, activeJob, permit, clock, cloudVars, jobVars, faults>>

Cleared == AtPending /\ AuthorizationProblem = "none" /\ ~PendingEffectIsStale

\* executePendingEffect: the emitting stage is journaled before the request.
EmitIntent ==
    /\ Cleared /\ pending.stage = "intent"
    /\ pending' = [pending EXCEPT !.stage = "emitting"]
    /\ pc' = "emitting"
    /\ input' = [NoInput EXCEPT !.now = input.now]   \* the rest of the tick reads only nowMs
    /\ UNCHANGED <<journal, reply, wakeAt, accounting, activeJob, permit, clock, cloudVars, jobVars,
                   faults>>
-----------------------------------------------------------------------------
(***************************************************************************)
(* executeEffect: one request to the provider, the guest or GitHub. It     *)
(* reads the world afresh, so it may refuse what the decision was based on.*)
(***************************************************************************)

Executing(type) == pc = "emitting" /\ pending.effect.type = type

Reply(r) ==
    /\ pc' = "replied" /\ reply' = r
    /\ UNCHANGED <<journalVars, accounting, activeJob, permit, input, wakeAt, clock>>

\* The request took effect; its answer arrives or is lost.
ReplyMayBeLost(r) == (Reply(r) /\ NoFault) \/ (Reply("error") /\ Fault("reply"))

\* A mutation is accepted with an operation id; the id may be missing from the
\* provider's answer.
AcceptedReply == ReplyMayBeLost("accepted") \/ (Reply("unidentified") /\ Fault("reply"))

\* The request is refused or lost before it takes effect.
Refused(r) == Reply(r) /\ UNCHANGED <<cloudVars, jobVars>>
RequestFails == pc = "emitting" /\ Refused("error") /\ Fault("reply")
RefusedForCapacity ==
    /\ pc = "emitting" /\ pending.effect.type \in {"create-vm", "start-vm"}
    /\ Refused("capacity") /\ Fault("capacity")

CanCreate == OwnedVms <= 1 /\ ValidPermit(permit, clock) /\ "create" \in permit.ops

ExecuteCreate ==
    /\ Executing("create-vm")
    /\ IF CanCreate
       THEN /\ creating' = creating + 1 /\ opDue' = clock + OperationTime
            /\ createOp' = "running"
            /\ UNCHANGED <<vm, extra, startOp, boots, jobVars>>
            /\ AcceptedReply
       ELSE Refused("error") /\ NoFault

ExecuteStart ==
    /\ Executing("start-vm")
    /\ IF OwnedVms = 1 /\ vm.status = "stopped"
       THEN /\ vm' = [vm EXCEPT !.status = "starting"] /\ startOp' = "running"
            /\ opDue' = clock + OperationTime
            /\ UNCHANGED <<extra, creating, createOp, boots, jobVars>>
            /\ AcceptedReply
       ELSE Refused("error") /\ NoFault

ExecuteStop ==
    /\ Executing("stop-vm")
    /\ IF OwnedVms = 1 /\ vm.status = "running"
       THEN /\ vm' = PoweredOff(vm, "stopping") /\ killed' = (killed \/ vm.worker)
            /\ UNCHANGED <<extra, creating, opDue, createOp, startOp, boots,
                           queued, arrived, registered, assigned, jobLeft>>
            /\ AcceptedReply
       ELSE Refused("error") /\ NoFault

RunnerOwned == registered = RunnerGeneration   \* classifyOwnedRunners = 'owned'

\* removeOwnedRegistration; GitHub refuses to remove a runner that runs a job.
CanRemoveRegistration == ~(RunnerOwned /\ assigned)
RemoveRegistration == registered' = IF RunnerOwned THEN 0 ELSE registered

ExecuteDelete ==
    /\ Executing("delete-vm")
    /\ IF /\ OwnedVms = 1 /\ vm.status = "stopped"
          /\ CleanupPermit(permit, clock) /\ CanRemoveRegistration
       THEN /\ RemoveRegistration /\ vm' = [vm EXCEPT !.status = "deleting"]
            /\ UNCHANGED <<extra, creating, opDue, createOp, startOp, boots,
                           queued, arrived, assigned, jobLeft, killed>>
            /\ AcceptedReply
       ELSE Refused("error") /\ NoFault

ExecuteRegister ==
    /\ Executing("register-runner")
    /\ IF /\ OwnedVms = 1 /\ vm.status = "running" /\ ValidPermit(permit, clock)
          /\ "register" \in permit.ops /\ CanRegister(vm) /\ ~RunnerOwned
       THEN /\ vm' = RegisteredVm(vm) /\ registered' = RunnerGeneration
            /\ UNCHANGED <<extra, creating, opDue, createOp, startOp, boots,
                           queued, arrived, assigned, jobLeft, killed>>
            /\ ReplyMayBeLost("resolved")
       ELSE Refused("error") /\ NoFault

\* drain.sh, then the registration; a live worker or a job just assigned fails
\* the effect after admission was already disabled.
ExecuteDrain ==
    /\ Executing("begin-drain")
    /\ IF OwnedVms = 1 /\ vm.status = "running"
       THEN /\ vm' = DrainedVm(vm)
            /\ UNCHANGED <<extra, creating, opDue, createOp, startOp, boots,
                           queued, arrived, assigned, jobLeft, killed>>
            /\ IF DrainRefused(vm) \/ ~CanRemoveRegistration
               THEN UNCHANGED registered /\ Reply("error") /\ NoFault
               ELSE RemoveRegistration /\ ReplyMayBeLost("unidentified")
       ELSE Refused("error") /\ NoFault

ExecuteResume ==
    /\ Executing("resume-admission")
    /\ IF OwnedVms = 1 /\ vm.status = "running" /\ CanResume(vm)
       THEN /\ vm' = ResumedVm(vm)
            /\ UNCHANGED <<extra, creating, opDue, createOp, startOp, boots, jobVars>>
            /\ ReplyMayBeLost("unidentified")
       ELSE Refused("error") /\ NoFault
-----------------------------------------------------------------------------
(***************************************************************************)
(* executePendingEffect after the request: what the reply writes.          *)
(***************************************************************************)

\* Mutant: every refusal hands a generation back.
WaitForCapacityAlwaysBack(base, refused) ==
    /\ journal' = [base EXCEPT
           !.startCount = @ - 1, !.state = IF refused = "create-vm" THEN "absent" ELSE "stopped",
           !.intent = NoIntent, !.wait = NextCapacityWait(@, refused, input.now),
           !.grantDeadline = None, !.grantStarted = None]
    /\ pending' = NoPending

\* waitForCapacity: a refused start hands its generation back.
WaitForCapacity(base, refused) ==
    /\ journal' = [base EXCEPT
           !.startCount = IF refused = "start-vm" THEN pending.effect.generation - 1 ELSE @,
           !.state = IF refused = "create-vm" THEN "absent" ELSE "stopped",
           !.intent = NoIntent, !.wait = NextCapacityWait(@, refused, input.now),
           !.grantDeadline = None, !.grantStarted = None]
    /\ pending' = NoPending

JournalReply ==
    /\ pc = "replied"
    /\ \/ /\ reply = "resolved"
          /\ journal' = [journal EXCEPT !.intent = NoIntent] /\ pending' = NoPending /\ Idle
       \/ /\ reply = "accepted"
          /\ pending' = [pending EXCEPT !.operationId = TRUE]
          /\ UNCHANGED journal /\ Idle
       \/ reply = "unidentified" /\ UNCHANGED journalVars /\ Idle
       \/ reply = "capacity" /\ WaitForCapacity(journal, pending.effect.type) /\ Idle
       \/ /\ reply = "error"
          /\ journal' = MarkIntent("ambiguous")
          /\ pending' = [pending EXCEPT !.status = "ambiguous"]
          /\ Exit
    /\ UNCHANGED <<accounting, activeJob, permit, clock, cloudVars, jobVars, faults>>
-----------------------------------------------------------------------------
(***************************************************************************)
(* reconcileEffect: a request already sent is never repeated; the next     *)
(* ticks read the world back until the effect is proven or refused.        *)
(***************************************************************************)

Reconciling == Cleared /\ pc = "observed" /\ pending.stage = "emitting"

\* Mutant: a settled guest effect drops the generation's deadline.
SettleDropsDeadline ==
    /\ journal' = [journal EXCEPT
           !.state = IF pending.effect.type = "create-vm" THEN "stopped" ELSE @,
           !.intent = NoIntent,
           !.grantDeadline = IF pending.effect.type = "start-vm" THEN pending.effect.deadline
                             ELSE None]
    /\ pending' = NoPending

\* Mutant: a settled create or delete leaves the start of the old grant behind.
SettleKeepsStart ==
    LET effect == pending.effect
        armed == effect.type \in {"start-vm", "adopt-vm"}
        gone == effect.type \in {"create-vm", "delete-vm"}
    IN  /\ journal' = [journal EXCEPT
               !.state = IF effect.type = "create-vm" THEN "stopped" ELSE @,
               !.intent = NoIntent,
               !.grantDeadline = IF armed THEN effect.deadline ELSE IF gone THEN None ELSE @,
               !.grantStarted = IF effect.type = "start-vm" THEN pending.createdAt ELSE @,
               !.wait = IF effect.type \in {"start-vm", "delete-vm"} THEN NoWait ELSE @]
        /\ pending' = NoPending

Settle ==
    LET effect == pending.effect
        armed == effect.type \in {"start-vm", "adopt-vm"}
        gone == effect.type \in {"create-vm", "delete-vm"}
    IN  /\ journal' = [journal EXCEPT
               !.state = IF effect.type = "create-vm" THEN "stopped" ELSE @,
               !.intent = NoIntent,
               !.grantDeadline = IF armed THEN effect.deadline ELSE IF gone THEN None ELSE @,
               !.grantStarted = IF effect.type = "start-vm" THEN pending.createdAt
                                ELSE IF gone THEN None ELSE @,
               !.wait = IF effect.type \in {"start-vm", "delete-vm"} THEN NoWait ELSE @]
        /\ pending' = NoPending

\* What a fresh read of the provider, the guest and GitHub proves of an effect.
Proven ==
    CASE pending.effect.type = "create-vm" -> OwnedVms = 1
      [] pending.effect.type = "adopt-vm" -> TRUE
      [] pending.effect.type = "start-vm" ->
             /\ OwnedVms = 1 /\ vm.status = "running"
             /\ StatusReport(vm).grant.generation = pending.effect.generation
      [] pending.effect.type = "stop-vm" -> OwnedVms = 1 /\ vm.status = "stopped"
      [] pending.effect.type = "delete-vm" -> OwnedVms = 0
      [] pending.effect.type = "register-runner" ->
             IF OwnedVms = 0 THEN ~RunnerOwned
             ELSE RunnerOwned /\ GuestView(ProviderView, TRUE).runner = "yes"
      [] pending.effect.type = "begin-drain" ->
             LET guest == GuestView(ProviderView, TRUE)
             IN  guest.status = "drained" /\ guest.runner = "no" /\ guest.worker = "no"
      [] pending.effect.type = "resume-admission" ->
             GuestView(ProviderView, TRUE).admission = "yes"

ReconcileProven ==
    /\ Reconciling /\ Proven
    /\ Settle /\ Idle
    /\ UNCHANGED <<accounting, activeJob, permit, clock, cloudVars, jobVars, faults>>

\* A running VM that does not enforce the new generation's grant yet is armed
\* with it first.
NeedsArming ==
    /\ Reconciling /\ pending.effect.type = "start-vm" /\ ~Proven
    /\ OwnedVms = 1 /\ vm.status = "running"

StartArmable ==
    CanArm(vm, pending.effect.generation, clock, pending.effect.deadline,
           pending.effect.generation - 1)

ArmGrant ==
    /\ NeedsArming /\ StartArmable
    /\ vm' = ArmedVm(vm, pending.effect.generation, clock, pending.effect.deadline)
    /\ \/ vm.failed /\ UNCHANGED journalVars /\ Idle /\ NoFault
       \/ ~vm.failed /\ Settle /\ Idle /\ NoFault
       \/ UNCHANGED journalVars /\ Idle /\ Fault("reply")   \* armed, but the readback is lost
    /\ UNCHANGED <<accounting, activeJob, permit, clock, extra, creating, opDue, createOp,
                   startOp, boots, jobVars>>

\* The guest refuses the grant for good, or SSH stays down past the boot
\* deadline: the tick throws. Before that deadline the next tick tries again.
ArmFails ==
    /\ NeedsArming
    /\ \/ ~StartArmable /\ NoFault /\ Exit
       \/ /\ StartArmable /\ Fault("reply")
          /\ Exit \/ (clock < pending.createdAt + BootTimeout /\ Idle)
    /\ UNCHANGED <<journalVars, accounting, activeJob, permit, clock, cloudVars, jobVars>>

\* The start operation is over and the VM is off: StartOperationOver is what
\* listOperations shows, StoppedBeforeUse the conditions of canRetireStoppedStart.
StartOperationOver ==
    /\ pending.effect.type = "start-vm" /\ pending.operationId
    /\ OwnedVms = 1 /\ vm.status = "stopped"
    /\ startOp \in {"succeeded", "failed", "capacity"} /\ creating = 0

StoppedBeforeUse ==
    /\ input.now >= pending.createdAt + BootTimeout
    /\ SeenOwned("stopped")
    /\ input.queue.complete /\ input.queue.busy = "no"
    /\ input.guest = OfflineGuest
    /\ CleanupPermit(input.permit, input.now)

\* Mutant: any start that is over on a stopped VM counts as refused.
StartRefusedWhenOver == StartOperationOver /\ SeenOwned("stopped")

StartRefused == StartOperationOver /\ startOp = "capacity" /\ SeenOwned("stopped")

ReconcileStartRefused ==
    /\ Reconciling /\ StartRefused
    /\ WaitForCapacity(input.journal, "start-vm") /\ Idle
    /\ UNCHANGED <<accounting, activeJob, permit, clock, cloudVars, jobVars, faults>>

RetireStoppedStart ==
    /\ Reconciling /\ StartOperationOver /\ ~StartRefused /\ StoppedBeforeUse
    /\ WriteIntent([input.journal EXCEPT !.intent = NoIntent],
                   Decision("absent", Effect("delete-vm", input.journal.startCount, None)))
    /\ UNCHANGED <<accounting, activeJob, permit, clock, cloudVars, jobVars, faults>>

CreateRefused ==
    /\ pending.effect.type = "create-vm" /\ pending.operationId
    /\ OwnedVms = 0 /\ createOp = "capacity"
    /\ input.provider.complete /\ input.provider.ownership = "absent"

ReconcileCreateRefused ==
    /\ Reconciling /\ CreateRefused
    /\ WaitForCapacity(journal, "create-vm") /\ Idle
    /\ UNCHANGED <<accounting, activeJob, permit, clock, cloudVars, jobVars, faults>>

\* Nothing is proven yet, or a read of this reconciliation failed.
ReconcileUnresolved ==
    /\ Reconciling
    /\ \/ /\ ~Proven /\ ~NeedsArming /\ ~CreateRefused /\ ~StartRefused
          /\ ~(StartOperationOver /\ StoppedBeforeUse)
          /\ NoFault
       \/ Fault("read")
    /\ Idle
    /\ UNCHANGED <<journalVars, accounting, activeJob, permit, clock, cloudVars, jobVars>>
-----------------------------------------------------------------------------
(***************************************************************************)
(* The process dies between any two steps and is started again, with the   *)
(* same or another permit file.                                            *)
(***************************************************************************)

Crash ==
    /\ pc # "down" /\ Fault("crash")
    /\ Exit
    /\ UNCHANGED <<journalVars, accounting, activeJob, permit, clock, cloudVars, jobVars>>

Restart ==
    /\ pc = "down"
    /\ pc' = "idle" /\ permit' \in Permits
    /\ UNCHANGED <<journalVars, accounting, activeJob, input, reply, wakeAt, clock, cloudVars,
                   jobVars, faults>>

TickStep ==
    \/ ObserveCloud \/ ObserveGuest \/ DecideNothing \/ RecordDecision
    \/ AbandonPending \/ BlockPending \/ EmitIntent
ExecuteStep ==
    \/ RequestFails \/ RefusedForCapacity \/ ExecuteCreate \/ ExecuteStart
    \/ ExecuteStop \/ ExecuteDelete \/ ExecuteRegister \/ ExecuteDrain \/ ExecuteResume
ReconcileStep ==
    \/ ReconcileProven \/ ArmGrant \/ ArmFails \/ ReconcileStartRefused \/ RetireStoppedStart
    \/ ReconcileCreateRefused \/ ReconcileUnresolved
ControllerStep == TickStep \/ ExecuteStep \/ JournalReply \/ ReconcileStep \/ Restart

CloudStep ==
    \/ \E outcome \in {"succeeded", "failed", "capacity"} :
          CreateSettles(outcome) \/ StartSettles(outcome)
    \/ StopSettles \/ DeleteSettles
GuestStep == GuestBootstrapped \/ WatchdogExpires \/ GuestFails
JobStep == JobArrives \/ JobWithdrawn \/ AssignJob \/ StartJob \/ FinishJob \/ LoseJob

Next == Tick \/ ControllerStep \/ Crash \/ CloudStep \/ GuestStep \/ JobStep

Spec == Init /\ [][Next]_vars

\* launchd keeps the process alive, every read and request has a timeout, jobs
\* and provider operations end, and a job handed out is started or given up. No
\* fairness for arrivals, withdrawals, assignments and faults.
Fairness ==
    /\ SF_vars(Tick) /\ WF_vars(ControllerStep)
    /\ WF_vars(CreateSettles("succeeded")) /\ WF_vars(StartSettles("succeeded"))
    /\ WF_vars(StopSettles) /\ WF_vars(DeleteSettles)
    /\ WF_vars(GuestBootstrapped) /\ WF_vars(WatchdogExpires)
    /\ WF_vars(StartJob) /\ WF_vars(FinishJob) /\ WF_vars(LoseJob)

FairSpec == Spec /\ Fairness
-----------------------------------------------------------------------------
(***************************************************************************)
(* parseControllerState: what a start accepts of the journal file it finds *)
(* (fields are present and of their type in every record of the model).    *)
(***************************************************************************)

\* parseEffect.
EffectReadable(effect) ==
    /\ effect.type \in {"create-vm", "adopt-vm", "start-vm", "delete-vm"} => effect.generation >= 1
    /\ effect.type \in {"create-vm", "adopt-vm", "start-vm", "register-runner", "begin-drain"}
          => effect.deadline # None

\* parsePendingEffect and parsePendingAuthorization.
PendingReadable ==
    EffectReadable(pending.effect) /\ pending.permitId # 0

\* parseCapacityWait.
WaitReadable(wait) == wait.refusals >= 1

\* parseLifecycleJournal.
LifecycleReadable ==
    /\ journal.grantStarted # None =>
          journal.grantDeadline # None /\ journal.grantStarted < journal.grantDeadline
    /\ journal.idle # NoIdle => journal.idle.generation >= 1
    /\ journal.wait.refused # "none" => WaitReadable(journal.wait)
-----------------------------------------------------------------------------
(***************************************************************************)
(* Properties.                                                             *)
(***************************************************************************)

\* assertStateInvariants: journal and pending effect agree in every state a
\* crash can leave on disk. A violation makes parseControllerState throw on
\* every later start, with the VM still running.
JournalConsistent ==
    /\ ~HasPending => journal.intent = NoIntent
    /\ HasPending =>
          IF pending.effect.type \in {"create-vm", "start-vm"}
          THEN /\ journal.intent = [type |-> pending.effect.type,
                                    generation |-> pending.effect.generation,
                                    status |-> pending.status, deadline |-> pending.effect.deadline]
               /\ pending.effect.generation = journal.startCount
                                              + IF pending.effect.type = "create-vm" THEN 1 ELSE 0
          ELSE journal.intent = NoIntent
    /\ pending.effect.deadline # None => pending.effectDeadline = pending.effect.deadline
    /\ journal.idle.generation <= journal.startCount

\* Whatever the controller journals, the next start can read: an effect, a grant
\* window or a wait that parseControllerState refuses would stop every later
\* start while a VM may still be running. (The delete of a VM whose first start
\* was refused has no generation of its own to name.)
JournalReadable ==
    LifecycleReadable /\ (HasPending => PendingReadable)

\* At most one VM exists or is being created, whichever single fault happens
\* around a create request: MaxFaults is 1 in the run that checks this
\* (executeEffect does not look for an owned VM before it creates one). Two
\* deaths refute it: a create cut off between its journal entry and its request
\* may be sent too late and abandoned in flight (see CreateReconciledFirst).
\* For any number of faults it holds if no death falls there, which
\* SingleVmUnlessCutOff in ControllerProofs states.
SingleVm == OwnedVms + creating <= 1

\* No job the start hook admitted is cut short by the watchdog, by an idle
\* stop or by the emergency stop.
NoJobKilled == ~killed

\* Every boot was reserved in the journal first and within the permit's start
\* cap, although a refused start hands its generation back for reuse.
BootsCounted == boots <= journal.startCount /\ journal.startCount <= permit.maxStarts

\* While a runner listens, journal, guest and GitHub agree on its generation
\* and on its deadline: idle evidence, emergency stop and drain then act on
\* the VM that is really there.
ListenerMatchesJournal ==
    vm.listener =>
        /\ journal.startCount = vm.generation /\ journal.grantDeadline = vm.deadline
        /\ registered \in {0, vm.generation}

\* A guest that enforces the journal's grant powers off before the permit that
\* authorized the start expires.
GrantWithinPermit ==
    vm.status = "running" /\ Armed(vm) /\ vm.generation = journal.startCount
        => clock + vm.windowLeft <= permit.expires

\* The disk is never ahead of the journal: a generation that a refused start
\* handed back was armed nowhere, so the start that takes it again is the first
\* to carry it.
DiskBehindJournal == vm.generation <= journal.startCount

\* Journal, disk, listener and GitHub speak of one generation, whenever a start,
\* a registration or a refused start is cut off between its writes.
GenerationsAgree == ListenerMatchesJournal /\ DiskBehindJournal

\* Runbook: the controller reconciles a recorded operation before another
\* mutation and does not retry an uncertain one. So it sends no create request
\* while an earlier one is in flight.
CreateReconciledFirst == creating <= 1

\* Runbook: an expired retained guest grant cannot be rearmed; its VM is to be
\* deleted and a fresh generation created. So no start is requested for a disk
\* whose grant is used up.
SpentGuestNotRestarted == vm.status = "starting" /\ Armed(vm) => vm.windowLeft > 0

\* Accounting only moves forward: recorded runtime never shrinks, and only the
\* refusal of a start that never booted takes a generation back
\* (mergeLifecycle throws on anything else).
JournalMonotone ==
    [][/\ journal'.runtime >= journal.runtime
       /\ journal'.startCount >= journal.startCount
             \/ /\ pending.effect.type = "start-vm" /\ journal'.startCount = journal.startCount - 1
                /\ boots <= journal'.startCount]_vars

\* After a capacity refusal nothing is requested again before the retry time;
\* only the creation of a VM that vanished ignores the wait of its start.
BackoffRespected ==
    [][\/ vm.status # "starting" /\ vm'.status = "starting"
       \/ creating' > creating /\ journal.wait.refused = "create-vm"
       => journal.wait.refused = "none" \/ clock >= journal.wait.retryAt]_vars

\* Compute does not run for ever: whatever is lost, refused or interrupted, the
\* VM ends up off and stays off once the permit has run out.
EventuallyOff == <>[](vm.status \notin {"starting", "running"})

\* An effect on the guest never strands the controller: registration, drain and
\* resumption are proven, abandoned at their deadline, or cleared in recovery.
GuestEffectEnds ==
    LET waiting == pending.effect.type \in {"register-runner", "begin-drain", "resume-admission"}
    IN  waiting ~> ~waiting
=============================================================================
