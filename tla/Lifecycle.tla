------------------------------ MODULE Lifecycle ------------------------------
(***************************************************************************)
(* The pure half of the runner controller: permit validation, start budget,*)
(* capacity backoff and decideLifecycle of packages/runner/src/lifecycle.ts.*)
(*                                                                         *)
(* Times are natural numbers in one unit; None stands for a null time.     *)
(* Nullable booleans of an observation are "yes", "no" or "null". Records  *)
(* that may be null in the code have an always-present form whose type is  *)
(* "none" (effects, intents) or whose generation is 0 (guest grants).      *)
(***************************************************************************)
EXTENDS Integers

CONSTANTS
    PollInterval,        \* config.timing.pollIntervalMs
    BootTimeout,         \* config.timing.bootTimeoutMs
    IdleGrace,           \* config.timing.idleGraceMs
    MaxJob,              \* config.timing.maxJobMs
    ShutdownMargin,      \* config.timing.shutdownMarginMs
    Lifetime,            \* config.timing.lifetimeMs
    DrainFallback,       \* DRAIN_FALLBACK_MS
    CapacityBase,        \* CAPACITY_RETRY_BASE_MS
    CapacityMax,         \* CAPACITY_RETRY_MAX_MS
    DeleteAfterStop,     \* config.idleResourcePolicy = 'delete-after-stop'
    ComputeRate,         \* config.rates.computeUsdPerHour, per time unit
    ProjectedStartCost   \* projectedStartCostUsd(config)

\* What parseRunnerConfig guarantees of the timings and rates.
ASSUME ConfigAssumption ==
    /\ {PollInterval, MaxJob, ShutdownMargin, Lifetime, DrainFallback,
        CapacityBase, CapacityMax} \subseteq Nat \ {0}
    /\ {BootTimeout, IdleGrace, ComputeRate, ProjectedStartCost} \subseteq Nat
    /\ MaxJob + ShutdownMargin <= Lifetime
    /\ DeleteAfterStop \in BOOLEAN

None == -1

Smaller(a, b) == IF a <= b THEN a ELSE b
Larger(a, b) == IF a >= b THEN a ELSE b

Tri == {"yes", "no", "null"}
LifecycleStates == {"absent", "stopped", "starting", "ready", "busy", "draining",
                    "stopping", "blocked"}
GuestUpStates == {"starting", "ready", "busy", "draining"}
VmStatuses == {"absent", "stopped", "starting", "running", "stopping", "error", "unknown"}
Ownerships == {"absent", "owned", "foreign", "ambiguous", "unknown"}
GuestStatuses == {"offline", "booting", "ready", "busy", "draining", "drained",
                  "failed", "unknown"}
EffectTypes == {"none", "create-vm", "adopt-vm", "start-vm", "register-runner", "begin-drain",
                "resume-admission", "stop-vm", "delete-vm"}
Operations == {"create", "start", "register", "stop", "delete"}

OptionalTimes == Nat \cup {None}

\* Journal of the controller: LifecycleJournal.
IntentTypes == {"none", "create-vm", "start-vm"}
Statuses == {"pending", "ambiguous", "blocked"}
Intents == [type : IntentTypes, generation : Nat, status : Statuses, deadline : OptionalTimes]
NoIntent == [type |-> "none", generation |-> 0, status |-> "pending", deadline |-> None]

\* idleObservations reduced to what idleGraceSatisfied reads of them: the
\* first and the last complete observation since the last interruption.
IdleEvidence == [generation : Nat, first : OptionalTimes, last : OptionalTimes]
NoIdle == [generation |-> 0, first |-> None, last |-> None]

CapacityWaits == [refused : IntentTypes, refusals : Nat, retryAt : Nat]
NoWait == [refused |-> "none", refusals |-> 0, retryAt |-> 0]

Journals == [state : LifecycleStates, startCount : Nat, runtime : Nat,
             intent : Intents, idle : IdleEvidence, grantDeadline : OptionalTimes,
             grantStarted : OptionalTimes, wait : CapacityWaits]

Effects == [type : EffectTypes, generation : Nat, deadline : Int, emergency : BOOLEAN]
NoEffect == [type |-> "none", generation |-> 0, deadline |-> None, emergency |-> FALSE]
Effect(type, generation, deadline) ==
    [type |-> type, generation |-> generation, deadline |-> deadline, emergency |-> FALSE]

\* Permits; NoPermit stands for a controller started without one.
PermitRecords == [id : Nat, own : BOOLEAN, ops : SUBSET Operations, issued : Nat, expires : Nat,
                  maxStarts : Nat, maxRuntime : Nat, maxCost : Nat, recovery : BOOLEAN]
NoPermit == [id |-> 0, own |-> FALSE, ops |-> {}, issued |-> 0, expires |-> 0,
             maxStarts |-> 0, maxRuntime |-> 0, maxCost |-> 0, recovery |-> FALSE]

\* Observations: ProviderSnapshot, QueueSnapshot and GuestSnapshot.
Providers == [complete : BOOLEAN, vmStatus : VmStatuses, ownership : Ownerships, ownedMatches : Nat]
Queues == [complete : BOOLEAN, queued : Nat, busy : Tri, observedAt : Nat]
Guests == [complete : BOOLEAN, status : GuestStatuses, admission : Tri, runner : Tri,
           worker : Tri, bootstrapped : BOOLEAN,
           grant : [generation : Nat, deadline : OptionalTimes]]
NoGrant == [generation |-> 0, deadline |-> None]
Inputs == [now : Nat, permit : PermitRecords, provider : Providers, queue : Queues,
           guest : Guests, journal : Journals]
-----------------------------------------------------------------------------
(***************************************************************************)
(* Permits.                                                                *)
(***************************************************************************)

\* validatePermit without the clock; identity is compared as a whole (own).
WellFormedPermit(p) ==
    /\ p.own
    /\ p.maxStarts > 0 /\ p.maxRuntime > 0
    /\ p.issued < p.expires
    /\ p.ops # {}

ValidPermit(p, now) == WellFormedPermit(p) /\ p.issued <= now /\ now < p.expires

\* validateRecoveryPermit: expiry does not end recovery authority.
RecoveryPermit(p, now) == WellFormedPermit(p) /\ p.issued <= now /\ p.recovery

CleanupPermit(p, now) == (ValidPermit(p, now) \/ RecoveryPermit(p, now)) /\ "delete" \in p.ops

RequiredPermitOperation(type) ==
    CASE type \in {"create-vm", "adopt-vm"} -> "create"
      [] type = "start-vm" -> "start"
      [] type \in {"register-runner", "begin-drain", "resume-admission"} -> "register"
      [] type = "stop-vm" -> "stop"
      [] type = "delete-vm" -> "delete"
-----------------------------------------------------------------------------
(***************************************************************************)
(* Start budget, job cutoff and capacity backoff.                          *)
(***************************************************************************)

\* Mutant: the grant may outlive the permit.
AvailableRuntimePastExpiry(i) == Smaller(Lifetime, i.permit.maxRuntime - i.journal.runtime)

AvailableRuntime(i) ==
    Smaller(Lifetime, Smaller(i.permit.maxRuntime - i.journal.runtime, i.permit.expires - i.now))

StartBudget(i) ==
    /\ ValidPermit(i.permit, i.now)
    /\ i.permit.maxRuntime - i.journal.runtime > 0
    /\ i.journal.runtime * ComputeRate + ProjectedStartCost <= i.permit.maxCost
    /\ AvailableRuntime(i) >= MaxJob + ShutdownMargin

SafeCutoff(grantDeadline, permitExpiry) ==
    Smaller(grantDeadline, permitExpiry) - MaxJob - ShutdownMargin

DrainDeadline(original, now) == Smaller(original, now + DrainFallback)

\* 2 ** Math.min(refusals - 1, 16) for refusals >= 1.
Doublings == <<1, 2, 4, 8, 16, 32, 64, 128, 256, 512, 1024, 2048, 4096, 8192, 16384, 32768, 65536>>
Backoff(refusals) == Smaller(CapacityMax, CapacityBase * Doublings[Smaller(refusals, 17)])

\* A refusal more than one maximum wait after the last retry time starts a
\* fresh episode.
NextCapacityWait(previous, refused, now) ==
    LET continuing == previous.refused # "none" /\ now - previous.retryAt <= CapacityMax
        refusals == IF continuing THEN previous.refusals + 1 ELSE 1
    IN  [refused |-> refused, refusals |-> refusals,
         retryAt |-> now + Larger(PollInterval, Backoff(refusals))]

\* Mutant: only a refused create waits.
CapacityHoldForCreates(i) == i.journal.wait.refused = "create-vm" /\ i.now < i.journal.wait.retryAt

CapacityHold(i) == i.journal.wait.refused # "none" /\ i.now < i.journal.wait.retryAt
-----------------------------------------------------------------------------
(***************************************************************************)
(* decideLifecycle.                                                        *)
(***************************************************************************)

Decision(state, effect) == [state |-> state, effect |-> effect]
Blocked == Decision("blocked", NoEffect)
Stay(state) == Decision(state, NoEffect)

Authorized(i, op, decision) ==
    IF ValidPermit(i.permit, i.now) /\ op \in i.permit.ops THEN decision ELSE Blocked

AuthorizedCleanup(i, decision) == IF CleanupPermit(i.permit, i.now) THEN decision ELSE Blocked

OwnedOne(i) == i.provider.ownership = "owned" /\ i.provider.ownedMatches = 1

HasGrant(i) == i.guest.grant.generation # 0

\* The journal's deadline stays authoritative over the guest's report.
GrantDeadline(i) ==
    IF i.journal.grantDeadline = None THEN i.guest.grant.deadline
    ELSE Smaller(i.journal.grantDeadline, i.guest.grant.deadline)

PastDeadline(i) == i.journal.grantDeadline # None /\ i.now >= i.journal.grantDeadline

LifetimeReached(i) ==
    /\ PastDeadline(i)
    /\ i.journal.startCount > 0
    /\ i.journal.intent.type = "none"
    /\ OwnedOne(i)
    /\ i.provider.vmStatus \notin {"stopped", "absent"}

EmergencyEffect ==
    [type |-> "stop-vm", generation |-> 0, deadline |-> None, emergency |-> TRUE]

EmergencyStop(i) ==
    IF RecoveryPermit(i.permit, i.now) /\ "stop" \in i.permit.ops
    THEN Decision("stopping", EmergencyEffect)
    ELSE Blocked

QueueFresh(i) == i.queue.observedAt <= i.now /\ i.now - i.queue.observedAt <= PollInterval

\* A create intent is settled by adopting the one owned VM, never by another
\* create. tickController never reaches this branch: it does not decide while an
\* effect is pending, and no intent outlives its pending effect.
DecideAdoption(i) ==
    IF OwnedOne(i) /\ i.provider.complete /\ i.provider.vmStatus \in {"stopped", "starting", "running"}
    THEN Decision(IF i.provider.vmStatus = "stopped" THEN "stopped"
                  ELSE IF /\ i.provider.vmStatus = "running" /\ i.guest.complete
                          /\ i.guest.status = "ready" /\ i.guest.bootstrapped
                  THEN "ready" ELSE "starting",
                  Effect("adopt-vm", i.journal.intent.generation, i.journal.intent.deadline))
    ELSE Blocked

\* No owned VM and none related: create one for eligible work. Only a refused
\* create holds creation back.
DecideAbsent(i) ==
    IF ~i.provider.complete \/ ~i.queue.complete \/ i.queue.queued = 0 THEN Stay("absent")
    ELSE IF i.journal.wait.refused = "create-vm" /\ CapacityHold(i) THEN Stay("absent")
    ELSE IF ~StartBudget(i) \/ i.journal.startCount >= i.permit.maxStarts THEN Blocked
    ELSE Authorized(i, "create",
             Decision("starting", Effect("create-vm", i.journal.startCount + 1,
                                         i.now + AvailableRuntime(i))))

CertainEvidence(i) ==
    /\ i.provider.complete /\ i.queue.complete /\ i.guest.complete /\ i.queue.busy # "null"
    /\ i.provider.vmStatus \notin {"error", "unknown"}
    /\ i.guest.status \notin {"failed", "unknown"}

\* A running guest that enforces another generation's grant.
ForeignGrant(i) ==
    /\ i.provider.vmStatus = "running" /\ i.journal.state \in GuestUpStates
    /\ HasGrant(i) /\ i.guest.grant.generation # i.journal.startCount

OwnedJobBusy(i) ==
    i.queue.busy = "yes" \/ i.guest.worker = "yes" \/ i.guest.status = "busy"

Delete(i, generation) ==
    AuthorizedCleanup(i, Decision("absent", Effect("delete-vm", generation, None)))

DecideStopped(i) ==
    IF i.journal.state \in GuestUpStates
    THEN IF PastDeadline(i) /\ i.journal.startCount >= 1 THEN Delete(i, i.journal.startCount)
                                                         ELSE Blocked
    ELSE IF i.journal.wait.refused # "none" /\ i.journal.state = "stopped"
            /\ i.queue.queued = 0 /\ DeleteAfterStop
    THEN Delete(i, Larger(1, i.journal.startCount))
    ELSE IF i.journal.state = "stopping" /\ i.journal.startCount > 0
            /\ i.queue.queued = 0 /\ DeleteAfterStop
    THEN Delete(i, i.journal.startCount)
    ELSE IF i.queue.queued = 0 \/ CapacityHold(i) THEN Stay(i.journal.state)
    ELSE IF i.journal.startCount >= i.permit.maxStarts \/ ~StartBudget(i) THEN Blocked
    ELSE Authorized(i, "start",
             Decision("starting", Effect("start-vm", i.journal.startCount + 1,
                                         i.now + AvailableRuntime(i))))

GuestIsDrained(i) ==
    /\ i.guest.status = "drained" /\ i.guest.admission = "no"
    /\ i.guest.runner = "no" /\ i.guest.worker = "no" /\ i.queue.busy = "no"

IdleGraceSatisfied(i) ==
    LET idle == i.journal.idle
    IN  /\ HasGrant(i) /\ idle.generation = i.guest.grant.generation
        /\ idle.first # None /\ idle.first < idle.last
        /\ idle.last = i.queue.observedAt
        /\ i.now - idle.last <= PollInterval
        /\ idle.last - idle.first >= IdleGrace

BeginDrain(i) ==
    Authorized(i, "register",
        Decision("draining", Effect("begin-drain", 0, DrainDeadline(GrantDeadline(i), i.now))))

JobStillFits(i) == i.now <= SafeCutoff(GrantDeadline(i), i.permit.expires)

DecideDraining(i) ==
    IF ~GuestIsDrained(i)
    THEN IF i.queue.queued = 0 /\ HasGrant(i) /\ i.guest.status \in {"ready", "draining"}
         THEN BeginDrain(i) ELSE Blocked
    ELSE IF ~IdleGraceSatisfied(i) THEN Stay("draining")
    ELSE Authorized(i, "stop", Decision("stopping", Effect("stop-vm", 0, None)))

DecideRunning(i) ==
    IF i.journal.state = "draining" /\ i.queue.queued > 0 /\ i.guest.status = "drained"
       /\ HasGrant(i) /\ JobStillFits(i)
    THEN Authorized(i, "register", Decision("ready", Effect("resume-admission", 0, None)))
    ELSE IF i.queue.queued > 0 /\ i.guest.status = "ready"
    THEN IF ~HasGrant(i) \/ ~JobStillFits(i) THEN Blocked
         ELSE Authorized(i, "register",
                  Decision("ready", Effect("register-runner", 0,
                                           SafeCutoff(GrantDeadline(i), i.permit.expires))))
    ELSE IF i.journal.state = "draining" THEN DecideDraining(i)
    ELSE IF i.queue.queued = 0 /\ i.guest.status = "ready" /\ HasGrant(i) THEN BeginDrain(i)
    ELSE Stay(i.journal.state)

DecideLifecycle(i) ==
    IF LifetimeReached(i) THEN EmergencyStop(i)
    ELSE IF ~QueueFresh(i) THEN Blocked
    ELSE IF i.journal.intent.type = "create-vm" THEN DecideAdoption(i)
    ELSE IF i.provider.vmStatus = "absent" /\ i.provider.ownership = "absent"
            /\ i.provider.ownedMatches = 0
    THEN DecideAbsent(i)
    ELSE IF ~OwnedOne(i) \/ ~CertainEvidence(i) THEN Blocked
    ELSE IF i.journal.intent.type # "none" THEN Stay(i.journal.state)
    ELSE IF ForeignGrant(i) THEN Blocked
    ELSE IF OwnedJobBusy(i) THEN Stay("busy")
    ELSE IF i.provider.vmStatus = "stopped" THEN DecideStopped(i)
    ELSE IF i.provider.vmStatus = "running" THEN DecideRunning(i)
    ELSE Stay(i.journal.state)
=============================================================================
