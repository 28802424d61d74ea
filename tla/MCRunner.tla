------------------------------- MODULE MCRunner -------------------------------
(*****************************************************************************)
(* The runner service around its controller, checked component by component: *)
(* a behaviour is about one of them, and the others rest. Small is the       *)
(* instance on which liveness is checked.                                    *)
(*****************************************************************************)
EXTENDS ControllerLock, Integers, TLAPS

CONSTANTS
    Parts, Small,           \* Parts: the components this instance runs
    Operators,              \* direct actions: the processes that may run at once,
    MaxVm, MaxOps,          \*   bounds of the instances and operations counted,
    InterruptMayTimeOut,    \*   and whether an interrupt recovery may outlast its limit
    Runs, Jobs, Gated,      \* release: workflow runs, their jobs, those that read the switch,
    Interval, MaxPolls,     \*   its timing, and bounds on attempts, permits and failed calls
    MaxAttempts, MaxRenewals, MaxFails, MayRelease,
    MaxTime, MaxVms,        \* accounting: bounds on time, VMs, starts and bytes,
    MaxStarts, MaxBytes,
    Lifetime, MaxRuntime,   \*   the permit's run time and a generation's,
    JobAndMargin,           \*   and what a start must leave for its job
    Addresses, ClockStep,   \* calls: addresses of the guest, their clock, and the
    PollIntervalMs          \*   interval that limits them

VARIABLES part,   \* the component this behaviour is about
    record, lock, directPc, me, answer, permit, vm, ops, registered, assigned, listener,
    worker, journalUp, starts, sent, sentOps, stoppedBy,
    switch, service, renewals, routesVm, intent, run, job, killed, check, proc, fails,
    evidence, ready,
    text, kind, typed,
    now, accountVm, accountSent, file, journal, observed, truth,
    on, boots, uptime, generation, next, hung, sshFailed, helpers, bootReady, wd, wake,
    anchor, grant, arm, bootLock, stall, ended, ran, watched, faults,
    step, late, home, strangers, sshd, target, call, result, remote, armed, callFaults,
    good, installPc, attempts, cli, guest, runnerEnv, agent, code, digest, used,
    installPermit, fresh, newTick, operated, crashes,
    status, queueJob, obs, assignments, marker, steady, moved, moves, queueFails

\* runner stop, cleanup and interrupt recovery.
Direct == INSTANCE DirectAction WITH Procs <- Operators, MaxStarts <- MaxVm, pc <- directPc
ASSUME DirectConstants == Direct!DirectAssumption

\* The release of the routing switch by the controller.
Routes == INSTANCE RoutingRelease WITH PollInterval <- 1, BootTimeout <- 1, IdleGrace <- 1,
    MaxJob <- 2, ShutdownMargin <- 1, Lifetime <- 4, DrainFallback <- 1, CapacityBase <- 1,
    CapacityMax <- 4, DeleteAfterStop <- FALSE, ComputeRate <- 1, ProjectedStartCost <- 2,
    Warning <- 1, Procs <- {"controller"}, vm <- routesVm
ASSUME ReleaseConstants == Routes!ReleaseAssumption

\* A grid of permits, journals, clocks and file faults.
Parity == INSTANCE RoutingParity WITH PollInterval <- 1, BootTimeout <- 1, IdleGrace <- 1,
    MaxJob <- 2, ShutdownMargin <- 1, Lifetime <- 4, DrainFallback <- 1, CapacityBase <- 1,
    CapacityMax <- 4, DeleteAfterStop <- FALSE, ComputeRate <- 1, ProjectedStartCost <- 2,
    Warning <- 1, MaxNow <- 4, MaxExpiry <- 5, MaxRuntimes <- {2, 5}, MaxCosts <- {2, 4},
    OpSets <- {{"create", "start", "register", "release-routing"}, {"create", "start", "register"},
               {"start", "register", "release-routing"}}

\* Guards of up to three more tokens and scalars of up to five characters.
Gate == INSTANCE RoutingGate WITH MaxTyped <- 4, MaxScalar <- 5

\* Two instances, charged at observations of any distance.
Account == INSTANCE Accounting WITH vm <- accountVm, sent <- accountSent
ASSUME AccountConstants == Account!AccountingAssumption

\* A guest that is armed twice, once late ...
Grants == INSTANCE GuestBoot WITH Armers <- {"a1", "a2"}, Window <- 3, UnarmedWindow <- 2,
    Period <- 1, MaxStall <- 1, MaxBoots <- 2, MaxRan <- 3, MaxFaults <- 1,
    Failures <- {"watchdog"}, ready <- bootReady, lock <- bootLock
ASSUME Grants!BootAssumption
ASSUME Grants!InstalledAreWritten

\* ... one with a long grant ...
Life == INSTANCE GuestBoot WITH Armers <- {"a1"}, Window <- 5, UnarmedWindow <- 1,
                                Period <- 1, MaxStall <- 1, MaxBoots <- 2, MaxRan <- 30,
                                MaxFaults <- 0, Failures <- {}, ready <- bootReady,
                                lock <- bootLock
ASSUME Life!BootAssumption
ASSUME Life!InstalledAreWritten

\* ... one whose first boot fails ...
Unarmed == INSTANCE GuestBoot WITH Armers <- {"a1"}, Window <- 4, UnarmedWindow <- 4,
    Period <- 2, MaxStall <- 1, MaxBoots <- 2, MaxRan <- 2, MaxFaults <- 2,
    Failures <- {"safety", "ssh", "slow", "bootstrap", "watchdog"}, ready <- bootReady,
    lock <- bootLock
ASSUME Unarmed!BootAssumption
ASSUME Unarmed!InstalledAreWritten

\* ... and one whose first boot hangs.
Hung == INSTANCE GuestBoot WITH Armers <- {"a1"}, Window <- 2, UnarmedWindow <- 1,
                                Period <- 1, MaxStall <- 1, MaxBoots <- 1, MaxRan <- 9,
                                MaxFaults <- 1, Failures <- {"hang"}, ready <- bootReady,
                                lock <- bootLock
ASSUME Hung!BootAssumption
ASSUME Hung!InstalledAreWritten

\* Calls into a booting guest that may move to another address.
Calls == INSTANCE GuestCall WITH Step <- ClockStep, MaxFaults <- IF Small THEN 1 ELSE 2,
                                 faults <- callFaults
ASSUME CallConstants == Calls!PollIsValid

\* An installation while the agents of two enrollments run.
Agent == INSTANCE AgentInstall WITH Enrollments <- {"P1", "P2"}, Own <- "P1",
    MaxCrashes <- IF Small THEN 0 ELSE 1, MaxAttempts <- IF Small THEN 1 ELSE 2,
    pc <- installPc, permit <- installPermit
ASSUME Agent!OwnIsEnrolled

\* Two runs, observed while their status changes.
Queue == INSTANCE QueueObservation WITH Runs <- {"r1"}, MaxMoves <- IF Small THEN 0 ELSE 1,
    MaxFails <- 1, Strangers <- IF Small THEN {} ELSE {"other"}, job <- queueJob,
    fails <- queueFails
ASSUME Queue!QueueAssumption

directVars == <<record, lock, directPc, me, answer, permit, vm, ops, registered, assigned,
                listener, worker, journalUp, starts, sent, sentOps, stoppedBy>>
routesVars == <<switch, service, renewals, routesVm, intent, run, job, killed, check, proc,
                fails>>
parityVars == <<evidence, ready>>
gateVars == <<text, kind, typed>>
accountVars == <<now, accountVm, accountSent, file, journal, observed, truth>>
bootVars == <<on, boots, uptime, generation, next, hung, sshFailed, helpers, bootReady, wd,
              wake, anchor, grant, arm, bootLock, stall, ended, ran, watched, faults>>
callVars == <<step, late, home, strangers, sshd, target, call, result, remote, armed,
              callFaults>>
installVars == <<good, installPc, attempts, cli, guest, runnerEnv, agent, code, digest,
                 used, installPermit, fresh, newTick, operated, crashes>>
queueVars == <<status, queueJob, obs, assignments, marker, steady, moved, moves, queueFails>>
allVars == <<part, vars, directVars, routesVars, parityVars, gateVars, accountVars,
            bootVars, callVars, installVars, queueVars>>

\* One component runs; the others rest in an initial state of theirs.
MCInit ==
    /\ part \in Parts
    /\ part = "direct" \/ (vm = [id |-> 1, state |-> "stopped"])
    /\ part = "gate" \/ (kind = "scalar" /\ text = <<>>)
    /\ part = "call" \/ (home = "A")
    /\ part = "install" \/ (good = TRUE /\ runnerEnv = "old" /\ installPermit = [e \in {"P1", "P2"} |-> "old"])
    /\ part = "lock" \/ (path = Nobody /\ listening = {})
    /\ Init
    /\ Direct!Init
    /\ Routes!Init
    /\ Parity!Init
    /\ Gate!Init
    /\ Account!Init
    /\ IF part = "lifetime" THEN Life!Init ELSE IF part = "unarmed" THEN Unarmed!Init ELSE IF part = "hung" THEN Hung!Init ELSE Grants!Init
    /\ Calls!Init
    /\ Agent!Init
    /\ Queue!Init

\* A step of one component, which leaves the others as they are.
LockAlone == part = "lock" /\ UNCHANGED <<part, directVars, routesVars, parityVars,
                                          gateVars, accountVars, bootVars, callVars,
                                          installVars, queueVars>>
DirectAlone == part = "direct" /\ UNCHANGED <<part, vars, routesVars, parityVars, gateVars,
                                              accountVars, bootVars, callVars, installVars,
                                              queueVars>>
RoutesAlone == part = "release" /\ UNCHANGED <<part, vars, directVars, parityVars, gateVars,
                                               accountVars, bootVars, callVars, installVars,
                                               queueVars>>
ParityAlone == part = "parity" /\ UNCHANGED <<part, vars, directVars, routesVars, gateVars,
                                              accountVars, bootVars, callVars, installVars,
                                              queueVars>>
GateAlone == part = "gate" /\ UNCHANGED <<part, vars, directVars, routesVars, parityVars,
                                          accountVars, bootVars, callVars, installVars,
                                          queueVars>>
AccountAlone == part = "accounting" /\ UNCHANGED <<part, vars, directVars, routesVars,
                                                   parityVars, gateVars, bootVars, callVars,
                                                   installVars, queueVars>>
GrantsAlone == part = "grants" /\ UNCHANGED <<part, vars, directVars, routesVars,
                                              parityVars, gateVars, accountVars, callVars,
                                              installVars, queueVars>>
LifeAlone == part = "lifetime" /\ UNCHANGED <<part, vars, directVars, routesVars,
                                              parityVars, gateVars, accountVars, callVars,
                                              installVars, queueVars>>
UnarmedAlone == part = "unarmed" /\ UNCHANGED <<part, vars, directVars, routesVars,
                                                parityVars, gateVars, accountVars, callVars,
                                                installVars, queueVars>>
HungAlone == part = "hung" /\ UNCHANGED <<part, vars, directVars, routesVars, parityVars,
                                          gateVars, accountVars, callVars, installVars,
                                          queueVars>>
CallsAlone == part = "call" /\ UNCHANGED <<part, vars, directVars, routesVars, parityVars,
                                           gateVars, accountVars, bootVars, installVars,
                                           queueVars>>
AgentAlone == part = "install" /\ UNCHANGED <<part, vars, directVars, routesVars,
                                              parityVars, gateVars, accountVars, bootVars,
                                              callVars, queueVars>>
QueueAlone == part = "queue" /\ UNCHANGED <<part, vars, directVars, routesVars, parityVars,
                                            gateVars, accountVars, bootVars, callVars,
                                            installVars>>

MCNext ==
    \/ LockAlone /\ Next
    \/ DirectAlone /\ Direct!Next
    \/ RoutesAlone /\ Routes!Next
    \/ ParityAlone /\ Parity!Next
    \/ GateAlone /\ Gate!Next
    \/ AccountAlone /\ Account!Next
    \/ GrantsAlone /\ Grants!Next
    \/ LifeAlone /\ Life!Next
    \/ UnarmedAlone /\ Unarmed!Next
    \/ HungAlone /\ Hung!Next
    \/ CallsAlone /\ Calls!Next
    \/ AgentAlone /\ Agent!Next
    \/ QueueAlone /\ Queue!Next

MCSpec == MCInit /\ [][MCNext]_allVars

\* What is sure to go on.  Direct actions: processes end, operations settle, the
\* watchdog powers off, the operator repeats a stop and its reads do not fail
\* for ever.  Release: the loop ticks, calls return, GitHub ends what it agreed to
\* cancel, a VM boots, jobs are served and finish.
DirectFairness ==
    /\ \A p \in Operators : /\ WF_allVars(DirectAlone /\ (Direct!Step(p) \/ Direct!Fail(p)))
                            /\ SF_allVars(DirectAlone /\ Direct!Begin(p, "stop"))
                            /\ SF_allVars(DirectAlone /\ Direct!Recover(p))
    /\ WF_allVars(DirectAlone /\ Direct!World) /\ SF_allVars(DirectAlone /\ Direct!PowerOff)

ReleaseFairness ==
    /\ WF_allVars(RoutesAlone /\ Routes!Tick) /\ WF_allVars(RoutesAlone /\ Routes!ProcStep("controller"))
    /\ \A r \in Runs : WF_allVars(RoutesAlone /\ Routes!CancelTakesEffect(r))
    /\ \A r \in Runs, j \in Jobs : /\ WF_allVars(RoutesAlone /\ Routes!JobFinish(r, j))
                                    /\ WF_allVars(RoutesAlone /\ Routes!JobStart(r, j))
    /\ WF_allVars(RoutesAlone /\ Routes!VmBoots) /\ WF_allVars(RoutesAlone /\ Routes!VmUp)

\* Queue: the loop observes for ever and jobs end.  Guest: time passes and a
\* script that runs makes its steps; nothing is assumed of cloud-init.
QueueFairness ==
    /\ WF_allVars(QueueAlone /\ Queue!Observing)
    /\ WF_allVars(QueueAlone /\ Queue!JobEnds("r1")) /\ WF_allVars(QueueAlone /\ Queue!RunEnds("r1"))

HungFairness ==
    /\ WF_allVars(HungAlone /\ Hung!Tick) /\ WF_allVars(HungAlone /\ Hung!Watchdog)
    /\ WF_allVars(HungAlone /\ Hung!ArmStep("a1"))

\* Calls: processes run, launchd restarts, the network answers what it owes, and
\* SIGKILL works; nothing makes ssh obey SIGTERM.  Installation: its next command
\* and what launchd owes are done, a teardown outlasts fewer than MaxAttempts.
CallFairness ==
    /\ WF_allVars(CallsAlone /\ Calls!BeginTick) /\ WF_allVars(CallsAlone /\ Calls!Restart)
    /\ WF_allVars(CallsAlone /\ Calls!Spawn) /\ WF_allVars(CallsAlone /\ Calls!Refused)
    /\ WF_allVars(CallsAlone /\ Calls!Connected) /\ WF_allVars(CallsAlone /\ Calls!ConnectTimesOut)
    /\ WF_allVars(CallsAlone /\ Calls!HelperReplies) /\ WF_allVars(CallsAlone /\ Calls!Tick)
    /\ WF_allVars(CallsAlone /\ Calls!TimerFires) /\ WF_allVars(CallsAlone /\ Calls!Killed)

AgentFairness ==
    /\ WF_allVars(AgentAlone /\ Agent!Install)
    /\ \A e \in {"P1", "P2"} : /\ WF_allVars(AgentAlone /\ Agent!Process(e))
                               /\ WF_allVars(AgentAlone /\ Agent!TearDownEnds(e))
                               /\ WF_allVars(AgentAlone /\ Agent!Tick(e))

MCFairSpec ==
    /\ MCSpec /\ DirectFairness /\ ReleaseFairness /\ QueueFairness
    /\ HungFairness /\ CallFairness /\ AgentFairness

-----------------------------------------------------------------------------
\* Every file, process and resource of every component is in one of its
\* states.
MCTypeOK ==
    /\ part = "direct" => Direct!DirectTypeOK
    /\ part = "release" => Routes!ReleaseTypeOK
    /\ part = "queue" => Queue!QueueTypeOK
    /\ part = "call" => Calls!TypeOK
    /\ part = "install" => Agent!TypeOK
    /\ part = "grants" => Grants!TypeOK
    /\ part = "lifetime" => Life!TypeOK
    /\ part = "unarmed" => Unarmed!TypeOK

\* No job is cut short: a direct action stops no VM under a job although every
\* look at queue, runner and guest is older than its request (mutateOwned,
\* drain.sh), and the release of routing force-cancels neither a hosted job in
\* progress (selectStrandedRuns) nor one the owned runner has begun
\* (ownedRunnerMayTakeJobs).
NoJobCutShort ==
    /\ part = "direct" => Direct!NoJobStopped
    /\ part = "release" => Routes!HostedJobNeverKilled /\ Routes!RunnerJobNeverKilled

\* The accounting of runner-service.ts charges, over restarts of guest and
\* controller, all run time but what no observation could see, within the
\* permit but for the same rest; a disk from its first observation to its last;
\* and the bytes a generation sent once.
ChargedInFull ==
    part = "accounting" =>
        /\ Account!RuntimeCharged /\ Account!RuntimeWithinPermit
        /\ Account!DiskCharged /\ Account!BytesCharged

\* A grant on disk only moves to the next generation and keeps its window
\* (arm-grant.sh, watchdog.sh); a guest whose watchdog lives is powered off
\* within its grant and two turns per boot, and an unarmed one within the
\* window of the first watchdog of its boot.
GrantsHold ==
    /\ Grants!GrantsAreImmutable
    /\ [](part = "lifetime" => Life!LifetimeBounded)
    /\ [](part = "unarmed" => Unarmed!UnarmedBounded)

\* One record of a direct action stands for at most two requests, the second
\* after the operation of the first has ended (recoverDirectEmission); the
\* answer done is right at that moment (mutateOwned); and a helper only ever
\* runs in the own VM (runGuest, known_hosts).
StepsAreSafe == Direct!SecondRequestWaits /\ Direct!DoneIsTrue /\ Calls!RanAtHome

\* What the service takes for true is true. Queue: no observation forgets a job
\* that ran from its first read to its last, a complete one misses a queued job
\* only if its run changed status between the reads, and assignments.json calls
\* no running job over (buildQueueSnapshot, observeQueue, mergeAssignments).
\* Guest: a call retried as not ready never reached its helper, one that timed
\* out had a session (classifySshReadinessFailure, sshAttemptTiming). Routing: a
\* clean release left no job cancelled; assessService agrees with the start
\* budget and a green row strands no job; an accepted guard is pinned, a
\* stricter one accepted, a quoted scalar read as written. Agent: an
\* installation that ends before its switch changed nothing, and a controller
\* acts only as the release its permit names (executableDigest).
TakenForTrue ==
    /\ MCTypeOK
    /\ part = "queue" =>
        Queue!BusyNeverForgotten /\ Queue!MissNeedsMove /\ Queue!AssignmentsTruthful
    /\ part = "call" => Calls!TransientNeverRan /\ Calls!TimeoutMeansSession
    /\ part = "release" => Routes!CleanReportTrue
    /\ part = "parity" => Parity!ServiceIsStartBudget /\ Parity!GreenRowIsSafe
    /\ part = "gate" =>
        Gate!AcceptedGuardPins /\ Gate!StricterGuardAccepted /\ Gate!ScalarReadsBack
    /\ part = "install" => Agent!NothingBeforeSwitch /\ Agent!ActsAsPermitted

\* What a component has begun, and how it ends; release and guest calls have two
\* such obligations.
Begun(k) ==
    \/ part = "direct" /\ Direct!StopCutOff
    \/ part = "release" /\ Routes!Stranded(<<"r1", <<"j1", "j2">>[k]>>)
    \/ part = "queue" /\ Queue!OverButAssigned("r1")
    \/ part = "hung" /\ Hung!HungBoot
    \/ part = "call" /\ IF k = 1 THEN Calls!CallRuns ELSE Calls!ReachableUnarmed
    \/ part = "install" /\ Agent!GoesThrough

Over(k) ==
    \/ part = "direct" /\ ~Direct!StopCutOff
    \/ part = "release" /\ ~Routes!Stranded(<<"r1", <<"j1", "j2">>[k]>>)
    \/ part = "queue" /\ Queue!AssignmentClosed("r1")
    \/ part = "hung" /\ ~on
    \/ part = "call" /\ ~IF k = 1 THEN Calls!CallRuns ELSE Calls!ReachableUnarmed
    \/ part = "install" /\ Agent!OthersAreBack

\* What the service has begun ends: a stop that was cut off is taken up
\* (recoverDirectEmission), stranded jobs leave the label once service has ended
\* for good (routing.ts), every assignment is closed after its job
\* (mergeAssignments), a first boot that hangs is powered off (cloud-init), a
\* call comes to a result although ssh ignores SIGTERM (runProcess), a guest
\* that stays reachable is armed, and after an installation that goes through
\* every other agent comes back (install-runner-agent.sh, launchd).
WorkEnds == \A k \in 1 .. 2 : Begun(k) ~> Over(k)

-----------------------------------------------------------------------------
(***************************************************************************)
(* The controller lock, for any number of controllers of either version.   *)
(***************************************************************************)

\* Before any process tries, at most one older controller runs, at the path.
LEMMA LockInitially == Init => LockInv
BY LockAssumption DEF Init, LockInv, LockTypeOK, Stages, FileLockGuards, BoundIsReachable,
                      LegacyIsReachable, StaleStaysStale

\* Moving one process changes no other process's stage.
LEMMA GoToMoves ==
    ASSUME NEW p \in Current, NEW stage \in Stages, LockTypeOK, GoTo(p, stage)
    PROVE  /\ pc' \in [Current -> Stages] /\ pc'[p] = stage
           /\ \A q \in Current : q # p => pc'[q] = pc[q]
BY DEF LockTypeOK, GoTo

\* Giving up leaves the socket alone and frees the file lock.
LEMMA GiveUpPreserves ==
    ASSUME LockInv, NEW p \in Current, pc[p] # "idle", GiveUp(p)
    PROVE  LockInv'
<1>1. "idle" \in Stages
  BY DEF Stages
<1>2. /\ pc' \in [Current -> Stages] /\ pc'[p] = "idle"
      /\ \A q \in Current : q # p => pc'[q] = pc[q]
  BY <1>1, GoToMoves DEF GiveUp, LockInv
<1>3. \A q \in Current : q # p => pc[q] = "idle"
  BY DEF LockInv, FileLockGuards
<1> QED
  BY <1>2, <1>3 DEF LockInv, LockTypeOK, FileLockGuards, BoundIsReachable,
                    LegacyIsReachable, StaleStaysStale, GiveUp

\* A free path means that no older controller runs, so binding it is safe.
LEMMA BindPreserves ==
    ASSUME LockInv, NEW p \in Current, pc[p] # "idle", Bind(p)
    PROVE  LockInv'
<1>1. "bound" \in Stages
  BY DEF Stages
<1>2. /\ pc' \in [Current -> Stages] /\ pc'[p] = "bound"
      /\ \A q \in Current : q # p => pc'[q] = pc[q]
  BY <1>1, GoToMoves DEF Bind, LockInv
<1>3. fileLock = p /\ \A q \in Current : q # p => pc[q] = "idle"
  BY DEF LockInv, FileLockGuards
<1>4. Legacy \cap listening = {} /\ p \notin Legacy
  BY LockAssumption DEF LockInv, LegacyIsReachable, Bind
<1> QED
  BY <1>2, <1>3, <1>4 DEF LockInv, LockTypeOK, FileLockGuards, BoundIsReachable,
                          LegacyIsReachable, StaleStaysStale, Bind

\* No step of an acquisition breaks the invariant.
LEMMA AcquirePreserves ==
    ASSUME LockInv, NEW p \in Current, Acquire(p)
    PROVE  LockInv'
<1>1. CASE LockFile(p)
  <2>1. "locked" \in Stages
    BY DEF Stages
  <2>2. /\ pc' \in [Current -> Stages] /\ pc'[p] = "locked"
        /\ \A q \in Current : q # p => pc'[q] = pc[q]
    BY <1>1, <2>1, GoToMoves DEF LockFile, LockInv
  <2>3. \A q \in Current : pc[q] = "idle"
    BY <1>1, LockAssumption DEF LockInv, FileLockGuards, LockFile
  <2> QED
    BY <1>1, <2>2, <2>3 DEF LockInv, LockTypeOK, FileLockGuards, BoundIsReachable,
                            LegacyIsReachable, StaleStaysStale, LockFile
<1>2. CASE Listen(p)
  <2>1. CASE Bind(p)
    BY <1>2, <2>1, BindPreserves DEF Listen
  <2>2. CASE path # Nobody /\ GoTo(p, "probe") /\ UNCHANGED <<fileLock, path, listening>>
    <3>1. "probe" \in Stages
      BY DEF Stages
    <3>2. /\ pc' \in [Current -> Stages] /\ pc'[p] = "probe"
          /\ \A q \in Current : q # p => pc'[q] = pc[q]
      BY <2>2, <3>1, GoToMoves DEF LockInv
    <3> QED
      BY <1>2, <2>2, <3>2 DEF LockInv, LockTypeOK, FileLockGuards, BoundIsReachable,
                              LegacyIsReachable, StaleStaysStale, Listen
  <2> QED
    BY <1>2, <2>1, <2>2 DEF Listen
<1>3. CASE Probe(p)
  <2>1. CASE ~SocketIsHeld /\ GoTo(p, "unlink") /\ UNCHANGED <<fileLock, path, listening>>
    <3>1. "unlink" \in Stages
      BY DEF Stages
    <3>2. /\ pc' \in [Current -> Stages] /\ pc'[p] = "unlink"
          /\ \A q \in Current : q # p => pc'[q] = pc[q]
      BY <2>1, <3>1, GoToMoves DEF LockInv
    <3>3. Legacy \cap listening = {}
      BY <2>1 DEF LockInv, LegacyIsReachable, SocketIsHeld
    <3> QED
      BY <1>3, <2>1, <3>2, <3>3 DEF LockInv, LockTypeOK, FileLockGuards, BoundIsReachable,
                                    LegacyIsReachable, StaleStaysStale, Probe
  <2>2. CASE GiveUp(p)
    BY <1>3, <2>2, GiveUpPreserves DEF Probe
  <2> QED
    BY <1>3, <2>1, <2>2 DEF Probe
<1>4. CASE Unlink(p)
  <2>1. "rebind" \in Stages
    BY DEF Stages
  <2>2. /\ pc' \in [Current -> Stages] /\ pc'[p] = "rebind"
        /\ \A q \in Current : q # p => pc'[q] = pc[q]
    BY <1>4, <2>1, GoToMoves DEF Unlink, LockInv
  <2>3. fileLock = p /\ \A q \in Current : q # p => pc[q] = "idle"
    BY <1>4 DEF LockInv, FileLockGuards, Unlink
  <2>4. Legacy \cap listening = {}
    BY <1>4 DEF LockInv, StaleStaysStale, Unlink
  <2> QED
    BY <1>4, <2>2, <2>3, <2>4 DEF LockInv, LockTypeOK, FileLockGuards, BoundIsReachable,
                                  LegacyIsReachable, StaleStaysStale, Unlink
<1>5. CASE Rebind(p)
  BY <1>5, BindPreserves, GiveUpPreserves DEF Rebind
<1>6. CASE AcquisitionFails(p)
  BY <1>6, GiveUpPreserves DEF AcquisitionFails
<1>7. CASE Grant(p)
  <2>1. "held" \in Stages
    BY DEF Stages
  <2>2. /\ pc' \in [Current -> Stages] /\ pc'[p] = "held"
        /\ \A q \in Current : q # p => pc'[q] = pc[q]
    BY <1>7, <2>1, GoToMoves DEF Grant, LockInv
  <2> QED
    BY <1>7, <2>2 DEF LockInv, LockTypeOK, FileLockGuards, BoundIsReachable,
                      LegacyIsReachable, StaleStaysStale, Grant
<1> QED
  BY <1>1, <1>2, <1>3, <1>4, <1>5, <1>6, <1>7 DEF Acquire

\* Closing the server removes the closer's own socket and nobody else's.
LEMMA ReleasePreserves ==
    ASSUME LockInv, NEW p \in Current, Release(p)
    PROVE  LockInv'
<1>1. CASE CloseServer(p)
  <2>1. "closing" \in Stages
    BY DEF Stages
  <2>2. /\ pc' \in [Current -> Stages] /\ pc'[p] = "closing"
        /\ \A q \in Current : q # p => pc'[q] = pc[q]
    BY <1>1, <2>1, GoToMoves DEF CloseServer, LockInv
  <2>3. fileLock = p /\ \A q \in Current : q # p => pc[q] = "idle"
    BY <1>1 DEF LockInv, FileLockGuards, CloseServer
  <2>4. Legacy \cap listening = {}
    BY <1>1, LockAssumption DEF LockInv, BoundIsReachable, LegacyIsReachable, CloseServer
  <2> QED
    BY <1>1, <2>2, <2>3, <2>4 DEF LockInv, LockTypeOK, FileLockGuards, BoundIsReachable,
                                  LegacyIsReachable, StaleStaysStale, CloseServer
<1>2. CASE CloseDatabase(p)
  BY <1>2, GiveUpPreserves DEF CloseDatabase, GiveUp
<1> QED
  BY <1>1, <1>2 DEF Release

\* A death frees the file lock of the dead process only.
LEMMA DiePreserves ==
    ASSUME LockInv, NEW p \in Current, Die(p)
    PROVE  LockInv'
<1>1. "idle" \in Stages
  BY DEF Stages
<1>2. /\ pc' \in [Current -> Stages] /\ pc'[p] = "idle"
      /\ \A q \in Current : q # p => pc'[q] = pc[q]
  BY <1>1, GoToMoves DEF Die, LockInv
<1>3. \A q \in Current : q # p => pc[q] = "idle"
  BY DEF LockInv, FileLockGuards, Die
<1> QED
  BY <1>2, <1>3 DEF LockInv, LockTypeOK, FileLockGuards, BoundIsReachable,
                    LegacyIsReachable, StaleStaysStale, Die

\* An older controller that ends takes only its own socket with it.
LEMMA LegacyPreserves ==
    ASSUME LockInv, NEW p \in Legacy, LegacyCloses(p) \/ LegacyDies(p)
    PROVE  LockInv'
<1>1. path = p /\ p \notin Current /\ \A q \in Legacy \cap listening : q = p
  BY LockAssumption DEF LockInv, LegacyIsReachable, LegacyCloses, LegacyDies
<1>2. \A q \in Current : pc[q] \notin {"bound", "held"}
  BY <1>1 DEF LockInv, BoundIsReachable
<1> QED
  BY <1>1, <1>2 DEF LockInv, LockTypeOK, FileLockGuards, BoundIsReachable,
                    LegacyIsReachable, StaleStaysStale, LegacyCloses, LegacyDies

\* The lock's inductive invariant holds in every reachable state of
\* acquireControllerLock and release, for any set of processes.
THEOREM LockInvariant == Spec => []LockInv
<1>1. LockInv /\ [Next]_vars => LockInv'
  <2> SUFFICES ASSUME LockInv, [Next]_vars PROVE LockInv'
    OBVIOUS
  <2>1. CASE Next
    BY <2>1, AcquirePreserves, ReleasePreserves, DiePreserves, LegacyPreserves DEF Next
  <2>2. CASE UNCHANGED vars
    BY <2>2 DEF vars, LockInv, LockTypeOK, FileLockGuards, BoundIsReachable,
                LegacyIsReachable, StaleStaysStale
  <2> QED
    BY <2>1, <2>2
<1> QED
  BY <1>1, LockInitially, PTL DEF Spec

\* acquireControllerLock: at most one process, an older controller that was
\* already running included, holds the state directory at any time.
THEOREM LockExcludes == Spec => []Exclusive
<1>1. LockInv => Exclusive
  BY DEF LockInv, FileLockGuards, BoundIsReachable, LegacyIsReachable, Exclusive, Holders
<1> QED
  BY <1>1, LockInvariant, PTL

\* acquireControllerLock: nobody unlinks or replaces the socket of a live holder.
THEOREM HolderStaysReachable == Spec => []HolderIsReachable
<1>1. LockInv => HolderIsReachable
  BY DEF LockInv, BoundIsReachable, LegacyIsReachable, HolderIsReachable, Holders
<1> QED
  BY <1>1, LockInvariant, PTL

-----------------------------------------------------------------------------
(***************************************************************************)
(* The calls into the guest, for any poll interval and any addresses.      *)
(***************************************************************************)

(* No process. *)
LEMMA NoCallIs == /\ DOMAIN Calls!NoCall = {"stage", "address", "age", "timedOut", "ran"}
                  /\ Calls!NoCall.stage = "none" /\ Calls!NoCall.age = 0
                  /\ ~Calls!NoCall.timedOut /\ ~Calls!NoCall.ran
BY DEF Calls!NoCall

(* A failed call keeps what it did. *)
LEMMA FailedIs ==
    ASSUME NEW s
    PROVE  /\ Calls!Failed(s).reason = s /\ Calls!Failed(s).ran = call.ran
           /\ DOMAIN Calls!Failed(s) = {"reason", "exit", "ran", "at"}
BY DEF Calls!Failed

(* sshAttemptTiming: for every poll interval the configuration accepts, ssh  *)
(* gives up at least a second before its process is killed.                  *)
LEMMA TimingFits ==
    ASSUME Calls!PollIsValid
    PROVE  /\ Calls!ProcessTimeout \in Nat /\ Calls!ConnectTimeout \in Int /\ Calls!ProcessTimeout >= 2000
           /\ Calls!ConnectTimeout + 1000 <= Calls!ProcessTimeout /\ ClockStep <= 1000
<1>1. Calls!ProcessTimeout \in Nat /\ Calls!ProcessTimeout >= 2000
  BY DEF Calls!PollIsValid, Calls!ProcessTimeout, Calls!Timing
<1> DEFINE q == (Calls!ProcessTimeout - 1000) \div 1000
<1>2. q \in Int /\ 1000 * q <= Calls!ProcessTimeout - 1000
  BY <1>1
<1>3. Calls!ConnectTimeout = 1000 * q
  BY DEF Calls!ConnectTimeout, Calls!ProcessTimeout, Calls!Timing
<1>4. ClockStep <= 1000
  <2>1. CASE ClockStep > 1000
    <3>1. 1000 % ClockStep = 1000
      BY <2>1 DEF Calls!PollIsValid
    <3> QED
      BY <3>1 DEF Calls!PollIsValid
  <2> QED
    BY <2>1 DEF Calls!PollIsValid
<1> QED
  BY <1>1, <1>2, <1>3, <1>4

(* Before the first call. *)
LEMMA CallInitially == ASSUME Calls!PollIsValid, Calls!Init PROVE Calls!CallInv
<1>1. call = Calls!NoCall /\ result.reason = "none"
  BY DEF Calls!Init, Calls!NoResult
<1> QED
  BY <1>1, NoCallIs DEF Calls!CallInv, Calls!CallTyped, Calls!TransientNeverRan,
     Calls!TimeoutMeansSession, Calls!Transient

(* A process that closes is classified by what it did. *)
LEMMA CloseKeeps ==
    ASSUME Calls!CallInv, NEW r, Calls!Close(r), DOMAIN r = {"reason", "exit", "ran", "at"},
           r.reason \in Calls!Transient => ~r.ran, r.reason = "attempt-timeout" => r.ran,
           call.timedOut => r.ran
    PROVE  Calls!CallInv'
<1> DEFINE c == Calls!Classified(r)
<1>1. result' = c /\ call' = Calls!NoCall
  BY Zenon DEF Calls!Close
<1>2. \/ c = r
      \/ c = [r EXCEPT !.reason = "helper"]
      \/ c = [r EXCEPT !.reason = "attempt-timeout"] /\ call.timedOut
  BY Zenon DEF Calls!Classified
<1>3. (c.reason \in Calls!Transient => ~c.ran) /\ (c.reason = "attempt-timeout" => c.ran)
  BY <1>2 DEF Calls!Transient
<1> HIDE DEF c
<1> QED
  BY <1>1, <1>3, NoCallIs DEF Calls!CallInv, Calls!CallTyped, Calls!TransientNeverRan,
     Calls!TimeoutMeansSession

(* A call that has no session yet fails without having run its helper. *)
LEMMA FailedKeeps ==
    ASSUME Calls!CallInv, NEW s, Calls!Close(Calls!Failed(s)), s # "attempt-timeout",
           s \in Calls!Transient => call.stage = "connect"
    PROVE  Calls!CallInv'
<1>1. PICK r : r = Calls!Failed(s)
  OBVIOUS
<1>2. Calls!Close(r)
  BY <1>1
<1>3. /\ DOMAIN r = {"reason", "exit", "ran", "at"} /\ r.reason = s /\ r.ran = call.ran
  BY <1>1, FailedIs
<1> QED
  BY <1>2, <1>3, CloseKeeps DEF Calls!CallInv

(* No step breaks the invariant. *)
LEMMA CallSteps ==
    ASSUME Calls!PollIsValid, Calls!CallInv, [Calls!Next]_(Calls!vars)
    PROVE  Calls!CallInv'
<1>1. CASE \/ Calls!ListenerChanges \/ Calls!AddressMoves \/ Calls!DeadlinePasses
           \/ Calls!BeginTick \/ Calls!Restart \/ Calls!OrphanEnds \/ UNCHANGED Calls!vars
  <2>1. call' = call /\ result' = result
    BY <1>1 DEF Calls!ListenerChanges, Calls!AddressMoves, Calls!DeadlinePasses, Calls!BeginTick,
       Calls!Restart, Calls!OrphanEnds, Calls!vars
  <2> QED
    BY <2>1 DEF Calls!CallInv, Calls!CallTyped, Calls!TransientNeverRan,
       Calls!TimeoutMeansSession
<1>2. CASE Calls!Spawn
  <2>1. result' = result /\ call' = [Calls!NoCall EXCEPT !.stage = "connect", !.address = target]
    BY <1>2 DEF Calls!Spawn
  <2>2. Calls!CallTyped' /\ call'.stage = "connect" /\ call'.age = 0 /\ ~call'.ran /\ ~call'.timedOut
    BY <2>1, NoCallIs DEF Calls!CallTyped
  <2> QED
    BY <2>1, <2>2, TimingFits DEF Calls!CallInv, Calls!TransientNeverRan,
       Calls!TimeoutMeansSession
<1>3. CASE Calls!Refused
  <2>1. PICK s \in Calls!Transient \cup {"authentication"} : Calls!Close(Calls!Failed(s))
    BY <1>3 DEF Calls!Refused, Calls!Transient
  <2>2. call.stage = "connect"
    BY <1>3 DEF Calls!Refused
  <2> QED
    BY <2>1, <2>2, FailedKeeps DEF Calls!Transient
<1>4. CASE Calls!Connected
  <2>1. CASE Calls!KeyAccepted
    <3>1. call' = [call EXCEPT !.stage = "session", !.ran = TRUE] /\ result' = result
      BY <1>4, <2>1 DEF Calls!Connected
    <3>2. Calls!CallTyped' /\ call'.stage = "session" /\ call'.ran
      BY <3>1 DEF Calls!CallInv, Calls!CallTyped
    <3> QED
      BY <3>1, <3>2 DEF Calls!CallInv, Calls!TransientNeverRan, Calls!TimeoutMeansSession
  <2>2. CASE ~Calls!KeyAccepted
    BY <1>4, <2>2, FailedKeeps DEF Calls!Connected, Calls!Transient
  <2> QED
    BY <2>1, <2>2
<1>5. CASE Calls!ConnectTimesOut
  <2>1. call.stage = "connect" /\ \E s \in {"unknown", "connection-timeout"} : Calls!Close(Calls!Failed(s))
    BY <1>5 DEF Calls!ConnectTimesOut
  <2> QED
    BY <2>1, FailedKeeps
<1>6. CASE Calls!HelperReplies
  <2>1. PICK reply \in {0, 3, 4} :
          Calls!Close([reason |-> IF reply = 0 THEN "ok" ELSE "helper", exit |-> reply,
                       ran |-> TRUE, at |-> call.address])
    BY <1>6 DEF Calls!HelperReplies
  <2>2. PICK r : r = [reason |-> IF reply = 0 THEN "ok" ELSE "helper", exit |-> reply,
                      ran |-> TRUE, at |-> call.address]
    OBVIOUS
  <2>3. DOMAIN r = {"reason", "exit", "ran", "at"} /\ r.ran /\ r.reason \in {"ok", "helper"}
    BY <2>2
  <2>4. Calls!Close(r)
    BY <2>1, <2>2
  <2> QED
    BY <2>3, <2>4, CloseKeeps DEF Calls!Transient
<1>7. CASE Calls!Drop \/ Calls!Obeys \/ Calls!Killed
  <2>1. Calls!Close(Calls!Failed("unknown"))
    BY <1>7 DEF Calls!Drop, Calls!Dropped, Calls!Obeys, Calls!Killed
  <2> QED
    BY <2>1, FailedKeeps DEF Calls!Transient
<1>8. CASE Calls!Tick
  <2>1. /\ call' = [call EXCEPT !.age = @ + ClockStep] /\ result' = result
        /\ call.stage = "connect" => call.age < Calls!ConnectTimeout
    BY <1>8 DEF Calls!Tick
  <2>2. /\ DOMAIN call' = DOMAIN call /\ call'.stage = call.stage /\ call'.age = call.age + ClockStep
        /\ call'.ran = call.ran /\ call'.timedOut = call.timedOut
    BY <2>1 DEF Calls!CallInv, Calls!CallTyped
  <2>3. call.age \in Nat /\ ClockStep \in Nat
    BY DEF Calls!CallInv, Calls!CallTyped, Calls!PollIsValid
  <2>4. call.stage = "connect" => call.age + ClockStep < Calls!ProcessTimeout
    BY <2>1, <2>3, TimingFits
  <2> QED
    BY <2>1, <2>2, <2>3, <2>4 DEF Calls!CallInv, Calls!CallTyped, Calls!TransientNeverRan,
       Calls!TimeoutMeansSession
<1>9. CASE Calls!TimerFires
  <2>1. /\ call' = [call EXCEPT !.stage = "dying", !.timedOut = TRUE] /\ result' = result
        /\ call.stage = "connect" => call.age >= Calls!ProcessTimeout
        /\ call.stage \in {"connect", "session"}
    BY <1>9 DEF Calls!TimerFires
  <2>2. call.stage = "session"
    BY <2>1, TimingFits DEF Calls!CallInv, Calls!CallTyped
  <2>3. Calls!CallTyped' /\ call'.stage = "dying" /\ call'.ran = call.ran
    BY <2>1 DEF Calls!CallInv, Calls!CallTyped
  <2> QED
    BY <2>1, <2>2, <2>3 DEF Calls!CallInv, Calls!TransientNeverRan, Calls!TimeoutMeansSession
<1> QED
  BY <1>1, <1>2, <1>3, <1>4, <1>5, <1>6, <1>7, <1>8, <1>9 DEF Calls!Next

(* classifySshReadinessFailure: a call retried as not ready never reached    *)
(* its helper, and one that timed out had a session.                         *)
THEOREM CallsAreJudgedRight ==
    Calls!PollIsValid /\ Calls!Spec => [](Calls!TransientNeverRan /\ Calls!TimeoutMeansSession)
<1> SUFFICES ASSUME Calls!PollIsValid
             PROVE  Calls!Spec => [](Calls!TransientNeverRan /\ Calls!TimeoutMeansSession)
  OBVIOUS
<1>1. Calls!CallInv => Calls!TransientNeverRan /\ Calls!TimeoutMeansSession
  BY DEF Calls!CallInv
<1> QED
  BY <1>1, CallInitially, CallSteps, PTL DEF Calls!Spec

(* runGuest, known_hosts: a helper only ever runs in the own VM, whatever    *)
(* address the controller read.                                              *)
THEOREM HelpersRunAtHome == Calls!PollIsValid /\ Calls!Spec => Calls!RanAtHome
<1> SUFFICES ASSUME Calls!PollIsValid
             PROVE  Calls!Spec => Calls!RanAtHome
  OBVIOUS
<1>1. Calls!CallInv /\ [Calls!Next]_(Calls!vars) =>
        [call'.ran /\ ~call.ran => call'.address = home]_(Calls!vars)
  <2> SUFFICES ASSUME Calls!CallInv, Calls!Next, call'.ran, ~call.ran
               PROVE  call'.address = home
    OBVIOUS
  <2>1. ASSUME NEW r, Calls!Close(r) PROVE FALSE
    BY <2>1 DEF Calls!Close, Calls!NoCall
  <2>2. ~(\/ Calls!Refused \/ Calls!ConnectTimesOut \/ Calls!HelperReplies
          \/ Calls!Drop \/ Calls!Obeys \/ Calls!Killed)
    BY <2>1, Zenon DEF Calls!Refused, Calls!ConnectTimesOut, Calls!HelperReplies, Calls!Drop,
       Calls!Obeys, Calls!Killed
  <2>3. Calls!Connected
    <3>1. ASSUME \/ Calls!ListenerChanges \/ Calls!AddressMoves \/ Calls!DeadlinePasses
                 \/ Calls!BeginTick \/ Calls!Restart \/ Calls!OrphanEnds
          PROVE  FALSE
      BY <3>1 DEF Calls!ListenerChanges, Calls!AddressMoves, Calls!DeadlinePasses,
         Calls!BeginTick, Calls!Restart, Calls!OrphanEnds
    <3>2. ASSUME Calls!Spawn \/ Calls!Tick \/ Calls!TimerFires
          PROVE  FALSE
      <4>1. \/ call' = [Calls!NoCall EXCEPT !.stage = "connect", !.address = target]
            \/ call' = [call EXCEPT !.age = @ + ClockStep]
            \/ call' = [call EXCEPT !.stage = "dying", !.timedOut = TRUE]
        BY <3>2 DEF Calls!Spawn, Calls!Tick, Calls!TimerFires
      <4>2. ~call'.ran
        BY <4>1, NoCallIs DEF Calls!CallInv, Calls!CallTyped
      <4> QED
        BY <4>2
    <3> QED
      BY <2>2, <3>1, <3>2 DEF Calls!Next
  <2>4. call' = [call EXCEPT !.stage = "session", !.ran = TRUE] /\ call.address = home /\ home' = home
    BY <2>1, <2>3, Zenon DEF Calls!Connected, Calls!KeyAccepted, Calls!world
  <2> QED
    BY <2>4 DEF Calls!CallInv, Calls!CallTyped
<1> QED
  BY <1>1, CallInitially, CallSteps, PTL DEF Calls!RanAtHome, Calls!Spec

-----------------------------------------------------------------------------
(***************************************************************************)
(* The accounting, for any permit and any bounds.                          *)
(***************************************************************************)

(* The file readAccounting begins with. *)
LEMMA FreshIs ==
    ASSUME Account!AccountingAssumption
    PROVE  /\ Account!FileTyped(Account!Fresh) /\ ~Account!Fresh.there
           /\ Account!Fresh.generation = 0 /\ Account!Fresh.diskStarted = Account!None
           /\ Account!Fresh.bytes = 0 /\ Account!Fresh.disk = 0
           /\ Account!None \in Nat /\ Account!None = MaxTime + 1
           /\ {MaxTime, MaxVms, Lifetime, MaxRuntime, MaxStarts, JobAndMargin, MaxBytes} \subseteq Nat
BY DEF Account!AccountingAssumption, Account!FileTyped, Account!Fresh, Account!None

(* Before the first tick. *)
LEMMA AccountInitially ==
    ASSUME Account!AccountingAssumption, Account!Init
    PROVE  Account!AccountInv
<1>1. /\ now = 0 /\ accountVm = "absent" /\ accountSent = 0 /\ file = Account!Fresh
      /\ DOMAIN journal = {"starts", "runtime", "grantStarted", "deadline", "create"}
      /\ journal.starts = 0 /\ journal.runtime = 0 /\ journal.grantStarted = Account!None
      /\ journal.deadline = 0 /\ journal.create = Account!None
      /\ ~observed.on /\ observed.runtime = 0 /\ observed.tail = 0
  BY DEF Account!Init, Account!NoTick
<1>2. /\ Account!TruthTyped /\ truth.run = 0 /\ truth.disk = 0
      /\ truth.bytes = 0 /\ truth.tail = 0 /\ truth.dark = 0
      /\ truth.darkDisk = 0 /\ truth.lost = 0 /\ truth.lostDisk = 0 /\ truth.missed = 0
  BY DEF Account!Init, Account!TruthTyped
<1> QED
  BY <1>1, <1>2, FreshIs DEF Account!AccountInv, Account!AccountTyped, Account!NothingYet,
     Account!GenerationRuns, Account!ObservedEnough, Account!BytesRead, Account!DiskSeen,
     Account!RuntimeCharged, Account!DiskCharged, Account!BytesCharged, Account!Since,
     Account!MaxOf

(* readAccounting leaves a file that is there alone, and else begins a new one. *)
LEMMA ReadIs ==
    ASSUME Account!AccountingAssumption, Account!AccountInv
    PROVE  /\ Account!FileTyped(Account!ReadAccounting)
           /\ Account!ReadAccounting.there
           /\ file.there => Account!ReadAccounting = file
           /\ ~file.there => /\ Account!ReadAccounting.generation = 0 /\ Account!ReadAccounting.disk = 0
                             /\ Account!ReadAccounting.bytes = 0
                             /\ Account!ReadAccounting.diskStarted = Account!None
<1>1. CASE file.there
  BY <1>1 DEF Account!ReadAccounting, Account!AccountInv, Account!AccountTyped
<1>2. CASE ~file.there
  <2>1. accountVm = "absent" /\ journal.runtime \in Nat
    BY <1>2 DEF Account!AccountInv, Account!NothingYet, Account!AccountTyped
  <2>2. Account!ReadAccounting = [Account!Fresh EXCEPT !.there = TRUE, !.baseline = journal.runtime,
                                                       !.diskStarted = Account!None]
    BY <1>2, <2>1 DEF Account!ReadAccounting
  <2> QED
    BY <1>2, <2>1, <2>2, FreshIs DEF Account!FileTyped
<1> QED
  BY <1>1, <1>2

(* The disk advances to the observation, and its clock stops with the VM. *)
LEMMA DiskIs ==
    ASSUME Account!AccountingAssumption, Account!AccountInv, NEW a, Account!FileTyped(a),
           a.diskStarted = Account!None \/ a.diskStarted <= now
    PROVE  LET b == Account!AdvanceDisk(a) IN
           /\ Account!FileTyped(b) /\ b.there = a.there /\ b.generation = a.generation
           /\ b.baseline = a.baseline /\ b.bytes = a.bytes
           /\ b.bytesBaseline = a.bytesBaseline /\ b.bytesStart = a.bytesStart
           /\ b.disk = a.disk + (IF a.diskStarted = Account!None THEN 0 ELSE now - a.diskStarted)
           /\ b.diskStarted = (IF accountVm = "absent" THEN Account!None ELSE now)
<1> DEFINE started == IF accountVm # "absent" /\ a.diskStarted = Account!None THEN now ELSE a.diskStarted
           more == IF started = Account!None THEN 0 ELSE Account!Since(now, started)
           d == IF accountVm = "absent" THEN Account!None ELSE now
<1>1. now \in Nat /\ now # Account!None /\ Account!None \in Nat
  BY FreshIs DEF Account!AccountInv, Account!AccountTyped
<1>2. /\ more = (IF a.diskStarted = Account!None THEN 0 ELSE now - a.diskStarted)
      /\ more \in Nat
  BY <1>1 DEF Account!Since, Account!MaxOf, Account!FileTyped
<1>3. Account!AdvanceDisk(a) = [a EXCEPT !.disk = @ + more, !.diskStarted = d]
  BY DEF Account!AdvanceDisk
<1>4. d \in Nat
  BY <1>1
<1> HIDE DEF more, d
<1>5. PICK b : b = [a EXCEPT !.disk = @ + more, !.diskStarted = d]
  OBVIOUS
<1>6. /\ DOMAIN b = DOMAIN a /\ b.there = a.there /\ b.generation = a.generation
      /\ b.baseline = a.baseline /\ b.bytes = a.bytes
      /\ b.bytesBaseline = a.bytesBaseline /\ b.bytesStart = a.bytesStart
      /\ b.disk = a.disk + more /\ b.diskStarted = d
  BY <1>5, FreshIs DEF Account!FileTyped, Account!Fresh
<1>7. Account!AdvanceDisk(a) = b
  BY <1>3, <1>5
<1> QED
  BY <1>2, <1>4, <1>6, <1>7 DEF Account!FileTyped, d

(* A generation first seen running gets its baselines, any other keeps them. *)
LEMMA GenerationIs ==
    ASSUME Account!AccountingAssumption, Account!AccountInv, NEW a, Account!FileTyped(a), NEW looked
    PROVE  LET b == Account!AdvanceGeneration(a, looked)
               new == accountVm = "running" /\ journal.starts > 0 /\ a.generation # journal.starts
           IN  /\ Account!FileTyped(b) /\ b.there = a.there /\ b.bytes = a.bytes
               /\ b.disk = a.disk /\ b.diskStarted = a.diskStarted
               /\ ~new => b = a
               /\ new => /\ b.generation = journal.starts /\ b.baseline = journal.runtime
                         /\ b.bytesBaseline = a.bytes
                         /\ \/ b.bytesStart = 0
                            \/ b.bytesStart = accountSent /\ looked /\ ~(a.generation = 0 /\ a.bytes = 0)
<1> DEFINE new == accountVm = "running" /\ journal.starts > 0 /\ a.generation # journal.starts
           from == IF a.generation = 0 /\ a.bytes = 0 THEN 0 ELSE IF looked THEN accountSent ELSE 0
<1>1. CASE ~new
  BY <1>1 DEF Account!AdvanceGeneration
<1>2. CASE new
  <2>1. Account!AdvanceGeneration(a, looked) = [a EXCEPT !.generation = journal.starts, !.baseline = journal.runtime,
                 !.bytesBaseline = a.bytes, !.bytesStart = from]
    BY <1>2, Zenon DEF Account!AdvanceGeneration
  <2>2. /\ from \in Nat
        /\ from = 0 \/ (from = accountSent /\ looked /\ ~(a.generation = 0 /\ a.bytes = 0))
    <3>1. accountSent \in Nat
      BY DEF Account!AccountInv, Account!AccountTyped
    <3> QED
      BY <3>1
  <2> HIDE DEF from, new
  <2>3. PICK b : b = [a EXCEPT !.generation = journal.starts, !.baseline = journal.runtime,
                 !.bytesBaseline = a.bytes, !.bytesStart = from]
    OBVIOUS
  <2>4. /\ DOMAIN b = DOMAIN a /\ b.there = a.there /\ b.bytes = a.bytes /\ b.disk = a.disk
        /\ b.diskStarted = a.diskStarted /\ b.generation = journal.starts /\ b.baseline = journal.runtime
        /\ b.bytesBaseline = a.bytes /\ b.bytesStart = from
    BY <2>3 DEF Account!FileTyped, Account!Fresh
  <2>5. Account!FileTyped(b)
    BY <2>2, <2>4 DEF Account!FileTyped, Account!AccountInv, Account!AccountTyped
  <2>6. Account!AdvanceGeneration(a, looked) = b
    BY <2>1, <2>3
  <2> QED
    BY <1>2, <2>2, <2>4, <2>5, <2>6 DEF new
<1> QED
  BY <1>1, <1>2

(* The bytes only grow, at least to what the guest sent since its baseline. *)
LEMMA BytesAre ==
    ASSUME Account!AccountInv, NEW a, Account!FileTyped(a), NEW looked
    PROVE  LET b == Account!AdvanceBytes(a, looked)
           IN  /\ Account!FileTyped(b) /\ b.there = a.there /\ b.disk = a.disk /\ b.diskStarted = a.diskStarted
               /\ b.generation = a.generation /\ b.baseline = a.baseline
               /\ b.bytesBaseline = a.bytesBaseline /\ b.bytesStart = a.bytesStart
               /\ b.bytes >= a.bytes
               /\ looked => b.bytes >= a.bytesBaseline + (accountSent - a.bytesStart)
<1>1. CASE ~looked
  BY <1>1 DEF Account!AdvanceBytes, Account!FileTyped
<1>2. CASE looked
  <2> DEFINE more == Account!MaxOf(a.bytes, a.bytesBaseline + Account!Since(accountSent, a.bytesStart))
  <2>1. accountSent \in Nat
    BY DEF Account!AccountInv, Account!AccountTyped
  <2>2. more \in Nat /\ more >= a.bytes /\ more >= a.bytesBaseline + (accountSent - a.bytesStart)
    BY <2>1 DEF Account!Since, Account!MaxOf, Account!FileTyped
  <2>3. Account!AdvanceBytes(a, looked) = [a EXCEPT !.bytes = more]
    BY <1>2, Zenon DEF Account!AdvanceBytes
  <2> HIDE DEF more
  <2>4. PICK b : b = [a EXCEPT !.bytes = more]
    OBVIOUS
  <2>5. /\ DOMAIN b = DOMAIN a /\ b.there = a.there /\ b.disk = a.disk /\ b.diskStarted = a.diskStarted
        /\ b.generation = a.generation /\ b.baseline = a.baseline
        /\ b.bytesBaseline = a.bytesBaseline /\ b.bytesStart = a.bytesStart /\ b.bytes = more
    BY <2>4 DEF Account!FileTyped, Account!Fresh
  <2>6. Account!AdvanceBytes(a, looked) = b
    BY <2>3, <2>4
  <2> QED
    BY <2>2, <2>5, <2>6 DEF Account!FileTyped
<1> QED
  BY <1>1, <1>2

(* What an observation makes of the truth. *)
LEMMA SeenIs ==
    ASSUME Account!AccountInv, NEW looked \in BOOLEAN, truth' = Account!Seen(looked)
    PROVE  /\ Account!TruthTyped' /\ truth'.run = truth.run
           /\ truth'.disk = truth.disk /\ truth'.bytes = truth.bytes
           /\ truth'.tail = truth.tail /\ truth'.lost = truth.lost /\ truth'.darkDisk = 0
           /\ file.there => truth'.lostDisk = truth.lostDisk + truth.darkDisk
           /\ truth'.lostDisk >= truth.lostDisk
           /\ looked /\ accountVm = "running" => truth'.dark = 0
           /\ ~(looked /\ accountVm = "running") => truth'.dark = truth.dark
           /\ truth'.missed >= truth.missed
           /\ looked /\ accountVm = "running" /\ file.there /\ file.generation # journal.starts
                 /\ ~(file.generation = 0 /\ file.bytes = 0) => truth'.missed = truth.missed + accountSent
<1> DEFINE l == IF file.there THEN truth.darkDisk ELSE 0
           k == IF looked /\ accountVm = "running" THEN 0 ELSE truth.dark
           m == IF looked /\ accountVm = "running" /\ file.there /\ file.generation # journal.starts
                    /\ ~(file.generation = 0 /\ file.bytes = 0) THEN accountSent ELSE 0
<1>1. Account!TruthTyped /\ accountSent \in Nat
  BY DEF Account!AccountInv, Account!AccountTyped
<1>2. /\ DOMAIN truth' = DOMAIN truth /\ truth'.run = truth.run /\ truth'.disk = truth.disk
      /\ truth'.bytes = truth.bytes /\ truth'.tail = truth.tail /\ truth'.lost = truth.lost
      /\ truth'.darkDisk = 0 /\ truth'.lostDisk = truth.lostDisk + l
      /\ truth'.dark = k /\ truth'.missed = truth.missed + m
  <2>1. truth' = [truth EXCEPT !.darkDisk = 0, !.lostDisk = @ + l, !.dark = k, !.missed = @ + m]
    BY Zenon DEF Account!Seen
  <2> HIDE DEF l, k, m
  <2> QED
    BY <1>1, <2>1 DEF Account!TruthTyped
<1>3. l \in Nat /\ k \in Nat /\ m \in Nat
  BY <1>1 DEF Account!TruthTyped
<1>4. Account!TruthTyped'
  <2> HIDE DEF l, k, m
  <2> QED
    BY <1>1, <1>2, <1>3 DEF Account!TruthTyped
<1> QED
  BY <1>1, <1>2, <1>3, <1>4 DEF Account!TruthTyped

(* An observation, and the file written at its end. *)
LEMMA ObserveKeeps ==
    ASSUME Account!AccountingAssumption, Account!AccountInv, Account!Observe
    PROVE  Account!AccountInv'
<1>1. PICK looked \in IF accountVm = "running" THEN BOOLEAN ELSE {FALSE} :
        LET a == Account!AdvanceGeneration(Account!AdvanceDisk(Account!ReadAccounting), looked)
        IN /\ ~observed.on
           /\ file' = Account!AdvanceBytes(a, looked)
           /\ observed' = [on |-> TRUE, runtime |-> Account!ObservedRuntime(a),
                            tail |-> IF accountVm = "running" THEN truth.tail ELSE 0]
           /\ truth' = Account!Seen(looked)
           /\ UNCHANGED <<now, accountVm, accountSent, journal>>
  BY Zenon DEF Account!Observe
<1>2. PICK r : r = Account!ReadAccounting
  OBVIOUS
<1>3. PICK d : d = Account!AdvanceDisk(r)
  OBVIOUS
<1>4. PICK a : a = Account!AdvanceGeneration(d, looked)
  OBVIOUS
<1>5. /\ ~observed.on /\ file' = Account!AdvanceBytes(a, looked) /\ truth' = Account!Seen(looked)
      /\ observed' = [on |-> TRUE, runtime |-> Account!ObservedRuntime(a),
                      tail |-> IF accountVm = "running" THEN truth.tail ELSE 0]
      /\ UNCHANGED <<now, accountVm, accountSent, journal>>
  BY <1>1, <1>2, <1>3, <1>4
<1>6. looked \in BOOLEAN /\ (looked => accountVm = "running")
  OBVIOUS
<1>7. /\ Account!FileTyped(r) /\ r.there /\ (file.there => r = file)
      /\ ~file.there => r.generation = 0 /\ r.disk = 0 /\ r.bytes = 0 /\ r.diskStarted = Account!None
      /\ r.diskStarted = Account!None \/ r.diskStarted <= now
  BY <1>2, ReadIs DEF Account!AccountInv, Account!DiskSeen
<1>8. /\ Account!FileTyped(d) /\ d.there = r.there /\ d.generation = r.generation
      /\ d.baseline = r.baseline /\ d.bytes = r.bytes
      /\ d.bytesBaseline = r.bytesBaseline /\ d.bytesStart = r.bytesStart
      /\ d.disk = r.disk + (IF r.diskStarted = Account!None THEN 0 ELSE now - r.diskStarted)
      /\ d.diskStarted = (IF accountVm = "absent" THEN Account!None ELSE now)
  BY <1>3, <1>7, DiskIs
<1>9. /\ Account!FileTyped(a) /\ a.there = d.there /\ a.bytes = d.bytes
      /\ a.disk = d.disk /\ a.diskStarted = d.diskStarted
      /\ ~(accountVm = "running" /\ journal.starts > 0 /\ d.generation # journal.starts) => a = d
      /\ accountVm = "running" /\ journal.starts > 0 /\ d.generation # journal.starts =>
            /\ a.generation = journal.starts /\ a.baseline = journal.runtime /\ a.bytesBaseline = d.bytes
            /\ \/ a.bytesStart = 0
               \/ a.bytesStart = accountSent /\ looked /\ ~(d.generation = 0 /\ d.bytes = 0)
  BY <1>4, <1>8, GenerationIs
<1>10. /\ Account!FileTyped(file') /\ file'.there = a.there
       /\ file'.disk = a.disk /\ file'.diskStarted = a.diskStarted
       /\ file'.generation = a.generation /\ file'.baseline = a.baseline
       /\ file'.bytesBaseline = a.bytesBaseline /\ file'.bytesStart = a.bytesStart
       /\ file'.bytes >= a.bytes
       /\ looked => file'.bytes >= a.bytesBaseline + (accountSent - a.bytesStart)
  BY <1>5, <1>9, BytesAre
<1>11. /\ Account!TruthTyped' /\ truth'.run = truth.run
       /\ truth'.disk = truth.disk /\ truth'.bytes = truth.bytes
       /\ truth'.tail = truth.tail /\ truth'.lost = truth.lost /\ truth'.darkDisk = 0
       /\ file.there => truth'.lostDisk = truth.lostDisk + truth.darkDisk
       /\ truth'.lostDisk >= truth.lostDisk
       /\ looked => truth'.dark = 0
       /\ ~looked => truth'.dark = truth.dark
       /\ truth'.missed >= truth.missed
       /\ looked /\ file.there /\ file.generation # journal.starts
             /\ ~(file.generation = 0 /\ file.bytes = 0) => truth'.missed = truth.missed + accountSent
  BY <1>5, <1>6, SeenIs
<1>12. /\ Account!AccountTyped /\ Account!TruthTyped /\ Account!FileTyped(file)
       /\ UNCHANGED <<now, accountVm, accountSent, journal>>
       /\ Account!None \in Nat /\ now < Account!None
  BY <1>5, FreshIs DEF Account!AccountInv, Account!AccountTyped
<1>13. /\ observed'.on /\ observed'.runtime \in Nat /\ observed'.runtime >= journal.runtime
       /\ accountVm = "running" =>
            observed'.runtime >= a.baseline + (now - journal.grantStarted) /\ observed'.tail = truth.tail
       /\ accountVm # "running" => observed'.tail = 0
  <2>1. observed'.on /\ observed'.runtime = Account!ObservedRuntime(a)
        /\ observed'.tail = (IF accountVm = "running" THEN truth.tail ELSE 0)
    BY <1>5
  <2>2. accountVm = "running" => journal.starts > 0
    BY DEF Account!AccountInv, Account!GenerationRuns
  <2>3. a.baseline \in Nat /\ journal.runtime \in Nat /\ now \in Nat /\ journal.grantStarted \in Nat
    BY <1>9, <1>12 DEF Account!FileTyped, Account!AccountTyped
  <2> QED
    BY <2>1, <2>2, <2>3 DEF Account!ObservedRuntime, Account!MaxOf, Account!Since
<1>14. accountVm = "running" => /\ journal.starts > 0 /\ file.there
                         /\ truth.run <= a.baseline + truth.lost + (now - journal.grantStarted)
  <2>1. accountVm = "running" => file.there /\ journal.starts > 0
    BY DEF Account!AccountInv, Account!NothingYet, Account!GenerationRuns
  <2>2. CASE accountVm = "running" /\ file.generation = journal.starts
    BY <1>7, <1>8, <1>9, <2>1, <2>2 DEF Account!AccountInv, Account!GenerationRuns
  <2>3. CASE accountVm = "running" /\ file.generation # journal.starts
    BY <1>7, <1>8, <1>9, <2>1, <2>3 DEF Account!AccountInv, Account!GenerationRuns
  <2> QED
    BY <2>1, <2>2, <2>3
<1>15. Account!AccountTyped' /\ Account!NothingYet' /\ Account!DiskSeen'
  <2>1. Account!AccountTyped'
    BY <1>10, <1>11, <1>12, <1>13, FreshIs DEF Account!AccountTyped, Account!TruthTyped
  <2>2. file'.there
    BY <1>7, <1>8, <1>9, <1>10
  <2>3. Account!DiskSeen'
    BY <1>8, <1>9, <1>10, <1>12 DEF Account!DiskSeen, Account!AccountTyped
  <2> QED
    BY <2>1, <2>2, <2>3 DEF Account!NothingYet
<1>16. Account!GenerationRuns'
  BY <1>10, <1>11, <1>12, <1>14 DEF Account!GenerationRuns, Account!AccountInv
<1>17. Account!ObservedEnough' /\ Account!RuntimeCharged'
  <2>1. accountVm = "running" => truth.run + observed'.tail <= observed'.runtime + truth.lost + truth.tail
    BY <1>9, <1>12, <1>13, <1>14 DEF Account!AccountTyped, Account!TruthTyped, Account!FileTyped
  <2>2. accountVm # "running" => truth.run + observed'.tail <= observed'.runtime + truth.lost + truth.tail
    BY <1>12, <1>13 DEF Account!AccountTyped, Account!TruthTyped, Account!AccountInv,
       Account!RuntimeCharged
  <2> QED
    BY <1>5, <1>11, <1>12, <1>13, <2>1, <2>2 DEF Account!ObservedEnough, Account!RuntimeCharged,
       Account!AccountInv, Account!AccountTyped, Account!TruthTyped
<1>18. Account!DiskCharged'
  <2>1. CASE file.there
    BY <1>7, <1>8, <1>9, <1>10, <1>11, <1>12, <2>1 DEF Account!DiskCharged, Account!AccountInv,
       Account!DiskSeen, Account!Since, Account!MaxOf, Account!AccountTyped, Account!TruthTyped,
       Account!FileTyped
  <2>2. CASE ~file.there
    BY <1>7, <1>8, <1>9, <1>10, <1>11, <1>12, <2>2 DEF Account!DiskCharged, Account!AccountInv,
       Account!NothingYet, Account!Since, Account!MaxOf, Account!AccountTyped,
       Account!TruthTyped, Account!FileTyped
  <2> QED
    BY <2>1, <2>2
<1>19. Account!BytesRead' /\ Account!BytesCharged'
  <2>1. CASE accountVm # "running"
    <3>1. a = d /\ ~looked
      BY <1>6, <1>9, <2>1
    <3>2. file'.generation <= journal.starts
      BY <1>7, <1>8, <1>10, <1>12, <3>1 DEF Account!AccountInv, Account!BytesRead,
         Account!AccountTyped
    <3>3. file'.bytes + truth'.missed + truth'.dark >= truth.bytes
      <4>1. file'.bytes >= r.bytes /\ truth'.dark = truth.dark
        BY <1>8, <1>10, <1>11, <3>1
      <4>2. file.there => r.bytes = file.bytes
        BY <1>7
      <4>3. ~file.there => truth.bytes = 0
        BY DEF Account!AccountInv, Account!NothingYet
      <4> QED
        BY <1>7, <1>10, <1>11, <1>12, <4>1, <4>2, <4>3 DEF Account!AccountInv,
           Account!BytesCharged, Account!TruthTyped, Account!FileTyped
    <3> QED
      BY <1>11, <1>12, <2>1, <3>1, <3>2, <3>3 DEF Account!BytesRead, Account!BytesCharged,
         Account!AccountInv
  <2>2. CASE accountVm = "running"
    <3>1. file.there /\ r = file /\ journal.starts > 0
      BY <1>7, <1>14, <2>2
    <3>2. a.generation = journal.starts
      BY <1>9, <2>2, <3>1
    <3>3. a.bytesBaseline + (accountSent - a.bytesStart) + truth'.missed >= truth.bytes
      <4>1. CASE file.generation = journal.starts
        BY <1>8, <1>9, <1>11, <1>12, <2>2, <3>1, <4>1 DEF Account!AccountInv, Account!BytesRead,
           Account!FileTyped, Account!TruthTyped, Account!AccountTyped
      <4>2. CASE file.generation # journal.starts
        <5>1. /\ a.bytesBaseline = file.bytes
              /\ \/ a.bytesStart = 0
                 \/ a.bytesStart = accountSent /\ looked /\ ~(file.generation = 0 /\ file.bytes = 0)
          BY <1>8, <1>9, <2>2, <3>1, <4>2
        <5>2. file.bytes + truth.missed + truth.dark >= truth.bytes /\ truth.dark <= accountSent
          BY <3>1 DEF Account!AccountInv, Account!BytesCharged, Account!BytesRead
        <5>3. a.bytesStart = 0 \/ (a.bytesStart = accountSent /\ truth'.missed = truth.missed + accountSent)
          BY <1>11, <3>1, <4>2, <5>1
        <5>4. /\ accountSent \in Nat /\ truth.missed \in Nat /\ truth.dark \in Nat /\ truth'.missed \in Nat
              /\ truth.bytes \in Nat /\ file.bytes \in Nat
          BY <1>11, <1>12 DEF Account!AccountTyped, Account!TruthTyped, Account!FileTyped
        <5> QED
          BY <1>11, <5>1, <5>2, <5>3, <5>4
      <4> QED
        BY <4>1, <4>2
    <3>4. file'.bytes + truth'.missed + truth'.dark >= truth.bytes
      <4>1. CASE looked
        BY <1>9, <1>10, <1>11, <1>12, <3>3, <4>1 DEF Account!TruthTyped, Account!FileTyped,
           Account!AccountTyped
      <4>2. CASE ~looked
        <5>1. file'.bytes >= file.bytes
          BY <1>8, <1>9, <1>10, <3>1
        <5> QED
          BY <1>10, <1>11, <1>12, <3>1, <4>2, <5>1 DEF Account!TruthTyped, Account!FileTyped,
             Account!AccountTyped, Account!AccountInv, Account!BytesCharged
      <4> QED
        BY <4>1, <4>2
    <3>5. truth'.dark <= accountSent
      BY <1>11, <1>12 DEF Account!AccountInv, Account!BytesRead, Account!AccountTyped
    <3> QED
      BY <1>10, <1>11, <1>12, <2>2, <3>2, <3>3, <3>4, <3>5 DEF Account!BytesRead,
         Account!BytesCharged, Account!AccountTyped
  <2> QED
    BY <2>1, <2>2
<1> QED
  BY <1>15, <1>16, <1>17, <1>18, <1>19 DEF Account!AccountInv

(* What a saved journal makes of the tail. *)
LEMMA ChargedIs ==
    ASSUME Account!AccountInv, NEW t, t = Account!Charged
    PROVE  /\ DOMAIN t = DOMAIN truth /\ t.run = truth.run /\ t.disk = truth.disk /\ t.bytes = truth.bytes
           /\ t.dark = truth.dark /\ t.darkDisk = truth.darkDisk /\ t.lostDisk = truth.lostDisk
           /\ t.missed = truth.missed
           /\ accountVm = "running" => t.tail = truth.tail - observed.tail /\ t.lost = truth.lost
           /\ accountVm # "running" => t.tail = 0 /\ t.lost = truth.lost - observed.tail
<1>1. Account!TruthTyped /\ (accountVm # "running" => truth.tail = 0)
  BY DEF Account!AccountInv, Account!AccountTyped, Account!ObservedEnough
<1>2. CASE accountVm = "running"
  <2>1. t = [truth EXCEPT !.tail = @ - observed.tail]
    BY <1>2 DEF Account!Charged
  <2> QED
    BY <1>1, <1>2, <2>1 DEF Account!TruthTyped
<1>3. CASE accountVm # "running"
  <2>1. t = [truth EXCEPT !.lost = @ - observed.tail]
    BY <1>3 DEF Account!Charged
  <2> QED
    BY <1>1, <1>3, <2>1 DEF Account!TruthTyped
<1> QED
  BY <1>2, <1>3

(* The tail and the unread bytes of a generation that ends are lost. *)
LEMMA OverIs ==
    ASSUME NEW t, NEW u, u = Account!GenerationOver(t),
           DOMAIN t = {"run", "disk", "bytes", "tail", "dark", "darkDisk", "lost", "lostDisk", "missed", "vms"}
    PROVE  /\ DOMAIN u = DOMAIN t /\ u.run = t.run /\ u.disk = t.disk /\ u.bytes = t.bytes
           /\ u.darkDisk = t.darkDisk /\ u.lostDisk = t.lostDisk
           /\ u.tail = 0 /\ u.lost = t.lost + t.tail /\ u.dark = 0 /\ u.missed = t.missed + t.dark
BY DEF Account!GenerationOver

(* The types the invariant gives. *)
LEMMA JournalIs ==
    ASSUME Account!AccountInv
    PROVE  /\ DOMAIN journal = {"starts", "runtime", "grantStarted", "deadline", "create"}
           /\ journal.starts \in Nat /\ journal.runtime \in Nat /\ journal.grantStarted \in Nat
           /\ journal.deadline \in Nat /\ journal.create \in Nat
           /\ now \in Nat /\ accountSent \in Nat /\ observed.runtime \in Nat /\ observed.tail \in Nat
           /\ Account!TruthTyped /\ Account!FileTyped(file)
BY DEF Account!AccountInv, Account!AccountTyped

(* What every branch of a save has in common: the journal takes the observed *)
(* run time, and the tail that was observed is charged with it.              *)
LEMMA SavedIs ==
    ASSUME Account!AccountingAssumption, Account!AccountInv,
           observed.on, observed' = Account!NoTick, UNCHANGED <<now, file>>,
           accountVm' \in {"absent", "stopped", "running"}, accountSent' \in Nat, Account!TruthTyped',
           DOMAIN journal' = DOMAIN journal, journal'.starts \in Nat, journal'.grantStarted \in Nat,
           journal'.deadline \in Nat, journal'.create \in Nat,
           journal'.runtime = observed.runtime,
           Account!GenerationRuns', Account!BytesRead',
           truth'.run = truth.run, truth'.bytes = truth.bytes, truth'.disk = truth.disk,
           truth'.lostDisk + truth'.darkDisk = truth.lostDisk + truth.darkDisk,
           truth'.missed + truth'.dark = truth.missed + truth.dark,
           truth'.lost + truth'.tail = truth.lost + truth.tail - observed.tail,
           accountVm' # "running" => truth'.tail = 0 /\ truth'.run <= MaxRuntime + truth'.lost
    PROVE  Account!AccountInv'
<1>1. file.there /\ now \in Nat /\ now <= MaxTime
  BY DEF Account!AccountInv, Account!NothingYet, Account!AccountTyped
<1>2. ~observed'.on /\ observed'.runtime = 0 /\ observed'.tail = 0
  BY DEF Account!NoTick
<1>3. Account!AccountTyped'
  BY <1>1, <1>2, JournalIs DEF Account!AccountTyped
<1>4. Account!NothingYet' /\ Account!DiskSeen'
  BY <1>1 DEF Account!NothingYet, Account!DiskSeen, Account!AccountInv
<1>5. Account!ObservedEnough'
  BY <1>2, <1>3 DEF Account!ObservedEnough, Account!AccountTyped, Account!TruthTyped
<1>6. Account!RuntimeCharged'
  BY <1>3, JournalIs DEF Account!RuntimeCharged, Account!AccountTyped, Account!TruthTyped,
     Account!AccountInv, Account!ObservedEnough
<1>7. Account!BytesCharged'
  BY <1>1, <1>3, JournalIs DEF Account!BytesCharged, Account!AccountTyped, Account!TruthTyped,
     Account!FileTyped, Account!AccountInv
<1>8. Account!DiskCharged'
  <2>1. PICK open : open = IF file.diskStarted = Account!None THEN 0 ELSE Account!Since(now, file.diskStarted)
    OBVIOUS
  <2>2. open \in Nat
    BY <1>1, <2>1, JournalIs DEF Account!Since, Account!MaxOf, Account!FileTyped
  <2>3. file.disk + open + truth.lostDisk + truth.darkDisk >= truth.disk
    BY <1>1, <2>1 DEF Account!AccountInv, Account!DiskCharged
  <2>4. file.disk + open + truth'.lostDisk + truth'.darkDisk >= truth'.disk
    BY <1>3, <2>2, <2>3, JournalIs DEF Account!TruthTyped, Account!FileTyped,
       Account!AccountTyped
  <2>5. file' = file /\ now' = now
    OBVIOUS
  <2> QED
    BY <2>1, <2>4, <2>5, Zenon DEF Account!DiskCharged, Account!None, Account!Since,
       Account!MaxOf
<1> QED
  BY <1>3, <1>4, <1>5, <1>6, <1>7, <1>8 DEF Account!AccountInv

(* The journal is saved with no effect, a create, a start, a stop or a delete. *)
LEMMA SaveKeeps ==
    ASSUME Account!AccountingAssumption, Account!AccountInv, Account!Save
    PROVE  Account!AccountInv'
<1>1. observed.on /\ observed' = Account!NoTick /\ UNCHANGED <<now, file>>
  BY DEF Account!Save
<1>2. PICK t : t = Account!Charged
  OBVIOUS
<1>3. /\ DOMAIN t = DOMAIN truth /\ t.run = truth.run /\ t.disk = truth.disk /\ t.bytes = truth.bytes
      /\ t.dark = truth.dark /\ t.darkDisk = truth.darkDisk /\ t.lostDisk = truth.lostDisk
      /\ t.missed = truth.missed
      /\ accountVm = "running" => t.tail = truth.tail - observed.tail /\ t.lost = truth.lost
      /\ accountVm # "running" => t.tail = 0 /\ t.lost = truth.lost - observed.tail
  BY <1>2, ChargedIs
<1>4. /\ accountVm # "running" => /\ truth.tail = 0 /\ truth.dark = 0
                                   /\ truth.run + observed.tail <= MaxRuntime + truth.lost
      /\ accountVm = "running" => /\ observed.tail <= truth.tail
                           /\ truth.run + journal.deadline <= MaxRuntime + truth.lost + now
                           /\ now <= journal.deadline
      /\ observed.runtime >= journal.runtime
      /\ truth.run + observed.tail <= observed.runtime + truth.lost + truth.tail
      /\ file.generation <= journal.starts /\ truth.dark <= accountSent
  BY <1>1 DEF Account!AccountInv, Account!ObservedEnough, Account!GenerationRuns,
     Account!BytesRead
<1>5. t.lost + t.tail = truth.lost + truth.tail - observed.tail /\ t.tail \in Nat /\ t.lost \in Int
  BY <1>3, <1>4, JournalIs DEF Account!TruthTyped
<1>6. accountVm \in {"absent", "stopped", "running"} /\ now <= MaxTime /\ MaxTime \in Nat /\ MaxRuntime \in Nat
  BY FreshIs DEF Account!AccountInv, Account!AccountTyped
<1>7. CASE /\ journal' = [journal EXCEPT !.runtime = observed.runtime, !.create = Account!None]
           /\ truth' = Account!Charged /\ UNCHANGED <<accountVm, accountSent>>
  <2>1. /\ DOMAIN journal' = DOMAIN journal /\ journal'.starts = journal.starts
        /\ journal'.grantStarted = journal.grantStarted /\ journal'.deadline = journal.deadline
        /\ journal'.create = Account!None /\ journal'.runtime = observed.runtime
    BY <1>7, JournalIs
  <2>2. truth' = t /\ accountVm' = accountVm /\ accountSent' = accountSent
    BY <1>2, <1>7
  <2>3. Account!TruthTyped'
    BY <1>3, <1>5, <2>2, JournalIs DEF Account!TruthTyped
  <2>4. Account!GenerationRuns'
    BY <1>1, <1>3, <1>4, <2>1, <2>2, JournalIs DEF Account!GenerationRuns, Account!AccountInv,
       Account!TruthTyped
  <2>5. Account!BytesRead'
    BY <1>1, <1>3, <2>1, <2>2 DEF Account!BytesRead, Account!AccountInv
  <2> QED
    BY <1>1, <1>3, <1>4, <1>5, <1>6, <2>1, <2>2, <2>3, <2>4, <2>5, SavedIs, JournalIs,
       FreshIs DEF Account!TruthTyped
<1>8. CASE /\ accountVm = "absent" /\ truth.vms < MaxVms
           /\ journal' = [journal EXCEPT !.runtime = observed.runtime, !.create = now]
           /\ accountVm' = "stopped" /\ truth' = [Account!Charged EXCEPT !.vms = @ + 1]
           /\ UNCHANGED accountSent
  <2>1. /\ DOMAIN journal' = DOMAIN journal /\ journal'.starts = journal.starts
        /\ journal'.grantStarted = journal.grantStarted /\ journal'.deadline = journal.deadline
        /\ journal'.create = now /\ journal'.runtime = observed.runtime
    BY <1>8, JournalIs
  <2>2. /\ DOMAIN truth' = DOMAIN truth /\ truth'.run = truth.run /\ truth'.disk = truth.disk
        /\ truth'.bytes = truth.bytes /\ truth'.dark = truth.dark /\ truth'.darkDisk = truth.darkDisk
        /\ truth'.lostDisk = truth.lostDisk /\ truth'.missed = truth.missed
        /\ truth'.tail = 0 /\ truth'.lost = truth.lost - observed.tail
        /\ accountVm' = "stopped" /\ accountSent' = accountSent /\ accountVm = "absent"
    <3>1. truth' = [t EXCEPT !.vms = @ + 1]
      BY <1>2, <1>8
    <3> QED
      BY <1>3, <1>8, <3>1, JournalIs DEF Account!TruthTyped
  <2>3. Account!TruthTyped'
    BY <1>5, <2>2, JournalIs DEF Account!TruthTyped
  <2>4. Account!GenerationRuns' /\ Account!BytesRead'
    BY <1>1, <1>4, <2>1, <2>2, JournalIs DEF Account!GenerationRuns, Account!BytesRead
  <2> QED
    BY <1>1, <1>3, <1>4, <1>5, <1>6, <2>1, <2>2, <2>3, <2>4, SavedIs, JournalIs,
       FreshIs DEF Account!TruthTyped
<1>9. CASE /\ Account!MayStart
           /\ journal' = [journal EXCEPT !.runtime = observed.runtime, !.starts = @ + 1,
                                         !.grantStarted = now,
                                         !.deadline = now + Account!Available(observed.runtime)]
           /\ accountVm' = "running" /\ accountSent' = 0 /\ truth' = Account!Charged
  <2>1. PICK granted : granted = Account!Available(observed.runtime)
    OBVIOUS
  <2>2. granted \in Nat /\ granted <= MaxRuntime - observed.runtime /\ accountVm = "stopped"
    <3>1. accountVm = "stopped" /\ observed.runtime < MaxRuntime
      BY <1>9 DEF Account!MayStart
    <3>2. Lifetime \in Nat
      BY FreshIs
    <3> QED
      BY <1>6, <2>1, <3>1, <3>2, JournalIs DEF Account!Available, Account!MinOf, Account!Since,
         Account!MaxOf
  <2>3. /\ DOMAIN journal' = DOMAIN journal /\ journal'.starts = journal.starts + 1
        /\ journal'.grantStarted = now /\ journal'.deadline = now + granted
        /\ journal'.create = journal.create /\ journal'.runtime = observed.runtime
    <3>1. journal' = [journal EXCEPT !.runtime = observed.runtime, !.starts = @ + 1,
                                     !.grantStarted = now, !.deadline = now + granted]
      BY <1>9, <2>1
    <3> QED
      BY <3>1, JournalIs
  <2>4. truth' = t /\ accountVm' = "running" /\ accountSent' = 0
    BY <1>2, <1>9
  <2>5. Account!TruthTyped'
    BY <1>3, <1>5, <2>4, JournalIs DEF Account!TruthTyped
  <2>6. Account!GenerationRuns'
    BY <1>1, <1>3, <1>4, <2>2, <2>3, <2>4, JournalIs, <1>6 DEF Account!GenerationRuns,
       Account!TruthTyped, Account!FileTyped
  <2>7. Account!BytesRead'
    BY <1>1, <1>3, <1>4, <2>2, <2>3, <2>4, JournalIs DEF Account!BytesRead, Account!FileTyped
  <2> QED
    BY <1>1, <1>3, <1>4, <1>5, <1>6, <2>2, <2>3, <2>4, <2>5, <2>6, <2>7, SavedIs, JournalIs,
       FreshIs DEF Account!TruthTyped
<1>10. CASE /\ accountVm = "running" /\ accountVm' = "stopped"
            /\ journal' = [journal EXCEPT !.runtime = observed.runtime]
            /\ truth' = Account!GenerationOver(Account!Charged) /\ UNCHANGED accountSent
  <2>1. /\ DOMAIN journal' = DOMAIN journal /\ journal'.starts = journal.starts
        /\ journal'.grantStarted = journal.grantStarted /\ journal'.deadline = journal.deadline
        /\ journal'.create = journal.create /\ journal'.runtime = observed.runtime
    BY <1>10, JournalIs
  <2>2. /\ DOMAIN truth' = DOMAIN truth /\ truth'.run = truth.run /\ truth'.disk = truth.disk
        /\ truth'.bytes = truth.bytes /\ truth'.dark = 0 /\ truth'.darkDisk = truth.darkDisk
        /\ truth'.lostDisk = truth.lostDisk /\ truth'.missed = truth.missed + truth.dark
        /\ truth'.tail = 0 /\ truth'.lost = truth.lost + (truth.tail - observed.tail)
        /\ accountVm' = "stopped" /\ accountSent' = accountSent /\ accountVm = "running"
    <3>1. truth' = Account!GenerationOver(t)
      BY <1>2, <1>10
    <3> QED
      BY <1>3, <1>10, <3>1, OverIs, JournalIs DEF Account!TruthTyped
  <2>3. Account!TruthTyped'
    BY <1>4, <2>2, JournalIs DEF Account!TruthTyped
  <2>4. Account!GenerationRuns' /\ Account!BytesRead'
    BY <1>1, <1>4, <2>1, <2>2, JournalIs DEF Account!GenerationRuns, Account!BytesRead
  <2> QED
    BY <1>1, <1>3, <1>4, <1>5, <1>6, <2>1, <2>2, <2>3, <2>4, SavedIs, JournalIs,
       FreshIs DEF Account!TruthTyped
<1>11. CASE /\ accountVm = "stopped" /\ accountVm' = "absent"
            /\ journal' = [journal EXCEPT !.runtime = observed.runtime]
            /\ truth' = [Account!Charged EXCEPT !.lostDisk = @ + truth.darkDisk, !.darkDisk = 0]
            /\ UNCHANGED accountSent
  <2>1. /\ DOMAIN journal' = DOMAIN journal /\ journal'.starts = journal.starts
        /\ journal'.grantStarted = journal.grantStarted /\ journal'.deadline = journal.deadline
        /\ journal'.create = journal.create /\ journal'.runtime = observed.runtime
    BY <1>11, JournalIs
  <2>2. /\ DOMAIN truth' = DOMAIN truth /\ truth'.run = truth.run /\ truth'.disk = truth.disk
        /\ truth'.bytes = truth.bytes /\ truth'.dark = truth.dark /\ truth'.darkDisk = 0
        /\ truth'.lostDisk = truth.lostDisk + truth.darkDisk /\ truth'.missed = truth.missed
        /\ truth'.tail = 0 /\ truth'.lost = truth.lost - observed.tail
        /\ accountVm' = "absent" /\ accountSent' = accountSent /\ accountVm = "stopped"
    <3>1. truth' = [t EXCEPT !.lostDisk = @ + truth.darkDisk, !.darkDisk = 0]
      BY <1>2, <1>11
    <3> QED
      BY <1>3, <1>11, <3>1, JournalIs DEF Account!TruthTyped
  <2>3. Account!TruthTyped'
    BY <1>5, <2>2, JournalIs DEF Account!TruthTyped
  <2>4. Account!GenerationRuns' /\ Account!BytesRead'
    BY <1>1, <1>4, <2>1, <2>2, JournalIs DEF Account!GenerationRuns, Account!BytesRead
  <2> QED
    BY <1>1, <1>3, <1>4, <1>5, <1>6, <2>1, <2>2, <2>3, <2>4, SavedIs, JournalIs,
       FreshIs DEF Account!TruthTyped
<1> QED
  BY <1>7, <1>8, <1>9, <1>10, <1>11, Zenon DEF Account!Save

(* The process dies between the two writes. *)
LEMMA CrashKeeps ==
    ASSUME Account!AccountingAssumption, Account!AccountInv, Account!Crash
    PROVE  Account!AccountInv'
<1>1. /\ observed' = Account!NoTick /\ UNCHANGED <<now, accountVm, accountSent, file, journal, truth>>
      /\ ~observed'.on /\ observed'.runtime = 0 /\ observed'.tail = 0
  BY DEF Account!Crash, Account!NoTick
<1>2. accountVm # "running" => truth.tail = 0 /\ truth.run <= MaxRuntime + truth.lost
  BY JournalIs, FreshIs DEF Account!AccountInv, Account!ObservedEnough, Account!TruthTyped
<1>3. Account!AccountTyped' /\ Account!NothingYet'
  BY <1>1 DEF Account!AccountInv, Account!AccountTyped, Account!TruthTyped, Account!FileTyped,
     Account!Fresh, Account!NothingYet
<1>4. Account!ObservedEnough'
  BY <1>1, <1>2, JournalIs, FreshIs DEF Account!ObservedEnough, Account!TruthTyped
<1> QED
  BY <1>1, <1>3, <1>4 DEF Account!AccountInv, Account!GenerationRuns, Account!BytesRead,
     Account!DiskSeen, Account!RuntimeCharged, Account!DiskCharged, Account!BytesCharged,
     Account!None, Account!Since, Account!MaxOf

(* Time passes, for a running VM up to its deadline. *)
LEMMA PassKeeps ==
    ASSUME Account!AccountingAssumption, Account!AccountInv, Account!Pass
    PROVE  Account!AccountInv'
<1> DEFINE more == IF accountVm = "running" THEN 1 ELSE 0
           held == IF accountVm = "absent" THEN 0 ELSE 1
           unseen == IF accountVm # "absent" /\ (~file.there \/ file.diskStarted = Account!None) THEN 1 ELSE 0
<1>1. /\ now < MaxTime /\ now' = now + 1 /\ (accountVm = "running" => now < journal.deadline)
      /\ UNCHANGED <<accountVm, accountSent, file, journal, observed>>
  BY DEF Account!Pass
<1>2. /\ DOMAIN truth' = DOMAIN truth /\ truth'.run = truth.run + more /\ truth'.tail = truth.tail + more
      /\ truth'.disk = truth.disk + held /\ truth'.darkDisk = truth.darkDisk + unseen
      /\ truth'.bytes = truth.bytes /\ truth'.dark = truth.dark /\ truth'.lost = truth.lost
      /\ truth'.lostDisk = truth.lostDisk /\ truth'.missed = truth.missed
  <2>1. truth' = [truth EXCEPT
                    !.run = IF accountVm = "running" THEN @ + 1 ELSE @,
                    !.tail = IF accountVm = "running" THEN @ + 1 ELSE @,
                    !.disk = IF accountVm = "absent" THEN @ ELSE @ + 1,
                    !.darkDisk = IF accountVm # "absent" /\ (~file.there \/ file.diskStarted = Account!None)
                                 THEN @ + 1 ELSE @]
    BY DEF Account!Pass
  <2>2. /\ DOMAIN truth' = DOMAIN truth
        /\ truth'.run = (IF accountVm = "running" THEN truth.run + 1 ELSE truth.run)
        /\ truth'.tail = (IF accountVm = "running" THEN truth.tail + 1 ELSE truth.tail)
        /\ truth'.disk = (IF accountVm = "absent" THEN truth.disk ELSE truth.disk + 1)
        /\ truth'.darkDisk = (IF accountVm # "absent" /\ (~file.there \/ file.diskStarted = Account!None)
                              THEN truth.darkDisk + 1 ELSE truth.darkDisk)
        /\ truth'.bytes = truth.bytes /\ truth'.dark = truth.dark /\ truth'.lost = truth.lost
        /\ truth'.lostDisk = truth.lostDisk /\ truth'.missed = truth.missed
    BY <2>1, JournalIs DEF Account!TruthTyped
  <2> QED
    BY <2>2, JournalIs DEF Account!TruthTyped
<1>3. more \in Nat /\ held \in Nat /\ unseen \in Nat
  OBVIOUS
<1>4. Account!AccountTyped'
  <2>1. Account!TruthTyped'
    <3> HIDE DEF more, held, unseen
    <3> QED
      BY <1>2, <1>3, JournalIs DEF Account!TruthTyped
  <2>2. Account!AccountTyped
    BY DEF Account!AccountInv
  <2>3. now' \in Nat /\ now' <= MaxTime
    BY <1>1, JournalIs, FreshIs
  <2> QED
    BY <1>1, <2>1, <2>2, <2>3 DEF Account!AccountTyped, Account!FileTyped, Account!Fresh
<1>5. Account!NothingYet' /\ Account!DiskSeen'
  <2>1. Account!NothingYet'
    BY <1>1, <1>2, JournalIs DEF Account!AccountInv, Account!NothingYet, Account!TruthTyped
  <2>2. Account!DiskSeen'
    BY <1>1, JournalIs, FreshIs DEF Account!AccountInv, Account!DiskSeen, Account!FileTyped,
       Account!None
  <2> QED
    BY <2>1, <2>2
<1>6. Account!GenerationRuns'
  <2>1. Account!GenerationRuns
    BY DEF Account!AccountInv
  <2>2. truth.run \in Nat /\ truth.lost \in Int /\ file.baseline \in Nat /\ MaxRuntime \in Nat
    BY JournalIs, FreshIs DEF Account!TruthTyped, Account!FileTyped
  <2> QED
    BY <1>1, <1>2, <2>1, <2>2, JournalIs DEF Account!GenerationRuns
<1>7. Account!ObservedEnough' /\ Account!RuntimeCharged'
  <2>1. Account!ObservedEnough /\ Account!RuntimeCharged
    BY DEF Account!AccountInv
  <2>2. truth.run \in Nat /\ truth.lost \in Int /\ truth.tail \in Nat /\ MaxRuntime \in Nat
    BY JournalIs, FreshIs DEF Account!TruthTyped
  <2> QED
    BY <1>1, <1>2, <2>1, <2>2, JournalIs DEF Account!ObservedEnough, Account!RuntimeCharged
<1>8. Account!BytesRead' /\ Account!BytesCharged'
  BY <1>1, <1>2 DEF Account!AccountInv, Account!BytesRead, Account!BytesCharged
<1>9. Account!DiskCharged'
  <2> SUFFICES ASSUME file'.there PROVE Account!DiskCharged'
    BY DEF Account!DiskCharged
  <2>1. file.there
    BY <1>1
  <2>2. /\ file.disk \in Nat /\ file.diskStarted \in Nat /\ now \in Nat /\ truth.disk \in Nat
        /\ truth.lostDisk \in Nat /\ truth.darkDisk \in Nat
    BY JournalIs DEF Account!TruthTyped, Account!FileTyped
  <2>3. CASE file.diskStarted = Account!None
    <3>1. file.disk + 0 + truth.lostDisk + truth.darkDisk >= truth.disk
      BY <2>1, <2>3 DEF Account!AccountInv, Account!DiskCharged
    <3> QED
      BY <1>1, <1>2, <2>1, <2>2, <2>3, <3>1 DEF Account!DiskCharged, Account!None
  <2>4. CASE file.diskStarted # Account!None
    <3>1. file.diskStarted <= now
      BY <2>4 DEF Account!AccountInv, Account!DiskSeen
    <3>2. file.disk + (now - file.diskStarted) + truth.lostDisk + truth.darkDisk >= truth.disk
      BY <2>1, <2>2, <2>4, <3>1 DEF Account!AccountInv, Account!DiskCharged, Account!Since,
         Account!MaxOf
    <3> QED
      BY <1>1, <1>2, <2>1, <2>2, <2>4, <3>1, <3>2 DEF Account!DiskCharged, Account!None,
         Account!Since, Account!MaxOf
  <2> QED
    BY <2>3, <2>4
<1> QED
  BY <1>4, <1>5, <1>6, <1>7, <1>8, <1>9 DEF Account!AccountInv

(* The guest sends. *)
LEMMA SendKeeps ==
    ASSUME Account!AccountingAssumption, Account!AccountInv, Account!Send
    PROVE  Account!AccountInv'
<1>1. /\ accountVm = "running" /\ accountSent' = accountSent + 1
      /\ UNCHANGED <<now, accountVm, file, journal, observed>>
  BY DEF Account!Send
<1>2. /\ DOMAIN truth' = DOMAIN truth /\ truth'.run = truth.run /\ truth'.tail = truth.tail
      /\ truth'.disk = truth.disk /\ truth'.darkDisk = truth.darkDisk
      /\ truth'.bytes = truth.bytes + 1 /\ truth'.dark = truth.dark + 1 /\ truth'.lost = truth.lost
      /\ truth'.lostDisk = truth.lostDisk /\ truth'.missed = truth.missed
  BY JournalIs DEF Account!Send, Account!TruthTyped
<1>3. Account!AccountTyped'
  <2>1. Account!TruthTyped' /\ accountSent' \in Nat
    BY <1>1, <1>2, JournalIs DEF Account!TruthTyped
  <2>2. Account!AccountTyped
    BY DEF Account!AccountInv
  <2> QED
    BY <1>1, <2>1, <2>2 DEF Account!AccountTyped, Account!FileTyped, Account!Fresh
<1>4. Account!NothingYet' /\ Account!DiskSeen'
  BY <1>1 DEF Account!AccountInv, Account!NothingYet, Account!DiskSeen, Account!None
<1>5. Account!GenerationRuns' /\ Account!ObservedEnough' /\ Account!RuntimeCharged'
  BY <1>1, <1>2 DEF Account!AccountInv, Account!GenerationRuns, Account!ObservedEnough,
     Account!RuntimeCharged
<1>6. Account!BytesRead' /\ Account!BytesCharged'
  BY <1>1, <1>2, JournalIs DEF Account!AccountInv, Account!BytesRead, Account!BytesCharged,
     Account!TruthTyped, Account!FileTyped
<1>7. Account!DiskCharged'
  BY <1>1, <1>2 DEF Account!AccountInv, Account!DiskCharged, Account!None, Account!Since,
     Account!MaxOf
<1> QED
  BY <1>3, <1>4, <1>5, <1>6, <1>7 DEF Account!AccountInv

(* The VM is powered off unseen. *)
LEMMA PowerOffKeeps ==
    ASSUME Account!AccountingAssumption, Account!AccountInv, Account!PowerOff
    PROVE  Account!AccountInv'
<1>1. /\ accountVm = "running" /\ accountVm' = "stopped" /\ truth' = Account!GenerationOver(truth)
      /\ UNCHANGED <<now, accountSent, file, journal, observed>>
  BY DEF Account!PowerOff
<1>2. /\ DOMAIN truth' = DOMAIN truth /\ truth'.run = truth.run /\ truth'.disk = truth.disk
      /\ truth'.bytes = truth.bytes /\ truth'.darkDisk = truth.darkDisk
      /\ truth'.lostDisk = truth.lostDisk
      /\ truth'.tail = 0 /\ truth'.lost = truth.lost + truth.tail
      /\ truth'.dark = 0 /\ truth'.missed = truth.missed + truth.dark
  BY <1>1, OverIs, JournalIs DEF Account!TruthTyped
<1>3. Account!AccountTyped'
  <2>1. Account!TruthTyped'
    BY <1>2, JournalIs DEF Account!TruthTyped
  <2>2. Account!AccountTyped
    BY DEF Account!AccountInv
  <2> QED
    BY <1>1, <2>1, <2>2 DEF Account!AccountTyped, Account!FileTyped, Account!Fresh
<1>4. Account!NothingYet' /\ Account!DiskSeen' /\ Account!GenerationRuns'
  BY <1>1 DEF Account!AccountInv, Account!NothingYet, Account!DiskSeen, Account!GenerationRuns,
     Account!None
<1>5. Account!ObservedEnough' /\ Account!RuntimeCharged'
  <2>1. Account!GenerationRuns /\ Account!ObservedEnough /\ Account!RuntimeCharged
    BY DEF Account!AccountInv
  <2>2. truth.run \in Nat /\ truth.lost \in Int /\ truth.tail \in Nat /\ MaxRuntime \in Nat
    BY JournalIs, FreshIs DEF Account!TruthTyped
  <2> QED
    BY <1>1, <1>2, <2>1, <2>2, JournalIs DEF Account!GenerationRuns, Account!ObservedEnough,
       Account!RuntimeCharged
<1>6. Account!BytesRead' /\ Account!BytesCharged'
  BY <1>1, <1>2, JournalIs DEF Account!AccountInv, Account!BytesRead, Account!BytesCharged,
     Account!TruthTyped, Account!FileTyped
<1>7. Account!DiskCharged'
  BY <1>1, <1>2 DEF Account!AccountInv, Account!DiskCharged, Account!None, Account!Since,
     Account!MaxOf
<1> QED
  BY <1>3, <1>4, <1>5, <1>6, <1>7 DEF Account!AccountInv

(* No step breaks the invariant. *)
LEMMA AccountSteps ==
    ASSUME Account!AccountingAssumption, Account!AccountInv, [Account!Next]_(Account!vars)
    PROVE  Account!AccountInv'
<1>1. CASE UNCHANGED Account!vars
  BY <1>1 DEF Account!vars, Account!AccountInv, Account!AccountTyped, Account!TruthTyped,
     Account!FileTyped, Account!Fresh, Account!NothingYet, Account!GenerationRuns,
     Account!ObservedEnough, Account!BytesRead, Account!DiskSeen, Account!RuntimeCharged,
     Account!DiskCharged, Account!BytesCharged, Account!None, Account!Since, Account!MaxOf
<1> QED
  BY <1>1, ObserveKeeps, SaveKeeps, CrashKeeps, PassKeeps, SendKeeps,
     PowerOffKeeps DEF Account!Next

(* advanceObservedLifecycle, readAccounting: whatever the times of the       *)
(* observations, the crashes and the power-offs, all run time but the tails  *)
(* is charged and within the permit, and so are the disk and the bytes.      *)
THEOREM AccountingCharges ==
    Account!AccountingAssumption /\ Account!Spec =>
        [](Account!RuntimeCharged /\ Account!RuntimeWithinPermit
           /\ Account!DiskCharged /\ Account!BytesCharged)
<1> SUFFICES ASSUME Account!AccountingAssumption
             PROVE  Account!Spec => [](Account!RuntimeCharged /\ Account!RuntimeWithinPermit
                                       /\ Account!DiskCharged /\ Account!BytesCharged)
  OBVIOUS
<1>1. Account!AccountInv => Account!RuntimeCharged /\ Account!DiskCharged /\ Account!BytesCharged
  BY DEF Account!AccountInv
<1>2. Account!AccountInv => Account!RuntimeWithinPermit
  BY JournalIs, FreshIs DEF Account!AccountInv, Account!GenerationRuns, Account!ObservedEnough,
     Account!RuntimeWithinPermit, Account!TruthTyped
<1> QED
  BY <1>1, <1>2, AccountInitially, AccountSteps, PTL DEF Account!Spec

-----------------------------------------------------------------------------
(***************************************************************************)
(* The composition: a behaviour is about one component, and what is proved *)
(* of direct actions, the release, the calls into the guest and the        *)
(* accounting holds of the instance that runs.                             *)
(***************************************************************************)

(* Every step of the composition is one of each of these components, or     *)
(* leaves it alone.                                                        *)
LEMMA ComponentsRun == MCSpec => Direct!Spec /\ Routes!Spec /\ Calls!Spec /\ Account!Spec
<1>1. MCInit => Direct!Init /\ Routes!Init /\ Calls!Init /\ Account!Init
  BY Zenon DEF MCInit
<1>2. [MCNext]_allVars => [Direct!Next]_(Direct!vars)
  BY DEF MCNext, allVars, directVars, Direct!vars, Direct!recordVars, Direct!procVars,
     Direct!worldVars, Direct!watchVars, LockAlone, DirectAlone, RoutesAlone, ParityAlone,
     GateAlone, AccountAlone, GrantsAlone, LifeAlone, UnarmedAlone, HungAlone, CallsAlone,
     AgentAlone, QueueAlone
<1>3. [MCNext]_allVars => [Routes!Next]_(Routes!vars)
  BY DEF MCNext, allVars, routesVars, Routes!vars, LockAlone, DirectAlone, RoutesAlone,
     ParityAlone, GateAlone, AccountAlone, GrantsAlone, LifeAlone, UnarmedAlone, HungAlone,
     CallsAlone, AgentAlone, QueueAlone
<1>4. [MCNext]_allVars => [Calls!Next]_(Calls!vars)
  BY DEF MCNext, allVars, callVars, Calls!vars, LockAlone, DirectAlone, RoutesAlone, ParityAlone,
     GateAlone, AccountAlone, GrantsAlone, LifeAlone, UnarmedAlone, HungAlone, CallsAlone,
     AgentAlone, QueueAlone
<1>5. [MCNext]_allVars => [Account!Next]_(Account!vars)
  BY DEF MCNext, allVars, accountVars, Account!vars, LockAlone, DirectAlone, RoutesAlone,
     ParityAlone, GateAlone, AccountAlone, GrantsAlone, LifeAlone, UnarmedAlone, HungAlone,
     CallsAlone, AgentAlone, QueueAlone
<1> QED
  BY <1>1, <1>2, <1>3, <1>4, <1>5, PTL DEF MCSpec, Direct!Spec, Routes!Spec, Calls!Spec,
     Account!Spec

(* No job is cut short by a stop, a cleanup or the release of the switch    *)
(* (mutateOwned, drain.sh, selectStrandedRuns, ownedRunnerMayTakeJobs), for *)
(* any processes, runs and jobs, while an interrupt recovery keeps its time *)
(* limit.                                                                   *)
THEOREM NoJobIsEverCutShort == ~InterruptMayTimeOut /\ MCSpec => []NoJobCutShort
<1> SUFFICES ASSUME ~InterruptMayTimeOut
             PROVE  MCSpec => []NoJobCutShort
  OBVIOUS
<1>1. Direct!WithinTime
  BY DirectConstants DEF Direct!WithinTime
<1>2. Routes!ControllerAlone
  BY ReleaseConstants DEF Routes!ControllerAlone
<1>3. MCSpec => []Direct!NoJobStopped
  BY <1>1, ComponentsRun, Direct!JobsNeverStopped, PTL
<1>4. MCSpec => [](Routes!HostedJobNeverKilled /\ Routes!RunnerJobNeverKilled)
  <2>1. Routes!Spec => [](Routes!HostedJobNeverKilled /\ Routes!RunnerJobNeverKilled)
    BY <1>2, Routes!ReleaseInterruptsNothing
  <2> QED
    BY <2>1, ComponentsRun, PTL
<1>5. Direct!NoJobStopped /\ Routes!HostedJobNeverKilled /\ Routes!RunnerJobNeverKilled
        => NoJobCutShort
  BY DEF NoJobCutShort
<1> QED
  BY <1>3, <1>4, <1>5, PTL

(* A second request waits for the end of the first (recoverDirectEmission), *)
(* done is answered when it is true (mutateOwned), and a helper runs in the *)
(* own VM only (runGuest), for any processes, addresses and poll interval.  *)
THEOREM StepsStaySafe == ~InterruptMayTimeOut /\ MCSpec => StepsAreSafe
<1> SUFFICES ASSUME ~InterruptMayTimeOut
             PROVE  MCSpec => StepsAreSafe
  OBVIOUS
<1>1. Direct!WithinTime
  BY DirectConstants DEF Direct!WithinTime
<1>2. Direct!Spec => Direct!SecondRequestWaits
  BY <1>1, Direct!SecondRequestAlwaysWaits
<1>3. Direct!Spec => Direct!DoneIsTrue
  BY <1>1, Direct!DoneIsAlwaysTrue
<1>4. Calls!Spec => Calls!RanAtHome
  BY CallConstants, HelpersRunAtHome
<1> QED
  BY <1>2, <1>3, <1>4, ComponentsRun DEF StepsAreSafe

(* The accounting charges in full (advanceObservedLifecycle, readAccounting) *)
(* what any observation could see, for any permit, lifetime and bounds.      *)
THEOREM EverythingIsCharged == MCSpec => []ChargedInFull
<1>1. Account!Spec => [](Account!RuntimeCharged /\ Account!RuntimeWithinPermit
                         /\ Account!DiskCharged /\ Account!BytesCharged)
  <2>1. Account!AccountingAssumption
    BY AccountConstants
  <2> QED
    BY <2>1, AccountingCharges, PTL
<1>2. Account!RuntimeCharged /\ Account!RuntimeWithinPermit
      /\ Account!DiskCharged /\ Account!BytesCharged => ChargedInFull
  BY DEF ChargedInFull
<1> QED
  BY <1>1, <1>2, ComponentsRun, PTL
=============================================================================
