# Verification of cirujano

cirujano moves GitHub Actions work off hosted machines and proves what that
saves. Its core runs jobs on a Nebius VM that exists only while there is work: a
controller on the operator's Mac watches the queue, creates, starts, arms,
drains, stops and deletes one VM, and must neither pay for compute nobody uses,
nor exceed what an operator's permit allows, nor interrupt a job. It may crash at
any point, its requests may be lost or answered late, the provider may refuse for
lack of capacity, and the guest has a watchdog of its own. Around it stand a
fleet registry, telemetry and its savings report, an optimizer that spends
single-use permits on paid requests, sandboxes and pull requests, a push guard
that skips validation already done, and CI-cadence scripts. Most of these are
small protocols over files, launchd agents and GitHub reads.

This directory models those protocols in TLA+, checks them with TLC on small
instances, and proves the central invariants with TLAPS for every value of the
constants.

## 1. Inventory

| Component | Source | State it keeps | What is hard |
|---|---|---|---|
| Contracts | `packages/runner/src/contracts.ts` | none | - |
| Lifecycle decisions | `packages/runner/src/lifecycle.ts` | none (pure) | priority of some twenty branches over incomplete observations; deadlines, expiry, backoff |
| Controller journal | `packages/runner/src/controller.ts` | `controller-state.json`: lifecycle and pending effect | write-ahead journal, crashes between writes, uncertain effects, change of permit |
| Watch loop | `packages/cli/src/runner-service.ts` | accounting, active-job and assignment files, routing lease | reads taken before writes; lost replies; SIGINT; cleanup by a second command |
| Guest scripts | `packages/runner/guest/*.sh`, `cloud-init.ts` | anchor, grant, admission, ready marker | scripts interleave under a lock but read clocks outside it; first boot fails in parts |
| Nebius adapter | `packages/runner/src/adapters/nebius.ts` | none; instances and operations at the provider | listings in pages, several encodings of one state, foreign instances |
| GitHub adapter | `packages/runner/src/adapters/github.ts` | read cache, hold, quota | cache limits, paging while lists change, retry-after |
| SSH and processes | `adapters/ssh.ts`, `adapters/process.ts` | none | address changes, time-outs, a helper that ran although the call failed |
| Journal files, lock | `packages/runner/src/journal.ts` | lock file, socket, journal | stale sockets of older controllers; power loss between rename and sync |
| Routing | `packages/runner/src/routing.ts`, `packages/cli/src/fleet-routing.ts`, `fleet-health.ts` | repository variable | two releases at once; evidence stale when a run is cancelled |
| Pilot, report, permits | `packages/runner/src/pilot.ts`, `operating.ts`, `cost.ts`, `report.ts` | evidence files | limits that round differently; a rerun hiding a failure |
| Fleet | `packages/cli/src/fleet-service.ts`, `fleet-registry.ts` | registry, `config.json`, archived journals | long histories of enrol, cut over, revert, replace; a controller that loaded the config a command rewrites |
| Telemetry | `packages/cli/src/telemetry*.ts`, `scripts/*telemetry*.sh` | daily snapshots, report, launch agent | missed days, retried runs, a report made while its inputs move |
| Optimizer | `packages/cli/src/optimization`, `packages/core/src/optimization` | permits ledger, one journal per request | a paid request whose answer was not seen |
| Push guard | `packages/core/src/optimization/push-*` | none; workflow file | a tree tested on another base; evidence read in several requests |
| Advisory | `packages/cli/src/advisory`, `scripts/advisory` | ledger, receipts | workers that outlive their parent |
| CI cadence | `scripts/ci-cadence.mjs`, `scripts/measure-ci-cadence.mjs` | receipts | lanes that supersede one another; minutes counted while runs go on |
| Installation | `scripts/install-*.sh`, launchd plists | installed bundle, loaded agents | agents of other enrollments running the old bundle |
| Billing, command line | `packages/core/src/billing.ts`, `packages/cli/src/bin.ts` | none | - |

How they interact. `watch` repeats a tick. A tick reads provider and GitHub, then
the guest over SSH (`observe`), advances accounting and idle evidence, and hands
the result to `tickController`, which either deals with the pending effect of an
earlier tick or asks `decideLifecycle` for the next effect, writes it to the
journal, writes the emitting stage, sends one request (`executeEffect`) and
writes what the reply says. Later ticks read the world back (`reconcileEffect`)
until the effect is proven, refused or abandoned. The guest enforces its own
deadline whatever the controller does, and the job-start hook refuses a job that
would not end in time. Fleet commands write the registry that tells which
workflows are routed; the controllers' journals and the collected jobs are what
the telemetry report is made from. The optimizer's commands share nothing with
the controller but the way they spend: reserve a permit in a ledger, journal the
intent, send once, and read the outcome back.

The properties that make each part correct are in section 4; `PROJECT.json`
lists the hazards of the code with the properties aimed at them.

## 2. Modules

The controller and its parts:

* `Lifecycle` - the pure half: permits, start budget, backoff and
  `DecideLifecycle`, one operator per branch group of `decideLifecycle`.
* `Controller` - watch process, journal, provider, guest, GitHub queue and job.
* `ControllerLock` - `acquireControllerLock`: any number of processes, a file lock
  and a socket, older controllers that know only the socket. `Controller` has one process because of what is shown there.
* `DirectAction` - stop and cleanup beside the controller, a record of what was
  sent, the recovery of a cut-off action and SIGINT.
* `Accounting` - what a tick charges, against how long the VM really ran.
* `QueueObservation` - the reads of `observe`, one by one, over a GitHub that moves.
* `GuestBoot` - first boot, watchdog and arming, each clock read and lock a step.
* `GuestCall` - one SSH call with its attempts, timers and known hosts.
* `JournalFile`, `AtomicRegister` - the system calls of `writeJournalAtomic`, and
  the register they implement.
* `GitHubReads`, `GitHubPages` - cache, hold and quota; paging.
* `NebiusInventory`, `NebiusOperations` - what is made of listings and operations.
* `Routing`, `RoutingParity`, `RoutingRelease`, `RoutingGate` - the routing
  decisions, their comparison with the start budget, both releases step by step,
  and the parser of the gated `runs-on`.
* `AgentInstall` - installing a release while agents run.

What is around it:

* `Fleet`, `FleetEvidence` - registry commands, and the controller evidence in them.
* `TelemetryStore`, `TelemetryReport`, `TelemetryAgent` - collection and snapshots,
  the savings report, the daily agent and its installer.
* `PermitProposal`, `PilotEvidence`, `RunnerReport` - quotes and permits, the pilot
  fixture, the acceptance report.
* `SinglePost` - what a single-use permit promises; `Inference`, `Enrichment`,
  `AdvisoryEvaluation`, `Publication`, `SandboxRun` - the services that spend one.
  `Inference` and `Enrichment` are checked, and proved, to implement `SinglePost`.
* `PushClassifier`, `PushGuard`, `PushMeasurement` - the decision to skip a
  validated push, the guards it puts into a workflow, and what they save.
* `CadenceLanes`, `CadenceNightly`, `CadenceMeasure` - lanes, nightly decision and
  the measurement of minutes.

Instances for TLC: `MCController`, `MCRunner`, `MCPermits`, `MCAdapters`,
`MCDelivery`, `MCFleet`. Proofs: `ControllerProofs`; `PermitProofs` (inference,
enrichment, evaluation, publication, proposal and their composition `MCPermits`); and,
below the model they are about, in `DirectAction`, `RoutingRelease`, `SandboxRun`,
`TelemetryAgent`, `MCRunner` (controller lock, guest calls, accounting, and the components
of the run together) and `MCAdapters` (journal file and Nebius adapter).

### One component per behaviour

Except for `MCController`, an MC module joins several components that share no
variable: `part` is chosen in the initial state, the component named by it takes
its steps (`...Alone` keeps the variables of the others unchanged) and the others
rest in an initial state of theirs. TLC then explores the sum of the components'
state spaces, not the product, and each property speaks of the component whose
part runs. Interaction that matters is inside a component: `Controller` holds
journal, cloud, guest and GitHub together, `TelemetryReport` registry, journals and
jobs, `Publication` two directories, a ledger and GitHub.

A property of such a run is a conjunction, one conjunct per promise; each conjunct
is defined and explained in its own module, and section 4 names them.

### Controller: state and code

`journal` and `pending` are the two halves of `controller-state.json`; `accounting`
and `activeJob` are the other state files. `pc`, `input`, `reply` and `wakeAt`
belong to the process and are lost in a crash. `vm`, `creating`, `createOp`,
`startOp` and `extra` are the provider; `queued`, `registered` and `assigned` are
GitHub. `boots`, `killed` and `faults` are history variables.

A tick is cut wherever the process can die or the world can move: `ObserveCloud`,
`ObserveGuest`, then one of `DecideNothing`, `RecordDecision` (intent written),
`AbandonPending`, `BlockPending`, a reconciliation step, or `EmitIntent` (stage
written), then one `Execute...` (the request) and `JournalReply`. `Crash` is
possible between any two. A throw in the code is `Exit`: watch ends and launchd
starts it again (`Restart`), perhaps with another permit file.

* Times are small naturals in one unit. `Tick` waits for what the code or the
  environment does without delay (`Urgent`); reads and requests may take up to
  `TickTime`.
* Provider and GitHub reads of one tick are one step, the guest read another; the
  single reads are in `QueueObservation` and `NebiusInventory`.
* Identity is one flag (`own`); foreign VMs are in `NebiusInventory`.
* Of the idle observations the first since the last interruption is kept.
* `activeJob` stands for the marker file and for the open assignments read with it.
* `provider.outstandingOperation` is always null in `observeProvider` and is left
  out; `adopt-vm` and the `retry` answer of a reconciliation are never produced for
  `tickController` by the service.
* A create is listed by the provider once it settled, a start at once.
* `JournalConsistent` asks for equality where `assertStateInvariants` accepts a
  larger start count for a pending start: `waitForCapacity` relies on it.
* Dry runs send nothing, and save what they observed only when there is nothing to do
  (`controller.ts:199`); they are left out.

The headers of the other modules say which files they translate, what is a step
and what is external. `PROJECT.json` maps each definition to its lines.
## 3. Bounds and fairness

`Controller` takes a poll interval, a job and a shutdown margin of 1 unit and a drain
fallback and unarmed window of 2, so that drain cut-off, hook cut-off, watchdog and
emergency stop fall on distinct instants. `controller` has a lifetime of 6, a boot
timeout of 1, a permit for three starts that expires at 9, and ends one unit later, so
that recovery after expiry is reached; beyond `MaxTime` instants are not told apart,
but a running guest's window and a running job still end. Two jobs, so that one may
arrive while the guest is drained for the other, and one fault (`MaxFaults`) of any
kind in `AllFaults` (crash, lost request, lost reply, refusal, silent readback,
withdrawn job and so on): one fault reaches every error path of the code.
`controller_shutdown` and `duplicate_create` have one job, a lifetime of 4, a boot
timeout of 2 and a permit for two starts that expires at 7, and end at 10;
`duplicate_create` needs two crashes.

The other instances, with the bound that makes the interesting case happen:

| Part | Bound |
|---|---|
| lock | four processes, two older controllers, deaths at any point |
| direct | one process, two VMs, two operations, two starts (one each for liveness) |
| release | one run with a gated and a hosted job, two polls, three attempts, one renewal, one failed call |
| parity | every permit, journal and clock of a grid around each limit of `assessService` |
| gate | a guard and up to three more tokens; scalars of up to five characters |
| accounting | two VMs, two starts, three units of time |
| grants, lifetime, unarmed, hung | two arms, two boots, one stalled script; a long grant; a first boot that fails in parts; one that hangs |
| call | two addresses, two faults, half-second steps |
| install | two enrollments, two attempts, one crash |
| queue | one run and another repository's runner, one status move between reads, one failed read |
| inference, enrichment, publication, pair, verifier | two directories (processes) competing for two permits, one fault (`MaxFaults`), two edits of a permit (`Edits`), so every reservation meets its crash, its copy and its retry; others may close the pull request (`Changes`), so that two of one head follow each other (`MaxPosts`) |
| evaluation | three requests (`Batch`), the last of them to the Nebius model, two authorisations, two runs (`MaxRuns`) |
| proposal | both sides of every bound; the grids are named in `Permits.cfg` (`Lifetimes` to `Spells`) |
| journal | four writes, crashes between any two system calls |
| reads, pages | three keys, two callers, quota 4 with reserve 2; five items in pages of two, four changes |
| inventory, operations | two instances (`MaxId`), four listings (`MaxListings`); every printed form of an operation |
| classifier, reads | two changes on five commits, or three with rewritten history, re-runs |
| guard | every workflow of two jobs, every candidate |
| savings, reruns | a cohort with one push out of the ordinary, runs re-run between two reads, one failed read |
| nightly, retries, judged | two heads, one authorised retry, receipts missing or stale |
| lanes, supersede | two events of every kind and two commits; three runs of one commit that wait for one another |
| window, target | three units of time, two runs, two attempts (window) or every lane and runner kind (target) |
| agent | two collectors, one fault, two snapshots (one when every collection fails) |
| fleet | one workflow of two jobs, two enrollments in all, one fleet command at a time, at most one watch process per enrollment, eight edits and commands |
| evidence | three jobs, two archives |
| missed, daily | three days with one missed; two with one collected every day |
| report, jobs | a workflow enrolled twice; two jobs of one enrollment |
| pilot, runner | four fixture runs on three machines; a scenario rerun across a rebuild |

Deadlock is checked for `Controller`. The other instances stop where their bounds
on commands, runs and time are used up, and say `CHECK_DEADLOCK FALSE`. Symmetry
is used in `permits` only: directories and permits are interchangeable there, and
no liveness is checked with it.

Fairness is stated only where the code or the platform provides it:

* `Controller`: time passes (strong fairness, as other steps interrupt it); the
  process takes its steps, since launchd restarts it
  (`scripts/launchd/com.thecreativetoken.cirujano-runner.plist.in`, KeepAlive) and
  reads and requests time out; provider operations settle; bootstrap ends; the
  watchdog runs; a job handed out is started or given up, and ends. Nothing is
  assumed of arrivals, withdrawals, assignments, crashes or other faults.
* `DirectAction`: processes end, operations settle, the watchdog powers off, the
  operator repeats a stop whose reads do not fail for ever.
* `RoutingRelease`: the loop ticks, calls return, GitHub ends what it agreed to
  cancel, a VM boots, jobs are served and finish. A run being cancelled hands out
  no more jobs.
* `QueueObservation`: the loop observes for ever; jobs and runs end.
* `GuestBoot`: time passes and a script that runs makes its steps; nothing is
  assumed of cloud-init.
* `GuestCall`: processes run, launchd restarts, the network answers what it owes,
  SIGKILL works; nothing makes ssh obey SIGTERM.
* `AgentInstall`: the installer's next command and what launchd owes are done; a
  teardown outlasts fewer than `MaxAttempts` attempts; agents tick.
* `Inference`, `Enrichment`, `AdvisoryEvaluation`: the command's deadline fires and
  files are written; an orphaned worker ends. The provider may stay silent.
* `Publication`, `SandboxRun`: status is asked again and again for what was begun.
* `PushClassifier`: the step script runs to its end.
* `CadenceNightly`: the schedule fires every night, its steps and the suites end.
* `TelemetryAgent`: launchd launches daily and at a login that comes, a script that
  runs comes to its end. Liveness is checked with no manual collection beside it
  (`MaxManual` 0).

## 4. Runs

| Run | Checks | Shows |
|---|---|---|
| `controller` | `TypeOK`; `JournalReadable`, `JournalConsistent` (every file a crash can leave is accepted by `parseControllerState`); `BootsCounted`; `GenerationsAgree`; `GrantWithinPermit`; `NoJobKilled`; `SingleVm`; `BackoffRespected`, `JournalMonotone` | one VM from queued work to shut-down over three paid starts, with at most one fault anywhere |
| `controller_shutdown` | `EventuallyOff`, `GuestEffectEnds` | a running VM is switched off, and a guest effect that can no longer be proven gives up its slot |
| `duplicate_create` | `CreateReconciledFirst` (violated) | finding 1 |
| `runner` | `Exclusive`, `HolderIsReachable` (lock); `NoJobCutShort` (`NoJobStopped`, `HostedJobNeverKilled`, `RunnerJobNeverKilled`); `ChargedInFull`; `TakenForTrue` (queue, calls, routing, gate, installation); `GrantsHold`; `StepsAreSafe` | the runner service around the controller, each part with its interleavings, crashes and faults |
| `runner_end` | `WorkEnds` (`StopCutOff`, `Stranded`, `OverButAssigned`, `HungBoot`, `CallRuns`, `ReachableUnarmed`, `GoesThrough`) | what the service begins ends |
| `permits` | `SentIsJournaled`; `OnePostPerPermit`; `SpentOnce`; `WithinAuthority`; `AnswersAreTrue` | a permit pays once whatever crashes, copies, deadlines and repeats come between; no command answers more than it can know |
| `permits_end` | `OutcomesSettle` | commands end, and repeated status settles what is known |
| `adapters` | `NeverTorn`, `ReturnedIsDurable`, `Atomic` (journal file); `NebiusActedOn`; `GitHubReadTruly` | the file, cloud and GitHub adapters |
| `delivery` | `OneRelease`, `ReportNeverOlder` (telemetry agent); `SkippedWasTested`, `GuardKeepsWorkflow`; `DecidedOnEvidence` | what the scripts decide rests on what GitHub ran |
| `delivery_end` | `NewsArrives` (`RedIsTold`, `CollectionComesBack`, `HeadIsJudged`, `ClassificationEnds`) | decisions and news come |
| `fleet` | `CountedOnce`; `ClaimsEarned`; `RegistrySound` | what is charged, credited and claimed is so once, and with evidence |

`Atomic` and `OnePostPerPermit` are refinements: `JournalFile` implements
`AtomicRegister`, `Inference` implements `SinglePost` (and so does `Enrichment`, in
`SpentOnce`). `GuardImplementsWorkflow` compares the guarded workflow with the one
it replaces.

Every property of a passing run has a mutant in `PROJECT.json`: the changed
definition (`... Mutant: ...` in the modules) is a plausible slip in the code, and
TLC finds the property violated under the same configuration.

`TypeOK` is the one property of `controller` that is aimed at no hazard.
`NoJobKilled` is about what the controller and the watchdog do: a guest that fails
(`GuestFails`) takes its job with it and is not counted. `GenerationsAgree` is
`ListenerMatchesJournal` (a listening runner is of the journal's generation and
deadline, and registered for it) and `DiskBehindJournal` (the guest's disk never
carries a generation the journal has not given out). `SingleVm` is checked for one
fault: two crashes refute it. `SingleVmUnlessCutOff` proves it for any number of faults
but the one that begins finding 1.

`RegistrySound` holds with one fleet command at a time. `controller-config` looks for
a bound journal (`fleet-service.ts:374`), writes `config.json` (`:384`) and the registry
(`:387`) in three steps; a watch process loads `config.json` once, when it starts
(`runner-service.ts:185`), and binds the accounting file (`:641`) and the journal
later. So a journal may part from `config.json`. What holds, and is checked:
`JournalsPartOnlyInRace` (only if the process had loaded the config before it was
rewritten, or journaled first after the command had looked), `FilesAgree` (accounting
file and journal are bound to the same config, parted or not) and `PartedLeftAlone`
(once parted, no later controller or command touches the files before they are
archived).

### Finding

1. The runbook says that after a crash the controller reconciles the recorded
   operation before another mutation. A create intent that was journaled before
   the crash can be sent by a tick at its deadline; the next tick finds it past
   the deadline and abandons it while the create is in flight, and a second create
   follows (`duplicate_create`, `controller.ts:651`).

### Properties the code does not have

While modelling, the following properties, each stated by a doc, comment or test
of the repository, were found not to hold of the model. Their definitions stay in
the modules, marked so, and no run checks them.

* `Controller!SpentGuestNotRestarted`: after an emergency stop, queued work makes
  the controller start the VM whose grant is used up
  (`docs/runbooks/nebius-runner.md:87`, `lifecycle.ts:231`).
* A pending start can always be armed on the disk it boots. If the boot or the
  arming of a start takes longer than its whole grant, the start is abandoned with
  the disk one generation behind (`controller.ts:645`), the emergency stop ends the
  VM, and the next start reserves a generation two ahead (`lifecycle.ts:231`), which
  `arm-grant.sh:40` refuses. This was found when the inductive invariant for it
  failed; `GenerationsAgree` states what does hold.
* `DirectAction!OwnStopRecorded`: a controller's own stop is sent before it is
  recorded, so a crash between leaves a VM that seems to have stopped by itself
  (`runner-service.ts:1202`).
* `DirectAction!OnlyHolderMutates`: an interrupt recovery that runs out of time is
  left running after the lock is released (`controller.ts:257`). Within the time limit
  it holds, which `HolderAlwaysMutates` proves.
* `Fleet!JournalsBound`: a controller that loaded `config.json` before
  `controller-config` rewrote it, or started between its look and its write, leaves a
  journal bound to another config (`fleet-service.ts:374`). The refusal that
  `fleet-service.test.ts:579` shows is of a journal that is there when the command
  looks. An accounting file without a journal is not looked at: the next controller
  refuses it until it is archived.
* `GuestBoot!QuarantineMeansRegression`: the watchdog compares a clock reading from
  before its wait for the lock with one written meanwhile (`watchdog.sh:85`).
* `GuestBoot!PreflightFailureStops`: a failed SSH preflight does not keep cloud-init
  from the commands after it (`cloud-init.ts:86`).
* `AgentInstall!VerifiedMeansNewTick`: an event of the old agent verifies the new one
  (`install-runner-agent.sh:168`).
* `TelemetryAgent!VerifiedMeansCollected`: a manual collection verifies an agent that
  found the lock held (`install-telemetry-agent.sh:81`).
* `TelemetryReport!ReportStopsThere`: provider cost after the measurement window is
  subtracted from savings inside it (`telemetry.ts:535`).
* `PermitProposal!ReportedWithinQuote`: a quote divides a month's disk price by 730
  hours, the accounting by 720 (`operating.ts:87`, `cost.ts:4`).
* `RoutingGate!StrayQuoteRefused`: a scalar with an opening quote alone is read as
  plain (`fleet-routing.ts:120`).
* `Publication!InterruptedWritesRecover` (under `RetrySpec`): a crash between two
  files leaves a publication no command can take up (`publish.ts:91`).
* `Publication!LostAnswerStaysUnknown`: a moved base answers "rejected" although the
  pull request exists (`publish.ts:83`).
* `SandboxRun!UnknownIsReconciled`, `SandboxRun!FailedIsTerminal`: a create that
  failed before its request leaves the run unknown for good (`verify.ts:44`), and a
  failed read turns a recorded failure into unknown (`push-verify.ts:72`).
* `AdvisoryEvaluation!PermitIsSingleUse`: two ledgers do not see each other, so one
  permit pays for two requests (`evaluation-runtime.ts:87`).

Some passing properties are bounded to where the code keeps its promise; outside,
TLC refutes them. `HostedJobNeverKilled` and `RunnerJobNeverKilled` hold with the
controller's release alone: the owner's `fleet release --cancel-stranded` names
runs, not attempts, and does not ask whether an owned VM may take the job
(`fleet-health.ts:67`, `:331`). `ValidatedWasTested` needs a base branch that is not
force-pushed and is checked for a single attempt, `UsualMergeIsValidated` needs neither (`push-classifier.template.mjs:79`).
`ReportComplete` holds without a missed day (`telemetry-service.ts:92`);
`OneAttemptPerRetry` when a retry ends as a failure or a valid success
(`ci-cadence.mjs:192`); `CadenceMeasure!CompleteMissesNothing` when the collection
starts after the window has closed (`measure-ci-cadence.mjs:316`). `NeverTorn` is
about `writeJournalAtomic`, which syncs; the registry and the telemetry snapshots
are renamed without a sync and may be torn by a power loss
(`fleet-registry.ts:237`).

## 5. Proofs

The theorems hold for every value of the constants that satisfies the named
assumptions, all of which TLC evaluates on the runs:

* `ConfigAssumption` (`Lifecycle`) is what `parseRunnerConfig` guarantees of the
  timings; `UnarmedAssumption` says that the guest's unarmed window is positive;
  `ControllerAssumption` gives the types of the instance's permits and bounds, and
  that a permit of this runner has a nonempty id (`parsePermit`).
* `LockAssumption`: the two kinds of lock holders are disjoint.
* `DirectAssumption`, `BoundsAreCounts`, `WritersAreKnown`, `InventoryAssumption`,
  `ProposalAssumption`: bounds are counts, quantities natural numbers.
* `BatchAssumption`: an experiment has requests.
* `ReleaseAssumption`: the gated jobs are jobs, the processes that release are the
  controller and the owner, timings and attempts are positive, bounds are counts.
* `SandboxAssumption`: there is a role, and the fault kinds are those of the module.
* `PublicationAssumption`: the same of what others do, and `NoPermit` is no permit id.
* `EvaluateConstants`, `PublishConstants`, `PairConstants`, `VerifierConstants`,
  `ProposeConstants` (`MCPermits`), `InventoryConstants` (`MCAdapters`),
  `DirectConstants`, `ReleaseConstants`, `CallConstants` and `AccountConstants`
  (`MCRunner`) say that an instance meets the assumption of the module it is an
  instance of. `PollIsValid` (`GuestCall`) is the least poll interval
  `parseRunnerConfig` accepts (`config.ts:109`), in whole milliseconds, and a clock whose
  steps divide a second;
  `AccountingAssumption` that quantities are natural numbers.

Eight modules hold theorems; those of a component with few lemmas stand in its own
module.

| Theorem | Module | States |
|---|---|---|
| `InductiveInvariant` | `ControllerProofs` | `Spec => []IInv` |
| `TypeCorrect`, `JournalAlwaysConsistent` | `ControllerProofs` | `TypeOK`, `JournalConsistent` |
| `JournalOnlyForward` | `ControllerProofs` | `JournalMonotone` |
| `BootsAlwaysCounted` | `ControllerProofs` | `BootsCounted`, if all permits have one start cap |
| `JournalAlwaysReadable` | `ControllerProofs` | `JournalReadable` |
| `BackoffAlwaysRespected` | `ControllerProofs` | `BackoffRespected` |
| `NoJobEverKilled` | `ControllerProofs` | `NoJobKilled` |
| `GenerationsAlwaysAgree` | `ControllerProofs` | `GenerationsAgree` |
| `GrantAlwaysWithinPermit` | `ControllerProofs` | `GrantWithinPermit`, if the watchdog works and all permits have one expiry |
| `SingleVmIfSentInTime` | `ControllerProofs` | `SingleVm`, if every create is sent while its operation can settle before its deadline |
| `SingleVmUnlessCutOff` | `ControllerProofs` | `SingleVm`, if no crash falls between the journal write of a create and its request |
| `LockExcludes`, `HolderStaysReachable` | `MCRunner` | `Exclusive`, `HolderIsReachable` |
| `JournalIsWhole`, `JournalIsDurable` | `MCAdapters` | `NeverTorn`, `ReturnedIsDurable`, for a writer that syncs |
| `JournalIsRegister` | `MCAdapters` | `Atomic`: the file implements `AtomicRegister` |
| `NebiusAlwaysActedOn` | `MCAdapters` | `NebiusActedOn`, for any number of instances and listings |
| `RequestIsJournaled`, `PermitPaysOnce` | `PermitProofs` | `SentIsJournaled`, `OnePostPerPermit`: the inference service implements `SinglePost` |
| `OutcomeStaysReported` | `PermitProofs` | `UnknownIsReported`, `DecisionReadsBack` of `Inference` |
| `PermitIdPaysOnce`, `InspectionAlwaysTrue` | `PermitProofs` | `Enrich!OnePostPerPermit` (it implements `SinglePost`), `InspectionIsTrue` |
| `PublishedAlwaysExists`, `PostsAlwaysJournaled`, `NumberStaysStable` | `PermitProofs` | `PublishedExists`; `PostIsJournaled` and `Publish!OnePostPerPermit`; `NumberIsStable` |
| `SpendStaysWithinCeiling` | `PermitProofs` | `SpendWithinCeiling` |
| `AuthorityIsNeverExceeded`, `AnswersStayTrue`, `EverySpendingIsFinal` | `PermitProofs` | `WithinAuthority`, `AnswersAreTrue`, `SpentOnce` of the composition `MCPermits` |
| `AuthorityAlwaysKept`, `InstanceAlwaysJournaled`, `VerdictsAreTrue` | `SandboxRun` | `AuthorityIsKept`; `InstanceIsJournaled`; `DefiniteMeansOver` and `VerifiedIsEarned` |
| `RequestsSentOnce`, `UnknownAlwaysStops` | `PermitProofs` | `SentOnce`, `StopsAtUnknown` |
| `AccountAlwaysHonest`, `QualifiedIsAlwaysMeasured` | `PermitProofs` | `AccountIsHonest`, `QualifiedIsMeasured` of `AdvisoryEvaluation` |
| `JobsNeverStopped`, `SecondRequestAlwaysWaits`, `DoneIsAlwaysTrue`, `HolderAlwaysMutates` | `DirectAction` | `NoJobStopped`, `SecondRequestWaits`, `DoneIsTrue`, `OnlyHolderMutates`, if no interrupt recovery exceeds its time limit |
| `ReleaseInterruptsNothing` | `RoutingRelease` | `HostedJobNeverKilled`, `RunnerJobNeverKilled`, if only the controller releases |
| `NoJobIsEverCutShort` | `MCRunner` | `NoJobCutShort`, if no interrupt recovery exceeds its time limit |
| `CallsAreJudgedRight`, `HelpersRunAtHome` | `MCRunner` | `TransientNeverRan` and `TimeoutMeansSession`, `RanAtHome` of `GuestCall` |
| `StepsStaySafe` | `MCRunner` | `StepsAreSafe`, if no interrupt recovery exceeds its time limit |
| `EverythingIsCharged` | `MCRunner` | `ChargedInFull`: `AccountingCharges`, for any permit and bounds |
| `ReportsMoveForward`, `LoadedAgentIsOneRelease` | `TelemetryAgent` | `ReportNeverOlder`, `OneRelease` |

### The controller

Five invariants are built on one another, each with a lemma per action or per
group of actions and a lemma per branch of `DecideLifecycle`.

**`IInv`** is `TypeOK`, `JournalConsistent` and three strengthenings. A tick does
not write the journal it finds on disk but the copy it read at its start, with
runtime and idle evidence advanced, so `JournalConsistent` needs
`TickReadsJournal`: when the tick decides, its copy agrees with the disk in intent
and start count, its idle evidence is of no later generation, and observing a
stopped VM added none. A refused start hands its generation back, so the start
count falls; `ReservedIsNew` says that idle evidence is of an earlier generation
than the start in progress, so none is left from the future. `CapacityRefusesCompute`
says that a capacity reply answers a create or a start only. The central lemma,
`DecisionAdmissible`, shows of every branch of `DecideLifecycle` that what it
decides without an outstanding intent may be written next to the journal it was
decided on.

**`BootInv`** adds `BootRoom`, which counts what may still boot: as long as a
journaled start is not sent, or sent and not over, one generation is reserved
beyond the boots that happened; and `TickIsCurrent`, that the copy a tick decides
on has the start count and permit of the disk and a runtime not below it. From it
follow `JournalMonotone` (an action property: runtime never shrinks, and the start
count falls only by the refusal of a start that did not boot) and, with `WithinCap`,
`BootsCounted`. `WithinCap` needs the hypothesis `SameCap`: an operator who lowers
the start cap with a new permit leaves a count that exceeds it. Nothing in the code
prevents that, so the theorem says so instead of assuming it away in the model.

**`ReadInv`** adds what the next start of the process reads, at every crash point.
`FilesReadable` is `JournalReadable` with two facts about the pending effect: a
start was journaled before its deadline (`StartHasWindow`), and what waits for
capacity was journaled after the wait was over (`WaitObserved`). Both are decided on
the tick's copy and written later, so they rest on `CopyOfDisk` (grant and wait of
the copy are those on disk), `GrantIsTimed` (`arm-grant.sh` writes generation and
deadline together) and `ClockBounded` (the instant a tick decides at is not ahead of
the clock). `Journalable` says of a decision what `assertStateInvariants` will ask
of the file it leads to, and is shown for each branch. `BackoffRespected` is then an
action property of the two steps that send a create or a start. TLC checked `ReadInv`
on an instance with two starts, and `IInv` and `BootInv` with two permits, before
they were proved.

**`RunningInv`** adds what runs on the VM (`GuestInv`). `NoJobKilled`,
`GenerationsAgree` and `GrantWithinPermit` are proved together because each needs the
others. The tempting invariant, that a running VM is of the journal's generation, is
false: a disk keeps the grant of an earlier generation through a boot. What is
invariant (`OldGrantOverdue`) is that such a VM either has the start that will arm it
pending or is past the journal's deadline, and then `decideLifecycle` only stops it
(`LifetimeReached` comes before everything else). So a registration is only decided,
and, the effect being the only one pending, only sent, for a VM that enforces the
journal's grant (`DecidedOn`), and a listening runner is of that generation
(`ProcessesMatch`). A stop finds no job. An idle stop was decided on a guest seen
drained, and no runner appears until the next registration. An emergency stop was
decided at the journal's deadline, where the window of the journal's generation is
used up (`WindowEnds`), and the start hook only admitted a job whose time, with the
shutdown margin, the window still held. The watchdog finds none for the same reason.
The generation count rests on `NewGenerationUnused`: while a start may still boot or
be refused, the disk is behind the journal, so a generation that is handed back was
armed nowhere. `ReadStillTrue` says which of the tick's observations outlive the
steps the world takes before they are used, and `DeadlinesPermitted` that every
deadline given out came from a permit. `GrantAlwaysWithinPermit` has two hypotheses
because the code promises no more: without a watchdog nothing ends the window, and a
process restarted with a permit that expires sooner does not shorten a grant already
given. TLC checked every conjunct with three starts, and with two permits, two faults
and a broken watchdog, before the proof.

**`OneVm`** is about what `executeEffect` does not do: it sends a create without
looking for an owned VM or an unfinished create first. A second VM is kept away only
because a create in flight is neither forgotten nor abandoned. `CreateSent` says what
must hold while the provider works on one: it is the pending effect, no VM exists yet,
and its operation settles before the effect is stale. `OneVm` adds that an unsent create
has no VM beside it, and that a tick that saw none and has nothing pending is right
about it. It is inductive if creates are sent in time (`CreateInTime`), which is
`SingleVmIfSentInTime`. Nothing in `executeEffect` asks for that. `Timely` shows why it
nevertheless holds without a crash: `startBudget` decides a create only when a whole job
still fits, so the deadline lies `MaxJob + ShutdownMargin` after the decision, and the
tick that decided it sends it within `TickTime`. `CreateFits` says that a tick and a
provider operation together take less than that; as operated (65 minutes,
`docs/runbooks/nebius-runner.md:160`, against reads and creates of minutes) they do.
What is excluded is `CreateCutOff`: a death between the journal write and the request.
The create is then sent by a later tick with what is left of its deadline, which is
finding 1. So the theorem and the finding together say exactly when one VM is one VM.
TLC checked `OneVm` and `Timely` with two faults before the proof.

### Lock, journal file, Nebius adapter and telemetry agent

`LockExcludes` and `HolderStaysReachable` hold for any set of processes. Both follow
from `LockInv`: whoever is past the first step holds the file lock; a bound server
and that of a running older controller are the ones at the path; and once a socket
was found left behind, no older controller runs, so the unlink that follows some
awaits later is still right. The last part holds because older controllers only end:
one that is *started* between probe and unlink is outside what the code promises
("already-running older controllers", `journal.ts:120`) and outside the model.

`JournalFile` is proved for a writer that syncs (`Synced`, which is what
`writeJournalAtomic` does; without it TLC finds the torn file). In
the refinement a rename is the write of the register, the sync of the directory its
confirmation, and every other system call a stutter.

`NebiusAlwaysActedOn` is about `observeProvider` and the parsers of its answers, for any
number of instances and listings. A listing is read in pages while instances come and
go, so what it misses matters. `MadeOrForeign` says that an instance carries an id of
ours if and only if a create request of ours made it, `WitnessedAreRead` that an instance
of ours which was there since the first page is among the pages read so far. The next
page holds the least ids behind the token, whose existence `HasLeast` gets from
well-foundedness. So an observation that saw nothing missed nothing of ours, and a create
decided on it stands alone (`CreatesOnlyWhenAlone`). `OwnMatches` shows that what the
renderer writes the recogniser accepts and a foreign spec is never taken for it. For
operations, `ParsedIsTrue` compares each printed form with the operation behind it.

`TelemetryAgent` is proved for any number of collections, kills and failures.
`ReportInv` says that whoever is past the lock holds it, so what it is about to move
over a report is not older than the report. `AgentInv` says that no agent is loaded
while bundle and script differ: the installer boots it out first, and nothing loads it
before both are moved.

### Permits and requests

`PermitProofs` shows of the inference service, for any set of directories and permits that a request was
journaled before it was sent, and that the whole service, copies of a directory,
crashes and deadlines included, implements `SinglePost`: a permit is reserved, pays
for at most one request, and is answered at most once. The invariant `SpendInv` says
that a command between reservation and request holds a permit that is in the ledger
and that no other command holds (`HoldersReserved`, `OneHolder`), that posts follow
reservations (`PostsOnce`), and that what is past the intent has it on disk
(`IntentFirst`). `ReportInv` adds what a command and its directory say of the outcome: a
request that left stays unknown until it is answered, and a decision is written receipt
first and operation last, so that a directory with a decided operation always has the
rest; `OutcomeStaysReported` follows.

`Enrichment` implements the same `SinglePost` for permit ids, which a copied
permit file may send with two different requests. `EnrichInv` says that no two
directories pay under one id (`OnePayer`) and that what was paid is in the ledger
(`PaidIsReserved`), because a directory that holds files never starts again; and that
a command posts once, after `operation.json` is written, and a definite receipt is the
receipt of an answer (`StepsInOrder`), which gives `InspectionAlwaysTrue`.

`AdvisoryEvaluation` is proved for a batch of any length. `ConsumedFirst` says that
what a worker or an orphan of a dead evaluator may still send has its permit in the
ledger and was not posted, which gives `SentOnce` across evaluators; `RowsInOrder`,
that rows behind the current one are written and known and those ahead are not run,
gives `StopsAtUnknown`; `RowsAreTrue` relates each row to what was sent, and the
account of the report is then a count of finite sets.

`Publication` (`PublicationInv`): `PublishReserved` says that a reservation in use is in
the ledger, is one command's and has paid for nothing; `Filed`, that permit, intent and
command of a directory name the same permit from the moment a file exists; `Numbered`,
that a number on disk is that of a pull request that exists and is the one read back. The
steps another process, a crash or GitHub can put between are all in the invariant's
quantifiers over directories.

`SandboxRun` (`SandboxInv`, for any list of roles, directories and faults): `PhaseOk`
gives the place of a command in its journal (which row, and whether it is recorded),
`RowOk` what a row may say of its instance, `VerdictOk` that a definite verdict leaves no
instance running, and `Reservations` that a role that may have an instance is reserved, by
one directory. A directory that never started has nothing (`FreshDir`), and a second one
that asks for the same role is refused by the ledger. Every action but the provider's touches one directory, so
each is shown to lead from `DirInv` to `DirInv` by the new values alone (`Becomes`).

`PermitProposal` (`ProposalInv`): what a permit lets be spent is priced on the permit's
limits, and a price grows with each quantity (`PricedGrows`, by products of naturals), so
no legal use costs more than the quote the ceiling was compared with.

`MCPermits` runs one of these services per behaviour. `ServicesRun` shows that every step
of the composition is a step of each service or leaves its variables alone; `SandboxRuns`,
that a pair or a verifier is one from the start to the end of a behaviour that is about
it. The three properties of the run `permits` are then theorems:
`AuthorityIsNeverExceeded`, `AnswersStayTrue` and `EverySpendingIsFinal`.

### Stop and cleanup

`DirectInv` of `DirectAction` is proved for any number of processes. `AtWorkHasLock`
makes the process at work the only one; what it relies on later is kept per stage:
no listener since the drain (`StaysDrained`), how many requests stand behind the
record and that nothing is in flight when a second is due (`RecordKept`), and that
the instance waited for is the one deleted (`WaitsForOwn`). `InFlightShows` is the
fact `recoverDirectEmission` uses without naming it: the provider has at most one
operation in flight, and it shows in the state of the instance, so a recovery that
finds the instance neither stopping nor deleting has no forgotten request to wait
for, although the reply that named the operation was lost. The hypothesis
`WithinTime` excludes an interrupt recovery that goes on after its time limit has
freed the lock. In that case two processes act at once and `OnlyHolderMutates` fails.
TLC checked `DirectInv` with two processes before the proof.

### The release of the switch

`ReleaseInv` of `RoutingRelease` is proved for any number of runs, jobs, attempts,
renewals and failed calls. `ReleaseOk` says, per stage, what the release relies on while
GitHub, the VM and the permit move between its calls: once `ownedRunnerMayTakeJobs` has
answered no, the VM is stopped with no start outstanding and stays so; a run in the
listing still has the attempt it was listed under; and the listing knows every unfinished
job of it, with the label it waits for (`Listed`). The reads are not one instant, so the
listing may be out of date in one direction: a hosted job that was queued may have begun.
That is harmless because `selectStrandedRuns` only takes runs all of whose unfinished jobs
are queued on the runner's label (`OnLabelOnly`), and a job on that label cannot begin
while the VM is stopped. `ControllerAlone` excludes `fleet release --cancel-stranded`
beside the controller: with it both properties fail, as listed in section 4.

`NoJobIsEverCutShort` joins this with `JobsNeverStopped`: `ComponentsRun` shows that every
step of `MCRunner` is a step of each of its proved components or leaves their variables
alone.

### Accounting and guest calls

`AccountInv` of `Accounting` is proved for any permit, lifetime, number of VMs and times of
observation. Run time has two baselines: `GenerationRuns` bounds what a generation has
run by each of those an observation may take, the journal's and the accounting
file's, and says that its deadline leaves the permit's envelope intact; `ObservedEnough`
says that an observation not yet saved already covers all but the tail, so that the crash
between the two writes loses nothing and every branch of the save (`SavedIs`) only turns
tail into charge. `BytesRead` keeps the two facts the maximum in `advanceObservedLifecycle`
depends on: what is unread is not more than the guest's counter since boot, and the
baselines of the observed generation still add up. `NothingYet` shows that the model
creates no VM before a first accounting file exists, so the fallback of `readAccounting`
to a pending create is never taken in it.

`CallInv` of `GuestCall` rests on `TimingFits`: for every poll interval of two seconds or
more, ssh gives up its connection at least a second before its process is killed, so only
a call with a session can time out. `StepsStaySafe` joins `HelpersRunAtHome` with the
theorems of `DirectAction`.

### Only model-checked

Liveness (`EventuallyOff`, `GuestEffectEnds`, `WorkEnds`, `OutcomesSettle`,
`NewsArrives`) is out of the prover's reach: it rests on ENABLED. `GitHubReadTruly`
counts the bytes of a cache and `RegistrySound` and `CountedOnce` add up over workflows
and jobs: these are folds, and what a fold computes for every input needs induction over
data. The other grouped properties (`TakenForTrue`, `GrantsHold`, `SkippedWasTested`,
`GuardKeepsWorkflow`, `DecidedOnEvidence`, `ClaimsEarned`) join components and are checked
as a whole; of `TakenForTrue` the part about guest calls is proved. The `Parity!` conjuncts compare arithmetic on a
grid around every limit.

## 6. Not modelled

Without a protocol of their own, and left out: billing periods and prices, the
command line, field-by-field parsing of configuration and permits, the rendering of
reports, workflows and cloud-init, redaction, and logging. What is left out of a
modelled component:

* Controller: the limit of 100 idle observations, evidence collection, two
  generations that ran equally long (`FleetEvidence` takes run times as distinct).
  `ExecuteDrain` takes `drain.sh` and the removal of the registration as one step
  (`runner-service.ts:747`); an instance in CREATING is not listed until its create
  settled, where the code would read it as starting (`nebius.ts:416`).
* `Fleet`: a `config.json` torn by a crash during its write, which every reader refuses;
  a second watch process that waits for the lock of the first.
* `Accounting`: the time by which the watchdog is late (`watchdog.sh:118`).
  `GuestBoot`: boots after the watchdog has ended a guest.
* `RoutingRelease` runs with one process and one run (its theorem has any runs). `GuestCall` leaves OpenSSH's
  envelope and redaction out, `QueueObservation` the push history.
* `AgentInstall`: issuing a permit takes longer than a start; the wrapper moves with
  the bundle (`install-runner-agent.sh:143`); `--remove`.
* `GitHubPages`: an item inserted in the middle of a list. `JournalFile`: one writer,
  and the temporary files that failed writes leave.
* `TelemetryStore`: clock skew, a job whose visibility changes before it is
  complete, the limit of retries of old jobs. `TelemetryReport`: two enrolled
  workflows of one name; the world stands still after the report; the window bounds
  jobs, not cost. `TelemetryAgent`: launchd, `lockf`, GitHub and the owner are
  external; the installer's wait over midnight UTC; a bootstrap refused after bootout.
* `SandboxRun` writes artifact and journal in one step, and a failed status read ends
  polling. `PushClassifier`: a second pull request exists only while it is open, a
  run created after the push does not finish within the 75 s of the reads, and pull
  requests are not retargeted. `PushGuard` leaves the comparison of exact bytes out and has two jobs.
  `PushMeasurement` leaves pricing and list savings out.
* `CadenceNightly`: a head stands for a receipt's identity, a finished run leaves a
  receipt, no two suites end at once. `CadenceLanes`: two fast items stand for four;
  concurrency groups are GitHub's. `CadenceMeasure`: one private repository, one job
  per attempt.

Hazards of the code that no property covers: staleness that a suspended Mac adds between two reads (`runner-service.ts:552`), a
start without operation id (`:816`), a drain that meets an assignment being made
(`:747`), the assignment of a deleted run (`:592`), a permit renewed under a pending
effect (`controller.ts:629`), two fleet commands at once (`fleet-registry.ts:229`; one
forgets the other's enrollment, and two proposals may pass the ceiling,
`fleet-service.ts:421`), a
death between force-cancel and re-run (`fleet-health.ts:72`), the order of pilot
sequences (`pilot.ts:318`), a disk known from readback alone (`report.ts:203`), power
loss between rename and admission (`arm-grant.sh:64`), a watchdog that is not
restarted (`cirujano-watchdog.service:8`), helpers gone between rm and mv
(`install-runner-agent.sh:145`).

## 7. Plan

Done: the modules of section 2, their runs, and the theorems of section 5. Next, by the
same means: the grants that `GuestBoot` never changes (`GrantsHold`), the queue
observations of `TakenForTrue`, the registry of `Fleet` apart from its sums, and the
refinement of `SinglePost` by `Publication`.
