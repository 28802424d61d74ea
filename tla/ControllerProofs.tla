--------------------------- MODULE ControllerProofs ---------------------------
(***************************************************************************)
(* Proofs about Controller, for all values of its constants.               *)
(***************************************************************************)
EXTENDS Controller, TLAPS

Decisions == [state : LifecycleStates, effect : Effects]

\* What recordAndExecuteDecision relies on in a decision taken while no intent
\* is outstanding: a create or start is for the generation after startCount and
\* carries a deadline, and nothing is adopted.
Admissible(i, d) ==
    /\ d \in Decisions
    /\ d.effect.type # "adopt-vm"
    /\ d.effect.type \in {"create-vm", "start-vm"} =>
          d.effect.generation = i.journal.startCount + 1 /\ d.effect.deadline \in Nat

\* An effect built by decideLifecycle keeps the fields it is given.
LEMMA EffectType ==
    ASSUME NEW type \in EffectTypes, NEW g \in Nat, NEW deadline \in Int
    PROVE  /\ Effect(type, g, deadline) \in Effects
           /\ Effect(type, g, deadline).type = type
           /\ Effect(type, g, deadline).generation = g
           /\ Effect(type, g, deadline).deadline = deadline
BY DEF Effect, Effects

\* "No effect" is a well-formed effect of its own type.
LEMMA NoEffectType == NoEffect \in Effects /\ NoEffect.type = "none"
BY DEF NoEffect, Effects, EffectTypes, None

\* A decision without an effect (stay, blocked) asks nothing of the journal.
LEMMA PlainAdmissible ==
    ASSUME NEW i \in Inputs, NEW s \in LifecycleStates
    PROVE  Admissible(i, Stay(s)) /\ Admissible(i, Blocked)
BY NoEffectType DEF Admissible, Stay, Blocked, Decision, Decisions, LifecycleStates

\* Stop, delete and guest effects reserve no generation.
LEMMA EffectAdmissible ==
    ASSUME NEW i \in Inputs, NEW s \in LifecycleStates, NEW e \in Effects,
           e.type \notin {"adopt-vm", "create-vm", "start-vm"}
    PROVE  Admissible(i, Decision(s, e))
BY DEF Admissible, Decision, Decisions

\* startBudget: a start within budget gets a deadline that is a point in time.
LEMMA BudgetPositive ==
    ASSUME NEW i \in Inputs, StartBudget(i)
    PROVE  i.now + AvailableRuntime(i) \in Nat
<1>1. AvailableRuntime(i) \in Int
  BY ConfigAssumption DEF AvailableRuntime, Smaller, Inputs, PermitRecords, Journals
<1>2. AvailableRuntime(i) >= MaxJob + ShutdownMargin
  BY DEF StartBudget
<1> QED BY <1>1, <1>2, ConfigAssumption DEF Inputs

\* A create or start decision reserves the next generation with its deadline,
\* whether the permit authorizes it or the decision falls back to blocked.
LEMMA CreateOrStartAdmissible ==
    ASSUME NEW i \in Inputs, StartBudget(i), NEW type \in {"create-vm", "start-vm"},
           NEW op
    PROVE  LET e == Effect(type, i.journal.startCount + 1, i.now + AvailableRuntime(i))
           IN  Admissible(i, Authorized(i, op, Decision("starting", e)))
<1> DEFINE e == Effect(type, i.journal.startCount + 1, i.now + AvailableRuntime(i))
<1>1. i.now + AvailableRuntime(i) \in Nat
  BY BudgetPositive
<1>2. i.journal.startCount + 1 \in Nat /\ type \in EffectTypes
  BY DEF Inputs, Journals, EffectTypes
<1>3. /\ e \in Effects /\ e.type = type
      /\ e.generation = i.journal.startCount + 1 /\ e.deadline \in Nat
  BY <1>1, <1>2, EffectType
<1>4. Admissible(i, Decision("starting", e))
  BY <1>3 DEF Admissible, Decision, Decisions, LifecycleStates
<1>5. Admissible(i, Blocked)
  BY PlainAdmissible DEF LifecycleStates
<1> QED BY <1>4, <1>5 DEF Authorized

\* authorized and authorizedCleanup pass an effect on or block; both are
\* admissible for effects that reserve nothing.
LEMMA GuestEffectAdmissible ==
    ASSUME NEW i \in Inputs, NEW s \in LifecycleStates, NEW op, NEW d \in Int, NEW g \in Nat,
           NEW type \in EffectTypes \ {"adopt-vm", "create-vm", "start-vm"}
    PROVE  /\ Admissible(i, Authorized(i, op, Decision(s, Effect(type, g, d))))
           /\ Admissible(i, AuthorizedCleanup(i, Decision(s, Effect(type, g, d))))
<1>1. Effect(type, g, d) \in Effects /\ Effect(type, g, d).type = type
  BY EffectType
<1>2. Admissible(i, Decision(s, Effect(type, g, d)))
  BY <1>1, EffectAdmissible
<1>3. Admissible(i, Blocked)
  BY PlainAdmissible
<1> QED BY <1>2, <1>3 DEF Authorized, AuthorizedCleanup

\* The lifetime stop of decideLifecycle reserves nothing.
LEMMA EmergencyAdmissible ==
    ASSUME NEW i \in Inputs
    PROVE  Admissible(i, EmergencyStop(i))
<1>1. EmergencyEffect \in Effects /\ EmergencyEffect.type = "stop-vm"
  BY DEF EmergencyEffect, Effects, EffectTypes, None
<1>2. Admissible(i, Decision("stopping", EmergencyEffect))
  BY <1>1, EffectAdmissible DEF LifecycleStates
<1>3. Admissible(i, Blocked)
  BY PlainAdmissible DEF LifecycleStates
<1> QED BY <1>2, <1>3 DEF EmergencyStop

\* With no VM, decideLifecycle waits, blocks, or creates the next generation.
LEMMA AbsentAdmissible ==
    ASSUME NEW i \in Inputs
    PROVE  Admissible(i, DecideAbsent(i))
<1>1. Admissible(i, Stay("absent")) /\ Admissible(i, Blocked)
  BY PlainAdmissible DEF LifecycleStates
<1>2. CASE StartBudget(i)
  <2>1. Admissible(i, Authorized(i, "create",
             Decision("starting", Effect("create-vm", i.journal.startCount + 1,
                                         i.now + AvailableRuntime(i)))))
    BY <1>2, CreateOrStartAdmissible
  <2> QED BY <1>1, <2>1 DEF DecideAbsent
<1>3. CASE ~StartBudget(i)
  BY <1>1, <1>3 DEF DecideAbsent
<1> QED BY <1>2, <1>3

\* A deletion decided on a stopped VM reserves nothing.
LEMMA DeleteAdmissible ==
    ASSUME NEW i \in Inputs, NEW g \in Nat
    PROVE  Admissible(i, Delete(i, g))
<1>1. /\ "delete-vm" \in EffectTypes \ {"adopt-vm", "create-vm", "start-vm"}
      /\ "absent" \in LifecycleStates /\ None \in Int
  BY DEF EffectTypes, LifecycleStates, None
<1>2. Admissible(i, AuthorizedCleanup(i, Decision("absent", Effect("delete-vm", g, None))))
  BY <1>1, GuestEffectAdmissible
<1> QED BY <1>2 DEF Delete

\* On a stopped VM, decideLifecycle deletes, waits, blocks, or starts the next
\* generation.
LEMMA StoppedAdmissible ==
    ASSUME NEW i \in Inputs
    PROVE  Admissible(i, DecideStopped(i))
<1>0. i.journal.state \in LifecycleStates /\ i.journal.startCount \in Nat
  BY DEF Inputs, Journals
<1>1. Admissible(i, Stay(i.journal.state)) /\ Admissible(i, Blocked)
  BY <1>0, PlainAdmissible
<1>2. Larger(1, i.journal.startCount) \in Nat
  BY <1>0 DEF Larger
<1>3. /\ Admissible(i, Delete(i, i.journal.startCount))
      /\ Admissible(i, Delete(i, Larger(1, i.journal.startCount)))
  BY <1>0, <1>2, DeleteAdmissible
<1>4. CASE StartBudget(i)
  <2>1. Admissible(i, Authorized(i, "start",
             Decision("starting", Effect("start-vm", i.journal.startCount + 1,
                                         i.now + AvailableRuntime(i)))))
    BY <1>4, CreateOrStartAdmissible
  <2> QED BY <1>1, <1>3, <2>1 DEF DecideStopped
<1>5. CASE ~StartBudget(i)
  BY <1>1, <1>3, <1>5 DEF DecideStopped
<1> QED BY <1>4, <1>5

\* On a running VM, decideLifecycle registers, drains, resumes or stops.
LEMMA RunningAdmissible ==
    ASSUME NEW i \in Inputs
    PROVE  Admissible(i, DecideRunning(i))
<1>0. i.journal.state \in LifecycleStates /\ i.now \in Nat
      /\ i.journal.grantDeadline \in Int /\ i.guest.grant.deadline \in Int
      /\ i.permit.expires \in Nat
  BY DEF Inputs, Journals, Guests, PermitRecords, OptionalTimes, None
<1>1. Admissible(i, Stay(i.journal.state)) /\ Admissible(i, Blocked)
      /\ Admissible(i, Stay("draining"))
  BY <1>0, PlainAdmissible DEF LifecycleStates
<1>2. GrantDeadline(i) \in Int
  BY <1>0 DEF GrantDeadline, Smaller
<1>3. /\ SafeCutoff(GrantDeadline(i), i.permit.expires) \in Int
      /\ DrainDeadline(GrantDeadline(i), i.now) \in Int
  BY <1>0, <1>2, ConfigAssumption DEF SafeCutoff, DrainDeadline, Smaller
<1>4. Admissible(i, BeginDrain(i))
  BY <1>3, GuestEffectAdmissible DEF BeginDrain, LifecycleStates, EffectTypes
<1>5. /\ Admissible(i, Authorized(i, "register",
             Decision("ready", Effect("resume-admission", 0, None))))
      /\ Admissible(i, Authorized(i, "stop", Decision("stopping", Effect("stop-vm", 0, None))))
      /\ Admissible(i, Authorized(i, "register",
             Decision("ready", Effect("register-runner", 0,
                                      SafeCutoff(GrantDeadline(i), i.permit.expires)))))
  BY <1>3, GuestEffectAdmissible DEF LifecycleStates, EffectTypes, None
<1>6. Admissible(i, DecideDraining(i))
  BY <1>1, <1>4, <1>5 DEF DecideDraining
<1> QED BY <1>1, <1>4, <1>5, <1>6 DEF DecideRunning

\* Every decision of decideLifecycle without an outstanding intent is one that
\* recordAndExecuteDecision can journal consistently.
LEMMA DecisionAdmissible ==
    ASSUME NEW i \in Inputs, i.journal.intent.type = "none"
    PROVE  Admissible(i, DecideLifecycle(i))
<1>1. i.journal.state \in LifecycleStates /\ "busy" \in LifecycleStates
  BY DEF Inputs, Journals, LifecycleStates
<1>2. /\ Admissible(i, Blocked) /\ Admissible(i, Stay("busy"))
      /\ Admissible(i, Stay(i.journal.state))
  BY <1>1, PlainAdmissible
<1> QED BY <1>2, EmergencyAdmissible, AbsentAdmissible, StoppedAdmissible, RunningAdmissible
        DEF DecideLifecycle
-----------------------------------------------------------------------------
(***************************************************************************)
(* The inductive invariant. JournalConsistent alone is not inductive: the  *)
(* tick writes back input.journal, a copy read at its start, and a refused *)
(* start hands its generation back below the idle evidence.                *)
(***************************************************************************)

\* While a start is pending, idle evidence is of an earlier generation: the
\* reserved one can be handed back without leaving evidence from the future.
ReservedIsNew ==
    /\ pending.effect.type # "adopt-vm"
    /\ pending.effect.type = "start-vm" => journal.idle.generation < pending.effect.generation

\* The tick's copy of the journal is current when it decides.
TickReadsJournal ==
    pc = "observed" =>
        /\ input.journal.intent = journal.intent
        /\ input.journal.startCount = journal.startCount
        /\ input.journal.idle.generation <= journal.startCount
        /\ input.provider.vmStatus = "stopped" => input.journal.idle = journal.idle

\* Only a create or a start is refused for capacity.
CapacityRefusesCompute ==
    pc = "replied" /\ reply = "capacity" => pending.effect.type \in {"create-vm", "start-vm"}

IInv ==
    TypeOK /\ JournalConsistent /\ ReservedIsNew /\ TickReadsJournal /\ CapacityRefusesCompute

\* An empty journal and "no pending effect" are well-formed and agree.
LEMMA ConstantsTyped ==
    /\ NoIntent \in Intents /\ NoIntent.type = "none"
    /\ NoIdle \in IdleEvidence /\ NoIdle.generation = 0
    /\ NoWait \in CapacityWaits
    /\ NewJournal \in Journals /\ NewJournal.intent = NoIntent /\ NewJournal.idle = NoIdle
    /\ NewJournal.startCount = 0
    /\ NoPending \in PendingEffects /\ NoPending.effect = NoEffect
    /\ NoPending.effectDeadline = None
<1>1. NoIntent \in Intents /\ NoIntent.type = "none"
  BY DEF NoIntent, Intents, IntentTypes, Statuses, OptionalTimes
<1>2. NoIdle \in IdleEvidence /\ NoIdle.generation = 0
  BY DEF NoIdle, IdleEvidence, OptionalTimes
<1>3. NoWait \in CapacityWaits
  BY DEF NoWait, CapacityWaits, IntentTypes
<1>4. /\ NewJournal \in Journals /\ NewJournal.intent = NoIntent /\ NewJournal.idle = NoIdle
      /\ NewJournal.startCount = 0
  BY <1>1, <1>2, <1>3 DEF NewJournal, Journals, LifecycleStates, OptionalTimes
<1>5. /\ NoPending \in PendingEffects /\ NoPending.effect = NoEffect
      /\ NoPending.effectDeadline = None
  BY NoEffectType DEF NoPending, PendingEffects, Statuses, None
<1> QED BY <1>1, <1>2, <1>3, <1>4, <1>5

\* The fallback observations of failed reads are well-formed.
LEMMA ObservationsTyped ==
    /\ UnknownProvider \in Providers
    /\ UnknownGuest \in Guests /\ OfflineGuest \in Guests /\ OfflineGuest.grant.generation = 0
    /\ NoInput \in Inputs
    /\ NoVm \in Vms
<1>1. UnknownProvider \in Providers
  BY DEF UnknownProvider, Providers, VmStatuses, Ownerships
<1>2. NoGrant \in [generation : Nat, deadline : OptionalTimes] /\ NoGrant.generation = 0
  BY DEF NoGrant, OptionalTimes
<1>3. UnknownGuest \in Guests
  BY <1>2 DEF UnknownGuest, Guests, GuestStatuses, Tri
<1>4. OfflineGuest \in Guests /\ OfflineGuest.grant.generation = 0
  BY <1>2 DEF OfflineGuest, Guests, GuestStatuses, Tri
<1>5. NoPermit \in PermitRecords
  BY DEF NoPermit, PermitRecords
<1>6. [complete |-> FALSE, queued |-> 0, busy |-> "null", observedAt |-> 0] \in Queues
  BY DEF Queues, Tri
<1>7. NoInput \in Inputs
  BY <1>1, <1>3, <1>5, <1>6, ConstantsTyped DEF NoInput, Inputs
<1>8. NoVm \in Vms
  BY DEF NoVm, Vms, PowerStates, OptionalTimes
<1> QED BY <1>1, <1>3, <1>4, <1>7, <1>8

\* A controller started on an empty state directory satisfies the invariant.
LEMMA InitIInv == Init => IInv
<1> SUFFICES ASSUME Init PROVE IInv
  OBVIOUS
<1>1. JournalTypeOK
  BY ConstantsTyped DEF Init, JournalTypeOK
<1>2. ProcessTypeOK
  BY ObservationsTyped DEF Init, ProcessTypeOK, Stages, Replies
<1>3. CloudTypeOK /\ JobTypeOK
  BY ObservationsTyped DEF Init, CloudTypeOK, JobTypeOK, OpStates
<1>4. JournalConsistent
  BY ConstantsTyped, NoEffectType DEF Init, JournalConsistent, HasPending, NoEffect, None
<1>5. ReservedIsNew /\ TickReadsJournal /\ CapacityRefusesCompute
  BY ConstantsTyped, NoEffectType DEF Init, ReservedIsNew, TickReadsJournal, CapacityRefusesCompute
<1> QED BY <1>1, <1>2, <1>3, <1>4, <1>5 DEF IInv, TypeOK

-----------------------------------------------------------------------------
(***************************************************************************)
(* Steps of the world: they leave the journal and the process alone.       *)
(***************************************************************************)

\* A step that leaves the files and the process alone keeps the invariant if
\* it keeps the types of the world.
LEMMA WorldFrame ==
    ASSUME IInv, UNCHANGED <<journalVars, accounting, activeJob, processVars>>,
           clock' \in Nat, CloudTypeOK', JobTypeOK'
    PROVE  IInv'
<1> USE DEF journalVars, processVars
<1>1. JournalTypeOK' /\ ProcessTypeOK'
  BY DEF IInv, TypeOK, JournalTypeOK, ProcessTypeOK
<1>2. JournalConsistent'
  BY DEF IInv, JournalConsistent, HasPending
<1>3. ReservedIsNew' /\ TickReadsJournal' /\ CapacityRefusesCompute'
  BY DEF IInv, ReservedIsNew, TickReadsJournal, CapacityRefusesCompute
<1> QED BY <1>1, <1>2, <1>3 DEF IInv, TypeOK

\* The fault counter stays a number.
LEMMA FaultCounted ==
    ASSUME JobTypeOK, NEW kind, Fault(kind) \/ NoFault
    PROVE  faults' \in Nat
BY DEF JobTypeOK, Fault, NoFault

\* A power-off, ordered or by the watchdog, leaves a well-formed VM.
LEMMA PoweredOffTyped ==
    ASSUME NEW v \in Vms, NEW status \in PowerStates
    PROVE  PoweredOff(v, status) \in Vms /\ ExpiredVm(v) \in Vms
<1>1. \A s \in PowerStates : PoweredOff(v, s) \in Vms
  BY DEF PoweredOff, Vms
<1>2. PoweredOff(v, "stopped") \in Vms
  BY <1>1 DEF PowerStates
<1>3. ExpiredVm(v) \in Vms
  BY <1>2 DEF ExpiredVm, Vms
<1> QED BY <1>1, <1>3

\* A change of power state leaves a well-formed VM.
LEMMA VmStatusTyped ==
    ASSUME NEW v \in Vms, NEW status \in PowerStates
    PROVE  [v EXCEPT !.status = status] \in Vms
BY DEF Vms

\* Passing time: a running job still has time left whenever the clock may move.
LEMMA TickIInv == IInv /\ Tick => IInv'
<1> SUFFICES ASSUME IInv, Tick PROVE IInv'
  OBVIOUS
<1>1. clock' \in Nat
  BY ControllerAssumption DEF IInv, TypeOK, ProcessTypeOK, Tick, Smaller
<1>2. vm' \in Vms
  BY DEF IInv, TypeOK, CloudTypeOK, Tick, Vms, Larger
<1>3. jobLeft' \in Nat
  BY DEF IInv, TypeOK, JobTypeOK, Tick, Urgent
<1>4. CloudTypeOK' /\ JobTypeOK'
  BY <1>2, <1>3 DEF IInv, TypeOK, CloudTypeOK, JobTypeOK, Tick
<1> QED BY <1>1, <1>4, WorldFrame DEF Tick

\* Arrival, withdrawal, assignment, start and end of jobs.
LEMMA JobStepIInv == IInv /\ JobStep => IInv'
<1> SUFFICES ASSUME IInv, JobStep PROVE IInv'
  OBVIOUS
<1>0. vm \in Vms /\ CloudTypeOK /\ JobTypeOK
  BY DEF IInv, TypeOK, CloudTypeOK
<1>1. UNCHANGED <<journalVars, accounting, activeJob, processVars>> /\ clock' \in Nat
  BY DEF JobStep, JobArrives, JobWithdrawn, AssignJob, StartJob, FinishJob, LoseJob,
         IInv, TypeOK, ProcessTypeOK
<1>2. CloudTypeOK'
  <2>1. vm' \in Vms
    BY <1>0 DEF JobStep, JobArrives, JobWithdrawn, AssignJob, StartJob, FinishJob, LoseJob,
                cloudVars, Vms
  <2> QED BY <1>0, <2>1 DEF JobStep, JobArrives, JobWithdrawn, AssignJob, StartJob, FinishJob,
                            LoseJob, cloudVars, CloudTypeOK
<1>3. JobTypeOK'
  <2>1. queued' \in Nat /\ arrived' \in Nat /\ registered' \in Nat /\ jobLeft' \in Nat
        /\ faults' \in Nat
    BY <1>0, ConfigAssumption DEF JobStep, JobArrives, JobWithdrawn, AssignJob, StartJob,
                                  FinishJob, LoseJob, JobTypeOK
  <2>2. assigned' \in BOOLEAN /\ killed' \in BOOLEAN
    BY <1>0, Zenon DEF JobStep, JobArrives, JobWithdrawn, AssignJob, StartJob, FinishJob, LoseJob,
                JobTypeOK
  <2> QED BY <2>1, <2>2 DEF JobTypeOK
<1> QED BY <1>1, <1>2, <1>3, WorldFrame

\* Settling create, start, stop and delete operations.
LEMMA CloudStepIInv == IInv /\ CloudStep => IInv'
<1> SUFFICES ASSUME IInv, CloudStep PROVE IInv'
  OBVIOUS
<1>0. vm \in Vms /\ CloudTypeOK /\ JobTypeOK /\ clock \in Nat
  BY DEF IInv, TypeOK, CloudTypeOK, ProcessTypeOK
<1>1. \A outcome \in {"succeeded", "failed", "capacity"} : CreateSettles(outcome) => IInv'
  <2> SUFFICES ASSUME NEW outcome \in {"succeeded", "failed", "capacity"}, CreateSettles(outcome)
               PROVE  IInv'
    OBVIOUS
  <2>1. CreatedVm \in Vms
    BY ObservationsTyped, VmStatusTyped DEF CreatedVm, PowerStates
  <2>2. faults' \in Nat
    BY <1>0, FaultCounted DEF CreateSettles, OperationFault
  <2>3. CloudTypeOK' /\ JobTypeOK'
    BY <1>0, <2>1, <2>2 DEF CreateSettles, CloudTypeOK, JobTypeOK, OpStates, jobVars
  <2> QED BY <1>0, <2>3, WorldFrame DEF CreateSettles
<1>2. \A outcome \in {"succeeded", "failed", "capacity"} : StartSettles(outcome) => IInv'
  <2> SUFFICES ASSUME NEW outcome \in {"succeeded", "failed", "capacity"}, StartSettles(outcome)
               PROVE  IInv'
    OBVIOUS
  <2>1. BootedVm(vm) \in Vms
    BY <1>0, UnarmedAssumption DEF BootedVm, Vms, PowerStates
  <2>2. [vm EXCEPT !.status = "stopped"] \in Vms
    BY <1>0, VmStatusTyped DEF PowerStates
  <2>3. faults' \in Nat
    BY <1>0, FaultCounted DEF StartSettles, OperationFault
  <2>4. CloudTypeOK' /\ JobTypeOK'
    BY <1>0, <2>1, <2>2, <2>3 DEF StartSettles, CloudTypeOK, JobTypeOK, OpStates, jobVars
  <2> QED BY <1>0, <2>4, WorldFrame DEF StartSettles
<1>3. CASE StopSettles \/ DeleteSettles
  <2>1. vm' \in Vms
    BY <1>0, <1>3, ObservationsTyped, VmStatusTyped DEF StopSettles, DeleteSettles, PowerStates
  <2>2. CloudTypeOK' /\ JobTypeOK'
    BY <1>0, <1>3, <2>1 DEF StopSettles, DeleteSettles, CloudTypeOK, JobTypeOK, jobVars
  <2> QED BY <1>0, <1>3, <2>2, WorldFrame DEF StopSettles, DeleteSettles
<1> QED BY <1>1, <1>2, <1>3 DEF CloudStep

\* Bootstrap, watchdog and failure of the guest.
LEMMA GuestStepIInv == IInv /\ GuestStep => IInv'
<1> SUFFICES ASSUME IInv, GuestStep PROVE IInv'
  OBVIOUS
<1>0. vm \in Vms /\ CloudTypeOK /\ JobTypeOK /\ clock \in Nat
  BY DEF IInv, TypeOK, CloudTypeOK, ProcessTypeOK
<1>1. vm' \in Vms
  <2>1. [vm EXCEPT !.ready = TRUE] \in Vms
    BY <1>0 DEF Vms
  <2>2. ExpiredVm(vm) \in Vms
    BY <1>0, PoweredOffTyped DEF PowerStates
  <2> QED BY <2>1, <2>2 DEF GuestStep, GuestBootstrapped, WatchdogExpires, GuestFails
<1>2. killed' \in BOOLEAN
  <2>1. killed \in BOOLEAN /\ vm.worker \in BOOLEAN
    BY <1>0 DEF JobTypeOK, Vms
  <2> QED BY <2>1 DEF GuestStep, GuestBootstrapped, WatchdogExpires, GuestFails, jobVars
<1>3. CloudTypeOK' /\ JobTypeOK'
  BY <1>0, <1>1, <1>2, FaultCounted
  DEF GuestStep, GuestBootstrapped, WatchdogExpires, GuestFails, CloudTypeOK, JobTypeOK, jobVars
<1> QED BY <1>0, <1>3, WorldFrame
        DEF GuestStep, GuestBootstrapped, WatchdogExpires, GuestFails

-----------------------------------------------------------------------------
(***************************************************************************)
(* Steps of the controller.                                                *)
(***************************************************************************)

\* What the steps must show of the files on disk.
FilesSafe == JournalTypeOK /\ JournalConsistent /\ ReservedIsNew

\* A step that writes neither file keeps them safe.
LEMMA FilesKept ==
    ASSUME IInv, UNCHANGED journalVars
    PROVE  FilesSafe'
<1> USE DEF journalVars
<1>1. JournalTypeOK' /\ ReservedIsNew'
  BY DEF IInv, TypeOK, JournalTypeOK, ReservedIsNew
<1>2. JournalConsistent'
  BY DEF IInv, JournalConsistent, HasPending
<1> QED BY <1>1, <1>2 DEF FilesSafe

\* Clearing the pending effect together with the intent leaves safe files,
\* provided idle evidence does not point past the generation count.
LEMMA FilesCleared ==
    ASSUME NEW j \in Journals, j.intent = NoIntent, j.idle.generation <= j.startCount,
           journal' = j, pending' = NoPending
    PROVE  FilesSafe'
<1>1. JournalTypeOK'
  BY ConstantsTyped DEF JournalTypeOK
<1>2. JournalConsistent'
  BY ConstantsTyped, NoEffectType DEF JournalConsistent, HasPending, NoEffect
<1>3. ReservedIsNew'
  BY ConstantsTyped, NoEffectType DEF ReservedIsNew
<1> QED BY <1>1, <1>2, <1>3 DEF FilesSafe

\* A tick that ends, or a process that exits, with safe files keeps the
\* invariant.
LEMMA TickEnds ==
    ASSUME IInv, Idle \/ Exit, UNCHANGED <<accounting, activeJob, permit, clock>>,
           FilesSafe', CloudTypeOK', JobTypeOK'
    PROVE  IInv'
<1>1. ProcessTypeOK'
  BY ObservationsTyped, ConfigAssumption
  DEF Idle, Exit, IInv, TypeOK, ProcessTypeOK, Stages, Replies
<1>2. TickReadsJournal' /\ CapacityRefusesCompute'
  BY DEF Idle, Exit, TickReadsJournal, CapacityRefusesCompute
<1> QED BY <1>1, <1>2 DEF FilesSafe, IInv, TypeOK

\* Journal writes leave the world well-formed.
LEMMA WorldKept ==
    ASSUME IInv, UNCHANGED <<cloudVars, jobVars>>, faults' \in Nat
    PROVE  CloudTypeOK' /\ JobTypeOK'
BY DEF IInv, TypeOK, CloudTypeOK, JobTypeOK, cloudVars, jobVars

\* A step with or without a fault keeps the fault counter a number.
LEMMA FaultsTyped ==
    ASSUME IInv, NEW kind, Fault(kind) \/ NoFault
    PROVE  faults' \in Nat
BY FaultCounted DEF IInv, TypeOK

\* A step without faults keeps the fault counter a number.
LEMMA FaultsKept ==
    ASSUME IInv, UNCHANGED faults
    PROVE  faults' \in Nat
BY DEF IInv, TypeOK, JobTypeOK

\* Clearing the intent alone keeps the journal well-formed.
LEMMA IntentCleared ==
    ASSUME IInv
    PROVE  LET j == [journal EXCEPT !.intent = NoIntent]
           IN  j \in Journals /\ j.intent = NoIntent /\ j.idle.generation <= j.startCount
BY ConstantsTyped DEF IInv, TypeOK, JournalTypeOK, JournalConsistent, Journals

\* blockPendingAuthorization and the failure path of executePendingEffect:
\* marking intent and pending effect with one status keeps them equal.
LEMMA MarkIntentSafe ==
    ASSUME IInv, NEW status \in Statuses, journal' = MarkIntent(status),
           pending' = [pending EXCEPT !.status = status]
    PROVE  FilesSafe'
<1>1. journal \in Journals /\ pending \in PendingEffects /\ journal.intent \in Intents
      /\ pending.effect \in Effects
  BY DEF IInv, TypeOK, JournalTypeOK, Journals, PendingEffects
<1>2. pending' \in PendingEffects /\ pending'.effect = pending.effect
      /\ pending'.effectDeadline = pending.effectDeadline /\ pending'.status = status
  BY <1>1 DEF PendingEffects
<1>3. CASE journal.intent.type = "none"
  <2>1. journal' = journal
    BY <1>3 DEF MarkIntent
  <2>2. ~(HasPending /\ pending.effect.type \in {"create-vm", "start-vm"})
    BY <1>3 DEF IInv, JournalConsistent
  <2>3. JournalConsistent'
    BY <1>2, <2>1, <2>2 DEF IInv, JournalConsistent, HasPending
  <2> QED BY <1>1, <1>2, <2>1, <2>3 DEF FilesSafe, JournalTypeOK, IInv, ReservedIsNew
<1>4. CASE journal.intent.type # "none"
  <2>1. journal' = [journal EXCEPT !.intent.status = status]
    BY <1>4 DEF MarkIntent
  <2>2. /\ journal' \in Journals /\ journal'.startCount = journal.startCount
        /\ journal'.idle = journal.idle
        /\ journal'.intent = [journal.intent EXCEPT !.status = status]
    BY <1>1, <2>1 DEF Journals, Intents
  <2>3. HasPending /\ pending.effect.type \in {"create-vm", "start-vm"}
    BY <1>4, ConstantsTyped DEF IInv, JournalConsistent
  <2>4. journal.intent = [type |-> pending.effect.type,
                          generation |-> pending.effect.generation,
                          status |-> pending.status, deadline |-> pending.effect.deadline]
    BY <2>3 DEF IInv, JournalConsistent
  <2>5. journal'.intent = [type |-> pending.effect.type,
                           generation |-> pending.effect.generation,
                           status |-> status, deadline |-> pending.effect.deadline]
    <3>1. /\ journal.intent.type = pending.effect.type
          /\ journal.intent.generation = pending.effect.generation
          /\ journal.intent.deadline = pending.effect.deadline
      BY <2>4
    <3>2. /\ journal'.intent \in Intents
          /\ journal'.intent.type = journal.intent.type
          /\ journal'.intent.generation = journal.intent.generation
          /\ journal'.intent.status = status
          /\ journal'.intent.deadline = journal.intent.deadline
      BY <1>1, <2>2 DEF Intents
    <3> QED BY <3>1, <3>2 DEF Intents
  <2>6. JournalConsistent'
    BY <1>2, <2>2, <2>3, <2>5 DEF IInv, JournalConsistent, HasPending
  <2> QED BY <1>2, <2>2, <2>6 DEF FilesSafe, JournalTypeOK, IInv, ReservedIsNew
<1> QED BY <1>3, <1>4

\* recordAndExecuteDecision writes an intent and a pending effect that agree.
LEMMA WriteIntentSafe ==
    ASSUME IInv, NEW base \in Journals, NEW d \in Decisions,
           base.intent = NoIntent, base.idle.generation <= base.startCount,
           d.effect.type # "adopt-vm",
           d.effect.type \in {"create-vm", "start-vm"} =>
              d.effect.generation = base.startCount + 1 /\ d.effect.deadline \in Nat,
           WriteIntent(base, d)
    PROVE  FilesSafe'
<1> DEFINE e == d.effect
<1>0. /\ e \in Effects /\ d.state \in LifecycleStates /\ base.startCount \in Nat
      /\ base.idle.generation \in Nat /\ e.generation \in Nat /\ e.deadline \in Int
      /\ input \in Inputs /\ input.now \in Nat
  BY DEF Decisions, Effects, Journals, IdleEvidence, IInv, TypeOK, ProcessTypeOK, Inputs
<1>1. AuthorizationDeadline(e) \in Int /\ (e.deadline # None => AuthorizationDeadline(e) = e.deadline)
  BY <1>0 DEF AuthorizationDeadline, Inputs, Journals, Guests, OptionalTimes, None
<1>2. /\ pending' \in PendingEffects /\ pending'.effect = e /\ pending'.status = "pending"
      /\ pending'.effectDeadline = AuthorizationDeadline(e)
  BY <1>0, <1>1 DEF WriteIntent, PendingEffects, Statuses, Inputs, PermitRecords
<1>3. journal' = ApplyDecision(base, e, d.state, input.now)
  BY DEF WriteIntent
<1>4. CASE e.type \in {"create-vm", "start-vm"}
  <2> DEFINE intent == [type |-> e.type, generation |-> e.generation, status |-> "pending",
                        deadline |-> e.deadline]
  <2>1. intent \in Intents
    BY <1>0, <1>4 DEF Intents, IntentTypes, Statuses, OptionalTimes
  <2>2. /\ journal' \in Journals /\ journal'.intent = intent /\ journal'.idle = base.idle
        /\ journal'.startCount = IF e.type = "start-vm" THEN e.generation ELSE base.startCount
    <3> HIDE DEF intent
    <3>1. journal' = [base EXCEPT
             !.state = d.state,
             !.startCount = IF e.type = "start-vm" THEN e.generation ELSE @,
             !.grantDeadline = IF e.type = "start-vm" THEN e.deadline ELSE None,
             !.grantStarted = IF e.type = "start-vm" THEN input.now ELSE None,
             !.intent = intent]
      BY <1>3, <1>4 DEF ApplyDecision, intent
    <3> QED BY <1>0, <1>4, <2>1, <3>1 DEF Journals, OptionalTimes
  <2>3. JournalConsistent'
    BY <1>0, <1>1, <1>2, <1>4, <2>2 DEF JournalConsistent, HasPending
  <2>4. ReservedIsNew'
    BY <1>0, <1>2, <1>4, <2>2 DEF ReservedIsNew
  <2> QED BY <1>2, <2>2, <2>3, <2>4 DEF FilesSafe, JournalTypeOK
<1>5. CASE e.type \notin {"create-vm", "start-vm"}
  <2>1. journal' = [base EXCEPT !.state = d.state]
    BY <1>3, <1>5 DEF ApplyDecision
  <2>2. /\ journal' \in Journals /\ journal'.intent = NoIntent /\ journal'.idle = base.idle
        /\ journal'.startCount = base.startCount
    BY <1>0, <2>1 DEF Journals
  <2>3. JournalConsistent'
    BY <1>1, <1>2, <1>5, <2>2 DEF JournalConsistent, HasPending
  <2>4. ReservedIsNew'
    BY <1>2, <1>5 DEF ReservedIsNew
  <2> QED BY <1>2, <2>2, <2>3, <2>4 DEF FilesSafe, JournalTypeOK
<1> QED BY <1>4, <1>5

\* observeProvider, buildQueueSnapshot and observeGuest return well-formed
\* observations of every state of the world.
LEMMA ViewsTyped ==
    ASSUME IInv
    PROVE  /\ ProviderView \in Providers /\ QueueView \in Queues
           /\ \A p \in Providers, r \in BOOLEAN : GuestView(p, r) \in Guests
<1>0. vm \in Vms /\ extra \in Nat /\ queued \in Nat /\ clock \in Nat
  BY DEF IInv, TypeOK, CloudTypeOK, JobTypeOK, ProcessTypeOK
<1>1. OwnedVms \in Nat
  BY <1>0 DEF OwnedVms
<1>2. ProviderView \in Providers
  BY <1>0, <1>1 DEF ProviderView, Providers, VmStatuses, Ownerships, Vms, PowerStates
<1>3. QueueView \in Queues
  BY <1>0 DEF QueueView, Queues, YesNo, Tri
<1>4. \A b : YesNo(b) \in Tri
  BY DEF YesNo, Tri
<1>5. GrantOnDisk(vm) \in [generation : Nat, deadline : OptionalTimes]
  BY <1>0 DEF GrantOnDisk, Vms
<1>6. NoGrant \in [generation : Nat, deadline : OptionalTimes]
  BY DEF NoGrant, OptionalTimes
<1>7. StatusReport(vm) \in Guests
  <2>1. \A g \in [generation : Nat, deadline : OptionalTimes], s \in GuestStatuses :
           SilentReport(s, g) \in Guests
    BY DEF SilentReport, Guests, Tri
  <2>2. /\ SilentReport("failed", NoGrant) \in Guests
        /\ SilentReport("booting", GrantOnDisk(vm)) \in Guests
    BY <1>5, <1>6, <2>1 DEF GuestStatuses
  <2> HIDE DEF YesNo, GrantOnDisk
  <2> QED BY <1>4, <1>5, <2>2 DEF StatusReport, Guests, GuestStatuses
<1>8. \A p \in Providers, r \in BOOLEAN : GuestView(p, r) \in Guests
  <2> SUFFICES ASSUME NEW p \in Providers, NEW r \in BOOLEAN PROVE GuestView(p, r) \in Guests
    OBVIOUS
  <2>1. \A s \in GuestStatuses : [UnknownGuest EXCEPT !.status = s] \in Guests
    BY ObservationsTyped DEF Guests
  <2>2. UnknownGuest.status \in GuestStatuses /\ "booting" \in GuestStatuses
    BY ObservationsTyped DEF Guests, GuestStatuses
  <2> QED BY <1>7, <2>1, <2>2, ObservationsTyped DEF GuestView
<1> QED BY <1>2, <1>3, <1>8

\* The first half of observe.
LEMMA ObserveCloudIInv == IInv /\ ObserveCloud => IInv'
<1> SUFFICES ASSUME IInv, ObserveCloud PROVE IInv'
  OBVIOUS
<1>0. clock \in Nat /\ permit \in PermitRecords
  BY ControllerAssumption DEF IInv, TypeOK, ProcessTypeOK
<1>1. PICK providerRead \in BOOLEAN, queueRead \in BOOLEAN :
          /\ IF providerRead /\ queueRead THEN NoFault ELSE Fault("read")
          /\ input' = [NoInput EXCEPT
                 !.now = clock, !.permit = permit,
                 !.provider = IF providerRead THEN ProviderView ELSE @,
                 !.queue = IF queueRead THEN QueueView ELSE [@ EXCEPT !.observedAt = clock]]
  BY Zenon DEF ObserveCloud
<1>2. input' \in Inputs
  <2>1. [NoInput.queue EXCEPT !.observedAt = clock] \in Queues
    BY <1>0, ObservationsTyped DEF Inputs, Queues
  <2>2. \A p \in Providers, q \in Queues :
           [NoInput EXCEPT !.now = clock, !.permit = permit, !.provider = p, !.queue = q] \in Inputs
    BY <1>0, ObservationsTyped DEF Inputs
  <2>3. NoInput.provider \in Providers
    BY ObservationsTyped DEF Inputs
  <2> DEFINE provider == IF providerRead THEN ProviderView ELSE NoInput.provider
             queue == IF queueRead THEN QueueView ELSE [NoInput.queue EXCEPT !.observedAt = clock]
  <2>4. provider \in Providers /\ queue \in Queues
    BY <2>1, <2>3, ViewsTyped
  <2>5. input' = [NoInput EXCEPT !.now = clock, !.permit = permit, !.provider = provider,
                                 !.queue = queue]
    BY <1>1
  <2> HIDE DEF provider, queue
  <2> QED BY Zenon, <2>2, <2>4, <2>5
<1>3. CloudTypeOK' /\ JobTypeOK'
  BY <1>1, FaultsTyped, WorldKept DEF ObserveCloud
<1>4. ProcessTypeOK'
  BY <1>2 DEF ObserveCloud, IInv, TypeOK, ProcessTypeOK, Stages
<1>5. TickReadsJournal' /\ CapacityRefusesCompute'
  BY DEF ObserveCloud, TickReadsJournal, CapacityRefusesCompute
<1> QED BY <1>3, <1>4, <1>5, FilesKept DEF ObserveCloud, FilesSafe, IInv, TypeOK

\* advanceObservedLifecycle keeps runtime and baseline nonnegative, whatever
\* start time the journal holds.
LEMMA AccountingTyped ==
    ASSUME IInv, NEW p \in Providers, NEW now \in Nat
    PROVE  /\ NextAccounting(p) \in [generation : Nat, baseline : Nat]
           /\ ObservedRuntime(p, now, NextAccounting(p)) \in Nat
<1>0. /\ journal.startCount \in Nat /\ journal.runtime \in Nat
      /\ journal.grantStarted \in Int /\ journal.grantDeadline \in Int
      /\ accounting \in [generation : Nat, baseline : Nat]
  BY DEF IInv, TypeOK, JournalTypeOK, ProcessTypeOK, Journals, OptionalTimes, None
<1>1. NextAccounting(p) \in [generation : Nat, baseline : Nat]
  BY <1>0 DEF NextAccounting
<1>2. \A a \in [generation : Nat, baseline : Nat] : ObservedRuntime(p, now, a) \in Nat
  BY <1>0, ConfigAssumption DEF ObservedRuntime, Larger
<1> QED BY <1>1, <1>2

\* New idle evidence is never of a generation beyond startCount, and a guest
\* without a grant adds none.
LEMMA ObservedIdleSafe ==
    ASSUME IInv, NEW q \in Queues, NEW g \in Guests, NEW now \in Nat
    PROVE  /\ ObservedIdle(q, g, now) \in IdleEvidence
           /\ ObservedIdle(q, g, now).generation <= journal.startCount
           /\ g.grant.generation = 0 => ObservedIdle(q, g, now) = journal.idle
<1>0. journal.idle \in IdleEvidence /\ journal.startCount \in Nat
      /\ journal.idle.generation <= journal.startCount
  BY DEF IInv, TypeOK, JournalTypeOK, Journals, JournalConsistent
<1>1. \A first, last \in OptionalTimes :
         /\ [generation |-> journal.startCount, first |-> first, last |-> last] \in IdleEvidence
         /\ [generation |-> journal.startCount, first |-> first, last |-> last].generation
              = journal.startCount
  BY <1>0 DEF IdleEvidence
<1>2. now \in OptionalTimes /\ None \in OptionalTimes /\ journal.idle.first \in OptionalTimes
  BY <1>0 DEF OptionalTimes, IdleEvidence
<1>3. ObservedIdle(q, g, now) \in
         {journal.idle,
          [generation |-> journal.startCount, first |-> journal.idle.first, last |-> now],
          [generation |-> journal.startCount, first |-> now, last |-> now],
          [generation |-> journal.startCount, first |-> None, last |-> now]}
  BY DEF ObservedIdle
<1>4. g.grant.generation = 0 => ObservedIdle(q, g, now) = journal.idle
  BY DEF ObservedIdle
<1> QED BY <1>0, <1>1, <1>2, <1>3, <1>4

\* The second half of observe: the tick takes its copy of the journal.
LEMMA ObserveGuestIInv == IInv /\ ObserveGuest => IInv'
<1> SUFFICES ASSUME IInv, ObserveGuest PROVE IInv'
  OBVIOUS
<1>0. input \in Inputs /\ input.provider \in Providers /\ input.queue \in Queues
      /\ input.now \in Nat /\ journal \in Journals /\ activeJob \in BOOLEAN
  BY DEF IInv, TypeOK, ProcessTypeOK, JournalTypeOK, Inputs
<1>1. PICK readable \in BOOLEAN :
       LET guest == GuestView(input.provider, readable)
           known == JobKnown(input.queue, guest)
           queue == [input.queue EXCEPT !.busy = IF known THEN "yes" ELSE @]
           account == NextAccounting(input.provider)
       IN  /\ IF readable THEN NoFault ELSE Fault("read")
           /\ activeJob' = known
           /\ accounting' = account
           /\ input' = [input EXCEPT
                  !.guest = guest, !.queue = queue,
                  !.journal = [journal EXCEPT
                      !.runtime = ObservedRuntime(input.provider, input.now, account),
                      !.idle = ObservedIdle(queue, guest, input.now)]]
  BY Zenon DEF ObserveGuest
<1> DEFINE guest == GuestView(input.provider, readable)
           queue == [input.queue EXCEPT !.busy = IF JobKnown(input.queue, guest) THEN "yes" ELSE @]
           runtime == ObservedRuntime(input.provider, input.now, NextAccounting(input.provider))
           idle == ObservedIdle(queue, guest, input.now)
           copy == [journal EXCEPT !.runtime = runtime, !.idle = idle]
<1>2. guest \in Guests
  BY <1>0, ViewsTyped
<1>3. queue \in Queues
  BY <1>0 DEF Queues, Tri
<1>4. runtime \in Nat /\ accounting' \in [generation : Nat, baseline : Nat]
  BY <1>0, <1>1, AccountingTyped
<1>5. /\ idle \in IdleEvidence /\ idle.generation <= journal.startCount
      /\ guest.grant.generation = 0 => idle = journal.idle
  BY <1>0, <1>2, <1>3, ObservedIdleSafe
<1>6. input.provider.vmStatus = "stopped" => guest.grant.generation = 0
  BY ObservationsTyped DEF GuestView
<1>7. input' = [input EXCEPT !.guest = guest, !.queue = queue, !.journal = copy]
  BY <1>1
<1> HIDE DEF guest, queue, runtime, idle
<1>8. /\ copy \in Journals /\ copy.idle = idle /\ copy.intent = journal.intent
      /\ copy.startCount = journal.startCount
  BY <1>0, <1>4, <1>5 DEF Journals
<1> HIDE DEF copy
<1>9. input' \in Inputs /\ input'.journal = copy /\ input'.provider = input.provider
  BY <1>0, <1>2, <1>3, <1>7, <1>8 DEF Inputs
<1>10. activeJob' \in BOOLEAN
  BY <1>0, <1>1 DEF JobKnown
<1>11. ProcessTypeOK'
  BY <1>4, <1>9, <1>10 DEF ObserveGuest, IInv, TypeOK, ProcessTypeOK, Stages
<1>12. TickReadsJournal' /\ CapacityRefusesCompute'
  BY <1>5, <1>6, <1>8, <1>9 DEF ObserveGuest, journalVars, TickReadsJournal, CapacityRefusesCompute
<1>13. CloudTypeOK' /\ JobTypeOK'
  BY <1>1, FaultsTyped, WorldKept DEF ObserveGuest
<1> QED BY <1>11, <1>12, <1>13, FilesKept DEF ObserveGuest, FilesSafe, IInv, TypeOK

\* What a deciding tick knows of its copy of the journal.
LEMMA ObservedTick ==
    ASSUME IInv, pc = "observed"
    PROVE  /\ input \in Inputs /\ input.journal \in Journals
           /\ input.journal.intent = journal.intent
           /\ input.journal.startCount = journal.startCount
           /\ input.journal.idle.generation <= input.journal.startCount
           /\ input.provider.vmStatus = "stopped" => input.journal.idle = journal.idle
BY DEF IInv, TypeOK, ProcessTypeOK, Inputs, TickReadsJournal

\* A tick without an effect writes its copy of the journal back.
LEMMA DecideNothingIInv == IInv /\ DecideNothing => IInv'
<1> SUFFICES ASSUME IInv, DecideNothing PROVE IInv'
  OBVIOUS
<1>1. journal.intent = NoIntent
  BY DEF DecideNothing, IInv, JournalConsistent
<1>2. JournalTypeOK'
  BY ObservedTick DEF DecideNothing, IInv, TypeOK, JournalTypeOK
<1>3. JournalConsistent' /\ ReservedIsNew'
  BY <1>1, ObservedTick DEF DecideNothing, HasPending, IInv, JournalConsistent, ReservedIsNew
<1>4. CloudTypeOK' /\ JobTypeOK'
  BY FaultsKept, WorldKept DEF DecideNothing
<1> QED BY <1>2, <1>3, <1>4, TickEnds DEF DecideNothing, FilesSafe

\* The tick goes on to emit the intent it has just written.
LEMMA IntentWritten ==
    ASSUME IInv, NEW base, NEW d, WriteIntent(base, d),
           UNCHANGED <<accounting, activeJob, permit, clock, cloudVars, jobVars, faults>>,
           FilesSafe'
    PROVE  IInv'
<1>1. CloudTypeOK' /\ JobTypeOK'
  BY FaultsKept, WorldKept
<1>2. ProcessTypeOK'
  BY DEF WriteIntent, IInv, TypeOK, ProcessTypeOK, Stages
<1>3. TickReadsJournal' /\ CapacityRefusesCompute'
  BY DEF WriteIntent, TickReadsJournal, CapacityRefusesCompute
<1> QED BY <1>1, <1>2, <1>3 DEF FilesSafe, IInv, TypeOK

\* A decided effect is journaled as an intent.
LEMMA RecordDecisionIInv == IInv /\ RecordDecision => IInv'
<1> SUFFICES ASSUME IInv, RecordDecision PROVE IInv'
  OBVIOUS
<1> DEFINE d == DecideLifecycle(input)
<1>1. journal.intent = NoIntent /\ pc = "observed"
  BY DEF RecordDecision, IInv, JournalConsistent
<1>2. input.journal.intent = NoIntent /\ input.journal.intent.type = "none"
  BY <1>1, ObservedTick, ConstantsTyped
<1>3. Admissible(input, d)
  BY <1>1, <1>2, ObservedTick, DecisionAdmissible
<1>4. WriteIntent(input.journal, d)
  BY DEF RecordDecision
<1> HIDE DEF d
<1>5. FilesSafe'
  BY <1>1, <1>2, <1>3, <1>4, ObservedTick, WriteIntentSafe DEF Admissible
<1> QED BY <1>4, <1>5, IntentWritten DEF RecordDecision

\* A start that ended stopped before use is replaced by a deletion in one write.
LEMMA RetireStoppedStartIInv == IInv /\ RetireStoppedStart => IInv'
<1> SUFFICES ASSUME IInv, RetireStoppedStart PROVE IInv'
  OBVIOUS
<1> DEFINE base == [input.journal EXCEPT !.intent = NoIntent]
           e == Effect("delete-vm", input.journal.startCount, None)
           d == Decision("absent", e)
<1>1. pc = "observed"
  BY DEF RetireStoppedStart, Reconciling
<1>2. /\ base \in Journals /\ base.intent = NoIntent
      /\ base.idle.generation <= base.startCount
  BY <1>1, ObservedTick, ConstantsTyped DEF Journals
<1>3. e \in Effects /\ e.type = "delete-vm"
  BY <1>1, ObservedTick, EffectType DEF Journals, EffectTypes, None
<1>4. d \in Decisions /\ d.effect = e
  BY <1>3 DEF Decision, Decisions, LifecycleStates
<1>5. WriteIntent(base, d)
  BY Zenon DEF RetireStoppedStart
<1> HIDE DEF base, e, d
<1>6. FilesSafe'
  BY <1>2, <1>3, <1>4, <1>5, WriteIntentSafe
<1> QED BY <1>5, <1>6, IntentWritten DEF RetireStoppedStart

\* abandonPendingEffect clears intent and pending effect together.
LEMMA AbandonPendingIInv == IInv /\ AbandonPending => IInv'
<1> SUFFICES ASSUME IInv, AbandonPending PROVE IInv'
  OBVIOUS
<1>1. FilesSafe'
  BY IntentCleared, FilesCleared DEF AbandonPending
<1>2. CloudTypeOK' /\ JobTypeOK'
  BY FaultsKept, WorldKept DEF AbandonPending
<1> QED BY <1>1, <1>2, TickEnds DEF AbandonPending

\* blockPendingAuthorization marks intent and pending effect together.
LEMMA BlockPendingIInv == IInv /\ BlockPending => IInv'
<1> SUFFICES ASSUME IInv, BlockPending PROVE IInv'
  OBVIOUS
<1>1. FilesSafe'
  BY MarkIntentSafe DEF BlockPending, Statuses
<1>2. CloudTypeOK' /\ JobTypeOK'
  BY FaultsKept, WorldKept DEF BlockPending
<1> QED BY <1>1, <1>2, TickEnds DEF BlockPending

\* The emitting stage is journaled without touching effect or intent.
LEMMA EmitIntentIInv == IInv /\ EmitIntent => IInv'
<1> SUFFICES ASSUME IInv, EmitIntent PROVE IInv'
  OBVIOUS
<1>1. /\ pending' \in PendingEffects /\ pending'.effect = pending.effect
      /\ pending'.effectDeadline = pending.effectDeadline /\ pending'.status = pending.status
      /\ journal' = journal
  BY DEF EmitIntent, IInv, TypeOK, JournalTypeOK, PendingEffects
<1>2. JournalTypeOK' /\ ReservedIsNew'
  BY <1>1 DEF IInv, TypeOK, JournalTypeOK, ReservedIsNew
<1>3. JournalConsistent'
  BY <1>1 DEF IInv, JournalConsistent, HasPending
<1>4. input' \in Inputs
  BY ObservationsTyped DEF EmitIntent, IInv, TypeOK, ProcessTypeOK, Inputs
<1>5. ProcessTypeOK'
  BY <1>4 DEF EmitIntent, IInv, TypeOK, ProcessTypeOK, Stages
<1>6. TickReadsJournal' /\ CapacityRefusesCompute'
  BY DEF EmitIntent, TickReadsJournal, CapacityRefusesCompute
<1>7. CloudTypeOK' /\ JobTypeOK'
  BY FaultsKept, WorldKept DEF EmitIntent
<1> QED BY <1>2, <1>3, <1>5, <1>6, <1>7 DEF IInv, TypeOK

\* A request leaves the files alone and records its reply in the process.
LEMMA ReplyRecorded ==
    ASSUME IInv, NEW r \in Replies, Reply(r),
           r = "capacity" => pending.effect.type \in {"create-vm", "start-vm"},
           CloudTypeOK', JobTypeOK'
    PROVE  IInv'
<1>1. FilesSafe'
  BY FilesKept DEF Reply
<1>2. ProcessTypeOK'
  BY DEF Reply, IInv, TypeOK, ProcessTypeOK, Stages
<1>3. TickReadsJournal' /\ CapacityRefusesCompute'
  BY DEF Reply, journalVars, TickReadsJournal, CapacityRefusesCompute
<1> QED BY <1>1, <1>2, <1>3 DEF FilesSafe, IInv, TypeOK

\* Any answer to a request that is not a capacity refusal keeps the invariant.
LEMMA AnswerRecorded ==
    ASSUME IInv, CloudTypeOK', JobTypeOK',
           \/ ReplyMayBeLost("accepted") \/ ReplyMayBeLost("resolved")
           \/ ReplyMayBeLost("unidentified") \/ AcceptedReply
           \/ Reply("error") \/ Refused("error")
    PROVE  IInv'
<1>1. \E r \in Replies \ {"capacity"} : Reply(r)
  BY DEF ReplyMayBeLost, AcceptedReply, Refused, Replies
<1> QED BY <1>1, ReplyRecorded

\* A lost answer is one fault.
LEMMA AnswerCounted ==
    ASSUME IInv,
           \/ ReplyMayBeLost("resolved") \/ ReplyMayBeLost("unidentified") \/ AcceptedReply
    PROVE  faults' \in Nat
<1>1. NoFault \/ Fault("reply")
  BY DEF ReplyMayBeLost, AcceptedReply
<1> QED BY <1>1, FaultsTyped

\* A request refused or lost before it takes effect changes only the reply.
LEMMA RefusalIInv ==
    ASSUME IInv, Refused("error"), NEW kind, NoFault \/ Fault(kind)
    PROVE  IInv'
<1>1. CloudTypeOK' /\ JobTypeOK'
  BY FaultsTyped, WorldKept DEF Refused
<1> QED BY <1>1, AnswerRecorded

\* Every request of executeEffect, accepted, refused or with its answer lost.
LEMMA ExecuteStepIInv == IInv /\ ExecuteStep => IInv'
<1> SUFFICES ASSUME IInv, ExecuteStep PROVE IInv'
  OBVIOUS
<1>0. CloudTypeOK /\ JobTypeOK /\ vm \in Vms /\ clock \in Nat /\ journal.startCount \in Nat
  BY DEF IInv, TypeOK, CloudTypeOK, ProcessTypeOK, JournalTypeOK, Journals
<1>1. RunnerGeneration \in Nat
  BY <1>0 DEF RunnerGeneration, Larger
<1>2. RemoveRegistration => registered' \in Nat
  BY <1>0 DEF RemoveRegistration, JobTypeOK
<1>3. CASE RequestFails
  BY <1>3, RefusalIInv DEF RequestFails
<1>4. CASE RefusedForCapacity
  <2>1. CloudTypeOK' /\ JobTypeOK'
    BY <1>4, FaultsTyped, WorldKept DEF RefusedForCapacity, Refused
  <2> QED BY <1>4, <2>1, ReplyRecorded DEF RefusedForCapacity, Refused, Replies
<1>5. CASE Refused("error") /\ NoFault
  BY <1>5, RefusalIInv
<1>6. CASE ExecuteCreate /\ CanCreate
  <2>1. AcceptedReply
    BY <1>6 DEF ExecuteCreate
  <2>2. faults' \in Nat
    BY <2>1, AnswerCounted
  <2>3. CloudTypeOK' /\ JobTypeOK'
    BY <1>0, <1>6, <2>2, ControllerAssumption
    DEF ExecuteCreate, CloudTypeOK, JobTypeOK, jobVars, OpStates
  <2> QED BY <2>1, <2>3, AnswerRecorded
<1>7. CASE ExecuteStart /\ OwnedVms = 1 /\ vm.status = "stopped"
  <2>1. AcceptedReply
    BY <1>7 DEF ExecuteStart
  <2>2. faults' \in Nat
    BY <2>1, AnswerCounted
  <2>3. vm' \in Vms
    BY <1>0, <1>7 DEF ExecuteStart, Vms, PowerStates
  <2>4. CloudTypeOK' /\ JobTypeOK'
    BY <1>0, <1>7, <2>2, <2>3, ControllerAssumption
    DEF ExecuteStart, CloudTypeOK, JobTypeOK, jobVars, OpStates
  <2> QED BY <2>1, <2>4, AnswerRecorded
<1>8. CASE ExecuteStop /\ OwnedVms = 1 /\ vm.status = "running"
  <2>1. AcceptedReply
    BY <1>8 DEF ExecuteStop
  <2>2. faults' \in Nat
    BY <2>1, AnswerCounted
  <2>3. vm' \in Vms
    BY <1>0, <1>8, PoweredOffTyped DEF ExecuteStop, PowerStates
  <2>4. killed' \in BOOLEAN
    <3>1. killed \in BOOLEAN /\ vm.worker \in BOOLEAN
      BY <1>0 DEF JobTypeOK, Vms
    <3> QED BY <1>8, <3>1 DEF ExecuteStop
  <2>5. CloudTypeOK' /\ JobTypeOK'
    BY <1>0, <1>8, <2>2, <2>3, <2>4 DEF ExecuteStop, CloudTypeOK, JobTypeOK
  <2> QED BY <2>1, <2>5, AnswerRecorded
<1>9. CASE /\ ExecuteDelete /\ OwnedVms = 1 /\ vm.status = "stopped"
           /\ CleanupPermit(permit, clock) /\ CanRemoveRegistration
  <2>1. AcceptedReply /\ RemoveRegistration
    BY <1>9 DEF ExecuteDelete
  <2>2. faults' \in Nat /\ registered' \in Nat
    BY <1>2, <2>1, AnswerCounted
  <2>3. vm' \in Vms
    BY <1>0, <1>9 DEF ExecuteDelete, Vms, PowerStates
  <2>4. CloudTypeOK' /\ JobTypeOK'
    BY <1>0, <1>9, <2>2, <2>3 DEF ExecuteDelete, CloudTypeOK, JobTypeOK
  <2> QED BY <2>1, <2>4, AnswerRecorded
<1>10. CASE /\ ExecuteRegister /\ OwnedVms = 1 /\ vm.status = "running" /\ ValidPermit(permit, clock)
            /\ "register" \in permit.ops /\ CanRegister(vm) /\ ~RunnerOwned
  <2>1. ReplyMayBeLost("resolved")
    BY <1>10 DEF ExecuteRegister
  <2>2. faults' \in Nat
    BY <2>1, AnswerCounted
  <2>3. vm' \in Vms
    BY <1>0, <1>10 DEF ExecuteRegister, RegisteredVm, Vms
  <2>4. CloudTypeOK' /\ JobTypeOK'
    BY <1>0, <1>1, <1>10, <2>2, <2>3 DEF ExecuteRegister, CloudTypeOK, JobTypeOK
  <2> QED BY <2>1, <2>4, AnswerRecorded
<1>11. CASE ExecuteDrain /\ OwnedVms = 1 /\ vm.status = "running"
  <2>1. \/ Reply("error") /\ NoFault /\ UNCHANGED registered
        \/ ReplyMayBeLost("unidentified") /\ RemoveRegistration
    BY <1>11 DEF ExecuteDrain
  <2>2. faults' \in Nat /\ registered' \in Nat
    BY <1>0, <1>2, <2>1, AnswerCounted, FaultsTyped DEF JobTypeOK
  <2>3. vm' \in Vms
    <3>1. (vm.listener /\ DrainRefused(vm)) \in BOOLEAN
      OBVIOUS
    <3> QED BY <1>0, <1>11, <3>1 DEF ExecuteDrain, DrainedVm, Vms
  <2>4. CloudTypeOK' /\ JobTypeOK'
    BY <1>0, <1>11, <2>2, <2>3 DEF ExecuteDrain, CloudTypeOK, JobTypeOK
  <2> QED BY <2>1, <2>4, AnswerRecorded
<1>12. CASE ExecuteResume /\ OwnedVms = 1 /\ vm.status = "running" /\ CanResume(vm)
  <2>1. ReplyMayBeLost("unidentified")
    BY <1>12 DEF ExecuteResume
  <2>2. faults' \in Nat
    BY <2>1, AnswerCounted
  <2>3. vm' \in Vms
    BY <1>0, <1>12 DEF ExecuteResume, ResumedVm, Vms
  <2>4. CloudTypeOK' /\ JobTypeOK'
    BY <1>0, <1>12, <2>2, <2>3 DEF ExecuteResume, CloudTypeOK, JobTypeOK, jobVars
  <2> QED BY <2>1, <2>4, AnswerRecorded
<1> QED BY <1>3, <1>4, <1>5, <1>6, <1>7, <1>8, <1>9, <1>10, <1>11, <1>12
        DEF ExecuteStep, ExecuteCreate, ExecuteStart, ExecuteStop, ExecuteDelete,
            ExecuteRegister, ExecuteDrain, ExecuteResume

\* nextCapacityWait: a refusal has a count and a retry time, however many
\* refusals came before.
LEMMA BackoffTyped ==
    ASSUME NEW previous \in CapacityWaits, NEW refused \in IntentTypes, NEW now \in Nat
    PROVE  NextCapacityWait(previous, refused, now) \in CapacityWaits
<1>1. \A n \in 1..17 : Doublings[n] \in Nat
  BY DEF Doublings
<1>2. \A r \in Nat \ {0} : Smaller(r, 17) \in 1..17
  BY DEF Smaller
<1>3. \A r \in Nat \ {0} : CapacityBase * Doublings[Smaller(r, 17)] \in Nat
  <2> SUFFICES ASSUME NEW r \in Nat \ {0} PROVE CapacityBase * Doublings[Smaller(r, 17)] \in Nat
    OBVIOUS
  <2>1. Doublings[Smaller(r, 17)] \in Nat
    BY <1>1, <1>2
  <2> QED BY <2>1, ConfigAssumption
<1>4. \A r \in Nat \ {0} : Backoff(r) \in Nat
  BY <1>3, ConfigAssumption DEF Backoff, Smaller
<1>5. \A r \in Nat \ {0} : now + Larger(PollInterval, Backoff(r)) \in Nat
  BY <1>4, ConfigAssumption DEF Larger
<1>6. previous.refusals \in Nat
  BY DEF CapacityWaits
<1> DEFINE r == IF previous.refused # "none" /\ now - previous.retryAt <= CapacityMax
                THEN previous.refusals + 1 ELSE 1
<1>7. r \in Nat \ {0}
  BY <1>6
<1>8. NextCapacityWait(previous, refused, now) =
         [refused |-> refused, refusals |-> r, retryAt |-> now + Larger(PollInterval, Backoff(r))]
  BY DEF NextCapacityWait
<1> HIDE DEF r
<1> QED BY <1>5, <1>7, <1>8 DEF CapacityWaits

\* A refused create gives nothing back, a refused start its own generation.
LEMMA WaitForCapacitySafe ==
    ASSUME IInv, NEW base \in Journals, NEW refused \in {"create-vm", "start-vm"},
           pending.effect.type = refused, base.startCount = journal.startCount,
           base.idle.generation <= base.startCount,
           refused = "start-vm" => base.idle = journal.idle,
           WaitForCapacity(base, refused)
    PROVE  FilesSafe'
<1>0. /\ base.wait \in CapacityWaits /\ input.now \in Nat /\ base.startCount \in Nat
      /\ base.idle.generation \in Nat /\ pending.effect.generation \in Nat
  BY DEF Journals, IdleEvidence, IInv, TypeOK, ProcessTypeOK, JournalTypeOK, Inputs,
         PendingEffects, Effects
<1> DEFINE wait == NextCapacityWait(base.wait, refused, input.now)
           state == IF refused = "create-vm" THEN "absent" ELSE "stopped"
           count == IF refused = "start-vm" THEN pending.effect.generation - 1 ELSE base.startCount
<1>1. wait \in CapacityWaits /\ state \in LifecycleStates /\ None \in OptionalTimes
  BY <1>0, BackoffTyped DEF IntentTypes, LifecycleStates, OptionalTimes
<1>2. count \in Nat /\ base.idle.generation <= count
  BY <1>0 DEF IInv, ReservedIsNew
<1>3. journal' = [base EXCEPT
         !.startCount = count, !.state = state, !.intent = NoIntent, !.wait = wait,
         !.grantDeadline = None, !.grantStarted = None]
  BY DEF WaitForCapacity
<1> HIDE DEF wait, state, count
<1>4. /\ journal' \in Journals /\ journal'.intent = NoIntent
      /\ journal'.idle.generation <= journal'.startCount
  BY <1>1, <1>2, <1>3, ConstantsTyped DEF Journals
<1> QED BY <1>4, FilesCleared DEF WaitForCapacity

\* What executePendingEffect writes for each reply.
LEMMA JournalReplyIInv == IInv /\ JournalReply => IInv'
<1> SUFFICES ASSUME IInv, JournalReply PROVE IInv'
  OBVIOUS
<1>1. CloudTypeOK' /\ JobTypeOK'
  BY FaultsKept, WorldKept DEF JournalReply
<1>2. CASE reply = "resolved"
  <2>1. FilesSafe'
    BY <1>2, IntentCleared, FilesCleared DEF JournalReply
  <2> QED BY <1>1, <1>2, <2>1, TickEnds DEF JournalReply
<1>3. CASE reply = "accepted"
  <2>1. /\ pending' \in PendingEffects /\ pending'.effect = pending.effect
        /\ pending'.effectDeadline = pending.effectDeadline /\ pending'.status = pending.status
        /\ journal' = journal
    BY <1>3 DEF JournalReply, IInv, TypeOK, JournalTypeOK, PendingEffects
  <2>2. JournalTypeOK' /\ ReservedIsNew'
    BY <2>1 DEF IInv, TypeOK, JournalTypeOK, ReservedIsNew
  <2>3. JournalConsistent'
    BY <2>1 DEF IInv, JournalConsistent, HasPending
  <2> QED BY <1>1, <1>3, <2>2, <2>3, TickEnds DEF JournalReply, FilesSafe
<1>4. CASE reply = "unidentified"
  BY <1>1, <1>4, FilesKept, TickEnds DEF JournalReply
<1>5. CASE reply = "capacity"
  <2>1. pending.effect.type \in {"create-vm", "start-vm"}
    BY <1>5 DEF JournalReply, IInv, CapacityRefusesCompute
  <2>2. journal \in Journals /\ journal.idle.generation <= journal.startCount
    BY DEF IInv, TypeOK, JournalTypeOK, JournalConsistent
  <2>3. WaitForCapacity(journal, pending.effect.type) /\ Idle
    BY <1>5 DEF JournalReply
  <2>4. FilesSafe'
    BY <2>1, <2>2, <2>3, WaitForCapacitySafe
  <2> QED BY <1>1, <2>3, <2>4, TickEnds DEF JournalReply
<1>6. CASE reply = "error"
  <2>1. FilesSafe'
    BY <1>6, MarkIntentSafe DEF JournalReply, Statuses
  <2> QED BY <1>1, <1>6, <2>1, TickEnds DEF JournalReply
<1> QED BY <1>2, <1>3, <1>4, <1>5, <1>6 DEF JournalReply

\* A proven effect clears intent and pending effect and moves the grant.
LEMMA SettleSafe ==
    ASSUME IInv, HasPending, Settle
    PROVE  FilesSafe'
<1>0. journal \in Journals /\ pending \in PendingEffects /\ pending.createdAt \in Nat
      /\ journal.idle.generation <= journal.startCount
  BY DEF IInv, TypeOK, JournalTypeOK, JournalConsistent, PendingEffects
<1>1. pending.effect.type \in {"start-vm", "adopt-vm"} => pending.effect.deadline \in OptionalTimes
  <2>1. pending.effect.type # "adopt-vm"
    BY DEF IInv, ReservedIsNew
  <2>2. CASE pending.effect.type = "start-vm"
    <3>1. journal.intent.deadline = pending.effect.deadline
      BY <2>2 DEF IInv, JournalConsistent, HasPending
    <3>2. journal.intent.deadline \in OptionalTimes
      BY <1>0 DEF Journals, Intents
    <3> QED BY <3>1, <3>2
  <2> QED BY <2>1, <2>2
<1> DEFINE type == pending.effect.type
           gone == type \in {"create-vm", "delete-vm"}
           state == IF type = "create-vm" THEN "stopped" ELSE journal.state
           deadline == IF type \in {"start-vm", "adopt-vm"} THEN pending.effect.deadline
                       ELSE IF gone THEN None ELSE journal.grantDeadline
           started == IF type = "start-vm" THEN pending.createdAt
                      ELSE IF gone THEN None ELSE journal.grantStarted
           wait == IF type \in {"start-vm", "delete-vm"} THEN NoWait ELSE journal.wait
<1>2. /\ state \in LifecycleStates /\ deadline \in OptionalTimes /\ started \in OptionalTimes
      /\ wait \in CapacityWaits
  BY <1>0, <1>1, ConstantsTyped DEF Journals, LifecycleStates, OptionalTimes
<1>3. journal' = [journal EXCEPT !.state = state, !.intent = NoIntent, !.grantDeadline = deadline,
                                 !.grantStarted = started, !.wait = wait]
  BY DEF Settle
<1> HIDE DEF state, deadline, started, wait
<1>4. /\ journal' \in Journals /\ journal'.intent = NoIntent
      /\ journal'.idle.generation <= journal'.startCount
  BY <1>0, <1>2, <1>3, ConstantsTyped DEF Journals
<1> QED BY <1>4, FilesCleared DEF Settle

\* Every outcome of reconcileEffect.
LEMMA ReconcileStepIInv == IInv /\ ReconcileStep => IInv'
<1> SUFFICES ASSUME IInv, ReconcileStep PROVE IInv'
  OBVIOUS
<1>1. CASE ReconcileProven
  <2>1. HasPending /\ Settle
    BY <1>1 DEF ReconcileProven, Reconciling, Cleared, AtPending
  <2>2. CloudTypeOK' /\ JobTypeOK'
    BY <1>1, FaultsKept, WorldKept DEF ReconcileProven
  <2> QED BY <1>1, <2>1, <2>2, SettleSafe, TickEnds DEF ReconcileProven
<1>2. CASE ArmGrant
  <2>1. HasPending
    BY <1>2 DEF ArmGrant, NeedsArming, Reconciling, Cleared, AtPending
  <2>2. FilesSafe'
    BY <1>2, <2>1, SettleSafe, FilesKept DEF ArmGrant
  <2>3. vm' \in Vms
    <3>1. /\ vm \in Vms /\ clock \in Nat /\ pending.effect.generation \in Nat
          /\ pending.effect.deadline \in Int
      BY DEF IInv, TypeOK, CloudTypeOK, ProcessTypeOK, JournalTypeOK, PendingEffects, Effects
    <3>2. pending.effect.deadline > clock
      BY <1>2 DEF ArmGrant, StartArmable, CanArm
    <3>3. pending.effect.deadline \in OptionalTimes /\ pending.effect.deadline - clock \in Nat
      BY <3>1, <3>2 DEF OptionalTimes
    <3>4. vm' = ArmedVm(vm, pending.effect.generation, clock, pending.effect.deadline)
      BY <1>2 DEF ArmGrant
    <3> QED BY <3>1, <3>3, <3>4 DEF ArmedVm, Vms
  <2>4. faults' \in Nat
    BY <1>2, FaultsTyped DEF ArmGrant
  <2>5. CloudTypeOK' /\ JobTypeOK'
    BY <1>2, <2>3, <2>4 DEF ArmGrant, IInv, TypeOK, CloudTypeOK, JobTypeOK, jobVars
  <2> QED BY <1>2, <2>2, <2>5, TickEnds DEF ArmGrant
<1>3. CASE ArmFails
  <2>1. CloudTypeOK' /\ JobTypeOK'
    BY <1>3, FaultsTyped, WorldKept DEF ArmFails
  <2> QED BY <1>3, <2>1, FilesKept, TickEnds DEF ArmFails
<1>4. CASE ReconcileStartRefused
  <2>1. /\ pc = "observed" /\ pending.effect.type = "start-vm"
        /\ input.provider.vmStatus = "stopped"
    BY <1>4 DEF ReconcileStartRefused, Reconciling, StartRefused, StartOperationOver, SeenOwned
  <2>2. FilesSafe'
    BY <1>4, <2>1, ObservedTick, WaitForCapacitySafe DEF ReconcileStartRefused
  <2>3. CloudTypeOK' /\ JobTypeOK'
    BY <1>4, FaultsKept, WorldKept DEF ReconcileStartRefused
  <2> QED BY <1>4, <2>2, <2>3, TickEnds DEF ReconcileStartRefused
<1>5. CASE RetireStoppedStart
  BY <1>5, RetireStoppedStartIInv
<1>6. CASE ReconcileCreateRefused
  <2>1. /\ pending.effect.type = "create-vm"
        /\ journal \in Journals /\ journal.idle.generation <= journal.startCount
    BY <1>6 DEF ReconcileCreateRefused, CreateRefused, IInv, TypeOK, JournalTypeOK,
                JournalConsistent
  <2>2. FilesSafe'
    BY <1>6, <2>1, WaitForCapacitySafe DEF ReconcileCreateRefused
  <2>3. CloudTypeOK' /\ JobTypeOK'
    BY <1>6, FaultsKept, WorldKept DEF ReconcileCreateRefused
  <2> QED BY <1>6, <2>2, <2>3, TickEnds DEF ReconcileCreateRefused
<1>7. CASE ReconcileUnresolved
  <2>1. CloudTypeOK' /\ JobTypeOK'
    BY <1>7, FaultsTyped, WorldKept DEF ReconcileUnresolved
  <2> QED BY <1>7, <2>1, FilesKept, TickEnds DEF ReconcileUnresolved
<1> QED BY <1>1, <1>2, <1>3, <1>4, <1>5, <1>6, <1>7 DEF ReconcileStep

\* A crash leaves the files as they are; a restart may bring another permit.
LEMMA CrashRestartIInv == IInv /\ (Crash \/ Restart) => IInv'
<1> SUFFICES ASSUME IInv, Crash \/ Restart PROVE IInv'
  OBVIOUS
<1>1. CASE Crash
  <2>1. CloudTypeOK' /\ JobTypeOK'
    BY <1>1, FaultsTyped, WorldKept DEF Crash
  <2> QED BY <1>1, <2>1, FilesKept, TickEnds DEF Crash
<1>2. CASE Restart
  <2>1. CloudTypeOK' /\ JobTypeOK'
    BY <1>2, FaultsKept, WorldKept DEF Restart
  <2>2. ProcessTypeOK'
    BY <1>2 DEF Restart, IInv, TypeOK, ProcessTypeOK, Stages
  <2>3. TickReadsJournal' /\ CapacityRefusesCompute'
    BY <1>2 DEF Restart, TickReadsJournal, CapacityRefusesCompute
  <2> QED BY <1>2, <2>1, <2>2, <2>3, FilesKept DEF Restart, FilesSafe, IInv, TypeOK
<1> QED BY <1>1, <1>2

\* A stuttering step changes nothing.
LEMMA StutterIInv == IInv /\ UNCHANGED vars => IInv'
<1> SUFFICES ASSUME IInv, UNCHANGED vars PROVE IInv'
  OBVIOUS
<1>1. UNCHANGED <<journalVars, accounting, activeJob, processVars>> /\ clock' \in Nat
  BY DEF vars, journalVars, processVars, IInv, TypeOK, ProcessTypeOK
<1>2. CloudTypeOK' /\ JobTypeOK'
  BY DEF vars, IInv, TypeOK, CloudTypeOK, JobTypeOK
<1> QED BY <1>1, <1>2, WorldFrame

\* Every step keeps the invariant.
LEMMA NextIInv == IInv /\ [Next]_vars => IInv'
<1> SUFFICES ASSUME IInv, [Next]_vars PROVE IInv'
  OBVIOUS
<1>1. CASE TickStep
  BY <1>1, ObserveCloudIInv, ObserveGuestIInv, DecideNothingIInv, RecordDecisionIInv,
     AbandonPendingIInv, BlockPendingIInv, EmitIntentIInv DEF TickStep
<1> QED BY <1>1, TickIInv, JobStepIInv, CloudStepIInv, GuestStepIInv, ExecuteStepIInv,
           JournalReplyIInv, ReconcileStepIInv, CrashRestartIInv, StutterIInv
        DEF Next, ControllerStep
-----------------------------------------------------------------------------
\* The inductive invariant holds in every reachable state, for every
\* configuration, set of permits and number of faults.
THEOREM InductiveInvariant == Spec => []IInv
BY InitIInv, NextIInv, PTL DEF Spec

\* Every field of the journal files, of the tick and of the world keeps its
\* range: in particular startCount stays a natural number although refused
\* starts hand generations back, and no recorded time is out of range.
THEOREM TypeCorrect == Spec => []TypeOK
<1>1. IInv => TypeOK
  BY DEF IInv
<1> QED BY <1>1, InductiveInvariant, PTL

\* assertStateInvariants never throws on files the controller itself wrote:
\* intent and pending effect agree after any number of crashes, refusals, lost
\* replies and permit changes, for every configuration.
THEOREM JournalAlwaysConsistent == Spec => []JournalConsistent
<1>1. IInv => JournalConsistent
  BY DEF IInv
<1> QED BY <1>1, InductiveInvariant, PTL
-----------------------------------------------------------------------------
(***************************************************************************)
(* The generation count of the journal, for all values of the constants:   *)
(* no boot escapes it although refused starts hand generations back        *)
(* (BootsCounted), and only such a refusal makes it fall (JournalMonotone).*)
(* The invariant keeps room in the count for every start that may still    *)
(* boot: one on its way at the provider, one about to be sent, and one     *)
(* whose operation has not succeeded, which alone may be refused later.    *)
(***************************************************************************)

Starting == vm.status = "starting"

StartPending == pending.effect.type = "start-vm"

(* The pending start was not sent, or was refused before it took effect. *)
StartUnsent == StartPending /\ \/ pending.stage = "intent" \/ pc = "emitting"
                               \/ pc = "replied" /\ reply = "capacity"

(* Nebius accepted the pending start, and has not let it succeed. *)
StartAccepted == /\ StartPending /\ startOp # "succeeded"
                 /\ \/ pending.operationId
                    \/ pc = "replied" /\ reply = "accepted"

BootRoom ==
    /\ boots <= journal.startCount
    /\ Starting \/ StartUnsent \/ StartAccepted => boots < journal.startCount
    /\ Starting /\ StartUnsent => boots + 1 < journal.startCount

(* The tick's copy never has less runtime than the disk, its permit is the *)
(* process's, and a request is sent only after its stage was written.      *)
TickIsCurrent ==
    /\ pc \in {"observing", "observed"} => input.permit = permit
    /\ pc = "observed" => input.journal.runtime >= journal.runtime
    /\ pc \in {"emitting", "replied"} => pending.stage = "emitting"

BootInv == IInv /\ BootRoom /\ TickIsCurrent

(* What the counting needs of the types. *)
LEMMA CountsTyped ==
    ASSUME IInv
    PROVE  /\ boots \in Nat /\ journal.startCount \in Nat /\ journal.runtime \in Nat
           /\ journal \in Journals /\ pending \in PendingEffects /\ vm \in Vms
BY DEF IInv, TypeOK, JournalTypeOK, CloudTypeOK, Journals

LEMMA BootInitially == Init => BootInv
<1> SUFFICES ASSUME Init PROVE BootInv
  OBVIOUS
<1>1. BootRoom
  BY ConstantsTyped, NoEffectType
  DEF Init, BootRoom, Starting, StartUnsent, StartAccepted, StartPending, NoVm
<1>2. TickIsCurrent
  BY DEF Init, TickIsCurrent
<1> QED BY <1>1, <1>2, InitIInv DEF BootInv

(* A step that counts nothing and starts nothing keeps the room. *)
LEMMA RoomKept ==
    ASSUME BootInv, UNCHANGED boots, journal'.startCount = journal.startCount,
           Starting' => Starting, StartUnsent' => StartUnsent,
           StartAccepted' => StartAccepted \/ StartUnsent \/ Starting
    PROVE  BootRoom'
BY CountsTyped DEF BootInv, BootRoom

-----------------------------------------------------------------------------
(***************************************************************************)
(* Steps of the world.                                                     *)
(***************************************************************************)

LEMMA WorldRoom ==
    ASSUME BootInv, UNCHANGED <<journalVars, processVars>>, UNCHANGED <<boots, startOp>>,
           vm'.status = "starting" => vm.status = "starting"
    PROVE  BootRoom' /\ TickIsCurrent'
<1>1. TickIsCurrent'
  BY DEF BootInv, TickIsCurrent, journalVars, processVars
<1>2. BootRoom'
  BY RoomKept DEF journalVars, processVars, Starting, StartUnsent, StartAccepted, StartPending
<1> QED BY <1>1, <1>2

LEMMA WorldBoots ==
    ASSUME BootInv, Tick \/ JobStep \/ GuestStep \/ StopSettles \/ DeleteSettles
                      \/ (\E outcome \in {"succeeded", "failed", "capacity"} :
                             CreateSettles(outcome))
    PROVE  BootRoom' /\ TickIsCurrent'
<1>0. vm \in Vms
  BY CountsTyped DEF BootInv
<1>1. UNCHANGED <<journalVars, processVars>> /\ UNCHANGED <<boots, startOp>>
  BY DEF Tick, JobStep, JobArrives, JobWithdrawn, AssignJob, StartJob, FinishJob, LoseJob,
         GuestStep, GuestBootstrapped, WatchdogExpires, GuestFails, StopSettles, DeleteSettles,
         CreateSettles, cloudVars, journalVars, processVars
<1>2. vm'.status = "starting" => vm.status = "starting"
  <2>1. CASE Tick
    BY <1>0, <2>1 DEF Tick, Vms
  <2>2. CASE JobStep
    BY <1>0, <2>2 DEF JobStep, JobArrives, JobWithdrawn, AssignJob, StartJob, FinishJob, LoseJob,
                      cloudVars, Vms
  <2>3. CASE GuestStep
    <3>1. ExpiredVm(vm).status = "stopped"
      BY <1>0 DEF ExpiredVm, PoweredOff, Vms
    <3> QED BY <1>0, <2>3, <3>1 DEF GuestStep, GuestBootstrapped, WatchdogExpires, GuestFails, Vms
  <2>4. CASE StopSettles \/ DeleteSettles
    BY <1>0, <2>4 DEF StopSettles, DeleteSettles, NoVm, Vms
  <2>5. CASE \E outcome \in {"succeeded", "failed", "capacity"} : CreateSettles(outcome)
    <3>1. CreatedVm.status = "stopped"
      BY DEF CreatedVm, NoVm
    <3>2. vm' \in {vm, CreatedVm}
      BY <2>5 DEF CreateSettles
    <3> QED BY <3>1, <3>2
  <2> QED BY <2>1, <2>2, <2>3, <2>4, <2>5
<1> QED BY <1>1, <1>2, WorldRoom

(* A start that succeeds is the boot there was room for; one that does not *)
(* leaves its generation to be handed back.                                *)
LEMMA StartSettlesBoots ==
    ASSUME BootInv, NEW outcome \in {"succeeded", "failed", "capacity"}, StartSettles(outcome)
    PROVE  BootRoom' /\ TickIsCurrent'
<1>1. /\ UNCHANGED <<journalVars, processVars>> /\ vm.status = "starting" /\ startOp' = outcome
      /\ vm \in Vms
  BY CountsTyped DEF StartSettles, BootInv
<1>2. vm'.status # "starting"
  BY <1>1 DEF StartSettles, BootedVm, Vms
<1>3. boots' = IF outcome = "succeeded" THEN boots + 1 ELSE boots
  BY DEF StartSettles
<1>4. TickIsCurrent'
  BY <1>1 DEF BootInv, TickIsCurrent, journalVars, processVars
<1>5. BootRoom'
  BY <1>1, <1>2, <1>3, CountsTyped
  DEF BootInv, BootRoom, journalVars, processVars, Starting, StartUnsent, StartAccepted,
      StartPending
<1> QED BY <1>4, <1>5

-----------------------------------------------------------------------------
(***************************************************************************)
(* Steps of the controller.                                                *)
(***************************************************************************)

(* The tick observes. *)
LEMMA ObserveBoots ==
    ASSUME BootInv, ObserveCloud \/ ObserveGuest
    PROVE  BootRoom' /\ TickIsCurrent'
<1>1. CASE ObserveCloud
  <2>1. input' \in [now : {clock}, permit : {permit}, provider : Providers \cup {ProviderView},
                    queue : {input'.queue}, guest : {NoInput.guest}, journal : {NoInput.journal}]
    BY <1>1, ObservationsTyped DEF ObserveCloud, NoInput, Inputs
  <2>2. TickIsCurrent'
    BY <1>1, <2>1 DEF ObserveCloud, TickIsCurrent
  <2>3. BootRoom'
    BY <1>1, RoomKept
    DEF ObserveCloud, journalVars, cloudVars, Starting, StartUnsent, StartAccepted, StartPending
  <2> QED BY <2>2, <2>3
<1>2. CASE ObserveGuest
  <2>1. /\ input \in Inputs /\ input.provider \in Providers /\ input.now \in Nat
        /\ pc = "observing" /\ pc' = "observed" /\ UNCHANGED <<permit, journalVars, reply>>
    BY <1>2 DEF ObserveGuest, BootInv, IInv, TypeOK, ProcessTypeOK, Inputs
  <2>2. PICK j, g, q :
           /\ j = [journal EXCEPT !.runtime = ObservedRuntime(input.provider, input.now,
                                                 NextAccounting(input.provider)),
                                  !.idle = ObservedIdle(q, g, input.now)]
           /\ input' = [input EXCEPT !.guest = g, !.queue = q, !.journal = j]
    BY <1>2, Zenon DEF ObserveGuest
  <2>3. input'.permit = input.permit /\ input'.journal = j
    BY <2>1, <2>2 DEF Inputs
  <2>4. j.runtime = ObservedRuntime(input.provider, input.now, NextAccounting(input.provider))
    BY <2>2, CountsTyped DEF BootInv, Journals
  <2>5. j.runtime >= journal.runtime
    <3>1. /\ journal.runtime \in Nat /\ journal.grantStarted \in Int
          /\ journal.grantDeadline \in Int
      BY CountsTyped DEF BootInv, Journals, OptionalTimes, None
    <3>2. NextAccounting(input.provider).baseline \in Nat
      BY <2>1, AccountingTyped DEF BootInv
    <3> HIDE DEF NextAccounting
    <3> QED BY <2>1, <2>4, <3>1, <3>2, ConfigAssumption DEF ObservedRuntime, Larger
  <2>6. TickIsCurrent'
    BY <2>1, <2>3, <2>5 DEF BootInv, TickIsCurrent, journalVars
  <2>7. BootRoom'
    BY <1>2, RoomKept
    DEF ObserveGuest, journalVars, cloudVars, Starting, StartUnsent, StartAccepted, StartPending
  <2> QED BY <2>6, <2>7
<1> QED BY <1>1, <1>2

(* A tick that ends or a process that exits writes at most the same count, *)
(* and no start becomes unsent.                                            *)
LEMMA EndsBoots ==
    ASSUME BootInv, Idle \/ Exit, UNCHANGED <<vm, boots, startOp>>,
           journal'.startCount = journal.startCount,
           \/ pending' = NoPending
           \/ /\ pending'.effect = pending.effect /\ pending'.stage = pending.stage
              /\ pending'.operationId => StartAccepted \/ pending.operationId \/ ~StartPending
                                         \/ startOp = "succeeded"
    PROVE  BootRoom' /\ TickIsCurrent'
<1>1. pc' \in {"idle", "down"} /\ reply' = "none"
  BY DEF Idle, Exit
<1>2. NoPending.effect.type # "start-vm"
  BY ConstantsTyped, NoEffectType
<1>3. BootRoom'
  BY <1>1, <1>2, RoomKept DEF Starting, StartUnsent, StartAccepted, StartPending
<1>4. TickIsCurrent'
  BY <1>1 DEF TickIsCurrent
<1> QED BY <1>3, <1>4

(* A decision without an effect, an abandoned and a blocked effect. *)
LEMMA QuietTickBoots ==
    ASSUME BootInv, DecideNothing \/ AbandonPending \/ BlockPending
    PROVE  BootRoom' /\ TickIsCurrent'
<1>0. journal \in Journals /\ pending \in PendingEffects
  BY CountsTyped DEF BootInv
<1>1. CASE DecideNothing
  BY <1>1, ObservedTick, EndsBoots DEF DecideNothing, BootInv, cloudVars
<1>2. CASE AbandonPending
  BY <1>0, <1>2, EndsBoots DEF AbandonPending, Journals, cloudVars
<1>3. CASE BlockPending
  <2>1. journal'.startCount = journal.startCount
    BY <1>0, <1>3 DEF BlockPending, MarkIntent, Journals
  <2>2. /\ pending'.effect = pending.effect /\ pending'.stage = pending.stage
        /\ pending'.operationId = pending.operationId
    BY <1>0, <1>3 DEF BlockPending, PendingEffects
  <2> QED BY <1>3, <2>1, <2>2, EndsBoots DEF BlockPending, cloudVars
<1> QED BY <1>1, <1>2, <1>3

(* A start that is written down gets a generation of its own. *)
LEMMA IntentBoots ==
    ASSUME BootInv, NEW base \in Journals, NEW d \in Decisions, WriteIntent(base, d),
           base.startCount = journal.startCount, UNCHANGED <<vm, boots, startOp>>,
           d.effect.type = "start-vm" =>
              ~HasPending /\ d.effect.generation = journal.startCount + 1
    PROVE  BootRoom' /\ TickIsCurrent'
<1>1. /\ pc' = "intent" /\ pending'.effect = d.effect /\ pending'.operationId = FALSE
      /\ journal' = ApplyDecision(base, d.effect, d.state, input.now)
  BY DEF WriteIntent
<1>2. journal'.startCount = IF d.effect.type = "start-vm" THEN journal.startCount + 1
                            ELSE journal.startCount
  BY <1>1 DEF ApplyDecision, Journals
<1>3. ~StartAccepted'
  BY <1>1 DEF StartAccepted
<1>4. CASE d.effect.type = "start-vm"
  BY <1>2, <1>3, <1>4, CountsTyped DEF BootInv, BootRoom, Starting, TickIsCurrent, WriteIntent
<1>5. CASE d.effect.type # "start-vm"
  <2>1. ~StartUnsent'
    BY <1>1, <1>5 DEF StartUnsent, StartPending
  <2>2. BootRoom'
    BY <1>2, <1>3, <1>5, <2>1, RoomKept DEF Starting
  <2> QED BY <1>1, <2>2 DEF TickIsCurrent
<1> QED BY <1>4, <1>5

LEMMA DecisionBoots ==
    ASSUME BootInv, RecordDecision \/ RetireStoppedStart
    PROVE  BootRoom' /\ TickIsCurrent'
<1>1. CASE RecordDecision
  <2> DEFINE d == DecideLifecycle(input)
  <2>1. pc = "observed" /\ ~HasPending /\ journal.intent = NoIntent
    BY <1>1 DEF RecordDecision, BootInv, IInv, JournalConsistent
  <2>2. /\ input \in Inputs /\ input.journal \in Journals
        /\ input.journal.startCount = journal.startCount /\ input.journal.intent.type = "none"
    BY <2>1, ObservedTick, ConstantsTyped DEF BootInv
  <2>3. Admissible(input, d)
    BY <2>2, DecisionAdmissible
  <2>4. WriteIntent(input.journal, d) /\ UNCHANGED <<vm, boots, startOp>>
    BY <1>1 DEF RecordDecision, cloudVars
  <2> HIDE DEF d
  <2> QED BY <2>1, <2>2, <2>3, <2>4, IntentBoots DEF Admissible
<1>2. CASE RetireStoppedStart
  <2> DEFINE base == [input.journal EXCEPT !.intent = NoIntent]
             e == Effect("delete-vm", input.journal.startCount, None)
             d == Decision("absent", e)
  <2>1. pc = "observed"
    BY <1>2 DEF RetireStoppedStart, Reconciling
  <2>2. /\ input.journal \in Journals /\ input.journal.startCount = journal.startCount
    BY <2>1, ObservedTick DEF BootInv
  <2>3. base \in Journals /\ base.startCount = journal.startCount
    BY <2>2, ConstantsTyped DEF Journals
  <2>4. e \in Effects /\ e.type = "delete-vm"
    BY <2>2, EffectType DEF Journals, EffectTypes, None
  <2>5. d \in Decisions /\ d.effect = e
    BY <2>4 DEF Decision, Decisions, LifecycleStates
  <2>6. WriteIntent(base, d) /\ UNCHANGED <<vm, boots, startOp>>
    BY <1>2 DEF RetireStoppedStart, cloudVars
  <2> HIDE DEF base, e, d
  <2> QED BY <2>3, <2>4, <2>5, <2>6, IntentBoots
<1> QED BY <1>1, <1>2

(* The stage is written before the request. *)
LEMMA EmitBoots ==
    ASSUME BootInv, EmitIntent
    PROVE  BootRoom' /\ TickIsCurrent'
<1>1. /\ pc' = "emitting" /\ reply' = reply /\ pending.stage = "intent" /\ pc # "replied"
      /\ UNCHANGED <<journal, boots, vm, startOp>>
  BY DEF EmitIntent, Cleared, AtPending, cloudVars
<1>2. pending'.effect = pending.effect /\ pending'.stage = "emitting"
      /\ pending'.operationId = pending.operationId
  BY CountsTyped DEF EmitIntent, BootInv, PendingEffects
<1>3. BootRoom'
  BY <1>1, <1>2, RoomKept DEF Starting, StartUnsent, StartAccepted, StartPending
<1>4. TickIsCurrent'
  BY <1>1, <1>2 DEF TickIsCurrent
<1> QED BY <1>3, <1>4

(* A request other than the start's own leaves no start more than it was. *)
LEMMA RequestBoots ==
    ASSUME BootInv, pc = "emitting", NEW r, Reply(r), UNCHANGED <<boots, startOp>>,
           vm'.status = "starting" => vm.status = "starting"
    PROVE  BootRoom' /\ TickIsCurrent'
<1>1. pc' = "replied" /\ UNCHANGED journalVars
  BY DEF Reply
<1>2. BootRoom'
  BY <1>1, RoomKept
  DEF journalVars, Starting, StartUnsent, StartAccepted, StartPending, BootInv, TickIsCurrent
<1>3. TickIsCurrent'
  BY <1>1 DEF BootInv, TickIsCurrent, journalVars
<1> QED BY <1>2, <1>3

LEMMA ExecuteBoots ==
    ASSUME BootInv, ExecuteStep
    PROVE  BootRoom' /\ TickIsCurrent'
<1>0. vm \in Vms /\ pc = "emitting"
  BY CountsTyped
  DEF BootInv, ExecuteStep, RequestFails, RefusedForCapacity, ExecuteCreate, ExecuteStart,
      ExecuteStop, ExecuteDelete, ExecuteRegister, ExecuteDrain, ExecuteResume, Executing
<1>1. \E r : Reply(r)
  BY DEF ExecuteStep, RequestFails, RefusedForCapacity, ExecuteCreate, ExecuteStart,
         ExecuteStop, ExecuteDelete, ExecuteRegister, ExecuteDrain, ExecuteResume, Refused,
         AcceptedReply, ReplyMayBeLost
<1>2. CASE UNCHANGED cloudVars
  BY <1>0, <1>1, <1>2, RequestBoots DEF cloudVars
<1>3. CASE ExecuteCreate /\ CanCreate
  BY <1>0, <1>1, <1>3, RequestBoots DEF ExecuteCreate
<1>4. CASE ExecuteStart /\ OwnedVms = 1 /\ vm.status = "stopped"
  <2>1. /\ pc' = "replied" /\ UNCHANGED <<journalVars, boots>> /\ startOp' = "running"
        /\ StartPending
    BY <1>1, <1>4 DEF ExecuteStart, Reply, Executing, StartPending
  <2>2. reply' # "capacity"
    BY <1>4 DEF ExecuteStart, AcceptedReply, ReplyMayBeLost, Reply
  <2>3. pending.stage = "emitting"
    BY <1>0 DEF BootInv, TickIsCurrent
  <2>4. ~StartUnsent'
    BY <2>1, <2>2, <2>3 DEF StartUnsent, journalVars
  <2>5. StartUnsent
    BY <1>0, <2>1 DEF StartUnsent
  <2>6. BootRoom'
    BY <2>1, <2>4, <2>5, CountsTyped DEF BootInv, BootRoom, journalVars
  <2>7. TickIsCurrent'
    BY <2>1, <2>3 DEF TickIsCurrent, journalVars
  <2> QED BY <2>6, <2>7
<1>5. CASE ExecuteStop /\ OwnedVms = 1 /\ vm.status = "running"
  <2>1. vm'.status = "stopping"
    BY <1>0, <1>5 DEF ExecuteStop, PoweredOff, Vms
  <2> QED BY <1>0, <1>1, <1>5, <2>1, RequestBoots DEF ExecuteStop
<1>6. CASE /\ ExecuteDelete /\ OwnedVms = 1 /\ vm.status = "stopped"
           /\ CleanupPermit(permit, clock) /\ CanRemoveRegistration
  <2>1. vm'.status = "deleting"
    BY <1>0, <1>6 DEF ExecuteDelete, Vms
  <2> QED BY <1>0, <1>1, <1>6, <2>1, RequestBoots DEF ExecuteDelete
<1>7. CASE /\ ExecuteRegister /\ OwnedVms = 1 /\ vm.status = "running" /\ ValidPermit(permit, clock)
           /\ "register" \in permit.ops /\ CanRegister(vm) /\ ~RunnerOwned
  <2>1. vm'.status = vm.status
    BY <1>0, <1>7 DEF ExecuteRegister, RegisteredVm, Vms
  <2> QED BY <1>0, <1>1, <1>7, <2>1, RequestBoots DEF ExecuteRegister
<1>8. CASE ExecuteDrain /\ OwnedVms = 1 /\ vm.status = "running"
  <2>1. vm'.status = vm.status
    BY <1>0, <1>8 DEF ExecuteDrain, DrainedVm, Vms
  <2> QED BY <1>0, <1>1, <1>8, <2>1, RequestBoots DEF ExecuteDrain
<1>9. CASE ExecuteResume /\ OwnedVms = 1 /\ vm.status = "running" /\ CanResume(vm)
  <2>1. vm'.status = vm.status
    BY <1>0, <1>9 DEF ExecuteResume, ResumedVm, Vms
  <2> QED BY <1>0, <1>1, <1>9, <2>1, RequestBoots DEF ExecuteResume
<1> QED BY <1>2, <1>3, <1>4, <1>5, <1>6, <1>7, <1>8, <1>9
        DEF ExecuteStep, RequestFails, RefusedForCapacity, Refused, ExecuteCreate, ExecuteStart,
            ExecuteStop, ExecuteDelete, ExecuteRegister, ExecuteDrain, ExecuteResume

(* A refused start hands back a generation nothing booted with. *)
LEMMA RefusalBoots ==
    ASSUME BootInv, NEW base \in Journals, base.startCount = journal.startCount,
           NEW refused \in {"create-vm", "start-vm"}, pending.effect.type = refused,
           WaitForCapacity(base, refused), Idle, UNCHANGED <<vm, boots, startOp>>,
           refused = "start-vm" => StartUnsent \/ (StartAccepted /\ ~Starting)
    PROVE  /\ BootRoom' /\ TickIsCurrent'
           /\ journal'.runtime = base.runtime
           /\ boots <= journal'.startCount
           /\ \/ journal'.startCount = journal.startCount
              \/ StartPending /\ journal'.startCount = journal.startCount - 1
<1>1. HasPending /\ pending.effect.type \in {"create-vm", "start-vm"}
  BY DEF HasPending
<1>2. refused = "start-vm" => pending.effect.generation = journal.startCount
  BY <1>1, CountsTyped DEF BootInv, IInv, JournalConsistent, PendingEffects, Effects
<1>3. /\ journal'.startCount = IF refused = "start-vm" THEN journal.startCount - 1
                               ELSE journal.startCount
      /\ journal'.runtime = base.runtime
  BY <1>2 DEF WaitForCapacity, Journals
<1>4. boots <= journal'.startCount /\ (Starting => boots < journal'.startCount)
  BY <1>3, CountsTyped DEF BootInv, BootRoom
<1>5. pending'.effect.type # "start-vm" /\ pc' = "idle"
  BY ConstantsTyped, NoEffectType DEF WaitForCapacity, Idle
<1>6. BootRoom' /\ TickIsCurrent'
  BY <1>4, <1>5 DEF BootRoom, TickIsCurrent, Starting, StartUnsent, StartAccepted, StartPending
<1> QED BY <1>3, <1>4, <1>6 DEF StartPending

LEMMA ReplyBoots ==
    ASSUME BootInv, JournalReply
    PROVE  BootRoom' /\ TickIsCurrent'
<1>0. /\ journal \in Journals /\ pending \in PendingEffects /\ pc = "replied"
      /\ UNCHANGED <<vm, boots, startOp>>
  BY CountsTyped DEF BootInv, JournalReply, cloudVars
<1>1. CASE reply = "resolved"
  BY <1>0, <1>1, EndsBoots DEF JournalReply, Journals
<1>2. CASE reply = "accepted"
  <2>1. /\ pending'.effect = pending.effect /\ pending'.stage = pending.stage
        /\ UNCHANGED journal /\ Idle
    BY <1>0, <1>2 DEF JournalReply, PendingEffects
  <2>2. StartAccepted \/ ~StartPending \/ startOp = "succeeded"
    BY <1>0, <1>2 DEF StartAccepted
  <2> QED BY <1>0, <2>1, <2>2, EndsBoots
<1>3. CASE reply = "unidentified"
  BY <1>0, <1>3, EndsBoots DEF JournalReply, journalVars
<1>4. CASE reply = "capacity"
  <2>1. pending.effect.type \in {"create-vm", "start-vm"}
    BY <1>0, <1>4 DEF BootInv, IInv, CapacityRefusesCompute
  <2>2. pending.effect.type = "start-vm" => StartUnsent
    BY <1>0, <1>4 DEF StartUnsent, StartPending
  <2>3. WaitForCapacity(journal, pending.effect.type) /\ Idle
    BY <1>4 DEF JournalReply
  <2> QED BY <1>0, <2>1, <2>2, <2>3, RefusalBoots
<1>5. CASE reply = "error"
  <2>1. journal'.startCount = journal.startCount
    BY <1>0, <1>5 DEF JournalReply, MarkIntent, Journals
  <2>2. /\ pending'.effect = pending.effect /\ pending'.stage = pending.stage
        /\ pending'.operationId = pending.operationId /\ Exit
    BY <1>0, <1>5 DEF JournalReply, PendingEffects
  <2> QED BY <1>0, <2>1, <2>2, EndsBoots
<1> QED BY <1>1, <1>2, <1>3, <1>4, <1>5 DEF JournalReply

(* The refused start the provider shows stopped had not booted. *)
LEMMA StartRefusedBoots ==
    ASSUME BootInv, ReconcileStartRefused
    PROVE  /\ BootRoom' /\ TickIsCurrent'
           /\ journal'.runtime >= journal.runtime
           /\ boots <= journal'.startCount
           /\ StartPending /\ journal'.startCount \in {journal.startCount, journal.startCount - 1}
<1>1. /\ pc = "observed" /\ StartPending /\ pending.operationId /\ startOp = "capacity"
      /\ vm.status = "stopped" /\ WaitForCapacity(input.journal, "start-vm") /\ Idle
      /\ UNCHANGED <<vm, boots, startOp>>
  BY DEF ReconcileStartRefused, Reconciling, StartRefused, StartOperationOver, StartPending,
         cloudVars
<1>2. StartAccepted /\ ~Starting
  <2>1. startOp # "succeeded" /\ ~Starting
    BY <1>1 DEF Starting
  <2> QED BY <1>1, <2>1, Zenon DEF StartAccepted
<1>3. /\ input.journal \in Journals /\ input.journal.startCount = journal.startCount
      /\ input.journal.runtime >= journal.runtime
  BY <1>1, ObservedTick DEF BootInv, TickIsCurrent
<1> QED BY <1>1, <1>2, <1>3, RefusalBoots DEF StartPending

LEMMA CreateRefusedBoots ==
    ASSUME BootInv, ReconcileCreateRefused
    PROVE  /\ BootRoom' /\ TickIsCurrent'
           /\ journal'.runtime = journal.runtime /\ journal'.startCount = journal.startCount
<1>1. /\ WaitForCapacity(journal, "create-vm") /\ Idle /\ UNCHANGED <<vm, boots, startOp>>
  BY DEF ReconcileCreateRefused, cloudVars
<1>2. pending' = NoPending /\ journal'.startCount = journal.startCount
      /\ journal'.runtime = journal.runtime
  BY <1>1, CountsTyped DEF BootInv, WaitForCapacity, Journals
<1> QED BY <1>1, <1>2, EndsBoots

LEMMA SettleCounts ==
    ASSUME BootInv, Settle
    PROVE  journal'.startCount = journal.startCount /\ journal'.runtime = journal.runtime
           /\ pending' = NoPending
BY CountsTyped DEF BootInv, Settle, Journals

LEMMA ArmBoots ==
    ASSUME BootInv, ArmGrant
    PROVE  BootRoom' /\ TickIsCurrent'
<1>1. vm'.status = vm.status
  BY CountsTyped DEF ArmGrant, ArmedVm, BootInv, Vms
<1>2. /\ journal'.startCount = journal.startCount /\ UNCHANGED <<boots, startOp>> /\ Idle
      /\ pending' = NoPending \/ pending' = pending
  BY SettleCounts DEF ArmGrant, journalVars
<1>3. pc' = "idle" /\ reply' = "none"
  BY <1>2 DEF Idle
<1>4. NoPending.effect.type # "start-vm"
  BY ConstantsTyped, NoEffectType
<1>5. BootRoom'
  BY <1>1, <1>2, <1>3, <1>4, RoomKept DEF Starting, StartUnsent, StartAccepted, StartPending
<1> QED BY <1>3, <1>5 DEF TickIsCurrent

LEMMA ReconcileBoots ==
    ASSUME BootInv, ReconcileStep
    PROVE  BootRoom' /\ TickIsCurrent'
<1>1. CASE ReconcileProven
  BY <1>1, SettleCounts, EndsBoots DEF ReconcileProven, cloudVars
<1>2. CASE ArmFails \/ ReconcileUnresolved
  BY <1>2, EndsBoots DEF ArmFails, ReconcileUnresolved, journalVars, cloudVars
<1> QED BY <1>1, <1>2, ArmBoots, StartRefusedBoots, CreateRefusedBoots, DecisionBoots
        DEF ReconcileStep

LEMMA RestartBoots ==
    ASSUME BootInv, Crash \/ Restart
    PROVE  BootRoom' /\ TickIsCurrent'
<1>1. CASE Crash
  BY <1>1, EndsBoots DEF Crash, journalVars, cloudVars
<1>2. CASE Restart
  <2>1. /\ pc' = "idle" /\ pc = "down" /\ UNCHANGED <<journalVars, reply, vm, boots, startOp>>
    BY <1>2 DEF Restart, cloudVars
  <2>2. BootRoom'
    BY <2>1, RoomKept DEF journalVars, Starting, StartUnsent, StartAccepted, StartPending
  <2> QED BY <2>1, <2>2 DEF TickIsCurrent
<1> QED BY <1>1, <1>2

LEMMA BootStep == BootInv /\ [Next]_vars => BootInv'
<1> SUFFICES ASSUME BootInv, [Next]_vars PROVE BootInv'
  OBVIOUS
<1>1. IInv'
  BY NextIInv DEF BootInv
<1>2. TickStep => BootRoom' /\ TickIsCurrent'
  BY ObserveBoots, QuietTickBoots, DecisionBoots, EmitBoots DEF TickStep
<1>3. CloudStep => BootRoom' /\ TickIsCurrent'
  BY WorldBoots, StartSettlesBoots DEF CloudStep
<1>4. UNCHANGED vars => BootRoom' /\ TickIsCurrent'
  BY WorldRoom DEF vars, journalVars, processVars
<1>5. BootRoom' /\ TickIsCurrent'
  BY <1>2, <1>3, <1>4, WorldBoots, ExecuteBoots, ReplyBoots, ReconcileBoots, RestartBoots
  DEF Next, ControllerStep
<1> QED BY <1>1, <1>5 DEF BootInv

LEMMA BootInvariant == Spec => []BootInv
BY BootInitially, BootStep, PTL DEF Spec

-----------------------------------------------------------------------------
(***************************************************************************)
(* Every journal write moves forward.                                      *)
(***************************************************************************)

(* The action of JournalMonotone. *)
Forward ==
    /\ journal'.runtime >= journal.runtime
    /\ journal'.startCount >= journal.startCount
          \/ /\ pending.effect.type = "start-vm" /\ journal'.startCount = journal.startCount - 1
             /\ boots <= journal'.startCount

(* Only a recorded decision makes the count rise. *)
Moves == Forward /\ (journal'.startCount > journal.startCount => RecordDecision)

LEMMA SameIsForward ==
    ASSUME BootInv, journal'.startCount = journal.startCount, journal'.runtime = journal.runtime
    PROVE  Moves
BY CountsTyped DEF BootInv, Forward, Moves

(* The intent is written over the tick's copy. *)
LEMMA IntentForward ==
    ASSUME BootInv, RecordDecision \/ RetireStoppedStart
    PROVE  Moves
<1>1. pc = "observed"
  BY DEF RecordDecision, RetireStoppedStart, Reconciling
<1>2. /\ input \in Inputs /\ input.journal \in Journals /\ input.journal.intent = journal.intent
      /\ input.journal.startCount = journal.startCount
      /\ input.journal.runtime >= journal.runtime
  BY <1>1, ObservedTick DEF BootInv, TickIsCurrent
<1>3. CASE RecordDecision
  <2> DEFINE d == DecideLifecycle(input)
  <2>1. input.journal.intent.type = "none"
    BY <1>2, <1>3, ConstantsTyped DEF RecordDecision, BootInv, IInv, JournalConsistent
  <2>2. Admissible(input, d)
    BY <1>2, <2>1, DecisionAdmissible
  <2>3. journal' = ApplyDecision(input.journal, d.effect, d.state, input.now)
    BY <1>3 DEF RecordDecision, WriteIntent
  <2> HIDE DEF d
  <2>4. /\ journal'.runtime = input.journal.runtime
        /\ journal'.startCount = IF d.effect.type = "start-vm" THEN d.effect.generation
                                 ELSE input.journal.startCount
    BY <1>2, <2>3 DEF ApplyDecision, Journals
  <2>5. Forward
    BY <1>2, <2>2, <2>4, CountsTyped DEF Admissible, Forward, BootInv
  <2> QED BY <1>3, <2>5, Zenon DEF Moves
<1>4. CASE RetireStoppedStart
  <2>1. journal' = ApplyDecision([input.journal EXCEPT !.intent = NoIntent],
                                 Effect("delete-vm", input.journal.startCount, None), "absent",
                                 input.now)
    BY <1>4 DEF RetireStoppedStart, WriteIntent, Decision
  <2>2. journal'.runtime = input.journal.runtime
        /\ journal'.startCount = input.journal.startCount
    BY <1>2, <2>1 DEF ApplyDecision, Effect, Journals
  <2> QED BY <1>2, <2>2, CountsTyped DEF Forward, Moves, BootInv
<1> QED BY <1>3, <1>4

LEMMA RefusalForward ==
    ASSUME BootInv, JournalReply, reply = "capacity"
    PROVE  Moves
<1>1. /\ journal \in Journals /\ pc = "replied" /\ UNCHANGED <<vm, boots, startOp>>
      /\ WaitForCapacity(journal, pending.effect.type) /\ Idle
  BY CountsTyped DEF BootInv, JournalReply, cloudVars
<1>2. pending.effect.type \in {"create-vm", "start-vm"}
  BY <1>1 DEF BootInv, IInv, CapacityRefusesCompute
<1>3. pending.effect.type = "start-vm" => StartUnsent
  BY <1>1 DEF StartUnsent, StartPending
<1>4. /\ journal'.runtime = journal.runtime /\ boots <= journal'.startCount
      /\ \/ journal'.startCount = journal.startCount
         \/ StartPending /\ journal'.startCount = journal.startCount - 1
  BY <1>1, <1>2, <1>3, RefusalBoots
<1> QED BY <1>4, CountsTyped DEF Forward, Moves, StartPending, BootInv

LEMMA StepForward ==
    ASSUME BootInv, [Next]_vars
    PROVE  Moves
<1>0. journal \in Journals
  BY CountsTyped DEF BootInv
<1>1. CASE UNCHANGED journal
  BY <1>1, SameIsForward
<1>2. CASE DecideNothing
  BY <1>2, ObservedTick, CountsTyped DEF DecideNothing, BootInv, TickIsCurrent, Forward, Moves
<1>3. CASE AbandonPending \/ BlockPending
  <2>1. journal'.startCount = journal.startCount /\ journal'.runtime = journal.runtime
    BY <1>0, <1>3 DEF AbandonPending, BlockPending, MarkIntent, Journals
  <2> QED BY <2>1, SameIsForward
<1>4. CASE JournalReply /\ reply # "capacity"
  <2>1. journal'.startCount = journal.startCount /\ journal'.runtime = journal.runtime
    BY <1>0, <1>4 DEF JournalReply, MarkIntent, Journals, journalVars
  <2> QED BY <2>1, SameIsForward
<1>5. CASE ReconcileProven \/ ArmGrant
  <2>1. journal'.startCount = journal.startCount /\ journal'.runtime = journal.runtime
    BY <1>5, SettleCounts DEF ReconcileProven, ArmGrant, journalVars
  <2> QED BY <2>1, SameIsForward
<1>6. CASE ReconcileStartRefused
  BY <1>6, StartRefusedBoots, CountsTyped DEF BootInv, Forward, Moves, StartPending
<1>7. CASE ReconcileCreateRefused
  BY <1>7, CreateRefusedBoots, SameIsForward
<1>8. \/ UNCHANGED journal \/ DecideNothing \/ RecordDecision \/ AbandonPending \/ BlockPending
      \/ JournalReply \/ ReconcileProven \/ ArmGrant \/ ReconcileStartRefused
      \/ RetireStoppedStart \/ ReconcileCreateRefused
  BY DEF Next, vars, journalVars, ControllerStep, TickStep, ExecuteStep, ReconcileStep,
         CloudStep, GuestStep, JobStep, Tick, Crash, Restart, ObserveCloud, ObserveGuest,
         EmitIntent, RequestFails, RefusedForCapacity, ExecuteCreate, ExecuteStart, ExecuteStop,
         ExecuteDelete, ExecuteRegister, ExecuteDrain, ExecuteResume, Refused, Reply,
         ReplyMayBeLost, AcceptedReply, ArmFails, ReconcileUnresolved, CreateSettles,
         StartSettles, StopSettles, DeleteSettles, GuestBootstrapped, WatchdogExpires, GuestFails,
         JobArrives, JobWithdrawn, AssignJob, StartJob, FinishJob, LoseJob
<1> QED BY <1>1, <1>2, <1>3, <1>4, <1>5, <1>6, <1>7, <1>8, IntentForward, RefusalForward

(* mergeLifecycle and waitForCapacity: whatever crashes, is refused or lost, *)
(* recorded runtime never shrinks, and the start count only falls by the     *)
(* refusal of a start that never booted.                                     *)
THEOREM JournalOnlyForward == Spec => JournalMonotone
<1>1. BootInv /\ [Next]_vars => [Forward]_vars
  BY StepForward DEF Moves
<1> QED BY <1>1, BootInvariant, PTL DEF Spec, JournalMonotone, Forward

-----------------------------------------------------------------------------
(***************************************************************************)
(* The start cap of the permit.                                            *)
(***************************************************************************)

StartsNothing(d) == d.effect.type # "start-vm"

(* authorized and authorizedCleanup add no start to a decision. *)
LEMMA PlainStartsNothing ==
    ASSUME NEW i, NEW s
    PROVE  /\ StartsNothing(Stay(s)) /\ StartsNothing(Blocked)
           /\ \A op, d : StartsNothing(d) => StartsNothing(Authorized(i, op, d))
                                             /\ StartsNothing(AuthorizedCleanup(i, d))
BY DEF StartsNothing, Stay, Blocked, Decision, NoEffect, Authorized, AuthorizedCleanup

LEMMA EffectStartsNothing ==
    ASSUME NEW s, NEW type, NEW g, NEW deadline, type # "start-vm"
    PROVE  StartsNothing(Decision(s, Effect(type, g, deadline)))
BY DEF StartsNothing, Decision, Effect

(* decideLifecycle starts a VM only below the permit's maxStarts. *)
LEMMA StartBelowCap ==
    ASSUME NEW i \in Inputs, i.journal.intent.type = "none", ~StartsNothing(DecideLifecycle(i))
    PROVE  i.journal.startCount < i.permit.maxStarts
<1>1. StartsNothing(EmergencyStop(i))
  BY PlainStartsNothing DEF EmergencyStop, EmergencyEffect, StartsNothing, Decision, Blocked, NoEffect
<1>2. StartsNothing(DecideAbsent(i))
  BY PlainStartsNothing, EffectStartsNothing DEF DecideAbsent
<1>3. StartsNothing(BeginDrain(i)) /\ StartsNothing(DecideDraining(i))
  BY PlainStartsNothing, EffectStartsNothing DEF BeginDrain, DecideDraining
<1>4. StartsNothing(DecideRunning(i))
  BY <1>3, PlainStartsNothing, EffectStartsNothing DEF DecideRunning
<1>5. ~StartsNothing(DecideStopped(i))
  BY <1>1, <1>2, <1>4, PlainStartsNothing DEF DecideLifecycle
<1>6. \A g : StartsNothing(Delete(i, g))
  BY PlainStartsNothing, EffectStartsNothing DEF Delete
<1>7. ~(i.journal.startCount >= i.permit.maxStarts)
  BY <1>5, <1>6, PlainStartsNothing DEF DecideStopped
<1> QED BY <1>7 DEF Inputs, Journals, PermitRecords

(* Permits differ in their times and budgets, not in their start cap. *)
SameCap == \A p, q \in Permits : p.maxStarts = q.maxStarts

WithinCap == journal.startCount <= permit.maxStarts

LEMMA CapStep ==
    ASSUME SameCap, BootInv, WithinCap, [Next]_vars
    PROVE  WithinCap'
<1>0. /\ journal.startCount \in Nat /\ permit \in Permits /\ permit.maxStarts \in Nat
      /\ journal' \in Journals /\ permit' \in Permits
  <2>1. IInv'
    BY NextIInv DEF BootInv
  <2> QED BY <2>1, CountsTyped, ControllerAssumption
          DEF BootInv, IInv, TypeOK, ProcessTypeOK, JournalTypeOK, PermitRecords
<1>1. permit'.maxStarts = permit.maxStarts
  BY <1>0 DEF SameCap
<1>2. CASE journal'.startCount <= journal.startCount
  BY <1>0, <1>1, <1>2 DEF WithinCap, Journals
<1>3. CASE journal'.startCount > journal.startCount
  <2> DEFINE d == DecideLifecycle(input)
  <2>1. RecordDecision /\ pc = "observed"
    BY <1>3, StepForward DEF Moves, RecordDecision
  <2>2. /\ input \in Inputs /\ input.journal \in Journals /\ input.permit = permit
        /\ input.journal.intent = journal.intent
        /\ input.journal.startCount = journal.startCount
    BY <2>1, ObservedTick DEF BootInv, TickIsCurrent
  <2>3. input.journal.intent.type = "none"
    BY <2>1, <2>2, ConstantsTyped DEF RecordDecision, BootInv, IInv, JournalConsistent
  <2>4. Admissible(input, d) /\ (d.effect.type = "start-vm" =>
                                   journal.startCount < permit.maxStarts)
    BY <2>2, <2>3, DecisionAdmissible, StartBelowCap DEF StartsNothing
  <2>5. journal' = ApplyDecision(input.journal, d.effect, d.state, input.now)
    BY <2>1 DEF RecordDecision, WriteIntent
  <2> HIDE DEF d
  <2>6. journal'.startCount = IF d.effect.type = "start-vm" THEN d.effect.generation
                              ELSE journal.startCount
    BY <2>2, <2>5 DEF ApplyDecision, Journals
  <2>7. journal'.startCount = journal.startCount + 1 /\ journal.startCount < permit.maxStarts
    BY <1>0, <1>3, <2>2, <2>4, <2>6 DEF Admissible
  <2> QED BY <1>0, <1>1, <2>7 DEF WithinCap
<1> QED BY <1>0, <1>2, <1>3 DEF Journals

(* Reserving a generation in the journal before the request, and handing it *)
(* back only when its start was refused, keeps boots within the count and   *)
(* the count within the permit, whatever crashes, is refused or lost - as   *)
(* long as the operator does not lower the start cap between permits, which *)
(* the count of an old permit may already exceed.                           *)
THEOREM BootsAlwaysCounted ==
    ASSUME SameCap
    PROVE  Spec => []BootsCounted
<1>1. Init => WithinCap
  <2> SUFFICES ASSUME Init PROVE WithinCap
    OBVIOUS
  <2>1. permit.maxStarts \in Nat
    BY ControllerAssumption DEF Init, PermitRecords
  <2> QED BY <2>1, ConstantsTyped DEF Init, WithinCap
<1>2. BootInv /\ WithinCap /\ [Next]_vars => WithinCap'
  BY CapStep
<1>3. BootInv /\ WithinCap => BootsCounted
  BY DEF BootInv, BootRoom, WithinCap, BootsCounted
<1> QED BY <1>1, <1>2, <1>3, BootInvariant, PTL DEF Spec
-----------------------------------------------------------------------------
(***************************************************************************)
(* What the next start can read (JournalReadable), and the wait after a    *)
(* capacity refusal (BackoffRespected). Both rest on what the decision saw *)
(* still holding when it is journaled and when its request is sent: the    *)
(* tick's copy differs from the disk in runtime and idle evidence only,    *)
(* and its instant is never ahead of the clock.                            *)
(***************************************************************************)

(* A start, or the create of a VM whose creation was refused before. *)
WaitsForCapacity(type, wait) ==
    type = "start-vm" \/ (type = "create-vm" /\ wait.refused = "create-vm")

WaitIsOver(wait, now) == wait.refused = "none" \/ wait.retryAt <= now

CopyOfDisk ==
    pc = "observed" =>
        /\ input.journal.grantDeadline = journal.grantDeadline
        /\ input.journal.grantStarted = journal.grantStarted
        /\ input.journal.wait = journal.wait
        /\ input.journal.idle # NoIdle => input.journal.idle.generation >= 1
        /\ HasGrant(input) => input.guest.grant.deadline # None

(* arm-grant.sh writes generation and deadline together. *)
GrantIsTimed == Armed(vm) => vm.deadline # None

StartHasWindow == pending.effect.type = "start-vm" => pending.createdAt < pending.effect.deadline

WaitObserved ==
    WaitsForCapacity(pending.effect.type, journal.wait) => WaitIsOver(journal.wait, clock)

ClockBounded == clock <= MaxTime /\ input.now <= clock

FilesReadable == JournalReadable /\ StartHasWindow /\ WaitObserved

ReadInv == BootInv /\ FilesReadable /\ CopyOfDisk /\ GrantIsTimed /\ ClockBounded

-----------------------------------------------------------------------------
(***************************************************************************)
(* Every decision of decideLifecycle may be journaled.                     *)
(***************************************************************************)

(* An effect the next start reads, with a window, after the wait. *)
Fits(i, e) ==
    /\ EffectReadable(e)
    /\ e.type = "start-vm" => i.now < e.deadline
    /\ WaitsForCapacity(e.type, i.journal.wait) => WaitIsOver(i.journal.wait, i.now)

Journalable(i, d) == Fits(i, d.effect) /\ (d.effect.type # "none" => i.permit.own)

LEMMA PlainJournalable ==
    ASSUME NEW i, NEW s
    PROVE  Journalable(i, Stay(s)) /\ Journalable(i, Blocked)
BY DEF Journalable, Fits, EffectReadable, WaitsForCapacity, Stay, Blocked, Decision, NoEffect

(* authorized and authorizedCleanup pass on what an own permit covers. *)
LEMMA AuthorizedJournalable ==
    ASSUME NEW i, NEW d, Fits(i, d.effect)
    PROVE  /\ \A op : Journalable(i, Authorized(i, op, d))
           /\ Journalable(i, AuthorizedCleanup(i, d))
BY PlainJournalable
DEF Journalable, Authorized, AuthorizedCleanup, ValidPermit, CleanupPermit, RecoveryPermit,
    WellFormedPermit

(* Effects that need neither capacity nor a generation. *)
LEMMA GuestEffectFits ==
    ASSUME NEW i, NEW s, NEW type, NEW deadline,
           type \in {"register-runner", "begin-drain"} => deadline # None,
           type \notin {"create-vm", "adopt-vm", "start-vm", "delete-vm"}
    PROVE  Fits(i, Decision(s, Effect(type, 0, deadline)).effect)
BY DEF Fits, EffectReadable, WaitsForCapacity, Decision, Effect

LEMMA EmergencyJournalable ==
    ASSUME NEW i
    PROVE  Journalable(i, EmergencyStop(i))
BY PlainJournalable
DEF EmergencyStop, EmergencyEffect, Journalable, Fits, EffectReadable, WaitsForCapacity, Decision,
    RecoveryPermit, WellFormedPermit

(* Once the wait is over, a create or start within budget has a window. *)
LEMMA ComputeJournalable ==
    ASSUME NEW i \in Inputs, StartBudget(i), NEW type \in {"create-vm", "start-vm"}, NEW op,
           WaitsForCapacity(type, i.journal.wait) => ~CapacityHold(i)
    PROVE  Journalable(i, Authorized(i, op, Decision("starting",
               Effect(type, i.journal.startCount + 1, i.now + AvailableRuntime(i)))))
<1> DEFINE e == Effect(type, i.journal.startCount + 1, i.now + AvailableRuntime(i))
<1>1. /\ i.now \in Nat /\ i.journal.startCount \in Nat /\ i.journal.wait \in CapacityWaits
      /\ i.journal.wait.retryAt \in Nat
  BY DEF Inputs, Journals, CapacityWaits
<1>2. AvailableRuntime(i) \in Int /\ AvailableRuntime(i) > 0
  <2>1. AvailableRuntime(i) \in Int
    BY ConfigAssumption DEF AvailableRuntime, Smaller, Inputs, PermitRecords, Journals
  <2>2. AvailableRuntime(i) >= MaxJob + ShutdownMargin
    BY DEF StartBudget
  <2> QED BY <2>1, <2>2, ConfigAssumption
<1>3. e.type = type /\ e.generation >= 1 /\ e.deadline # None /\ i.now < e.deadline
  BY <1>1, <1>2 DEF Effect, None
<1>4. WaitsForCapacity(type, i.journal.wait) => WaitIsOver(i.journal.wait, i.now)
  BY <1>1 DEF CapacityHold, WaitIsOver
<1>5. Fits(i, e)
  BY <1>3, <1>4 DEF Fits, EffectReadable
<1>6. Fits(i, Decision("starting", e).effect)
  BY <1>5 DEF Decision
<1> HIDE DEF e
<1>7. Journalable(i, Authorized(i, op, Decision("starting", e)))
  BY <1>6, AuthorizedJournalable
<1> QED BY <1>7 DEF e

LEMMA AbsentJournalable ==
    ASSUME NEW i \in Inputs
    PROVE  Journalable(i, DecideAbsent(i))
<1>1. Journalable(i, Stay("absent")) /\ Journalable(i, Blocked)
  BY PlainJournalable
<1>2. CASE i.journal.wait.refused = "create-vm" /\ CapacityHold(i)
  BY <1>1, <1>2 DEF DecideAbsent
<1>3. CASE ~StartBudget(i)
  BY <1>1, <1>3 DEF DecideAbsent
<1>4. CASE StartBudget(i) /\ ~(i.journal.wait.refused = "create-vm" /\ CapacityHold(i))
  <2>1. Journalable(i, Authorized(i, "create", Decision("starting",
            Effect("create-vm", i.journal.startCount + 1, i.now + AvailableRuntime(i)))))
    BY <1>4, ComputeJournalable DEF WaitsForCapacity
  <2> QED BY <1>1, <2>1 DEF DecideAbsent
<1> QED BY <1>2, <1>3, <1>4

(* A deletion names the generation of a VM that had one. *)
LEMMA DeleteJournalable ==
    ASSUME NEW i, NEW g \in Nat \ {0}
    PROVE  Journalable(i, Delete(i, g))
<1>1. Fits(i, Decision("absent", Effect("delete-vm", g, None)).effect)
  BY DEF Fits, EffectReadable, WaitsForCapacity, Decision, Effect
<1> QED BY <1>1, AuthorizedJournalable DEF Delete

LEMMA StoppedJournalable ==
    ASSUME NEW i \in Inputs
    PROVE  Journalable(i, DecideStopped(i))
<1>0. i.journal.startCount \in Nat
  BY DEF Inputs, Journals
<1>1. Journalable(i, Stay(i.journal.state)) /\ Journalable(i, Blocked)
  BY PlainJournalable
<1>2. /\ Journalable(i, Delete(i, Larger(1, i.journal.startCount)))
      /\ i.journal.startCount > 0 => Journalable(i, Delete(i, i.journal.startCount))
      /\ i.journal.startCount >= 1 => Journalable(i, Delete(i, i.journal.startCount))
  BY <1>0, DeleteJournalable DEF Larger
<1>3. StartBudget(i) /\ ~CapacityHold(i) =>
         Journalable(i, Authorized(i, "start", Decision("starting",
            Effect("start-vm", i.journal.startCount + 1, i.now + AvailableRuntime(i)))))
  BY ComputeJournalable
<1> QED BY <1>1, <1>2, <1>3 DEF DecideStopped

(* The grant of the guest has a deadline, so drain and registration have. *)
LEMMA RunningJournalable ==
    ASSUME NEW i \in Inputs, HasGrant(i) => i.guest.grant.deadline # None
    PROVE  Journalable(i, DecideRunning(i))
<1>0. /\ i.now \in Nat /\ i.permit.expires \in Nat
      /\ i.journal.grantDeadline \in OptionalTimes /\ i.guest.grant.deadline \in OptionalTimes
  BY DEF Inputs, Journals, Guests, PermitRecords
<1>1. Journalable(i, Stay(i.journal.state)) /\ Journalable(i, Blocked)
      /\ Journalable(i, Stay("draining"))
  BY PlainJournalable
<1>2. HasGrant(i) => GrantDeadline(i) \in Nat
  BY <1>0 DEF GrantDeadline, Smaller, OptionalTimes, None
<1>3. HasGrant(i) => Journalable(i, BeginDrain(i))
  <2> SUFFICES ASSUME HasGrant(i) PROVE Journalable(i, BeginDrain(i))
    OBVIOUS
  <2>1. DrainDeadline(GrantDeadline(i), i.now) # None
    BY <1>0, <1>2, ConfigAssumption DEF DrainDeadline, Smaller, None
  <2>2. Fits(i, Decision("draining", Effect("begin-drain", 0,
                             DrainDeadline(GrantDeadline(i), i.now))).effect)
    BY <2>1, GuestEffectFits
  <2> QED BY <2>2, AuthorizedJournalable DEF BeginDrain
<1>4. HasGrant(i) /\ JobStillFits(i) =>
         Journalable(i, Authorized(i, "register", Decision("ready",
            Effect("register-runner", 0, SafeCutoff(GrantDeadline(i), i.permit.expires)))))
  <2> SUFFICES ASSUME HasGrant(i), JobStillFits(i)
               PROVE  Journalable(i, Authorized(i, "register", Decision("ready",
                         Effect("register-runner", 0, SafeCutoff(GrantDeadline(i), i.permit.expires)))))
    OBVIOUS
  <2>1. SafeCutoff(GrantDeadline(i), i.permit.expires) # None
    BY <1>0, <1>2, ConfigAssumption DEF JobStillFits, SafeCutoff, Smaller, None
  <2>2. Fits(i, Decision("ready", Effect("register-runner", 0,
                             SafeCutoff(GrantDeadline(i), i.permit.expires))).effect)
    BY <2>1, GuestEffectFits
  <2> QED BY <2>2, AuthorizedJournalable
<1>5. /\ Journalable(i, Authorized(i, "register",
                            Decision("ready", Effect("resume-admission", 0, None))))
      /\ Journalable(i, Authorized(i, "stop", Decision("stopping", Effect("stop-vm", 0, None))))
  BY GuestEffectFits, AuthorizedJournalable
<1>6. Journalable(i, DecideDraining(i))
  BY <1>1, <1>3, <1>5 DEF DecideDraining
<1> QED BY <1>1, <1>3, <1>4, <1>5, <1>6 DEF DecideRunning

LEMMA DecisionJournalable ==
    ASSUME NEW i \in Inputs, i.journal.intent.type = "none",
           HasGrant(i) => i.guest.grant.deadline # None
    PROVE  Journalable(i, DecideLifecycle(i))
<1>1. /\ Journalable(i, Blocked) /\ Journalable(i, Stay("busy"))
      /\ Journalable(i, Stay(i.journal.state))
  BY PlainJournalable
<1> QED BY <1>1, EmergencyJournalable, AbsentJournalable, StoppedJournalable, RunningJournalable
        DEF DecideLifecycle

-----------------------------------------------------------------------------
(***************************************************************************)
(* Steps.                                                                  *)
(***************************************************************************)

LEMMA ReadInitially == Init => ReadInv
<1> SUFFICES ASSUME Init PROVE ReadInv
  OBVIOUS
<1>1. FilesReadable
  BY ConstantsTyped, NoEffectType
  DEF Init, FilesReadable, JournalReadable, LifecycleReadable, HasPending, StartHasWindow,
      WaitObserved, WaitsForCapacity, NewJournal, NoWait
<1>2. CopyOfDisk /\ GrantIsTimed /\ ClockBounded
  BY ControllerAssumption DEF Init, CopyOfDisk, GrantIsTimed, ClockBounded, Armed, NoVm, NoInput
<1> QED BY <1>1, <1>2, BootInitially DEF ReadInv

(* What the steps need of the types. *)
LEMMA ReadTyped ==
    ASSUME ReadInv
    PROVE  /\ IInv /\ journal \in Journals /\ pending \in PendingEffects /\ vm \in Vms
           /\ clock \in Nat /\ input \in Inputs /\ journal.wait \in CapacityWaits
           /\ journal.wait.retryAt \in Nat /\ MaxTime \in Nat
BY CountsTyped, ControllerAssumption
DEF ReadInv, BootInv, IInv, TypeOK, ProcessTypeOK, Journals, CapacityWaits

(* Files whose grant, idle evidence, wait and effect stay are read as before. *)
LEMMA FilesAlike ==
    ASSUME ReadInv, clock' \in Nat, clock' >= clock,
           journal'.grantDeadline = journal.grantDeadline,
           journal'.grantStarted = journal.grantStarted,
           journal'.idle = journal.idle, journal'.wait = journal.wait,
           pending'.effect = pending.effect, pending'.createdAt = pending.createdAt,
           pending'.permitId = pending.permitId
    PROVE  FilesReadable'
<1>1. JournalReadable'
  BY DEF ReadInv, FilesReadable, JournalReadable, LifecycleReadable, HasPending, PendingReadable
<1>2. StartHasWindow'
  BY DEF ReadInv, FilesReadable, StartHasWindow
<1>3. WaitObserved'
  BY ReadTyped DEF ReadInv, FilesReadable, WaitObserved, WaitIsOver
<1> QED BY <1>1, <1>2, <1>3 DEF FilesReadable

LEMMA FilesUnwritten ==
    ASSUME ReadInv, UNCHANGED journalVars, clock' \in Nat, clock' >= clock
    PROVE  FilesReadable'
BY FilesAlike DEF journalVars

(* Without a pending effect only the journal itself is read. *)
LEMMA FilesEmptied ==
    ASSUME pending'.effect.type = "none", LifecycleReadable'
    PROVE  FilesReadable'
BY DEF FilesReadable, JournalReadable, HasPending, StartHasWindow, WaitObserved, WaitsForCapacity

LEMMA NothingPending == NoPending.effect.type = "none"
BY ConstantsTyped, NoEffectType

(* A tick that ends or a process that exits leaves nothing to compare. *)
LEMMA TickOver ==
    ASSUME ReadInv, Idle \/ Exit, UNCHANGED clock
    PROVE  CopyOfDisk' /\ ClockBounded'
BY ReadTyped DEF Idle, Exit, CopyOfDisk, ClockBounded, ReadInv, NoInput

-----------------------------------------------------------------------------
(* A grant on disk keeps its deadline until it is replaced or gone. *)
LEMMA GrantKept ==
    ASSUME ReadInv, \/ vm'.generation = vm.generation /\ vm'.deadline = vm.deadline
                    \/ vm'.generation = 0
    PROVE  GrantIsTimed'
BY DEF ReadInv, GrantIsTimed, Armed

LEMMA WorldReadable ==
    ASSUME ReadInv, Tick \/ JobStep \/ CloudStep \/ GuestStep
    PROVE  FilesReadable' /\ CopyOfDisk' /\ GrantIsTimed' /\ ClockBounded'
<1>0. vm \in Vms /\ clock \in Nat /\ MaxTime \in Nat /\ clock <= MaxTime
  BY ReadTyped DEF ReadInv, ClockBounded
<1>1. UNCHANGED <<journalVars, processVars>>
  BY DEF Tick, JobStep, JobArrives, JobWithdrawn, AssignJob, StartJob, FinishJob, LoseJob,
         GuestStep, GuestBootstrapped, WatchdogExpires, GuestFails, CloudStep, StopSettles,
         DeleteSettles, CreateSettles, StartSettles
<1>2. clock' \in Nat /\ clock' >= clock /\ clock' <= MaxTime
  BY <1>0
  DEF Tick, JobStep, JobArrives, JobWithdrawn, AssignJob, StartJob, FinishJob, LoseJob,
      GuestStep, GuestBootstrapped, WatchdogExpires, GuestFails, CloudStep, StopSettles,
      DeleteSettles, CreateSettles, StartSettles, Smaller
<1>3. \/ vm'.generation = vm.generation /\ vm'.deadline = vm.deadline
      \/ vm'.generation = 0
  <2>1. CASE Tick
    BY <1>0, <2>1 DEF Tick, Vms
  <2>2. CASE JobStep
    BY <1>0, <2>2 DEF JobStep, JobArrives, JobWithdrawn, AssignJob, StartJob, FinishJob, LoseJob,
                      cloudVars, Vms
  <2>3. CASE GuestStep
    BY <1>0, <2>3 DEF GuestStep, GuestBootstrapped, WatchdogExpires, GuestFails, ExpiredVm,
                      PoweredOff, Vms
  <2>4. CASE CloudStep
    <3>1. BootedVm(vm).generation = vm.generation /\ BootedVm(vm).deadline = vm.deadline
      BY <1>0 DEF BootedVm, Vms
    <3>2. NoVm.generation = 0 /\ CreatedVm.generation = 0
      BY DEF NoVm, CreatedVm
    <3>3. \/ vm' \in {vm, NoVm, CreatedVm, BootedVm(vm)} \/ vm' = [vm EXCEPT !.status = "stopped"]
      BY <2>4 DEF CloudStep, CreateSettles, StartSettles, StopSettles, DeleteSettles
    <3> QED BY <1>0, <3>1, <3>2, <3>3 DEF Vms
  <2> QED BY <2>1, <2>2, <2>3, <2>4
<1>4. CopyOfDisk'
  BY <1>1 DEF ReadInv, CopyOfDisk, HasGrant, journalVars, processVars
<1>5. ClockBounded'
  BY <1>0, <1>1, <1>2, ReadTyped DEF ReadInv, ClockBounded, processVars, Inputs
<1> QED BY <1>1, <1>2, <1>3, <1>4, <1>5, FilesUnwritten, GrantKept

-----------------------------------------------------------------------------
(* The idle evidence of a tick is of a generation that was started. *)
LEMMA ObservedIdleReadable ==
    ASSUME ReadInv, NEW q, NEW g \in Guests, NEW now, ObservedIdle(q, g, now) # NoIdle
    PROVE  ObservedIdle(q, g, now).generation >= 1
<1>1. journal.idle # NoIdle => journal.idle.generation >= 1
  BY DEF ReadInv, FilesReadable, JournalReadable, LifecycleReadable
<1>2. CASE ObservedIdle(q, g, now) = journal.idle
  BY <1>1, <1>2
<1>3. CASE ObservedIdle(q, g, now) # journal.idle
  <2>1. /\ g.grant.generation # 0 /\ g.grant.generation = journal.startCount
        /\ ObservedIdle(q, g, now).generation = journal.startCount
    BY <1>3 DEF ObservedIdle
  <2> QED BY <2>1, ReadTyped DEF Journals
<1> QED BY <1>2, <1>3

(* status.sh reports the grant on disk. *)
LEMMA ReportedGrantTimed ==
    ASSUME ReadInv, NEW p \in Providers, NEW r \in BOOLEAN
    PROVE  LET g == GuestView(p, r) IN g.grant.generation # 0 => g.grant.deadline # None
<1>1. \A s, grant : SilentReport(s, grant).grant = grant
  BY DEF SilentReport
<1>2. StatusReport(vm).grant \in {NoGrant, GrantOnDisk(vm)}
  BY <1>1 DEF StatusReport
<1>3. GuestView(p, r).grant \in {NoGrant, GrantOnDisk(vm)}
  BY <1>2 DEF GuestView, OfflineGuest, UnknownGuest
<1>4. NoGrant.generation = 0
  BY DEF NoGrant
<1>5. GrantOnDisk(vm).generation = vm.generation /\ GrantOnDisk(vm).deadline = vm.deadline
  BY DEF GrantOnDisk
<1> QED BY <1>3, <1>4, <1>5 DEF ReadInv, GrantIsTimed, Armed

LEMMA ObserveReadable ==
    ASSUME ReadInv, ObserveCloud \/ ObserveGuest
    PROVE  FilesReadable' /\ CopyOfDisk' /\ GrantIsTimed' /\ ClockBounded'
<1>0. /\ UNCHANGED <<journalVars, clock, vm>> /\ clock \in Nat /\ journal \in Journals
      /\ input \in Inputs /\ clock <= MaxTime
  BY ReadTyped DEF ObserveCloud, ObserveGuest, cloudVars, ReadInv, ClockBounded
<1>1. FilesReadable' /\ GrantIsTimed'
  BY <1>0, FilesUnwritten, GrantKept
<1>2. CASE ObserveCloud
  <2>1. input'.now = clock /\ pc' = "observing"
    BY <1>2, ObservationsTyped DEF ObserveCloud, Inputs
  <2> QED BY <1>0, <1>1, <2>1 DEF CopyOfDisk, ClockBounded
<1>3. CASE ObserveGuest
  <2>1. input.provider \in Providers
    BY <1>0 DEF Inputs
  <2>2. PICK r \in BOOLEAN : \E q, runtime :
           input' = [input EXCEPT !.guest = GuestView(input.provider, r), !.queue = q,
                        !.journal = [journal EXCEPT !.runtime = runtime,
                            !.idle = ObservedIdle(q, GuestView(input.provider, r), input.now)]]
    BY <1>3, Zenon DEF ObserveGuest
  <2>3. PICK q, runtime :
           input' = [input EXCEPT !.guest = GuestView(input.provider, r), !.queue = q,
                        !.journal = [journal EXCEPT !.runtime = runtime,
                            !.idle = ObservedIdle(q, GuestView(input.provider, r), input.now)]]
    BY <2>2
  <2> DEFINE guest == GuestView(input.provider, r)
             idle == ObservedIdle(q, guest, input.now)
             copy == [journal EXCEPT !.runtime = runtime, !.idle = idle]
  <2>4. guest \in Guests /\ (guest.grant.generation # 0 => guest.grant.deadline # None)
    BY <2>1, ViewsTyped, ReadTyped, ReportedGrantTimed
  <2>5. idle # NoIdle => idle.generation >= 1
    BY <2>4, ObservedIdleReadable
  <2> HIDE DEF guest, idle
  <2>6. /\ copy.grantDeadline = journal.grantDeadline /\ copy.grantStarted = journal.grantStarted
        /\ copy.wait = journal.wait /\ copy.idle = idle
    BY <1>0 DEF Journals
  <2> HIDE DEF copy
  <2>7. input' = [input EXCEPT !.guest = guest, !.queue = q, !.journal = copy]
    BY <2>3 DEF guest, idle, copy
  <2>8. input'.journal = copy /\ input'.guest = guest /\ input'.now = input.now
    BY <1>0, <2>7 DEF Inputs
  <2>9. CopyOfDisk'
    BY <1>0, <2>4, <2>5, <2>6, <2>8 DEF CopyOfDisk, HasGrant, journalVars
  <2>10. ClockBounded'
    BY <1>0, <2>8 DEF ReadInv, ClockBounded
  <2> QED BY <1>1, <2>9, <2>10
<1> QED BY <1>2, <1>3

-----------------------------------------------------------------------------
(* An intent is written over the tick's copy of the journal. *)
LEMMA IntentReadable ==
    ASSUME ReadInv, pc = "observed", NEW base \in Journals, NEW d \in Decisions,
           base.grantDeadline = journal.grantDeadline, base.grantStarted = journal.grantStarted,
           base.wait = journal.wait, base.idle = input.journal.idle,
           Journalable(input, d), d.effect.type # "none", WriteIntent(base, d),
           UNCHANGED <<clock, vm>>
    PROVE  FilesReadable' /\ CopyOfDisk' /\ GrantIsTimed' /\ ClockBounded'
<1> DEFINE e == d.effect
<1>0. /\ input \in Inputs /\ input.now \in Nat /\ input.now <= clock /\ clock \in Nat
      /\ journal.wait.retryAt \in Nat
  BY ReadTyped DEF ReadInv, ClockBounded, Inputs
<1>1. /\ input.journal.wait = journal.wait
      /\ input.journal.idle # NoIdle => input.journal.idle.generation >= 1
  BY DEF ReadInv, CopyOfDisk
<1>2. /\ EffectReadable(e) /\ input.permit.own
      /\ e.type = "start-vm" => input.now < e.deadline
      /\ WaitsForCapacity(e.type, journal.wait) => WaitIsOver(journal.wait, input.now)
  BY <1>1 DEF Journalable, Fits
<1>3. input.permit.id # 0
  BY <1>2, ControllerAssumption DEF ReadInv, BootInv, TickIsCurrent, IInv, TypeOK, ProcessTypeOK
<1>4. /\ pending'.effect = e /\ pending'.createdAt = input.now
      /\ pending'.permitId = input.permit.id /\ pc' = "intent" /\ UNCHANGED input
      /\ journal' = ApplyDecision(base, e, d.state, input.now)
  BY DEF WriteIntent
<1>5. /\ journal'.idle = input.journal.idle /\ journal'.wait = journal.wait
      /\ \/ /\ journal'.grantDeadline = base.grantDeadline
            /\ journal'.grantStarted = base.grantStarted
         \/ journal'.grantStarted = None
         \/ /\ e.type = "start-vm" /\ journal'.grantDeadline = e.deadline
            /\ journal'.grantStarted = input.now
  BY <1>4 DEF ApplyDecision, Journals
<1>6. LifecycleReadable'
  <2>1. /\ journal.grantStarted # None =>
              journal.grantDeadline # None /\ journal.grantStarted < journal.grantDeadline
        /\ journal.wait.refused # "none" => WaitReadable(journal.wait)
    BY DEF ReadInv, FilesReadable, JournalReadable, LifecycleReadable
  <2>2. e.type = "start-vm" => e.deadline # None
    BY <1>2 DEF EffectReadable
  <2> QED BY <1>1, <1>2, <1>5, <2>1, <2>2 DEF LifecycleReadable
<1>7. JournalReadable'
  BY <1>2, <1>3, <1>4, <1>6 DEF JournalReadable, PendingReadable
<1>8. StartHasWindow'
  BY <1>2, <1>4 DEF StartHasWindow
<1>9. WaitObserved'
  BY <1>0, <1>2, <1>4, <1>5 DEF WaitObserved, WaitIsOver
<1>10. CopyOfDisk' /\ GrantIsTimed' /\ ClockBounded'
  BY <1>4, GrantKept DEF CopyOfDisk, ClockBounded, ReadInv
<1> QED BY <1>7, <1>8, <1>9, <1>10 DEF FilesReadable

LEMMA RecordReadable ==
    ASSUME ReadInv, RecordDecision
    PROVE  FilesReadable' /\ CopyOfDisk' /\ GrantIsTimed' /\ ClockBounded'
<1> DEFINE d == DecideLifecycle(input)
<1>1. /\ pc = "observed" /\ ~HasPending /\ WriteIntent(input.journal, d)
      /\ d.effect.type # "none" /\ UNCHANGED <<clock, vm>> /\ IInv
  BY ReadTyped DEF RecordDecision, cloudVars
<1>2. input \in Inputs /\ input.journal \in Journals /\ input.journal.intent = journal.intent
  BY <1>1, ObservedTick
<1>3. input.journal.intent.type = "none"
  BY <1>1, <1>2, ConstantsTyped DEF IInv, JournalConsistent
<1>4. /\ HasGrant(input) => input.guest.grant.deadline # None
      /\ input.journal.grantDeadline = journal.grantDeadline
      /\ input.journal.grantStarted = journal.grantStarted
      /\ input.journal.wait = journal.wait
  BY <1>1 DEF ReadInv, CopyOfDisk
<1>5. Admissible(input, d) /\ Journalable(input, d)
  BY <1>2, <1>3, <1>4, DecisionAdmissible, DecisionJournalable
<1> HIDE DEF d
<1> QED BY <1>1, <1>2, <1>4, <1>5, IntentReadable DEF Admissible

(* The deletion that replaces a refused start names that start's generation. *)
LEMMA RetireReadable ==
    ASSUME ReadInv, RetireStoppedStart
    PROVE  FilesReadable' /\ CopyOfDisk' /\ GrantIsTimed' /\ ClockBounded'
<1> DEFINE base == [input.journal EXCEPT !.intent = NoIntent]
           e == Effect("delete-vm", input.journal.startCount, None)
           d == Decision("absent", e)
<1>1. /\ pc = "observed" /\ StartOperationOver /\ AuthorizationProblem = "none" /\ IInv
      /\ WriteIntent(base, d) /\ UNCHANGED <<clock, vm>>
  BY ReadTyped, Zenon DEF RetireStoppedStart, Reconciling, Cleared, cloudVars
<1>2. /\ input.journal \in Journals /\ input.journal.startCount = journal.startCount
      /\ input.journal.startCount \in Nat
  BY <1>1, ObservedTick DEF Journals
<1>3. journal.startCount >= 1
  <2>1. pending.effect.type = "start-vm"
    BY <1>1 DEF StartOperationOver
  <2>2. pending.effect.generation = journal.startCount
    <3>1. HasPending
      BY <2>1 DEF HasPending
    <3>2. pending.effect.generation = journal.startCount
                                      + IF pending.effect.type = "create-vm" THEN 1 ELSE 0
      BY <1>1, <2>1, <3>1 DEF IInv, JournalConsistent
    <3>3. journal.startCount \in Nat
      BY ReadTyped DEF Journals
    <3> QED BY <2>1, <3>2, <3>3
  <2>3. journal.idle.generation < pending.effect.generation
    BY <1>1, <2>1 DEF IInv, ReservedIsNew
  <2> QED BY <2>2, <2>3, ReadTyped DEF Journals, IdleEvidence
<1>4. /\ base \in Journals /\ base.grantDeadline = journal.grantDeadline
      /\ base.grantStarted = journal.grantStarted /\ base.wait = journal.wait
      /\ base.idle = input.journal.idle
  BY <1>1, <1>2, ConstantsTyped DEF Journals, ReadInv, CopyOfDisk
<1>5. e \in Effects /\ e.type = "delete-vm" /\ e.generation = journal.startCount
  BY <1>2, EffectType DEF EffectTypes, None
<1>6. d \in Decisions /\ d.effect = e
  BY <1>5 DEF Decision, Decisions, LifecycleStates
<1>7. input.permit.own
  BY <1>1 DEF AuthorizationProblem
<1> HIDE DEF base, e, d
<1>8. Journalable(input, d)
  BY <1>3, <1>5, <1>6, <1>7 DEF Journalable, Fits, EffectReadable, WaitsForCapacity
<1>9. d.effect.type # "none"
  BY <1>5, <1>6
<1> QED BY <1>1, <1>4, <1>6, <1>8, <1>9, IntentReadable

(* The marks of a blocked or failed effect leave all that is read. *)
LEMMA MarkAlike ==
    ASSUME ReadInv, NEW status, journal' = MarkIntent(status)
    PROVE  /\ journal'.grantDeadline = journal.grantDeadline
           /\ journal'.grantStarted = journal.grantStarted
           /\ journal'.idle = journal.idle /\ journal'.wait = journal.wait
BY ReadTyped DEF MarkIntent, Journals

LEMMA TickStepReadable ==
    ASSUME ReadInv, TickStep
    PROVE  FilesReadable' /\ CopyOfDisk' /\ GrantIsTimed' /\ ClockBounded'
<1>0. /\ journal \in Journals /\ pending \in PendingEffects /\ clock \in Nat /\ IInv
      /\ LifecycleReadable
  BY ReadTyped DEF ReadInv, FilesReadable, JournalReadable
<1>1. CASE DecideNothing
  <2>1. /\ pc = "observed" /\ ~HasPending /\ journal' = input.journal
        /\ UNCHANGED <<pending, clock, vm>> /\ Idle
    BY <1>1 DEF DecideNothing, cloudVars
  <2>2. LifecycleReadable'
    BY <1>0, <2>1 DEF ReadInv, CopyOfDisk, LifecycleReadable
  <2>3. pending'.effect.type = "none"
    BY <2>1 DEF HasPending
  <2> QED BY <1>0, <2>1, <2>2, <2>3, FilesEmptied, TickOver, GrantKept
<1>2. CASE AbandonPending
  <2>1. /\ journal' = [journal EXCEPT !.intent = NoIntent] /\ pending' = NoPending
        /\ UNCHANGED <<clock, vm>> /\ Idle
    BY <1>2 DEF AbandonPending, cloudVars
  <2>2. LifecycleReadable'
    BY <1>0, <2>1 DEF LifecycleReadable, Journals
  <2> QED BY <2>1, <2>2, NothingPending, FilesEmptied, TickOver, GrantKept
<1>3. CASE BlockPending
  <2>1. /\ journal' = MarkIntent("blocked") /\ pending' = [pending EXCEPT !.status = "blocked"]
        /\ UNCHANGED <<clock, vm>> /\ Idle
    BY <1>3 DEF BlockPending, cloudVars
  <2>2. /\ pending'.effect = pending.effect /\ pending'.createdAt = pending.createdAt
        /\ pending'.permitId = pending.permitId
    BY <1>0, <2>1 DEF PendingEffects
  <2> QED BY <1>0, <2>1, <2>2, MarkAlike, FilesAlike, TickOver, GrantKept
<1>4. CASE EmitIntent
  <2>1. /\ UNCHANGED <<journal, clock, vm>> /\ pc' = "emitting"
        /\ pending' = [pending EXCEPT !.stage = "emitting"]
        /\ input' = [NoInput EXCEPT !.now = input.now]
    BY <1>4 DEF EmitIntent, cloudVars
  <2>2. /\ pending'.effect = pending.effect /\ pending'.createdAt = pending.createdAt
        /\ pending'.permitId = pending.permitId
    BY <1>0, <2>1 DEF PendingEffects
  <2>3. input'.now = input.now
    BY <2>1 DEF NoInput
  <2>4. CopyOfDisk' /\ ClockBounded'
    BY <2>1, <2>3 DEF CopyOfDisk, ClockBounded, ReadInv
  <2> QED BY <1>0, <2>1, <2>2, <2>4, FilesAlike, GrantKept
<1> QED BY <1>1, <1>2, <1>3, <1>4, ObserveReadable, RecordReadable DEF TickStep

-----------------------------------------------------------------------------
(* A request and its answer leave files, grant and instant as they are. *)
LEMMA ExecuteReadable ==
    ASSUME ReadInv, ExecuteStep
    PROVE  FilesReadable' /\ CopyOfDisk' /\ GrantIsTimed' /\ ClockBounded'
<1>0. vm \in Vms /\ clock \in Nat
  BY ReadTyped
<1>1. UNCHANGED <<journalVars, input, clock>> /\ pc' = "replied"
  BY DEF ExecuteStep, RequestFails, RefusedForCapacity, ExecuteCreate, ExecuteStart,
         ExecuteStop, ExecuteDelete, ExecuteRegister, ExecuteDrain, ExecuteResume, Refused,
         AcceptedReply, ReplyMayBeLost, Reply
<1>2. vm'.generation = vm.generation /\ vm'.deadline = vm.deadline
  BY <1>0
  DEF ExecuteStep, RequestFails, RefusedForCapacity, Refused, cloudVars, ExecuteCreate,
      ExecuteStart, ExecuteStop, ExecuteDelete, ExecuteRegister, ExecuteDrain, ExecuteResume,
      PoweredOff, RegisteredVm, DrainedVm, ResumedVm, Vms
<1>3. CopyOfDisk' /\ ClockBounded'
  BY <1>1 DEF CopyOfDisk, ClockBounded, ReadInv
<1> QED BY <1>0, <1>1, <1>2, <1>3, FilesUnwritten, GrantKept

(* A refusal leaves a wait that counts it and no grant. *)
LEMMA RefusalReadable ==
    ASSUME ReadInv, NEW base \in Journals, base.wait = journal.wait,
           base.idle # NoIdle => base.idle.generation >= 1,
           NEW refused \in {"create-vm", "start-vm"}, WaitForCapacity(base, refused), Idle,
           UNCHANGED <<clock, vm>>
    PROVE  FilesReadable' /\ CopyOfDisk' /\ GrantIsTimed' /\ ClockBounded'
<1>1. /\ journal'.grantStarted = None /\ journal'.idle = base.idle
      /\ journal'.wait = NextCapacityWait(journal.wait, refused, input.now)
      /\ pending' = NoPending
  BY DEF WaitForCapacity, Journals
<1>2. journal'.wait.refusals >= 1
  BY <1>1, ReadTyped DEF NextCapacityWait, CapacityWaits
<1>3. LifecycleReadable'
  BY <1>1, <1>2 DEF LifecycleReadable, WaitReadable
<1> QED BY <1>1, <1>3, NothingPending, FilesEmptied, TickOver, GrantKept

LEMMA ReplyReadable ==
    ASSUME ReadInv, JournalReply
    PROVE  FilesReadable' /\ CopyOfDisk' /\ GrantIsTimed' /\ ClockBounded'
<1>0. /\ journal \in Journals /\ pending \in PendingEffects /\ clock \in Nat
      /\ UNCHANGED <<clock, vm>> /\ pc = "replied" /\ LifecycleReadable
  BY ReadTyped DEF JournalReply, cloudVars, ReadInv, FilesReadable, JournalReadable
<1>1. CASE reply = "resolved"
  <2>1. journal' = [journal EXCEPT !.intent = NoIntent] /\ pending' = NoPending /\ Idle
    BY <1>1 DEF JournalReply
  <2>2. LifecycleReadable'
    BY <1>0, <2>1 DEF LifecycleReadable, Journals
  <2> QED BY <1>0, <2>1, <2>2, NothingPending, FilesEmptied, TickOver, GrantKept
<1>2. CASE reply = "accepted" \/ reply = "unidentified"
  <2>1. UNCHANGED journal /\ Idle
    BY <1>2 DEF JournalReply, journalVars
  <2>2. pending' = pending \/ pending' = [pending EXCEPT !.operationId = TRUE]
    BY <1>2 DEF JournalReply, journalVars
  <2>3. /\ pending'.effect = pending.effect /\ pending'.createdAt = pending.createdAt
        /\ pending'.permitId = pending.permitId
    BY <1>0, <2>2 DEF PendingEffects
  <2> QED BY <1>0, <2>1, <2>3, FilesAlike, TickOver, GrantKept
<1>3. CASE reply = "capacity"
  <2>1. WaitForCapacity(journal, pending.effect.type) /\ Idle
    BY <1>3 DEF JournalReply
  <2>2. pending.effect.type \in {"create-vm", "start-vm"}
    BY <1>0, <1>3, ReadTyped DEF IInv, CapacityRefusesCompute
  <2>3. journal.idle # NoIdle => journal.idle.generation >= 1
    BY <1>0 DEF LifecycleReadable
  <2> QED BY <1>0, <2>1, <2>2, <2>3, RefusalReadable
<1>4. CASE reply = "error"
  <2>1. /\ journal' = MarkIntent("ambiguous") /\ Exit
        /\ pending' = [pending EXCEPT !.status = "ambiguous"]
    BY <1>4 DEF JournalReply
  <2>2. /\ pending'.effect = pending.effect /\ pending'.createdAt = pending.createdAt
        /\ pending'.permitId = pending.permitId
    BY <1>0, <2>1 DEF PendingEffects
  <2> QED BY <1>0, <2>1, <2>2, MarkAlike, FilesAlike, TickOver, GrantKept
<1> QED BY <1>1, <1>2, <1>3, <1>4 DEF JournalReply

(* A proven effect leaves the window of its start, none, or the one before. *)
LEMMA SettleReadable ==
    ASSUME ReadInv, HasPending, Settle
    PROVE  FilesReadable'
<1>0. /\ journal \in Journals /\ pending.effect.type # "adopt-vm" /\ LifecycleReadable
      /\ EffectReadable(pending.effect) /\ StartHasWindow
  BY ReadTyped DEF ReadInv, FilesReadable, JournalReadable, PendingReadable, IInv, ReservedIsNew
<1> DEFINE type == pending.effect.type
           gone == type \in {"create-vm", "delete-vm"}
<1>1. /\ journal'.grantDeadline = IF type = "start-vm" THEN pending.effect.deadline
                                  ELSE IF gone THEN None ELSE journal.grantDeadline
      /\ journal'.grantStarted = IF type = "start-vm" THEN pending.createdAt
                                 ELSE IF gone THEN None ELSE journal.grantStarted
      /\ journal'.wait \in {NoWait, journal.wait} /\ journal'.idle = journal.idle
      /\ pending' = NoPending
  BY <1>0 DEF Settle, Journals
<1>2. type = "start-vm" => pending.effect.deadline # None
                           /\ pending.createdAt < pending.effect.deadline
  BY <1>0 DEF EffectReadable, StartHasWindow
<1>3. NoWait.refused = "none"
  BY DEF NoWait
<1>4. LifecycleReadable'
  BY <1>0, <1>1, <1>2, <1>3 DEF LifecycleReadable
<1> QED BY <1>1, <1>4, NothingPending, FilesEmptied

LEMMA ReconcileReadable ==
    ASSUME ReadInv, ReconcileStep
    PROVE  FilesReadable' /\ CopyOfDisk' /\ GrantIsTimed' /\ ClockBounded'
<1>0. clock \in Nat /\ journal \in Journals /\ pending \in PendingEffects /\ vm \in Vms /\ IInv
  BY ReadTyped
<1>1. CASE ReconcileProven
  <2>1. HasPending /\ Settle /\ Idle /\ UNCHANGED <<clock, vm>>
    BY <1>1 DEF ReconcileProven, Reconciling, Cleared, AtPending, cloudVars
  <2> QED BY <2>1, SettleReadable, TickOver, GrantKept
<1>2. CASE ArmGrant
  <2>1. /\ HasPending /\ Idle /\ UNCHANGED clock /\ pending.effect.type = "start-vm"
        /\ Settle \/ UNCHANGED journalVars
        /\ vm' = ArmedVm(vm, pending.effect.generation, clock, pending.effect.deadline)
    BY <1>2 DEF ArmGrant, NeedsArming, Reconciling, Cleared, AtPending
  <2>2. FilesReadable'
    BY <1>0, <2>1, SettleReadable, FilesUnwritten
  <2>3. EffectReadable(pending.effect)
    BY <2>1 DEF ReadInv, FilesReadable, JournalReadable, PendingReadable
  <2>4. vm'.deadline = pending.effect.deadline /\ pending.effect.deadline # None
    BY <1>0, <2>1, <2>3 DEF ArmedVm, Vms, EffectReadable
  <2> QED BY <2>1, <2>2, <2>4, TickOver DEF GrantIsTimed
<1>3. CASE ArmFails \/ ReconcileUnresolved
  <2>1. UNCHANGED journalVars /\ UNCHANGED <<clock, vm>> /\ (Idle \/ Exit)
    BY <1>3 DEF ArmFails, ReconcileUnresolved, cloudVars
  <2> QED BY <1>0, <2>1, FilesUnwritten, TickOver, GrantKept
<1>4. CASE ReconcileStartRefused
  <2>1. /\ pc = "observed" /\ WaitForCapacity(input.journal, "start-vm") /\ Idle
        /\ UNCHANGED <<clock, vm>>
    BY <1>4 DEF ReconcileStartRefused, Reconciling, cloudVars
  <2>2. /\ input.journal \in Journals /\ input.journal.wait = journal.wait
        /\ input.journal.idle # NoIdle => input.journal.idle.generation >= 1
    BY <1>0, <2>1, ObservedTick DEF ReadInv, CopyOfDisk
  <2> QED BY <2>1, <2>2, RefusalReadable
<1>5. CASE ReconcileCreateRefused
  <2>1. WaitForCapacity(journal, "create-vm") /\ Idle /\ UNCHANGED <<clock, vm>>
    BY <1>5 DEF ReconcileCreateRefused, cloudVars
  <2>2. journal.idle # NoIdle => journal.idle.generation >= 1
    BY DEF ReadInv, FilesReadable, JournalReadable, LifecycleReadable
  <2> QED BY <1>0, <2>1, <2>2, RefusalReadable
<1> QED BY <1>1, <1>2, <1>3, <1>4, <1>5, RetireReadable DEF ReconcileStep

LEMMA RestartReadable ==
    ASSUME ReadInv, Crash \/ Restart
    PROVE  FilesReadable' /\ CopyOfDisk' /\ GrantIsTimed' /\ ClockBounded'
<1>0. clock \in Nat /\ UNCHANGED journalVars /\ UNCHANGED <<clock, vm>>
  BY ReadTyped DEF Crash, Restart, cloudVars
<1>1. CASE Crash
  BY <1>0, <1>1, FilesUnwritten, TickOver, GrantKept DEF Crash
<1>2. CASE Restart
  <2>1. CopyOfDisk' /\ ClockBounded'
    BY <1>0, <1>2 DEF Restart, CopyOfDisk, ClockBounded, ReadInv
  <2> QED BY <1>0, <2>1, FilesUnwritten, GrantKept
<1> QED BY <1>1, <1>2

LEMMA ReadStep == ReadInv /\ [Next]_vars => ReadInv'
<1> SUFFICES ASSUME ReadInv, [Next]_vars PROVE ReadInv'
  OBVIOUS
<1>1. BootInv'
  BY BootStep DEF ReadInv
<1>2. CASE UNCHANGED vars
  <2>1. FilesReadable' /\ GrantIsTimed'
    BY <1>2, ReadTyped, FilesUnwritten, GrantKept DEF vars, journalVars
  <2>2. CopyOfDisk' /\ ClockBounded'
    BY <1>2 DEF vars, ReadInv, CopyOfDisk, HasGrant, ClockBounded
  <2> QED BY <1>1, <2>1, <2>2 DEF ReadInv
<1>3. CASE Next
  <2>1. FilesReadable' /\ CopyOfDisk' /\ GrantIsTimed' /\ ClockBounded'
    BY <1>3, WorldReadable, TickStepReadable, ExecuteReadable, ReplyReadable, ReconcileReadable,
       RestartReadable DEF Next, ControllerStep
  <2> QED BY <1>1, <2>1 DEF ReadInv
<1> QED BY <1>2, <1>3

LEMMA ReadInvariant == Spec => []ReadInv
BY ReadInitially, ReadStep, PTL DEF Spec

(* parseControllerState: whatever is decided, refused, abandoned or retired, *)
(* by any permits and with any number of crashes, the files on disk hold an  *)
(* effect, a grant window and a wait that the next start accepts.            *)
THEOREM JournalAlwaysReadable == Spec => []JournalReadable
<1>1. ReadInv => JournalReadable
  BY DEF ReadInv, FilesReadable
<1> QED BY <1>1, ReadInvariant, PTL

(* The action of BackoffRespected. *)
Waited ==
    \/ vm.status # "starting" /\ vm'.status = "starting"
    \/ creating' > creating /\ journal.wait.refused = "create-vm"
    => journal.wait.refused = "none" \/ clock >= journal.wait.retryAt

(* Only its own request starts a VM, and only a create request is one more. *)
LEMMA OnlyRequestsStart ==
    ASSUME vm \in Vms, creating \in Nat, [Next]_vars, ~ExecuteStart, ~ExecuteCreate
    PROVE  /\ vm'.status = "starting" => vm.status = "starting"
           /\ ~(creating' > creating)
<1>1. CASE UNCHANGED <<vm, creating>>
  BY <1>1
<1>2. CASE Tick \/ JobStep \/ GuestStep
  <2>1. UNCHANGED creating
    BY <1>2, Zenon DEF Tick, JobStep, JobArrives, JobWithdrawn, AssignJob, StartJob, FinishJob, LoseJob,
                GuestStep, GuestBootstrapped, WatchdogExpires, GuestFails, cloudVars
  <2>2. CASE Tick
    <3>1. vm'.status = vm.status
      BY <2>2 DEF Tick, Vms
    <3> QED BY <2>1, <3>1
  <2>3. CASE JobStep
    <3>1. vm'.status = vm.status
      BY <2>3 DEF JobStep, JobArrives, JobWithdrawn, AssignJob, StartJob, FinishJob, LoseJob,
                  cloudVars, Vms
    <3> QED BY <2>1, <3>1
  <2>4. CASE GuestStep
    <3>1. ExpiredVm(vm).status = "stopped"
      BY DEF ExpiredVm, PoweredOff, Vms
    <3> QED BY <2>1, <2>4, <3>1 DEF GuestStep, GuestBootstrapped, WatchdogExpires, GuestFails, Vms
  <2> QED BY <1>2, <2>2, <2>3, <2>4
<1>3. CASE CloudStep
  <2>1. CreatedVm.status = "stopped" /\ NoVm.status = "absent" /\ BootedVm(vm).status = "running"
    BY DEF CreatedVm, NoVm, BootedVm, Vms
  <2>2. \/ vm' \in {vm, NoVm, CreatedVm, BootedVm(vm)} \/ vm' = [vm EXCEPT !.status = "stopped"]
    BY <1>3 DEF CloudStep, CreateSettles, StartSettles, StopSettles, DeleteSettles
  <2>3. creating' = creating \/ creating' = creating - 1
    BY <1>3 DEF CloudStep, CreateSettles, StartSettles, StopSettles, DeleteSettles
  <2> QED BY <2>1, <2>2, <2>3 DEF Vms
<1>4. CASE ExecuteStep
  <2>1. UNCHANGED creating
    BY <1>4
    DEF ExecuteStep, RequestFails, RefusedForCapacity, Refused, cloudVars, ExecuteStop,
        ExecuteDelete, ExecuteRegister, ExecuteDrain, ExecuteResume
  <2>2. CASE RequestFails \/ RefusedForCapacity
    BY <2>1, <2>2 DEF RequestFails, RefusedForCapacity, Refused, cloudVars
  <2>3. CASE ExecuteStop
    <3>1. PoweredOff(vm, "stopping").status = "stopping"
      BY DEF PoweredOff, Vms
    <3>2. vm' \in {vm, PoweredOff(vm, "stopping")}
      BY <2>3 DEF ExecuteStop, Refused, cloudVars
    <3> QED BY <2>1, <3>1, <3>2
  <2>4. CASE ExecuteDelete
    <3>1. vm' = vm \/ vm' = [vm EXCEPT !.status = "deleting"]
      BY <2>4 DEF ExecuteDelete, Refused, cloudVars
    <3>2. vm' = vm \/ vm'.status = "deleting"
      BY <3>1 DEF Vms
    <3> QED BY <2>1, <3>2
  <2>5. CASE ExecuteRegister \/ ExecuteDrain \/ ExecuteResume
    <3>1. /\ RegisteredVm(vm).status = vm.status /\ DrainedVm(vm).status = vm.status
          /\ ResumedVm(vm).status = vm.status
      BY DEF RegisteredVm, DrainedVm, ResumedVm, Vms
    <3>2. vm' \in {vm, RegisteredVm(vm), DrainedVm(vm), ResumedVm(vm)}
      BY <2>5 DEF ExecuteRegister, ExecuteDrain, ExecuteResume, Refused, cloudVars
    <3> QED BY <2>1, <3>1, <3>2
  <2> QED BY <1>4, <2>2, <2>3, <2>4, <2>5 DEF ExecuteStep
<1>5. CASE ArmGrant
  BY <1>5 DEF ArmGrant, ArmedVm, Vms
<1>6. \/ UNCHANGED <<vm, creating>> \/ Tick \/ JobStep \/ GuestStep \/ CloudStep \/ ExecuteStep
      \/ ArmGrant
  <2>1. TickStep \/ JournalReply \/ Crash \/ Restart => UNCHANGED <<vm, creating>>
    BY DEF TickStep, ObserveCloud, ObserveGuest, DecideNothing, RecordDecision, AbandonPending,
           BlockPending, EmitIntent, JournalReply, Crash, Restart, cloudVars
  <2>2. ReconcileStep => UNCHANGED <<vm, creating>> \/ ArmGrant
    BY DEF ReconcileStep, ReconcileProven, ArmFails, ReconcileStartRefused, RetireStoppedStart,
           ReconcileCreateRefused, ReconcileUnresolved, cloudVars
  <2>3. UNCHANGED vars => UNCHANGED <<vm, creating>>
    BY DEF vars
  <2> QED BY <2>1, <2>2, <2>3 DEF Next, ControllerStep
<1> QED BY <1>1, <1>2, <1>3, <1>4, <1>5, <1>6

LEMMA StepWaited ==
    ASSUME ReadInv, [Next]_vars
    PROVE  Waited
<1>0. /\ vm \in Vms /\ clock \in Nat /\ journal.wait.retryAt \in Nat /\ creating \in Nat
      /\ WaitObserved
  BY ReadTyped DEF IInv, TypeOK, CloudTypeOK, ReadInv, FilesReadable
<1>1. CASE ExecuteStart \/ ExecuteCreate
  <2>1. \/ pending.effect.type = "start-vm"
        \/ pending.effect.type = "create-vm" /\ vm' = vm
    BY <1>1 DEF ExecuteStart, ExecuteCreate, Executing, Refused, cloudVars
  <2> QED BY <1>0, <2>1 DEF WaitObserved, WaitIsOver, WaitsForCapacity, Waited
<1>2. CASE ~ExecuteStart /\ ~ExecuteCreate
  BY <1>0, <1>2, OnlyRequestsStart DEF Waited
<1> QED BY <1>1, <1>2

(* waitForCapacity: after a refusal nothing more is requested before the time *)
(* the wait names, whatever crashes, answers or permits come between; only    *)
(* the creation of a VM that vanished ignores the wait of its start.          *)
THEOREM BackoffAlwaysRespected == Spec => BackoffRespected
<1>1. ReadInv /\ [Next]_vars => [Waited]_vars
  BY StepWaited
<1> QED BY <1>1, ReadInvariant, PTL DEF Spec, BackoffRespected, Waited

-----------------------------------------------------------------------------
(***************************************************************************)
(* What the guest runs, for all values of the constants: no admitted job   *)
(* is cut short (NoJobKilled), a listening runner is of the generation and *)
(* the deadline of the journal (ListenerMatchesJournal), and a grant ends  *)
(* before its permit does (GrantWithinPermit).                             *)
(*                                                                         *)
(* The three need each other. A disk keeps the grant of an earlier         *)
(* generation through a boot, so a running VM need not be of the journal's *)
(* generation; what is invariant is that such a VM has a start pending for *)
(* it or is past the journal's deadline, where decideLifecycle only stops  *)
(* it. Then a runner is only registered on a VM of the journal, whose      *)
(* window ends at the journal's deadline, and a stop finds no job: an idle *)
(* one because the guest was seen drained, an emergency one because the    *)
(* start hook admits no job that the window does not hold.                 *)
(***************************************************************************)

Running == vm.status = "running"

(* The guest enforces the grant of the journal's generation. *)
GrantMatches == vm.generation = journal.startCount /\ vm.deadline = journal.grantDeadline

(* Past the journal's deadline, and the tick that decides knows it. *)
Late ==
    /\ journal.grantDeadline # None /\ journal.grantDeadline < clock
    /\ pc \in {"observing", "observed"} => journal.grantDeadline < input.now

(* The disk is behind the journal while a start may yet boot or be refused. *)
NewGenerationUnused ==
    /\ DiskBehindJournal
    /\ Starting \/ StartUnsent \/ StartAccepted => vm.generation < journal.startCount
    /\ StartAccepted => ~Running

(* A start is recorded for a VM that is off; it carries the deadline of    *)
(* the journal, which is what the disk is armed with.                      *)
StartOfStopped ==
    /\ StartUnsent => vm.status = "stopped"
    /\ StartPending =>
          /\ journal.grantDeadline = pending.effect.deadline
          /\ vm.generation = journal.startCount => vm.deadline = pending.effect.deadline

(* A VM that came up again with an old grant is being armed or overdue. *)
OldGrantOverdue ==
    Armed(vm) /\ (Starting \/ Running) /\ ~StartPending => (Running /\ GrantMatches) \/ Late

(* A runner process needs a running VM of the journal's generation. *)
ProcessesMatch ==
    /\ vm.worker => vm.listener /\ vm.windowLeft >= jobLeft + ShutdownMargin
    /\ vm.listener => /\ Running /\ Armed(vm) /\ GrantMatches /\ ~StartPending
                      /\ registered \in {0, vm.generation}

(* The window of the journal's generation ends by the deadline on disk. *)
WindowEnds ==
    Running /\ Armed(vm) /\ vm.generation = journal.startCount
    /\ (vm.windowLeft > 0 \/ WatchdogWorks) => clock + vm.windowLeft <= vm.deadline

(* What a tick has read is still so, but for what the world does alone. *)
ReadStillTrue ==
    /\ pc \in {"observing", "observed"} =>
          /\ input.provider.vmStatus = "stopped" => vm.status = "stopped"
          /\ input.provider.vmStatus = "absent" => vm.status = "absent" \/ vm = CreatedVm
          /\ input.provider.vmStatus = "running" => vm.status \in {"running", "stopped"}
    /\ pc = "observed" /\ input.provider.vmStatus = "running" /\ Running =>
          /\ HasGrant(input) => Armed(vm)
          /\ input.guest.status = "drained" => ~vm.listener

(* What a pending effect was decided on still holds when it is sent. *)
DecidedOn ==
    /\ pending.effect.type = "create-vm" => vm.status = "absent" \/ vm = CreatedVm
    /\ pending.effect.type = "register-runner" =>
          /\ vm.status \in {"running", "stopped"}
          /\ Running => Armed(vm) /\ GrantMatches
    /\ pending.effect.type = "stop-vm" =>
          IF pending.effect.emergency
          THEN journal.grantDeadline # None /\ journal.grantDeadline <= clock
          ELSE ~vm.listener

(* Every deadline handed out lies within some permit. *)
DeadlinesPermitted ==
    /\ Armed(vm) => \E p \in Permits : vm.deadline <= p.expires
    /\ StartPending => \E p \in Permits : pending.effect.deadline <= p.expires

GuestInv ==
    /\ NewGenerationUnused /\ StartOfStopped /\ OldGrantOverdue /\ ProcessesMatch
    /\ WindowEnds /\ ReadStillTrue /\ DecidedOn /\ DeadlinesPermitted /\ NoJobKilled

-----------------------------------------------------------------------------
(* What a decision was based on, and the bound of the deadline it gives. *)
Based(i, e) ==
    /\ e.type = "start-vm" =>
          i.provider.vmStatus = "stopped" /\ e.deadline <= i.permit.expires
    /\ e.type = "create-vm" => i.provider.vmStatus = "absent"
    /\ e.type = "register-runner" =>
          i.provider.vmStatus = "running" /\ HasGrant(i) /\ OwnedOne(i) /\ ~LifetimeReached(i)
    /\ e.type = "stop-vm" =>
          IF e.emergency THEN PastDeadline(i)
          ELSE i.provider.vmStatus = "running" /\ i.guest.status = "drained"

LEMMA PlainBased ==
    ASSUME NEW i, NEW s
    PROVE  /\ Based(i, Stay(s).effect) /\ Based(i, Blocked.effect)
           /\ \A op, d : Based(i, d.effect) => Based(i, Authorized(i, op, d).effect)
                                               /\ Based(i, AuthorizedCleanup(i, d).effect)
BY DEF Based, Stay, Blocked, Decision, NoEffect, Authorized, AuthorizedCleanup

(* A drain, a resumption or a deletion is based on nothing said here. *)
LEMMA OtherBased ==
    ASSUME NEW i, NEW s, NEW g, NEW deadline,
           NEW type \in {"begin-drain", "resume-admission", "delete-vm"}
    PROVE  Based(i, Decision(s, Effect(type, g, deadline)).effect)
BY DEF Based, Decision, Effect

(* availableRuntimeMs: the deadline of a start lies within its permit. *)
LEMMA RuntimeWithinPermit ==
    ASSUME NEW i \in Inputs
    PROVE  i.now + AvailableRuntime(i) <= i.permit.expires
<1>1. /\ i.now \in Nat /\ i.permit.expires \in Nat
      /\ i.permit.maxRuntime - i.journal.runtime \in Int
  BY DEF Inputs, PermitRecords, Journals
<1> QED BY <1>1, ConfigAssumption DEF AvailableRuntime, Smaller

LEMMA EmergencyBased ==
    ASSUME NEW i, LifetimeReached(i)
    PROVE  Based(i, EmergencyStop(i).effect)
<1>1. Based(i, Decision("stopping", EmergencyEffect).effect)
  BY DEF Based, Decision, EmergencyEffect, LifetimeReached
<1> QED BY <1>1, PlainBased DEF EmergencyStop

LEMMA AbsentBased ==
    ASSUME NEW i, i.provider.vmStatus = "absent"
    PROVE  Based(i, DecideAbsent(i).effect)
<1>1. \A g, deadline : Based(i, Decision("starting", Effect("create-vm", g, deadline)).effect)
  BY DEF Based, Decision, Effect
<1> QED BY <1>1, PlainBased DEF DecideAbsent

LEMMA StoppedBased ==
    ASSUME NEW i \in Inputs, i.provider.vmStatus = "stopped"
    PROVE  Based(i, DecideStopped(i).effect)
<1>1. \A g : Based(i, Decision("starting", Effect("start-vm", g,
                                           i.now + AvailableRuntime(i))).effect)
  BY RuntimeWithinPermit DEF Based, Decision, Effect
<1>2. \A g : Based(i, Delete(i, g).effect)
  BY OtherBased, PlainBased DEF Delete
<1> QED BY <1>1, <1>2, PlainBased DEF DecideStopped

LEMMA RunningBased ==
    ASSUME NEW i, i.provider.vmStatus = "running", OwnedOne(i), ~LifetimeReached(i)
    PROVE  Based(i, DecideRunning(i).effect)
<1>1. Based(i, BeginDrain(i).effect)
  BY OtherBased, PlainBased DEF BeginDrain
<1>2. HasGrant(i) => \A deadline :
         Based(i, Decision("ready", Effect("register-runner", 0, deadline)).effect)
  BY DEF Based, Decision, Effect
<1>3. Based(i, Decision("ready", Effect("resume-admission", 0, None)).effect)
  BY OtherBased
<1>4. Based(i, DecideDraining(i).effect)
  <2>1. GuestIsDrained(i) => Based(i, Decision("stopping", Effect("stop-vm", 0, None)).effect)
    BY DEF Based, Decision, Effect, GuestIsDrained
  <2> QED BY <1>1, <2>1, PlainBased DEF DecideDraining
<1> QED BY <1>1, <1>2, <1>3, <1>4, PlainBased DEF DecideRunning

(* decideLifecycle acts on what it read of provider and guest. *)
LEMMA DecisionBased ==
    ASSUME NEW i \in Inputs, i.journal.intent.type = "none"
    PROVE  Based(i, DecideLifecycle(i).effect)
BY PlainBased, EmergencyBased, AbsentBased, StoppedBased, RunningBased DEF DecideLifecycle

-----------------------------------------------------------------------------
(* What the steps need of the types, and of a pending start. *)
LEMMA GuestTyped ==
    ASSUME ReadInv
    PROVE  /\ vm \in Vms /\ vm.generation \in Nat /\ vm.windowLeft \in Nat
           /\ vm.deadline \in OptionalTimes /\ jobLeft \in Nat
           /\ journal \in Journals /\ journal.startCount \in Nat
           /\ journal.grantDeadline \in OptionalTimes
           /\ clock \in Nat /\ input.now \in Nat /\ input.now <= clock
           /\ MaxTime \in Nat /\ clock <= MaxTime
           /\ MaxJob \in Nat /\ ShutdownMargin \in Nat /\ ShutdownMargin > 0
           /\ pending \in PendingEffects /\ pending.effect.deadline \in Int
BY ReadTyped, ConfigAssumption
DEF ReadInv, ClockBounded, IInv, TypeOK, JobTypeOK, Vms, Journals, Inputs, PendingEffects, Effects

LEMMA PendingStartCounts ==
    ASSUME ReadInv, StartPending
    PROVE  /\ pending.effect.generation = journal.startCount /\ journal.startCount >= 1
           /\ pending.effect.deadline # None
           /\ pending.effectDeadline = pending.effect.deadline
<1>1. HasPending /\ JournalConsistent
  BY ReadTyped DEF StartPending, HasPending, IInv
<1>2. pending.effect.generation = journal.startCount
  BY <1>1, GuestTyped DEF JournalConsistent, StartPending
<1>3. pending.effect.generation >= 1 /\ pending.effect.deadline # None
  BY <1>1 DEF ReadInv, FilesReadable, JournalReadable, PendingReadable, EffectReadable, StartPending
<1> QED BY <1>1, <1>2, <1>3 DEF JournalConsistent

(* A step that leaves the files alone, starts nothing and ends or continues *)
(* the tick with what it has read.                                          *)
ProcessQuiet ==
    /\ UNCHANGED <<journal, pending>>
    /\ StartUnsent' => StartUnsent
    /\ StartAccepted' => StartAccepted
    /\ pc' \in {"observing", "observed"} => UNCHANGED <<pc, input>>

(* Being overdue lasts. *)
LEMMA LateLasts ==
    ASSUME ReadInv, ProcessQuiet, clock' \in Nat, clock' >= clock, Late
    PROVE  Late'
BY GuestTyped DEF ProcessQuiet, Late, OptionalTimes, None

(* A running or stopping VM loses processes, or powers off. *)
LEMMA VmShrinks ==
    ASSUME ReadInv, GuestInv, ProcessQuiet, UNCHANGED clock, ~killed',
           vm.status \notin {"absent", "stopped"},
           vm'.generation = vm.generation, vm'.deadline = vm.deadline,
           vm'.windowLeft = vm.windowLeft,
           \/ vm'.status = vm.status
           \/ vm.status \in {"running", "stopping"} /\ vm'.status = "stopped"
           \/ vm.status = "running" /\ vm'.status = "stopping" /\ pending.effect.type = "stop-vm"
              /\ pc' \notin {"observing", "observed"},
           vm'.worker => vm.worker /\ vm'.listener /\ jobLeft' = jobLeft,
           vm'.listener => vm.listener /\ vm'.status = vm.status,
           registered' \in {0, registered}
    PROVE  GuestInv'
<1>0. /\ UNCHANGED <<journal, pending>> /\ clock' \in Nat
      /\ (GrantMatches' <=> GrantMatches)
      /\ (StartPending' <=> StartPending) /\ vm # CreatedVm
  <2>1. CreatedVm.status = "stopped"
    BY DEF CreatedVm, NoVm
  <2> QED BY <2>1, GuestTyped DEF ProcessQuiet, GrantMatches, StartPending
<1>1. NewGenerationUnused'
  BY <1>0 DEF GuestInv, NewGenerationUnused, DiskBehindJournal, ProcessQuiet, Starting, Running
<1>2. StartOfStopped'
  BY <1>0 DEF GuestInv, StartOfStopped, ProcessQuiet
<1>3. OldGrantOverdue'
  <2>1. SUFFICES ASSUME Armed(vm), Starting' \/ Running', ~StartPending
                 PROVE  (Running' /\ GrantMatches) \/ Late'
    BY <1>0 DEF OldGrantOverdue, Armed
  <2>2. vm'.status = vm.status
    BY <2>1 DEF Starting, Running
  <2>3. (Running /\ GrantMatches) \/ Late
    BY <1>0, <2>1, <2>2 DEF GuestInv, OldGrantOverdue, Armed, Starting, Running
  <2> QED BY <1>0, <2>2, <2>3, LateLasts DEF Running
<1>4. ProcessesMatch'
  BY <1>0 DEF GuestInv, ProcessesMatch, Running, Armed
<1>5. WindowEnds'
  BY <1>0 DEF GuestInv, WindowEnds, Armed, Running
<1>6. ReadStillTrue'
  BY <1>0 DEF GuestInv, ReadStillTrue, ProcessQuiet, HasGrant, Armed, Running
<1>7. DecidedOn'
  BY <1>0 DEF GuestInv, DecidedOn, Armed, Running
<1>8. DeadlinesPermitted'
  BY <1>0 DEF GuestInv, DeadlinesPermitted, Armed
<1> QED BY <1>1, <1>2, <1>3, <1>4, <1>5, <1>6, <1>7, <1>8 DEF GuestInv, NoJobKilled

(* A VM is gone, or a new one is there: it carries nothing. *)
LEMMA VmFresh ==
    ASSUME ReadInv, GuestInv, ProcessQuiet, UNCHANGED <<clock, killed>>,
           vm.status \in {"deleting", "absent"}, vm' \in {NoVm, CreatedVm}
    PROVE  GuestInv'
<1>0. /\ UNCHANGED <<journal, pending>> /\ vm # CreatedVm /\ ~StartUnsent
      /\ vm'.generation = 0 /\ vm'.status \in {"absent", "stopped"} /\ ~vm'.listener /\ ~vm'.worker
      /\ (StartPending' <=> StartPending) /\ ~Running' /\ ~Starting' /\ ~Armed(vm)'
      /\ vm'.status = "absent" \/ vm' = CreatedVm
  <2>1. /\ CreatedVm.status = "stopped" /\ NoVm.status = "absent"
        /\ CreatedVm.generation = 0 /\ NoVm.generation = 0
        /\ ~CreatedVm.listener /\ ~NoVm.listener /\ ~CreatedVm.worker /\ ~NoVm.worker
    BY DEF CreatedVm, NoVm
  <2>2. ~StartUnsent
    BY DEF GuestInv, StartOfStopped
  <2> QED BY <2>1, <2>2 DEF ProcessQuiet, StartPending, Running, Starting, Armed
<1>1. StartPending => journal.startCount >= 1
  BY PendingStartCounts
<1>2. NewGenerationUnused' /\ StartOfStopped'
  BY <1>0, <1>1, GuestTyped
  DEF GuestInv, NewGenerationUnused, DiskBehindJournal, StartOfStopped, ProcessQuiet, StartAccepted
<1>3. OldGrantOverdue' /\ ProcessesMatch' /\ WindowEnds'
  BY <1>0 DEF OldGrantOverdue, ProcessesMatch, WindowEnds
<1>4. ReadStillTrue'
  BY <1>0 DEF GuestInv, ReadStillTrue, ProcessQuiet
<1>5. DecidedOn'
  BY <1>0 DEF GuestInv, DecidedOn, ProcessQuiet
<1>6. DeadlinesPermitted'
  BY <1>0 DEF GuestInv, DeadlinesPermitted
<1> QED BY <1>2, <1>3, <1>4, <1>5, <1>6 DEF GuestInv, NoJobKilled

(* Nothing changes on the VM. *)
LEMMA VmSame ==
    ASSUME ReadInv, GuestInv, ProcessQuiet, UNCHANGED <<clock, vm, registered, jobLeft, killed>>
    PROVE  GuestInv'
<1>0. UNCHANGED <<journal, pending, vm, clock, registered, jobLeft, killed>>
      /\ clock' \in Nat /\ clock' >= clock
  BY GuestTyped DEF ProcessQuiet
<1>1. NewGenerationUnused' /\ StartOfStopped'
  BY <1>0 DEF GuestInv, NewGenerationUnused, DiskBehindJournal, StartOfStopped, ProcessQuiet,
              Starting, StartPending, Running
<1>2. OldGrantOverdue'
  BY <1>0, LateLasts DEF GuestInv, OldGrantOverdue, Starting, StartPending, Running, GrantMatches
<1>3. ProcessesMatch' /\ WindowEnds' /\ DeadlinesPermitted'
  BY <1>0 DEF GuestInv, ProcessesMatch, WindowEnds, DeadlinesPermitted, StartPending, Running,
              GrantMatches
<1>4. ReadStillTrue'
  BY <1>0 DEF GuestInv, ReadStillTrue, ProcessQuiet, HasGrant, Running
<1>5. DecidedOn'
  BY <1>0 DEF GuestInv, DecidedOn, GrantMatches, Running
<1> QED BY <1>0, <1>1, <1>2, <1>3, <1>4, <1>5 DEF GuestInv, NoJobKilled

-----------------------------------------------------------------------------
(* The steps of the world leave files, process and start operation alone. *)
LEMMA WorldQuiet ==
    ASSUME UNCHANGED <<journalVars, processVars>>, startOp' \in {startOp, "succeeded"}
    PROVE  ProcessQuiet
BY DEF journalVars, processVars, ProcessQuiet, StartUnsent, StartAccepted, StartPending

(* The window and the job use up their time together. *)
LEMMA TickGuest ==
    ASSUME ReadInv, GuestInv, Tick
    PROVE  GuestInv'
<1>0. /\ UNCHANGED <<journalVars, processVars, startOp, registered, killed>> /\ ProcessQuiet
      /\ clock' \in Nat /\ clock' >= clock /\ clock' <= clock + 1
      /\ vm.worker => jobLeft # 0 /\ jobLeft' = jobLeft - 1
      /\ WatchdogWorks /\ vm.status = "running" => vm.windowLeft # 0
      /\ ~vm.worker => jobLeft' = jobLeft
      /\ vm' = IF vm.status = "running" THEN [vm EXCEPT !.windowLeft = Larger(0, @ - 1)] ELSE vm
  <2>1. /\ UNCHANGED <<journalVars, processVars, startOp, registered, killed>>
        /\ clock' = Smaller(clock + 1, MaxTime) /\ ~Urgent
        /\ jobLeft' = IF vm.worker THEN jobLeft - 1 ELSE jobLeft
        /\ vm' = IF vm.status = "running" THEN [vm EXCEPT !.windowLeft = Larger(0, @ - 1)]
                                          ELSE vm
    BY DEF Tick
  <2>2. ProcessQuiet
    BY <2>1, WorldQuiet
  <2>3. clock' \in Nat /\ clock' >= clock /\ clock' <= clock + 1
    BY <2>1, GuestTyped DEF Smaller
  <2>4. /\ vm.worker => jobLeft # 0
        /\ WatchdogWorks /\ vm.status = "running" => vm.windowLeft # 0
    BY <2>1 DEF Urgent, WatchdogDue
  <2> QED BY <2>1, <2>2, <2>3, <2>4
<1>1. /\ vm'.status = vm.status /\ vm'.generation = vm.generation /\ vm'.deadline = vm.deadline
      /\ vm'.listener = vm.listener /\ vm'.worker = vm.worker
      /\ vm'.windowLeft = IF vm.status = "running" THEN Larger(0, vm.windowLeft - 1)
                          ELSE vm.windowLeft
      /\ vm = CreatedVm => vm' = CreatedVm
  <2>1. CreatedVm.status = "stopped"
    BY DEF CreatedVm, NoVm
  <2> QED BY <1>0, <2>1, GuestTyped DEF Vms
<1>2. NewGenerationUnused' /\ StartOfStopped'
  BY <1>0, <1>1 DEF GuestInv, NewGenerationUnused, DiskBehindJournal, StartOfStopped, ProcessQuiet,
                    Starting, Running, StartPending
<1>3. OldGrantOverdue'
  BY <1>0, <1>1, LateLasts DEF GuestInv, OldGrantOverdue, Armed, Starting, Running, GrantMatches,
                               ProcessQuiet, StartPending
<1>4. ProcessesMatch'
  <2>1. vm'.listener => /\ Running' /\ Armed(vm)' /\ GrantMatches' /\ ~StartPending'
                        /\ registered' \in {0, vm'.generation}
    BY <1>0, <1>1 DEF GuestInv, ProcessesMatch, Armed, Running, GrantMatches, ProcessQuiet,
                      StartPending
  <2>2. vm'.worker => vm'.listener /\ vm'.windowLeft >= jobLeft' + ShutdownMargin
    <3>1. SUFFICES ASSUME vm.worker
                   PROVE  vm.listener /\ vm'.windowLeft >= jobLeft' + ShutdownMargin
      BY <1>1
    <3>2. vm.listener /\ vm.windowLeft >= jobLeft + ShutdownMargin /\ vm.status = "running"
      BY <3>1 DEF GuestInv, ProcessesMatch, Running
    <3>3. vm'.windowLeft = Larger(0, vm.windowLeft - 1) /\ jobLeft' = jobLeft - 1
      BY <1>0, <1>1, <3>1, <3>2
    <3> QED BY <3>2, <3>3, GuestTyped DEF Larger
  <2> QED BY <2>1, <2>2 DEF ProcessesMatch
<1>5. WindowEnds'
  <2>1. SUFFICES ASSUME vm.status = "running", vm.generation # 0,
                        vm.generation = journal.startCount,
                        Larger(0, vm.windowLeft - 1) > 0 \/ WatchdogWorks
                 PROVE  clock' + Larger(0, vm.windowLeft - 1) <= vm.deadline
    BY <1>0, <1>1 DEF WindowEnds, Armed, Running, ProcessQuiet
  <2>2. vm.windowLeft > 0
    BY <1>0, <2>1, GuestTyped DEF Larger
  <2>3. clock + vm.windowLeft <= vm.deadline
    BY <2>1, <2>2 DEF GuestInv, WindowEnds, Armed, Running
  <2> QED BY <1>0, <2>2, <2>3, GuestTyped DEF Larger, OptionalTimes, None
<1>6. ReadStillTrue'
  BY <1>0, <1>1 DEF GuestInv, ReadStillTrue, ProcessQuiet, HasGrant, Armed, Running
<1>7. DecidedOn'
  BY <1>0, <1>1, GuestTyped
  DEF GuestInv, DecidedOn, Armed, Running, GrantMatches, ProcessQuiet, OptionalTimes, None
<1>8. DeadlinesPermitted'
  BY <1>0, <1>1 DEF GuestInv, DeadlinesPermitted, Armed, ProcessQuiet, StartPending
<1> QED BY <1>0, <1>2, <1>3, <1>4, <1>5, <1>6, <1>7, <1>8 DEF GuestInv, NoJobKilled

(* A VM that comes up carries the grant of an earlier generation. *)
LEMMA BootGuest ==
    ASSUME ReadInv, GuestInv, UNCHANGED <<journalVars, processVars, clock, registered, jobLeft, killed>>,
           Starting,
           \/ vm' = BootedVm(vm) /\ startOp' = "succeeded"
           \/ vm' = [vm EXCEPT !.status = "stopped"]
    PROVE  GuestInv'
<1>0. /\ UNCHANGED <<journal, pending, pc, reply, input, clock, registered, jobLeft, killed>>
      /\ vm'.status \in {"running", "stopped"} /\ ~vm'.listener /\ ~vm'.worker
      /\ vm'.generation = vm.generation /\ vm'.deadline = vm.deadline
      /\ vm'.status = "running" => startOp' = "succeeded"
      /\ StartUnsent' <=> StartUnsent
      /\ StartPending' <=> StartPending
  <2>1. ~vm.listener /\ ~vm.worker
    BY DEF GuestInv, ProcessesMatch, Running, Starting
  <2>2. /\ BootedVm(vm).status = "running" /\ BootedVm(vm).generation = vm.generation
        /\ BootedVm(vm).deadline = vm.deadline /\ BootedVm(vm).listener = vm.listener
        /\ BootedVm(vm).worker = vm.worker
    BY GuestTyped DEF BootedVm, Vms
  <2> QED BY <2>1, <2>2, GuestTyped
          DEF Vms, journalVars, processVars, StartUnsent, StartPending
<1>1. /\ vm.generation < journal.startCount /\ ~StartUnsent
      /\ StartPending => journal.startCount >= 1
  BY PendingStartCounts
  DEF GuestInv, NewGenerationUnused, StartOfStopped, Starting
<1>2. NewGenerationUnused' /\ StartOfStopped'
  BY <1>0, <1>1, GuestTyped
  DEF GuestInv, NewGenerationUnused, DiskBehindJournal, StartOfStopped, Starting, Running,
      StartAccepted, StartPending
<1>3. OldGrantOverdue'
  <2>1. ~StartPending /\ Armed(vm) => Late
    BY DEF GuestInv, OldGrantOverdue, Starting, Running
  <2>2. Late => Late'
    BY <1>0 DEF Late
  <2> QED BY <1>0, <2>1, <2>2 DEF OldGrantOverdue, Armed, Starting, StartPending
<1>4. ProcessesMatch' /\ WindowEnds'
  BY <1>0, <1>1, GuestTyped DEF ProcessesMatch, WindowEnds, Running, Armed
<1>5. ReadStillTrue'
  <2>1. CreatedVm.status = "stopped"
    BY DEF CreatedVm, NoVm
  <2> QED BY <1>0, <2>1 DEF GuestInv, ReadStillTrue, Starting, Running, HasGrant
<1>6. DecidedOn'
  <2>1. CreatedVm.status = "stopped"
    BY DEF CreatedVm, NoVm
  <2> QED BY <1>0, <2>1 DEF GuestInv, DecidedOn, Starting
<1>7. DeadlinesPermitted'
  BY <1>0 DEF GuestInv, DeadlinesPermitted, Armed, StartPending
<1> QED BY <1>0, <1>2, <1>3, <1>4, <1>5, <1>6, <1>7 DEF GuestInv, NoJobKilled

(* job-start-hook.sh: the job it admits, and the margin, fit the window. *)
LEMMA AdmittedGuest ==
    ASSUME ReadInv, GuestInv, UNCHANGED <<journalVars, processVars, clock, registered, startOp, killed>>,
           vm.listener, HookAdmits(vm), vm' = [vm EXCEPT !.worker = TRUE], jobLeft' = MaxJob
    PROVE  GuestInv'
<1>0. /\ UNCHANGED <<journal, pending, clock, registered, killed, pc, input>> /\ ProcessQuiet
      /\ vm'.status = "running" /\ vm.status = "running" /\ vm'.listener
      /\ vm'.generation = vm.generation /\ vm'.deadline = vm.deadline
      /\ vm'.windowLeft = vm.windowLeft /\ vm.windowLeft >= MaxJob + ShutdownMargin
      /\ clock' \in Nat /\ clock' >= clock
  <2>1. vm.status = "running"
    BY DEF GuestInv, ProcessesMatch, Running
  <2> QED BY <2>1, WorldQuiet, GuestTyped DEF Vms, HookAdmits, journalVars, processVars
<1>1. NewGenerationUnused' /\ StartOfStopped'
  BY <1>0 DEF GuestInv, NewGenerationUnused, DiskBehindJournal, StartOfStopped, ProcessQuiet,
              Starting, Running, StartPending
<1>2. OldGrantOverdue'
  BY <1>0, LateLasts DEF GuestInv, OldGrantOverdue, Armed, Starting, Running, GrantMatches,
                         StartPending
<1>3. ProcessesMatch' /\ WindowEnds'
  BY <1>0 DEF GuestInv, ProcessesMatch, WindowEnds, Armed, Running, GrantMatches, StartPending
<1>4. ReadStillTrue' /\ DecidedOn'
  <2>1. CreatedVm.status = "stopped"
    BY DEF CreatedVm, NoVm
  <2> QED BY <1>0, <2>1 DEF GuestInv, ReadStillTrue, DecidedOn, ProcessQuiet, HasGrant, Armed,
                            Running, GrantMatches
<1>5. DeadlinesPermitted'
  BY <1>0 DEF GuestInv, DeadlinesPermitted, Armed, StartPending
<1> QED BY <1>0, <1>1, <1>2, <1>3, <1>4, <1>5 DEF GuestInv, NoJobKilled

LEMMA WorldGuest ==
    ASSUME ReadInv, GuestInv, Tick \/ JobStep \/ CloudStep \/ GuestStep
    PROVE  GuestInv'
<1>0. vm \in Vms /\ ~killed
  BY GuestTyped DEF GuestInv, NoJobKilled
<1>1. CASE JobArrives \/ JobWithdrawn \/ AssignJob \/ LoseJob
  <2>1. /\ UNCHANGED <<journalVars, processVars>>
        /\ UNCHANGED <<clock, vm, registered, jobLeft, killed, startOp>>
    BY <1>1 DEF JobArrives, JobWithdrawn, AssignJob, LoseJob, cloudVars
  <2> QED BY <2>1, WorldQuiet, VmSame
<1>2. CASE StartJob
  <2>1. UNCHANGED <<journalVars, processVars, clock, startOp, killed>> /\ vm.listener
    BY <1>2 DEF StartJob
  <2>2. CASE HookAdmits(vm)
    BY <1>2, <2>1, <2>2, AdmittedGuest DEF StartJob
  <2>3. CASE ~HookAdmits(vm)
    <3>1. /\ vm' = [vm EXCEPT !.listener = FALSE] /\ registered' = 0 /\ ~vm.worker
          /\ vm.status = "running" /\ ProcessQuiet
      BY <1>2, <2>1, <2>3, WorldQuiet DEF StartJob, GuestInv, ProcessesMatch, Running
    <3>2. /\ vm'.status = vm.status /\ vm'.generation = vm.generation
          /\ vm'.deadline = vm.deadline /\ vm'.windowLeft = vm.windowLeft
          /\ ~vm'.listener /\ vm'.worker = vm.worker
      BY <1>0, <3>1 DEF Vms
    <3> QED BY <1>0, <2>1, <3>1, <3>2, VmShrinks
  <2> QED BY <2>2, <2>3
<1>3. CASE FinishJob
  <2>1. /\ UNCHANGED <<journalVars, processVars, clock, startOp, killed>> /\ registered' = 0
        /\ vm' = [vm EXCEPT !.worker = FALSE, !.listener = FALSE] /\ vm.status = "running"
    BY <1>3 DEF FinishJob, GuestInv, ProcessesMatch, Running
  <2>2. /\ vm'.status = vm.status /\ vm'.generation = vm.generation
        /\ vm'.deadline = vm.deadline /\ vm'.windowLeft = vm.windowLeft
        /\ ~vm'.listener /\ ~vm'.worker
    BY <1>0, <2>1 DEF Vms
  <2> QED BY <1>0, <2>1, <2>2, WorldQuiet, VmShrinks
<1>4. CASE \E outcome : CreateSettles(outcome)
  <2>1. /\ UNCHANGED <<journalVars, processVars, clock, startOp, registered, jobLeft, killed>>
        /\ vm' = vm \/ (vm.status = "absent" /\ vm' = CreatedVm)
    BY <1>4 DEF CreateSettles, jobVars
  <2> QED BY <1>0, <2>1, WorldQuiet, VmSame, VmFresh
<1>5. CASE \E outcome : StartSettles(outcome)
  <2>1. /\ UNCHANGED <<journalVars, processVars, clock, registered, jobLeft, killed>>
        /\ Starting
        /\ \/ vm' = BootedVm(vm) /\ startOp' = "succeeded"
           \/ vm' = [vm EXCEPT !.status = "stopped"]
    BY <1>5 DEF StartSettles, Starting, jobVars
  <2> QED BY <1>0, <2>1, BootGuest
<1>6. CASE StopSettles
  <2>1. /\ UNCHANGED <<journalVars, processVars, clock, startOp, registered, jobLeft, killed>>
        /\ vm' = [vm EXCEPT !.status = "stopped"] /\ vm.status = "stopping"
    BY <1>6 DEF StopSettles, jobVars
  <2>2. ~vm.listener /\ ~vm.worker
    BY <2>1 DEF GuestInv, ProcessesMatch, Running
  <2>3. /\ vm'.status = "stopped" /\ vm'.generation = vm.generation
        /\ vm'.deadline = vm.deadline /\ vm'.windowLeft = vm.windowLeft
        /\ ~vm'.listener /\ ~vm'.worker
    BY <1>0, <2>1, <2>2 DEF Vms
  <2> QED BY <1>0, <2>1, <2>3, WorldQuiet, VmShrinks
<1>7. CASE DeleteSettles
  <2>1. /\ UNCHANGED <<journalVars, processVars, clock, startOp, registered, jobLeft, killed>>
        /\ vm' = NoVm /\ vm.status = "deleting"
    BY <1>7 DEF DeleteSettles, jobVars
  <2> QED BY <1>0, <2>1, WorldQuiet, VmFresh
<1>8. CASE GuestBootstrapped
  <2>1. /\ UNCHANGED <<journalVars, processVars, clock, startOp, registered, jobLeft, killed>>
        /\ vm' = [vm EXCEPT !.ready = TRUE] /\ vm.status = "running"
    BY <1>8 DEF GuestBootstrapped, jobVars
  <2>2. /\ vm'.status = vm.status /\ vm'.generation = vm.generation
        /\ vm'.deadline = vm.deadline /\ vm'.windowLeft = vm.windowLeft
        /\ vm'.listener = vm.listener /\ vm'.worker = vm.worker
    BY <1>0, <2>1 DEF Vms
  <2>3. vm.worker => vm.listener
    BY DEF GuestInv, ProcessesMatch
  <2> QED BY <1>0, <2>1, <2>2, <2>3, WorldQuiet, VmShrinks
<1>9. CASE WatchdogExpires \/ GuestFails
  <2>1. /\ UNCHANGED <<journalVars, processVars, clock, startOp, registered, jobLeft>>
        /\ vm' = ExpiredVm(vm) /\ vm.status = "running"
    BY <1>9 DEF WatchdogExpires, GuestFails, WatchdogDue, jobVars
  <2>2. /\ vm'.status = "stopped" /\ vm'.generation = vm.generation
        /\ vm'.deadline = vm.deadline /\ vm'.windowLeft = vm.windowLeft
        /\ ~vm'.listener /\ ~vm'.worker
    BY <1>0, <2>1 DEF Vms, ExpiredVm, PoweredOff
  <2>3. WatchdogDue(vm) => ~vm.worker
    BY GuestTyped DEF GuestInv, ProcessesMatch, WatchdogDue
  <2>4. \/ WatchdogDue(vm) /\ killed' = (killed \/ vm.worker)
        \/ killed' = killed
    BY <1>9 DEF WatchdogExpires, GuestFails, jobVars
  <2>5. ~killed'
    BY <1>0, <2>3, <2>4, Zenon
  <2> QED BY <2>1, <2>2, <2>5, WorldQuiet, VmShrinks
<1> QED BY <1>1, <1>2, <1>3, <1>4, <1>5, <1>6, <1>7, <1>8, <1>9, TickGuest
        DEF JobStep, CloudStep, GuestStep

-----------------------------------------------------------------------------
(* A request leaves the files and ends what the tick has read. *)
LEMMA RequestQuiet ==
    ASSUME ReadInv, pc = "emitting", \E r : Reply(r), startOp' = startOp,
           ~StartPending \/ reply' # "accepted"
    PROVE  ProcessQuiet
<1>1. UNCHANGED <<journal, pending>> /\ pc' = "replied"
  BY DEF Reply, journalVars
<1>2. StartUnsent' => StartUnsent
  BY <1>1 DEF StartUnsent, StartPending
<1>3. StartAccepted' => StartAccepted
  BY <1>1, Zenon DEF StartAccepted, StartPending
<1> QED BY <1>1, <1>2, <1>3 DEF ProcessQuiet

(* vm_start: the disk of the VM that comes up is of an earlier generation. *)
LEMMA StartGuest ==
    ASSUME ReadInv, GuestInv, ExecuteStart, OwnedVms = 1, vm.status = "stopped"
    PROVE  GuestInv'
<1>0. vm \in Vms /\ pc = "emitting" /\ pending.effect.type = "start-vm" /\ pending.stage = "emitting"
  BY GuestTyped DEF ExecuteStart, Executing, ReadInv, BootInv, TickIsCurrent
<1>1. /\ UNCHANGED <<journal, pending, clock, registered, jobLeft, killed>>
      /\ pc' = "replied" /\ reply' # "capacity" /\ startOp' = "running"
      /\ vm' = [vm EXCEPT !.status = "starting"]
  BY DEF ExecuteStart, AcceptedReply, ReplyMayBeLost, Reply, journalVars, jobVars
<1>2. /\ vm'.status = "starting" /\ vm'.generation = vm.generation /\ vm'.deadline = vm.deadline
      /\ ~vm'.listener /\ ~vm'.worker
  <2>1. ~vm.listener /\ ~vm.worker
    BY DEF GuestInv, ProcessesMatch, Running
  <2> QED BY <1>0, <1>1, <2>1 DEF Vms
<1>3. StartPending' /\ StartPending /\ StartUnsent /\ ~StartUnsent'
  BY <1>0, <1>1 DEF StartPending, StartUnsent
<1>4. NewGenerationUnused'
  BY <1>1, <1>2, <1>3 DEF GuestInv, NewGenerationUnused, DiskBehindJournal, Running
<1>5. StartOfStopped'
  BY <1>1, <1>2, <1>3 DEF GuestInv, StartOfStopped
<1>6. OldGrantOverdue' /\ ProcessesMatch' /\ WindowEnds' /\ ReadStillTrue'
  BY <1>1, <1>2, <1>3 DEF OldGrantOverdue, ProcessesMatch, WindowEnds, ReadStillTrue, Running
<1>7. DecidedOn'
  BY <1>0, <1>1 DEF DecidedOn
<1>8. DeadlinesPermitted'
  BY <1>1, <1>2, <1>3 DEF GuestInv, DeadlinesPermitted, Armed
<1> QED BY <1>1, <1>4, <1>5, <1>6, <1>7, <1>8 DEF GuestInv, NoJobKilled

(* A VM is stopped only without a job: drained, or past its whole window. *)
LEMMA StopFindsNoJob ==
    ASSUME ReadInv, GuestInv, pending.effect.type = "stop-vm"
    PROVE  ~vm.worker
<1> SUFFICES ASSUME vm.worker PROVE FALSE
  OBVIOUS
<1>1. /\ Running /\ Armed(vm) /\ GrantMatches /\ vm.listener
      /\ vm.windowLeft >= jobLeft + ShutdownMargin
  BY DEF GuestInv, ProcessesMatch
<1>2. journal.grantDeadline <= clock
  BY <1>1 DEF GuestInv, DecidedOn
<1>3. vm.windowLeft > 0
  BY <1>1, GuestTyped
<1>4. clock + vm.windowLeft <= vm.deadline
  BY <1>1, <1>3 DEF GuestInv, WindowEnds, GrantMatches
<1> QED BY <1>1, <1>2, <1>3, <1>4, GuestTyped DEF GrantMatches, OptionalTimes, None

(* vm_delete: a VM that is off goes, its registration with it. *)
LEMMA DeleteGuest ==
    ASSUME ReadInv, GuestInv, UNCHANGED <<journal, pending, clock, jobLeft, killed>>,
           pending.effect.type = "delete-vm", vm.status = "stopped", pc' = "replied",
           vm' = [vm EXCEPT !.status = "deleting"]
    PROVE  GuestInv'
<1>1. /\ vm'.status = "deleting" /\ vm'.generation = vm.generation /\ vm'.deadline = vm.deadline
      /\ ~vm'.listener /\ ~vm'.worker
  <2>1. ~vm.listener /\ ~vm.worker
    BY DEF GuestInv, ProcessesMatch, Running
  <2> QED BY <2>1, GuestTyped DEF Vms
<1>2. ~StartPending' /\ ~StartUnsent' /\ ~StartAccepted' /\ ~Starting' /\ ~Running'
  BY <1>1 DEF StartPending, StartUnsent, StartAccepted, Starting, Running
<1>3. NewGenerationUnused' /\ StartOfStopped' /\ OldGrantOverdue' /\ ProcessesMatch' /\ WindowEnds'
  BY <1>1, <1>2
  DEF GuestInv, NewGenerationUnused, DiskBehindJournal, StartOfStopped, OldGrantOverdue,
      ProcessesMatch, WindowEnds
<1>4. ReadStillTrue' /\ DecidedOn'
  BY DEF ReadStillTrue, DecidedOn
<1>5. DeadlinesPermitted'
  BY <1>1, <1>2 DEF GuestInv, DeadlinesPermitted, Armed
<1> QED BY <1>3, <1>4, <1>5 DEF GuestInv, NoJobKilled

(* guest_register: the runner it leaves listens on the journal's grant. *)
LEMMA RegisterGuest ==
    ASSUME ReadInv, GuestInv, ProcessQuiet, UNCHANGED <<clock, jobLeft, killed>>,
           pending.effect.type = "register-runner", vm.status = "running", ~vm.listener,
           vm' = RegisteredVm(vm), registered' = RunnerGeneration, pc' = "replied"
    PROVE  GuestInv'
<1>0. /\ UNCHANGED <<journal, pending>> /\ clock' \in Nat /\ clock' >= clock
      /\ vm'.status = vm.status /\ vm'.generation = vm.generation /\ vm'.deadline = vm.deadline
      /\ vm'.windowLeft = vm.windowLeft /\ ~vm'.worker
  <2>1. ~vm.worker
    BY DEF GuestInv, ProcessesMatch
  <2> QED BY <2>1, GuestTyped DEF ProcessQuiet, RegisteredVm, Vms
<1>1. Armed(vm) /\ GrantMatches /\ ~StartPending
  BY DEF GuestInv, DecidedOn, Running, StartPending
<1>2. registered' = vm.generation
  BY <1>1, GuestTyped DEF RunnerGeneration, Larger, Armed, GrantMatches
<1>3. NewGenerationUnused' /\ StartOfStopped'
  BY <1>0 DEF GuestInv, NewGenerationUnused, DiskBehindJournal, StartOfStopped, ProcessQuiet,
              Starting, Running, StartPending
<1>4. OldGrantOverdue'
  BY <1>0, LateLasts DEF GuestInv, OldGrantOverdue, Armed, Starting, Running, GrantMatches,
                         StartPending
<1>5. ProcessesMatch' /\ WindowEnds'
  BY <1>0, <1>1, <1>2
  DEF GuestInv, ProcessesMatch, WindowEnds, Armed, Running, GrantMatches, StartPending
<1>6. ReadStillTrue' /\ DecidedOn'
  BY <1>0 DEF GuestInv, ReadStillTrue, DecidedOn, Armed, Running, GrantMatches
<1>7. DeadlinesPermitted'
  BY <1>0 DEF GuestInv, DeadlinesPermitted, Armed, StartPending
<1> QED BY <1>3, <1>4, <1>5, <1>6, <1>7 DEF GuestInv, NoJobKilled

LEMMA ExecuteGuest ==
    ASSUME ReadInv, GuestInv, ExecuteStep
    PROVE  GuestInv'
<1>0. vm \in Vms /\ ~killed /\ pc = "emitting" /\ (vm.worker => vm.listener)
  BY GuestTyped
  DEF ExecuteStep, RequestFails, RefusedForCapacity, ExecuteCreate, ExecuteStart, ExecuteStop,
      ExecuteDelete, ExecuteRegister, ExecuteDrain, ExecuteResume, Executing, GuestInv, NoJobKilled,
      ProcessesMatch
<1>1. \E r : Reply(r)
  BY DEF ExecuteStep, RequestFails, RefusedForCapacity, ExecuteCreate, ExecuteStart,
         ExecuteStop, ExecuteDelete, ExecuteRegister, ExecuteDrain, ExecuteResume, Refused,
         AcceptedReply, ReplyMayBeLost
<1>2. UNCHANGED <<journal, pending, clock>> /\ pc' = "replied"
  BY <1>1 DEF Reply, journalVars
<1>3. CASE \E r \in {"error", "capacity"} : Refused(r)
  <2>1. UNCHANGED <<vm, registered, jobLeft, killed, startOp>> /\ reply' # "accepted"
    BY <1>3 DEF Refused, Reply, cloudVars, jobVars
  <2> QED BY <1>0, <1>1, <1>2, <2>1, RequestQuiet, VmSame
<1>4. CASE ExecuteCreate /\ CanCreate
  <2>1. UNCHANGED <<vm, registered, jobLeft, killed, startOp>> /\ ~StartPending
    BY <1>4 DEF ExecuteCreate, Executing, StartPending, jobVars
  <2> QED BY <1>0, <1>1, <1>2, <2>1, RequestQuiet, VmSame
<1>5. CASE ExecuteStop /\ OwnedVms = 1 /\ vm.status = "running"
  <2>1. /\ vm' = PoweredOff(vm, "stopping") /\ killed' = (killed \/ vm.worker)
        /\ UNCHANGED <<registered, jobLeft, startOp>> /\ pending.effect.type = "stop-vm"
    BY <1>5 DEF ExecuteStop, Executing
  <2>2. ~vm.worker
    BY <2>1, StopFindsNoJob
  <2>3. ~killed'
    BY <1>0, <2>1, <2>2, Zenon
  <2>4. /\ vm'.status = "stopping" /\ vm'.generation = vm.generation
        /\ vm'.deadline = vm.deadline /\ vm'.windowLeft = vm.windowLeft
        /\ ~vm'.listener /\ ~vm'.worker
    BY <1>0, <2>1 DEF PoweredOff, Vms
  <2>5. ProcessQuiet
    BY <1>0, <1>1, <2>1, RequestQuiet DEF StartPending
  <2> QED BY <1>2, <1>5, <2>1, <2>3, <2>4, <2>5, VmShrinks
<1>6. CASE /\ ExecuteDelete /\ OwnedVms = 1 /\ vm.status = "stopped"
           /\ CleanupPermit(permit, clock) /\ CanRemoveRegistration
  <2>1. /\ vm' = [vm EXCEPT !.status = "deleting"] /\ UNCHANGED <<jobLeft, killed>>
        /\ pending.effect.type = "delete-vm"
    BY <1>6 DEF ExecuteDelete, Executing
  <2> QED BY <1>2, <1>6, <2>1, DeleteGuest
<1>7. CASE /\ ExecuteRegister /\ OwnedVms = 1 /\ vm.status = "running" /\ ValidPermit(permit, clock)
           /\ "register" \in permit.ops /\ CanRegister(vm) /\ ~RunnerOwned
  <2>1. /\ vm' = RegisteredVm(vm) /\ registered' = RunnerGeneration
        /\ UNCHANGED <<jobLeft, killed, startOp>> /\ pending.effect.type = "register-runner"
        /\ ~vm.listener
    BY <1>7 DEF ExecuteRegister, Executing, CanRegister
  <2>2. ProcessQuiet
    BY <1>0, <1>1, <2>1, RequestQuiet DEF StartPending
  <2> QED BY <1>2, <1>7, <2>1, <2>2, RegisterGuest
<1>8. CASE ExecuteDrain /\ OwnedVms = 1 /\ vm.status = "running"
  <2>1. /\ vm' = DrainedVm(vm) /\ UNCHANGED <<jobLeft, killed, startOp>>
        /\ registered' \in {0, registered} /\ pending.effect.type = "begin-drain"
    BY <1>8 DEF ExecuteDrain, Executing, RemoveRegistration
  <2>2. /\ vm'.status = vm.status /\ vm'.generation = vm.generation
        /\ vm'.deadline = vm.deadline /\ vm'.windowLeft = vm.windowLeft
        /\ vm'.worker = vm.worker /\ (vm'.listener <=> vm.listener /\ vm.worker)
    BY <1>0, <2>1 DEF DrainedVm, DrainRefused, Vms
  <2>3. ProcessQuiet
    BY <1>0, <1>1, <2>1, RequestQuiet DEF StartPending
  <2> QED BY <1>0, <1>2, <1>8, <2>1, <2>2, <2>3, VmShrinks
<1>9. CASE ExecuteResume /\ OwnedVms = 1 /\ vm.status = "running" /\ CanResume(vm)
  <2>1. /\ vm' = ResumedVm(vm) /\ UNCHANGED <<registered, jobLeft, killed, startOp>>
        /\ pending.effect.type = "resume-admission"
    BY <1>9 DEF ExecuteResume, Executing, jobVars
  <2>2. /\ vm'.status = vm.status /\ vm'.generation = vm.generation
        /\ vm'.deadline = vm.deadline /\ vm'.windowLeft = vm.windowLeft
        /\ vm'.worker = vm.worker /\ vm'.listener = vm.listener
    BY <1>0, <2>1 DEF ResumedVm, Vms
  <2>3. ProcessQuiet
    BY <1>0, <1>1, <2>1, RequestQuiet DEF StartPending
  <2> QED BY <1>0, <1>2, <1>9, <2>1, <2>2, <2>3, VmShrinks
<1> QED BY <1>3, <1>4, <1>5, <1>6, <1>7, <1>8, <1>9, StartGuest
        DEF ExecuteStep, RequestFails, RefusedForCapacity, ExecuteCreate, ExecuteStart,
            ExecuteStop, ExecuteDelete, ExecuteRegister, ExecuteDrain, ExecuteResume

-----------------------------------------------------------------------------
(* What is not the process's: a step of tickController leaves it alone. *)
WorldStill == UNCHANGED <<vm, clock, startOp, registered, jobLeft, killed>>

LEMMA StepIsStill ==
    ASSUME UNCHANGED <<cloudVars, jobVars, clock>>
    PROVE  WorldStill
BY DEF WorldStill, cloudVars, jobVars

(* A step that keeps count, deadline and effect and reads nothing anew. *)
LEMMA EffectKept ==
    ASSUME ReadInv, GuestInv, WorldStill,
           journal'.startCount = journal.startCount,
           journal'.grantDeadline = journal.grantDeadline,
           pending'.effect = pending.effect,
           StartUnsent' => StartUnsent, StartAccepted' => StartAccepted,
           Late => Late', ReadStillTrue'
    PROVE  GuestInv'
<1>0. UNCHANGED <<vm, clock, registered, jobLeft, killed>> /\ (StartPending' <=> StartPending)
  BY DEF WorldStill, StartPending
<1>1. NewGenerationUnused' /\ StartOfStopped'
  BY <1>0 DEF GuestInv, NewGenerationUnused, DiskBehindJournal, StartOfStopped, Starting, Running
<1>2. OldGrantOverdue'
  BY <1>0 DEF GuestInv, OldGrantOverdue, Starting, Running, GrantMatches
<1>3. ProcessesMatch' /\ WindowEnds' /\ DeadlinesPermitted'
  BY <1>0 DEF GuestInv, ProcessesMatch, WindowEnds, DeadlinesPermitted, Running, GrantMatches
<1>4. DecidedOn'
  BY <1>0 DEF GuestInv, DecidedOn, GrantMatches, Running
<1> QED BY <1>0, <1>1, <1>2, <1>3, <1>4 DEF GuestInv, NoJobKilled

(* The tick ends without an effect, and a running VM of another generation *)
(* than the journal's is overdue.                                          *)
LEMMA EffectEnds ==
    ASSUME ReadInv, GuestInv, WorldStill,
           journal'.startCount = journal.startCount,
           journal'.grantDeadline = journal.grantDeadline,
           pending'.effect.type = "none", pc' \notin {"observing", "observed"},
           StartPending => Late' \/ (Running /\ GrantMatches)
    PROVE  GuestInv'
<1>0. /\ UNCHANGED <<vm, clock, registered, jobLeft, killed>>
      /\ ~StartPending' /\ ~StartUnsent' /\ ~StartAccepted'
  BY DEF WorldStill, StartPending, StartUnsent, StartAccepted
<1>1. NewGenerationUnused' /\ StartOfStopped'
  BY <1>0 DEF GuestInv, NewGenerationUnused, DiskBehindJournal, StartOfStopped, Starting
<1>2. OldGrantOverdue'
  BY <1>0 DEF GuestInv, OldGrantOverdue, Starting, Running, GrantMatches, Late
<1>3. ProcessesMatch' /\ WindowEnds' /\ DeadlinesPermitted'
  BY <1>0 DEF GuestInv, ProcessesMatch, WindowEnds, DeadlinesPermitted, Running, GrantMatches
<1>4. DecidedOn' /\ ReadStillTrue'
  BY DEF DecidedOn, ReadStillTrue
<1> QED BY <1>0, <1>1, <1>2, <1>3, <1>4 DEF GuestInv, NoJobKilled

(* The VM is off and no start is pending any more. *)
LEMMA OffGuest ==
    ASSUME ReadInv, GuestInv, WorldStill, ~Starting, ~Running,
           pending'.effect.type \in {"none", "delete-vm"}, pc' \notin {"observing", "observed"},
           vm.generation <= journal'.startCount
    PROVE  GuestInv'
<1>0. /\ UNCHANGED <<vm, clock, registered, jobLeft, killed>> /\ ~Starting' /\ ~Running'
      /\ ~StartPending' /\ ~StartUnsent' /\ ~StartAccepted'
  BY DEF WorldStill, StartPending, StartUnsent, StartAccepted, Starting, Running
<1>1. NewGenerationUnused' /\ StartOfStopped' /\ OldGrantOverdue' /\ WindowEnds'
  BY <1>0 DEF NewGenerationUnused, DiskBehindJournal, StartOfStopped, OldGrantOverdue, WindowEnds
<1>2. ProcessesMatch' /\ DeadlinesPermitted'
  BY <1>0 DEF GuestInv, ProcessesMatch, DeadlinesPermitted
<1>3. DecidedOn' /\ ReadStillTrue'
  BY DEF DecidedOn, ReadStillTrue
<1> QED BY <1>0, <1>1, <1>2, <1>3 DEF GuestInv, NoJobKilled

-----------------------------------------------------------------------------
(* What a guest read says of a running VM. *)
LEMMA ReportIsTrue ==
    ASSUME ReadInv, NEW provider \in Providers, NEW r \in BOOLEAN,
           provider.vmStatus = "running"
    PROVE  LET g == GuestView(provider, r)
           IN  /\ g.grant.generation # 0 => Armed(vm)
               /\ g.status = "drained" => ~vm.listener
<1>1. /\ StatusReport(vm).grant.generation # 0 => Armed(vm)
      /\ StatusReport(vm).status = "drained" => ~vm.listener
  <2>1. /\ NoGrant.generation = 0 /\ GrantOnDisk(vm).generation = vm.generation
        /\ \A s, g : SilentReport(s, g).grant = g /\ SilentReport(s, g).status = s
    BY DEF NoGrant, GrantOnDisk, SilentReport
  <2> HIDE DEF GrantOnDisk, YesNo
  <2> QED BY <2>1 DEF StatusReport, Armed
<1>2. UnknownGuest.grant.generation = 0 /\ UnknownGuest.status = "unknown"
  BY DEF UnknownGuest, NoGrant
<1>3. [UnknownGuest EXCEPT !.status = @] = UnknownGuest
  BY ObservationsTyped DEF Guests
<1> QED BY <1>1, <1>2, <1>3 DEF GuestView

LEMMA ObservationGuest ==
    ASSUME ReadInv, GuestInv, ObserveCloud \/ ObserveGuest
    PROVE  GuestInv'
<1>0. WorldStill /\ UNCHANGED <<journal, pending, reply>> /\ input \in Inputs
  BY ReadTyped, StepIsStill DEF ObserveCloud, ObserveGuest, journalVars
<1>1. CASE ObserveCloud
  <2>1. /\ pc' = "observing" /\ input'.now = clock
        /\ input'.provider \in {ProviderView, UnknownProvider}
    BY <1>1, ObservationsTyped DEF ObserveCloud, NoInput, Inputs
  <2>2. /\ ProviderView.vmStatus = "stopped" => vm.status = "stopped"
        /\ ProviderView.vmStatus = "absent" => vm.status = "absent"
        /\ ProviderView.vmStatus = "running" => vm.status = "running"
        /\ UnknownProvider.vmStatus = "unknown"
    BY DEF ProviderView, UnknownProvider
  <2>3. ReadStillTrue'
    BY <1>0, <2>1, <2>2 DEF ReadStillTrue, WorldStill
  <2>4. Late => Late'
    BY <1>0, <2>1 DEF Late, WorldStill
  <2>5. StartUnsent' => StartUnsent
    BY <1>0, <2>1 DEF StartUnsent, StartPending
  <2>6. StartAccepted' => StartAccepted
    BY <1>0, <2>1, Zenon DEF StartAccepted, StartPending, WorldStill
  <2> QED BY <1>0, <2>3, <2>4, <2>5, <2>6, EffectKept
<1>2. CASE ObserveGuest
  <2>1. /\ pc = "observing" /\ pc' = "observed" /\ input.provider \in Providers
    BY <1>0, <1>2 DEF ObserveGuest, Inputs
  <2>2. PICK r \in BOOLEAN : \E q, j :
           input' = [input EXCEPT !.guest = GuestView(input.provider, r), !.queue = q, !.journal = j]
    BY <1>2, Zenon DEF ObserveGuest
  <2>3. PICK q, j :
           input' = [input EXCEPT !.guest = GuestView(input.provider, r), !.queue = q, !.journal = j]
    BY <2>2
  <2> DEFINE guest == GuestView(input.provider, r)
  <2>4. input.provider.vmStatus = "running" =>
           (guest.grant.generation # 0 => Armed(vm)) /\ (guest.status = "drained" => ~vm.listener)
    BY <2>1, ReportIsTrue
  <2> HIDE DEF guest
  <2>5. /\ input'.provider = input.provider /\ input'.now = input.now /\ input'.guest = guest
    BY <1>0, <2>3 DEF guest, Inputs
  <2>6. ReadStillTrue'
    BY <1>0, <2>1, <2>4, <2>5 DEF GuestInv, ReadStillTrue, WorldStill, HasGrant, Armed
  <2>7. Late => Late'
    BY <1>0, <2>1, <2>5 DEF Late, WorldStill
  <2>8. StartUnsent' => StartUnsent
    BY <1>0, <2>1 DEF StartUnsent, StartPending
  <2>9. StartAccepted' => StartAccepted
    BY <1>0, <2>1, Zenon DEF StartAccepted, StartPending, WorldStill
  <2> QED BY <1>0, <2>6, <2>7, <2>8, <2>9, EffectKept
<1> QED BY <1>1, <1>2

-----------------------------------------------------------------------------
(* A tick that decides nothing writes its copy of the journal back. *)
LEMMA NothingGuest ==
    ASSUME ReadInv, GuestInv, DecideNothing
    PROVE  GuestInv'
<1>1. /\ WorldStill /\ pc' = "idle" /\ pending'.effect.type = "none" /\ ~StartPending
  BY StepIsStill DEF DecideNothing, Idle, HasPending, StartPending
<1>2. journal'.startCount = journal.startCount /\ journal'.grantDeadline = journal.grantDeadline
  BY ReadTyped, ObservedTick DEF DecideNothing, ReadInv, CopyOfDisk
<1> QED BY <1>1, <1>2, EffectEnds

(* A start is decided for a VM that is off, and takes a new generation. *)
LEMMA StartIntentGuest ==
    ASSUME ReadInv, GuestInv, WorldStill, vm.status = "stopped",
           pending'.effect.type = "start-vm", pc' = "intent",
           journal'.startCount = journal.startCount + 1,
           journal'.grantDeadline = pending'.effect.deadline,
           \E p \in Permits : pending'.effect.deadline <= p.expires
    PROVE  GuestInv'
<1>0. /\ UNCHANGED <<vm, clock, registered, jobLeft, killed>> /\ ~Starting' /\ ~Running'
      /\ StartPending' /\ ~vm.listener /\ ~vm.worker
  BY DEF WorldStill, StartPending, Starting, Running, GuestInv, ProcessesMatch
<1>1. vm.generation < journal'.startCount
  BY GuestTyped DEF GuestInv, NewGenerationUnused, DiskBehindJournal
<1>2. NewGenerationUnused' /\ StartOfStopped'
  BY <1>0, <1>1, GuestTyped DEF NewGenerationUnused, DiskBehindJournal, StartOfStopped
<1>3. OldGrantOverdue' /\ ProcessesMatch' /\ WindowEnds' /\ ReadStillTrue' /\ DecidedOn'
  BY <1>0 DEF OldGrantOverdue, ProcessesMatch, WindowEnds, ReadStillTrue, DecidedOn
<1>4. DeadlinesPermitted'
  BY <1>0 DEF GuestInv, DeadlinesPermitted, Armed
<1> QED BY <1>0, <1>2, <1>3, <1>4 DEF GuestInv, NoJobKilled

(* A runner is registered only with a VM of the journal's generation: one   *)
(* that came up with an older grant is overdue, which stops it first.       *)
LEMMA RegisterDecidedOn ==
    ASSUME ReadInv, GuestInv, pc = "observed", ~HasPending, Running,
           input.provider.vmStatus = "running", HasGrant(input), OwnedOne(input),
           ~LifetimeReached(input)
    PROVE  Armed(vm) /\ GrantMatches
<1>1. Armed(vm) /\ ~StartPending
  BY DEF GuestInv, ReadStillTrue, HasPending, StartPending
<1>2. (Running /\ GrantMatches) \/ Late
  BY <1>1 DEF GuestInv, OldGrantOverdue
<1>3. /\ input.journal.grantDeadline = journal.grantDeadline
      /\ input.journal.startCount = journal.startCount /\ input.journal.intent.type = "none"
  BY ReadTyped, ObservedTick, ConstantsTyped DEF ReadInv, CopyOfDisk, IInv, JournalConsistent
<1>4. journal.startCount > 0
  BY <1>1, GuestTyped DEF GuestInv, NewGenerationUnused, DiskBehindJournal, Armed
<1>5. ~Late
  BY <1>3, <1>4, GuestTyped DEF Late, LifetimeReached, PastDeadline, OptionalTimes, None
<1> QED BY <1>1, <1>2, <1>5

(* Any other effect leaves the count, and only a create drops the deadline. *)
LEMMA OtherIntentGuest ==
    ASSUME ReadInv, GuestInv, WorldStill, pc = "observed", ~HasPending,
           pending'.effect.type # "start-vm", pc' = "intent", Based(input, pending'.effect),
           journal'.startCount = journal.startCount,
           \/ journal'.grantDeadline = journal.grantDeadline
           \/ pending'.effect.type = "create-vm"
    PROVE  GuestInv'
<1>0. /\ UNCHANGED <<vm, clock, registered, jobLeft, killed>> /\ ~StartPending
      /\ ~StartPending' /\ ~StartUnsent' /\ ~StartAccepted'
  BY DEF WorldStill, HasPending, StartPending, StartUnsent, StartAccepted
<1>1. pending'.effect.type = "create-vm" => vm.status = "absent" \/ vm = CreatedVm
  BY DEF Based, GuestInv, ReadStillTrue
<1>2. pending'.effect.type = "create-vm" => ~Starting /\ ~Running /\ ~vm.listener
  <2>1. CreatedVm.status = "stopped"
    BY DEF CreatedVm, NoVm
  <2> QED BY <1>1, <2>1 DEF Starting, Running, GuestInv, ProcessesMatch
<1>3. NewGenerationUnused' /\ StartOfStopped'
  BY <1>0 DEF GuestInv, NewGenerationUnused, DiskBehindJournal, StartOfStopped, Starting
<1>4. OldGrantOverdue'
  BY <1>0, <1>2 DEF GuestInv, OldGrantOverdue, Starting, Running, GrantMatches, Late
<1>5. ProcessesMatch' /\ WindowEnds' /\ DeadlinesPermitted'
  BY <1>0, <1>2 DEF GuestInv, ProcessesMatch, WindowEnds, DeadlinesPermitted, Running, GrantMatches
<1>6. DecidedOn'
  <2>1. pending'.effect.type = "register-runner" =>
           /\ vm.status \in {"running", "stopped"}
           /\ Running => Armed(vm) /\ GrantMatches
    BY RegisterDecidedOn DEF Based, GuestInv, ReadStillTrue
  <2>2. pending'.effect.type = "stop-vm" =>
           IF pending'.effect.emergency
           THEN journal.grantDeadline # None /\ journal.grantDeadline <= clock
           ELSE ~vm.listener
    <3>1. PastDeadline(input) => journal.grantDeadline # None /\ journal.grantDeadline <= clock
      BY GuestTyped DEF PastDeadline, ReadInv, CopyOfDisk, OptionalTimes, None
    <3>2. input.provider.vmStatus = "running" /\ input.guest.status = "drained" => ~vm.listener
      BY DEF GuestInv, ReadStillTrue, ProcessesMatch
    <3> QED BY <3>1, <3>2 DEF Based
  <2> QED BY <1>0, <1>1, <2>1, <2>2 DEF DecidedOn, GrantMatches, Running
<1>7. ReadStillTrue'
  BY DEF ReadStillTrue
<1> QED BY <1>0, <1>3, <1>4, <1>5, <1>6, <1>7 DEF GuestInv, NoJobKilled

LEMMA DecisionGuest ==
    ASSUME ReadInv, GuestInv, RecordDecision
    PROVE  GuestInv'
<1> DEFINE d == DecideLifecycle(input)
           e == d.effect
<1>1. pc = "observed" /\ ~HasPending /\ WriteIntent(input.journal, d) /\ WorldStill /\ IInv
  BY ReadTyped, StepIsStill DEF RecordDecision
<1>2. /\ input \in Inputs /\ input.journal \in Journals
      /\ input.journal.startCount = journal.startCount
      /\ input.journal.grantDeadline = journal.grantDeadline
  BY <1>1, ObservedTick DEF ReadInv, CopyOfDisk
<1>3. input.journal.intent.type = "none"
  BY <1>1, ObservedTick, ConstantsTyped DEF IInv, JournalConsistent
<1>4. Based(input, e) /\ Admissible(input, d)
  BY <1>2, <1>3, DecisionBased, DecisionAdmissible
<1> HIDE DEF d
<1>5. pc' = "intent" /\ pending'.effect = e
  BY <1>1 DEF WriteIntent
<1>6. /\ journal'.startCount = IF e.type = "start-vm" THEN e.generation ELSE journal.startCount
      /\ journal'.grantDeadline = IF e.type = "start-vm" THEN e.deadline
                                  ELSE IF e.type = "create-vm" THEN None
                                  ELSE journal.grantDeadline
  BY <1>1, <1>2 DEF WriteIntent, ApplyDecision, Journals
<1>7. CASE e.type = "start-vm"
  <2>1. vm.status = "stopped" /\ e.deadline <= input.permit.expires
    BY <1>1, <1>4, <1>7 DEF Based, GuestInv, ReadStillTrue
  <2>2. input.permit \in Permits
    BY <1>1 DEF ReadInv, BootInv, TickIsCurrent, IInv, TypeOK, ProcessTypeOK
  <2>3. journal'.startCount = journal.startCount + 1
    BY <1>2, <1>4, <1>6, <1>7 DEF Admissible
  <2> QED BY <1>1, <1>5, <1>6, <1>7, <2>1, <2>2, <2>3, StartIntentGuest
<1>8. CASE e.type # "start-vm"
  BY <1>1, <1>4, <1>5, <1>6, <1>8, OtherIntentGuest
<1> QED BY <1>7, <1>8

(* An abandoned start leaves its VM overdue. *)
LEMMA AbandonGuest ==
    ASSUME ReadInv, GuestInv, AbandonPending
    PROVE  GuestInv'
<1>1. /\ WorldStill /\ pc' = "idle" /\ pending'.effect.type = "none" /\ CanAbandon
  BY StepIsStill, NothingPending DEF AbandonPending, Idle
<1>2. journal'.startCount = journal.startCount /\ journal'.grantDeadline = journal.grantDeadline
  BY ReadTyped DEF AbandonPending, Journals
<1>3. StartPending => Late'
  <2>1. SUFFICES ASSUME StartPending PROVE Late'
    OBVIOUS
  <2>2. pending.effectDeadline # None /\ input.now > pending.effectDeadline
    BY <1>1 DEF CanAbandon, PendingEffectIsStale
  <2>3. journal.grantDeadline = pending.effectDeadline
    BY <2>1, PendingStartCounts DEF GuestInv, StartOfStopped
  <2> QED BY <1>1, <1>2, <2>2, <2>3, GuestTyped DEF Late, WorldStill, OptionalTimes, None
<1> QED BY <1>1, <1>2, <1>3, EffectEnds

LEMMA MarkGuest ==
    ASSUME ReadInv, NEW status, journal' = MarkIntent(status),
           pending' = [pending EXCEPT !.status = status]
    PROVE  /\ journal'.startCount = journal.startCount
           /\ journal'.grantDeadline = journal.grantDeadline
           /\ pending'.effect = pending.effect /\ pending'.stage = pending.stage
           /\ pending'.operationId = pending.operationId
BY ReadTyped DEF MarkIntent, Journals, PendingEffects

(* A step that keeps the pending effect and ends the tick or goes on to the *)
(* request: an unsent start stays unsent or is sent.                        *)
LEMMA EffectWaits ==
    ASSUME ReadInv, GuestInv, WorldStill,
           journal'.startCount = journal.startCount,
           journal'.grantDeadline = journal.grantDeadline,
           pending'.effect = pending.effect,
           pending'.stage = pending.stage, pc' \in {"idle", "down"},
           pending'.operationId => pending.operationId \/ (pc = "replied" /\ reply = "accepted")
    PROVE  GuestInv'
<1>1. StartPending' <=> StartPending
  BY DEF StartPending
<1>2. StartUnsent' => StartUnsent
  BY <1>1 DEF StartUnsent
<1>3. StartAccepted' => StartAccepted
  <2>1. startOp' = startOp /\ pc' # "replied"
    BY DEF WorldStill
  <2> QED BY <1>1, <2>1, Zenon DEF StartAccepted
<1>4. Late => Late'
  BY DEF Late, WorldStill
<1>5. ReadStillTrue'
  BY DEF ReadStillTrue
<1> QED BY <1>2, <1>3, <1>4, <1>5, EffectKept

LEMMA EmitGuest ==
    ASSUME ReadInv, GuestInv, EmitIntent
    PROVE  GuestInv'
<1>1. /\ WorldStill /\ pc' = "emitting" /\ UNCHANGED journal /\ pending.stage = "intent"
      /\ pending'.effect = pending.effect /\ pending'.operationId = pending.operationId
  BY ReadTyped, StepIsStill DEF EmitIntent, PendingEffects
<1>2. StartPending' <=> StartPending
  BY <1>1 DEF StartPending
<1>3. StartUnsent' => StartUnsent
  BY <1>1, <1>2 DEF StartUnsent
<1>4. StartAccepted' => StartAccepted
  <2>1. startOp' = startOp /\ pc' # "replied"
    BY <1>1 DEF WorldStill
  <2> QED BY <1>1, <1>2, <2>1, Zenon DEF StartAccepted
<1>5. Late => Late'
  BY <1>1 DEF Late, WorldStill
<1>6. ReadStillTrue'
  BY <1>1 DEF ReadStillTrue
<1> QED BY <1>1, <1>3, <1>4, <1>5, <1>6, EffectKept

LEMMA TickStepGuest ==
    ASSUME ReadInv, GuestInv, TickStep
    PROVE  GuestInv'
<1>1. CASE BlockPending
  <2>1. /\ journal' = MarkIntent("blocked") /\ pending' = [pending EXCEPT !.status = "blocked"]
        /\ pc' = "idle" /\ WorldStill
    BY <1>1, StepIsStill DEF BlockPending, Idle
  <2> QED BY <2>1, MarkGuest, EffectWaits
<1> QED BY <1>1, ObservationGuest, NothingGuest, DecisionGuest, AbandonGuest, EmitGuest DEF TickStep

-----------------------------------------------------------------------------
(* Only a registration is resolved by its own answer. *)
ResolvedIsRegistration ==
    pc = "replied" /\ reply = "resolved" => pending.effect.type = "register-runner"

LEMMA RegistrationResolves ==
    ASSUME ReadInv, ResolvedIsRegistration, [Next]_vars
    PROVE  ResolvedIsRegistration'
<1>1. CASE UNCHANGED vars
  BY <1>1 DEF vars, ResolvedIsRegistration
<1>2. CASE Tick \/ JobStep \/ CloudStep \/ GuestStep
  <2>1. UNCHANGED <<journalVars, processVars>>
    BY <1>2 DEF Tick, JobStep, JobArrives, JobWithdrawn, AssignJob, StartJob, FinishJob, LoseJob,
                CloudStep, CreateSettles, StartSettles, StopSettles, DeleteSettles,
                GuestStep, GuestBootstrapped, WatchdogExpires, GuestFails
  <2> QED BY <2>1 DEF journalVars, processVars, ResolvedIsRegistration
<1>3. CASE ExecuteStep
  <2>1. UNCHANGED pending
    BY <1>3
    DEF ExecuteStep, RequestFails, RefusedForCapacity, ExecuteCreate, ExecuteStart, ExecuteStop,
        ExecuteDelete, ExecuteRegister, ExecuteDrain, ExecuteResume, Refused, AcceptedReply,
        ReplyMayBeLost, Reply, journalVars
  <2>2. CASE ExecuteRegister
    BY <2>1, <2>2 DEF ExecuteRegister, Executing, ResolvedIsRegistration
  <2>3. CASE ~ExecuteRegister
    <3>1. reply' # "resolved"
      BY <1>3, <2>3
      DEF ExecuteStep, RequestFails, RefusedForCapacity, ExecuteCreate, ExecuteStart, ExecuteStop,
          ExecuteDelete, ExecuteDrain, ExecuteResume, Refused, AcceptedReply, ReplyMayBeLost, Reply
    <3> QED BY <3>1 DEF ResolvedIsRegistration
  <2> QED BY <2>2, <2>3
<1>4. CASE TickStep \/ JournalReply \/ ReconcileStep \/ Crash \/ Restart
  <2>1. pc' # "replied"
    BY <1>4
    DEF TickStep, ObserveCloud, ObserveGuest, DecideNothing, RecordDecision, AbandonPending,
        BlockPending, EmitIntent, JournalReply, ReconcileStep, ReconcileProven, ArmGrant, ArmFails,
        ReconcileStartRefused, RetireStoppedStart, ReconcileCreateRefused, ReconcileUnresolved,
        Crash, Restart, WriteIntent, Idle, Exit
  <2> QED BY <2>1 DEF ResolvedIsRegistration
<1> QED BY <1>1, <1>2, <1>3, <1>4 DEF Next, ControllerStep

-----------------------------------------------------------------------------
(* A refusal hands back a generation no disk carries. *)
LEMMA RefusalGuest ==
    ASSUME ReadInv, GuestInv, WorldStill, NEW base \in Journals,
           base.startCount = journal.startCount, NEW refused \in {"create-vm", "start-vm"},
           pending.effect.type = refused, WaitForCapacity(base, refused), Idle,
           refused = "start-vm" => StartUnsent \/ (StartAccepted /\ ~Starting)
    PROVE  GuestInv'
<1>1. /\ pending'.effect.type = "none" /\ pc' = "idle"
      /\ journal'.startCount = IF refused = "start-vm" THEN pending.effect.generation - 1
                               ELSE journal.startCount
  BY NothingPending DEF WaitForCapacity, Idle, Journals
<1>2. CASE refused = "start-vm"
  <2>1. pending.effect.generation = journal.startCount
    BY <1>2, PendingStartCounts DEF StartPending
  <2>2. vm.generation < journal.startCount /\ ~Starting /\ ~Running
    BY <1>2 DEF GuestInv, NewGenerationUnused, StartOfStopped, Starting, Running
  <2> QED BY <1>1, <1>2, <2>1, <2>2, GuestTyped, OffGuest
<1>3. CASE refused = "create-vm"
  <2>1. vm.status = "absent" \/ vm = CreatedVm
    BY <1>3 DEF GuestInv, DecidedOn
  <2>2. ~Starting /\ ~Running
    BY <2>1 DEF Starting, Running, CreatedVm, NoVm
  <2> QED BY <1>1, <1>3, <2>2, OffGuest DEF GuestInv, NewGenerationUnused, DiskBehindJournal
<1> QED BY <1>2, <1>3

LEMMA ReplyGuest ==
    ASSUME ReadInv, GuestInv, ResolvedIsRegistration, JournalReply
    PROVE  GuestInv'
<1>0. /\ journal \in Journals /\ pending \in PendingEffects /\ pc = "replied"
      /\ WorldStill /\ IInv
  BY ReadTyped, StepIsStill DEF JournalReply
<1>1. CASE reply = "resolved"
  <2>1. /\ journal' = [journal EXCEPT !.intent = NoIntent] /\ pc' = "idle" /\ ~StartPending
        /\ pending'.effect.type = "none"
    BY <1>0, <1>1, NothingPending DEF JournalReply, Idle, ResolvedIsRegistration, StartPending
  <2>2. journal'.startCount = journal.startCount /\ journal'.grantDeadline = journal.grantDeadline
    BY <1>0, <2>1 DEF Journals
  <2> QED BY <1>0, <2>1, <2>2, EffectEnds
<1>2. CASE reply = "accepted" \/ reply = "unidentified"
  <2>1. /\ UNCHANGED journal /\ pc' = "idle"
        /\ \/ pending' = pending
           \/ reply = "accepted" /\ pending' = [pending EXCEPT !.operationId = TRUE]
    BY <1>2 DEF JournalReply, Idle, journalVars
  <2>2. /\ pending'.effect = pending.effect /\ pending'.stage = pending.stage
        /\ pending'.operationId => pending.operationId \/ reply = "accepted"
    BY <1>0, <2>1 DEF PendingEffects
  <2> QED BY <1>0, <2>1, <2>2, EffectWaits
<1>3. CASE reply = "capacity"
  <2>1. WaitForCapacity(journal, pending.effect.type) /\ Idle
    BY <1>3 DEF JournalReply
  <2>2. pending.effect.type \in {"create-vm", "start-vm"}
    BY <1>0, <1>3 DEF IInv, CapacityRefusesCompute
  <2>3. pending.effect.type = "start-vm" => StartUnsent
    BY <1>0, <1>3 DEF StartUnsent, StartPending
  <2> QED BY <1>0, <2>1, <2>2, <2>3, RefusalGuest
<1>4. CASE reply = "error"
  <2>1. /\ journal' = MarkIntent("ambiguous") /\ pc' = "down"
        /\ pending' = [pending EXCEPT !.status = "ambiguous"]
    BY <1>4 DEF JournalReply, Exit
  <2> QED BY <1>0, <2>1, MarkGuest, EffectWaits
<1> QED BY <1>1, <1>2, <1>3, <1>4 DEF JournalReply

(* What settles: a start whose guest enforces the new generation, a create   *)
(* or delete whose VM is off, or an effect on a running guest.               *)
LEMMA SettleGuest ==
    ASSUME ReadInv, GuestInv, ReconcileProven
    PROVE  GuestInv'
<1> DEFINE type == pending.effect.type
<1>0. /\ WorldStill /\ Settle /\ Proven /\ pc' = "idle" /\ vm \in Vms /\ extra \in Nat
      /\ type # "adopt-vm" /\ BootInv
  BY ReadTyped, StepIsStill
  DEF ReconcileProven, Idle, IInv, ReservedIsNew, TypeOK, CloudTypeOK, ReadInv
<1>1. /\ journal'.startCount = journal.startCount /\ pending'.effect.type = "none"
      /\ journal'.grantDeadline = IF type = "start-vm" THEN pending.effect.deadline
                                  ELSE IF type \in {"create-vm", "delete-vm"} THEN None
                                  ELSE journal.grantDeadline
  BY <1>0, ReadTyped, SettleCounts, NothingPending DEF Settle, Journals
<1>2. CASE type = "start-vm"
  <2>1. journal'.grantDeadline = journal.grantDeadline
    BY <1>1, <1>2 DEF GuestInv, StartOfStopped, StartPending
  <2>2. Running /\ StatusReport(vm).grant.generation = pending.effect.generation
    BY <1>0, <1>2 DEF Proven, Running
  <2>3. pending.effect.generation = journal.startCount /\ journal.startCount >= 1
    BY <1>2, PendingStartCounts DEF StartPending
  <2>4. StatusReport(vm).grant.generation \in {0, vm.generation}
    <3>1. /\ NoGrant.generation = 0 /\ GrantOnDisk(vm).generation = vm.generation
          /\ \A s, g : SilentReport(s, g).grant = g
      BY DEF NoGrant, GrantOnDisk, SilentReport
    <3> HIDE DEF GrantOnDisk, YesNo
    <3> QED BY <3>1 DEF StatusReport
  <2>5. GrantMatches
    BY <1>2, <2>2, <2>3, <2>4 DEF GuestInv, StartOfStopped, StartPending, GrantMatches
  <2> QED BY <1>0, <1>1, <2>1, <2>2, <2>5, EffectEnds
<1>3. CASE type = "create-vm" \/ type = "delete-vm"
  <2>1. vm.status = "absent" \/ vm = CreatedVm
    <3>1. CASE type = "create-vm"
      BY <3>1 DEF GuestInv, DecidedOn
    <3>2. CASE type = "delete-vm"
      <4>1. OwnedVms = 0
        BY <1>0, <3>2 DEF Proven
      <4> QED BY <1>0, <4>1 DEF OwnedVms
    <3> QED BY <1>3, <3>1, <3>2
  <2>2. ~Starting /\ ~Running
    BY <2>1 DEF Starting, Running, CreatedVm, NoVm
  <2> QED BY <1>0, <1>1, <2>2, OffGuest DEF GuestInv, NewGenerationUnused, DiskBehindJournal
<1>4. CASE type \notin {"start-vm", "create-vm", "delete-vm"}
  BY <1>0, <1>1, <1>4, EffectEnds DEF StartPending
<1> QED BY <1>2, <1>3, <1>4

(* arm-grant.sh: the disk now carries the journal's generation and deadline. *)
LEMMA ArmGuest ==
    ASSUME ReadInv, GuestInv, ArmGrant
    PROVE  GuestInv'
<1>0. /\ UNCHANGED <<clock, registered, jobLeft, killed, startOp>> /\ pc = "observed" /\ pc' = "idle"
      /\ StartPending /\ Running /\ pending.stage = "emitting" /\ vm \in Vms /\ BootInv
      /\ vm' = ArmedVm(vm, pending.effect.generation, clock, pending.effect.deadline)
      /\ Settle \/ UNCHANGED <<journal, pending>>
      /\ pending.effect.deadline > clock
  BY ReadTyped
  DEF ArmGrant, NeedsArming, Reconciling, StartPending, Running, Idle, jobVars, journalVars,
      StartArmable, CanArm, ReadInv
<1>1. /\ pending.effect.generation = journal.startCount /\ journal.startCount >= 1
      /\ journal.grantDeadline = pending.effect.deadline
  BY <1>0, PendingStartCounts DEF GuestInv, StartOfStopped
<1>2. /\ vm'.status = "running" /\ vm'.generation = journal.startCount
      /\ vm'.deadline = journal.grantDeadline /\ clock' + vm'.windowLeft = journal.grantDeadline
      /\ ~vm'.listener /\ ~vm'.worker
  <2>1. ~vm.listener /\ ~vm.worker
    BY <1>0 DEF GuestInv, ProcessesMatch
  <2>2. clock + (pending.effect.deadline - clock) = pending.effect.deadline
    BY GuestTyped
  <2> QED BY <1>0, <1>1, <2>1, <2>2 DEF ArmedVm, Vms, Running
<1>3. /\ journal'.startCount = journal.startCount /\ journal'.grantDeadline = journal.grantDeadline
      /\ pending'.effect.type = "none" \/ UNCHANGED pending
  <2>1. CASE Settle
    <3>1. journal'.grantDeadline = pending.effect.deadline
      BY <1>0, <2>1, ReadTyped DEF Settle, Journals, StartPending
    <3> QED BY <1>0, <1>1, <2>1, <3>1, SettleCounts, NothingPending
  <2>2. CASE UNCHANGED <<journal, pending>>
    BY <2>2
  <2> QED BY <1>0, <2>1, <2>2
<1>4. ~StartUnsent' /\ ~StartAccepted' /\ ~Starting'
  <2>1. ~StartUnsent'
    BY <1>0, <1>3 DEF StartUnsent, StartPending
  <2>2. ~StartAccepted'
    <3>1. ~StartAccepted
      BY <1>0 DEF GuestInv, NewGenerationUnused
    <3>2. pending'.effect.type # "start-vm" \/ pending' = pending
      BY <1>3
    <3>3. startOp' = startOp /\ pc' # "replied"
      BY <1>0
    <3> QED BY <3>1, <3>2, <3>3, Zenon DEF StartAccepted, StartPending
  <2> QED BY <1>2, <2>1, <2>2 DEF Starting
<1>5. NewGenerationUnused' /\ StartOfStopped' /\ OldGrantOverdue'
  BY <1>1, <1>2, <1>3, <1>4, GuestTyped
  DEF NewGenerationUnused, DiskBehindJournal, StartOfStopped, StartPending, OldGrantOverdue,
      Running, GrantMatches
<1>6. ProcessesMatch' /\ WindowEnds' /\ ReadStillTrue'
  <2>1. ProcessesMatch' /\ ReadStillTrue'
    BY <1>0, <1>2 DEF ProcessesMatch, ReadStillTrue
  <2>2. clock' + vm'.windowLeft <= vm'.deadline
    BY <1>2, GuestTyped DEF OptionalTimes, None
  <2> QED BY <2>1, <2>2 DEF WindowEnds
<1>7. DecidedOn'
  BY <1>0, <1>3 DEF DecidedOn, StartPending
<1>8. DeadlinesPermitted'
  BY <1>0, <1>1, <1>2, <1>3 DEF GuestInv, DeadlinesPermitted, StartPending
<1> QED BY <1>0, <1>5, <1>6, <1>7, <1>8 DEF GuestInv, NoJobKilled

(* A refused start never armed its VM, and a retired one leaves it off. *)
LEMMA StartOverGuest ==
    ASSUME ReadInv, GuestInv, ReconcileStartRefused \/ RetireStoppedStart
    PROVE  GuestInv'
<1>0. /\ pc = "observed" /\ StartOperationOver /\ vm.status = "stopped" /\ IInv /\ WorldStill
      /\ StartPending /\ ~Starting /\ ~Running
  BY ReadTyped, StepIsStill
  DEF ReconcileStartRefused, RetireStoppedStart, StartRefused, Reconciling, StartOperationOver,
      StartPending, Starting, Running
<1>1. input.journal \in Journals /\ input.journal.startCount = journal.startCount
  BY <1>0, ObservedTick
<1>2. CASE ReconcileStartRefused
  <2>1. WaitForCapacity(input.journal, "start-vm") /\ Idle
    BY <1>2 DEF ReconcileStartRefused
  <2>2. StartAccepted
    <3>1. pending.operationId /\ startOp # "succeeded"
      BY <1>2 DEF ReconcileStartRefused, StartRefused, StartOperationOver
    <3> QED BY <1>0, <3>1, Zenon DEF StartAccepted
  <2> QED BY <1>0, <1>1, <2>1, <2>2, RefusalGuest DEF StartPending
<1>3. CASE RetireStoppedStart
  <2> DEFINE base == [input.journal EXCEPT !.intent = NoIntent]
             e == Effect("delete-vm", input.journal.startCount, None)
             d == Decision("absent", e)
  <2>1. WriteIntent(base, d)
    BY <1>3, Zenon DEF RetireStoppedStart
  <2>2. e.type = "delete-vm" /\ d.effect = e /\ base.startCount = journal.startCount
        /\ base \in Journals
    BY <1>1, ConstantsTyped DEF Effect, Decision, Journals
  <2> HIDE DEF base, e, d
  <2>3. /\ pending'.effect.type = "delete-vm" /\ pc' = "intent"
        /\ journal'.startCount = journal.startCount
    BY <2>1, <2>2 DEF WriteIntent, ApplyDecision, Journals
  <2> QED BY <1>0, <2>3, OffGuest DEF GuestInv, NewGenerationUnused, DiskBehindJournal
<1> QED BY <1>2, <1>3

LEMMA ReconcileGuest ==
    ASSUME ReadInv, GuestInv, ReconcileStep
    PROVE  GuestInv'
<1>1. CASE ArmFails \/ ReconcileUnresolved
  <2>1. WorldStill /\ UNCHANGED <<journal, pending>> /\ pc' \in {"idle", "down"}
    BY <1>1, StepIsStill DEF ArmFails, ReconcileUnresolved, Idle, Exit, journalVars
  <2> QED BY <2>1, EffectWaits
<1>2. CASE ReconcileCreateRefused
  <2>1. /\ WaitForCapacity(journal, "create-vm") /\ Idle /\ WorldStill
        /\ pending.effect.type = "create-vm" /\ journal \in Journals
    BY <1>2, ReadTyped, StepIsStill DEF ReconcileCreateRefused, CreateRefused
  <2> QED BY <2>1, RefusalGuest
<1> QED BY <1>1, <1>2, SettleGuest, ArmGuest, StartOverGuest DEF ReconcileStep

LEMMA RestartGuest ==
    ASSUME ReadInv, GuestInv, Crash \/ Restart
    PROVE  GuestInv'
<1>1. WorldStill /\ UNCHANGED <<journal, pending>> /\ pc' \in {"idle", "down"}
  BY StepIsStill DEF Crash, Restart, Exit, journalVars
<1> QED BY <1>1, EffectWaits

-----------------------------------------------------------------------------
(* Nothing runs, nothing is pending, and no generation is used at first. *)
LEMMA GuestInitially == Init => GuestInv /\ ResolvedIsRegistration
<1> SUFFICES ASSUME Init PROVE GuestInv /\ ResolvedIsRegistration
  OBVIOUS
<1>1. /\ vm.status = "absent" /\ vm.generation = 0 /\ ~vm.listener /\ ~vm.worker
      /\ pending.effect.type = "none" /\ pc = "idle" /\ journal.startCount = 0 /\ ~killed
  BY ConstantsTyped, NothingPending DEF Init, NoVm
<1>2. NewGenerationUnused /\ StartOfStopped /\ OldGrantOverdue /\ ProcessesMatch /\ WindowEnds
  BY <1>1
  DEF NewGenerationUnused, DiskBehindJournal, StartOfStopped, OldGrantOverdue, ProcessesMatch,
      WindowEnds, Starting, Running, StartPending, StartUnsent, StartAccepted
<1>3. ReadStillTrue /\ DecidedOn /\ DeadlinesPermitted /\ ResolvedIsRegistration
  BY <1>1
  DEF ReadStillTrue, DecidedOn, DeadlinesPermitted, ResolvedIsRegistration, Armed, StartPending
<1> QED BY <1>1, <1>2, <1>3 DEF GuestInv, NoJobKilled

RunningInv == ReadInv /\ GuestInv /\ ResolvedIsRegistration

LEMMA RunningStep == RunningInv /\ [Next]_vars => RunningInv'
<1> SUFFICES ASSUME ReadInv, GuestInv, ResolvedIsRegistration, [Next]_vars
             PROVE  GuestInv'
  BY ReadStep, RegistrationResolves DEF RunningInv
<1>1. CASE UNCHANGED vars
  <2>1. WorldStill /\ UNCHANGED <<journal, pending, pc, reply, input>>
    BY <1>1 DEF vars, WorldStill
  <2>2. (StartUnsent' <=> StartUnsent) /\ (StartAccepted' <=> StartAccepted)
    BY <2>1, Zenon DEF StartUnsent, StartAccepted, StartPending, WorldStill
  <2>3. Late => Late'
    BY <2>1 DEF Late, WorldStill
  <2>4. ReadStillTrue'
    BY <2>1 DEF GuestInv, ReadStillTrue, Running, HasGrant, Armed, WorldStill
  <2> QED BY <2>1, <2>2, <2>3, <2>4, EffectKept
<1>2. CASE Next
  BY <1>2, WorldGuest, TickStepGuest, ExecuteGuest, ReplyGuest, ReconcileGuest, RestartGuest
  DEF Next, ControllerStep
<1> QED BY <1>1, <1>2

LEMMA RunningInvariant == Spec => []RunningInv
<1>1. Init => RunningInv
  BY ReadInitially, GuestInitially DEF RunningInv
<1> QED BY <1>1, RunningStep, PTL DEF Spec

(* drain.sh, job-start-hook.sh and the emergency stop of decideLifecycle: no  *)
(* job the start hook admitted is cut short, by an idle stop, by the          *)
(* emergency stop at the deadline or by the watchdog, with any permits,       *)
(* crashes, lost answers and failed reads between the steps.                  *)
THEOREM NoJobEverKilled == Spec => []NoJobKilled
<1>1. RunningInv => NoJobKilled
  BY DEF RunningInv, GuestInv
<1> QED BY <1>1, RunningInvariant, PTL

(* recordAndExecuteDecision, arm-grant.sh and register-runner.sh: journal,    *)
(* guest disk and GitHub speak of one generation and one deadline while a     *)
(* runner listens, and the disk is never ahead of the journal, although       *)
(* starts are refused, abandoned and retried.                                 *)
THEOREM GenerationsAlwaysAgree == Spec => []GenerationsAgree
<1>1. RunningInv => GenerationsAgree
  BY DEF RunningInv, GuestInv, GenerationsAgree, ListenerMatchesJournal, ProcessesMatch,
         GrantMatches, NewGenerationUnused
<1> QED BY <1>1, RunningInvariant, PTL

(* availableRuntimeMs and watchdog.sh: the grant of the journal's generation  *)
(* ends before the permit that the process runs with expires. It needs the    *)
(* watchdog, and permits of one expiry: a restart with a shorter one does not *)
(* shorten a grant already given.                                             *)
THEOREM GrantAlwaysWithinPermit ==
    ASSUME WatchdogWorks, \A p, q \in Permits : p.expires = q.expires
    PROVE  Spec => []GrantWithinPermit
<1>1. RunningInv => GrantWithinPermit
  <2> SUFFICES ASSUME RunningInv, vm.status = "running", Armed(vm),
                      vm.generation = journal.startCount
               PROVE  clock + vm.windowLeft <= permit.expires
    BY DEF GrantWithinPermit
  <2>1. clock + vm.windowLeft <= vm.deadline
    BY DEF RunningInv, GuestInv, WindowEnds, Running
  <2>2. PICK p \in Permits : vm.deadline <= p.expires
    BY DEF RunningInv, GuestInv, DeadlinesPermitted
  <2>3. permit \in Permits /\ p.expires \in Nat
    BY ReadTyped, ControllerAssumption DEF RunningInv, IInv, TypeOK, ProcessTypeOK, PermitRecords
  <2>4. permit.expires = p.expires
    BY <2>3
  <2> QED BY <2>1, <2>2, <2>3, <2>4, GuestTyped DEF RunningInv, OptionalTimes, None
<1> QED BY <1>1, RunningInvariant, PTL

-----------------------------------------------------------------------------
(***************************************************************************)
(* One VM. executeEffect sends a create without looking for an owned VM or *)
(* an unfinished operation first; what keeps a second VM away is that an   *)
(* effect still in flight is neither forgotten nor abandoned.              *)
(***************************************************************************)

CreatePending == pending.effect.type = "create-vm"

CreateUnsent == CreatePending /\ (pending.stage = "intent" \/ pc = "emitting")

(* Nebius still works on the pending create, and settles it before the     *)
(* effect is stale.                                                        *)
CreateSent ==
    /\ CreatePending /\ pending.stage = "emitting" /\ pc # "emitting"
    /\ vm.status = "absent" /\ createOp = "running"
    /\ clock <= opDue /\ opDue <= pending.effectDeadline
    /\ pc = "replied" => reply # "capacity"

OneVm ==
    /\ extra = 0 /\ creating \in {0, 1}
    /\ creating = 1 => CreateSent
    /\ CreateUnsent => vm.status = "absent"
    /\ pc \in {"observing", "observed"} /\ ~HasPending /\ input.provider.vmStatus = "absent"
          => vm.status = "absent"

(* A create is sent only while its operation can settle before the effect  *)
(* becomes stale. executeEffect does not look at the time.                 *)
CreateInTime == ExecuteCreate => clock + OperationTime <= pending.effectDeadline

LEMMA OneVmTyped ==
    ASSUME RunningInv
    PROVE  /\ extra \in Nat /\ creating \in Nat /\ opDue \in Nat
           /\ clock \in Nat /\ MaxTime \in Nat /\ clock <= MaxTime
           /\ TickTime \in Nat /\ OperationTime \in Nat
           /\ input.now \in Nat /\ input.now <= clock
           /\ vm \in Vms /\ journal \in Journals /\ pending \in PendingEffects
           /\ pending.effectDeadline \in Int /\ pending.createdAt \in Nat
           /\ pc \in {"emitting", "replied"} => pending.stage = "emitting"
BY ReadTyped, GuestTyped, ControllerAssumption
DEF RunningInv, ReadInv, BootInv, TickIsCurrent, IInv, TypeOK, CloudTypeOK, PendingEffects

(* A step of the world that neither creates nor settles a create. *)
LEMMA WorldCreates ==
    ASSUME OneVm, UNCHANGED <<journal, pending, pc, reply, input, extra, creating, createOp, opDue>>,
           vm.status = "absent" => vm'.status = "absent", creating = 1 => clock' <= opDue
    PROVE  OneVm'
BY DEF OneVm, CreateSent, CreateUnsent, CreatePending, HasPending

(* The one create that is in flight makes the one VM. *)
LEMMA SettlesOneVm ==
    ASSUME RunningInv, OneVm, NEW outcome, CreateSettles(outcome)
    PROVE  OneVm'
<1>1. creating = 1 /\ CreateSent /\ creating' = 0
  BY OneVmTyped DEF CreateSettles, OneVm
<1>2. UNCHANGED <<pending, pc, extra>>
  BY <1>1 DEF CreateSettles, CreateSent, journalVars, processVars
<1>3. ~CreateUnsent' /\ HasPending'
  BY <1>1, <1>2 DEF CreateSent, CreateUnsent, CreatePending, HasPending
<1> QED BY <1>1, <1>2, <1>3 DEF OneVm

LEMMA WorldOneVm ==
    ASSUME RunningInv, OneVm, Tick \/ JobStep \/ GuestStep \/ CloudStep
    PROVE  OneVm'
<1>0. vm \in Vms /\ (creating = 1 => clock <= opDue)
  BY OneVmTyped DEF OneVm, CreateSent
<1>1. CASE Tick
  <2>1. UNCHANGED <<journal, pending, pc, reply, input, extra, creating, createOp, opDue>>
        /\ vm'.status = vm.status
    BY <1>0, <1>1 DEF Tick, journalVars, processVars, Vms
  <2>2. creating = 1 => clock' <= opDue
    BY <1>1, OneVmTyped DEF Tick, Urgent, Smaller
  <2> QED BY <2>1, <2>2, WorldCreates
<1>2. CASE JobStep
  <2>1. UNCHANGED <<journal, pending, pc, reply, input, extra, creating, createOp, opDue, clock>>
        /\ vm'.status = vm.status
    BY <1>0, <1>2 DEF JobStep, JobArrives, JobWithdrawn, AssignJob, StartJob, FinishJob, LoseJob,
                      journalVars, processVars, cloudVars, Vms
  <2> QED BY <1>0, <2>1, WorldCreates
<1>3. CASE GuestStep
  <2>1. UNCHANGED <<journal, pending, pc, reply, input, extra, creating, createOp, opDue, clock>>
        /\ (vm.status = "absent" => vm' = vm)
    BY <1>3 DEF GuestStep, GuestBootstrapped, WatchdogExpires, GuestFails, WatchdogDue,
                journalVars, processVars
  <2> QED BY <1>0, <2>1, WorldCreates
<1>4. CASE StopSettles \/ DeleteSettles \/ \E outcome : StartSettles(outcome)
  <2>1. UNCHANGED <<journal, pending, pc, reply, input, extra, creating, createOp, opDue, clock>>
        /\ vm.status # "absent"
    BY <1>4 DEF StopSettles, DeleteSettles, StartSettles, journalVars, processVars
  <2> QED BY <1>0, <2>1, WorldCreates
<1> QED BY <1>1, <1>2, <1>3, <1>4, SettlesOneVm DEF CloudStep

(* A tick that ends, or a process that exits, keeps its effect, or gives up *)
(* one of which nothing is in flight.                                       *)
LEMMA EndsOneVm ==
    ASSUME OneVm, UNCHANGED <<cloudVars, clock>>, pc' \in {"idle", "down"},
           \/ /\ pending'.effect = pending.effect /\ pending'.stage = pending.stage
              /\ pending'.effectDeadline = pending.effectDeadline
           \/ pending' = NoPending /\ creating # 1
    PROVE  OneVm'
<1>1. CASE pending' = NoPending /\ creating # 1
  <2>1. ~CreateUnsent'
    BY <1>1, NothingPending DEF CreateUnsent, CreatePending
  <2> QED BY <1>1, <2>1 DEF OneVm, cloudVars
<1>2. CASE /\ pending'.effect = pending.effect /\ pending'.stage = pending.stage
           /\ pending'.effectDeadline = pending.effectDeadline
  BY <1>2 DEF OneVm, CreateSent, CreateUnsent, CreatePending, cloudVars
<1> QED BY <1>1, <1>2

(* observeProvider shows no VM only where there is none. *)
LEMMA ObserveOneVm ==
    ASSUME RunningInv, OneVm, ObserveCloud \/ ObserveGuest
    PROVE  OneVm'
<1>1. /\ UNCHANGED pending /\ UNCHANGED cloudVars /\ UNCHANGED clock
      /\ pc' \in {"observing", "observed"} /\ pc \in {"idle", "observing"}
      /\ ObserveGuest => pc = "observing"
  <2>1. CASE ObserveCloud
    <3>1. pc = "idle" /\ pc' = "observing" /\ UNCHANGED <<journalVars, clock, cloudVars>>
      BY <2>1, Zenon DEF ObserveCloud
    <3>2. ~ObserveGuest
      BY <3>1, Zenon DEF ObserveGuest
    <3> QED BY <3>1, <3>2 DEF journalVars
  <2>2. CASE ObserveGuest
    <3>1. pc = "observing" /\ pc' = "observed" /\ UNCHANGED <<journalVars, clock, cloudVars>>
      BY <2>2, Zenon DEF ObserveGuest
    <3> QED BY <3>1 DEF journalVars
  <2> QED BY <2>1, <2>2
<1>2. input'.provider.vmStatus = "absent" /\ ~HasPending => vm.status = "absent"
  <2>1. CASE ObserveCloud
    <3>1. PICK providerRead \in BOOLEAN, queueRead \in BOOLEAN :
             /\ IF providerRead /\ queueRead THEN NoFault ELSE Fault("read")
             /\ input' = [NoInput EXCEPT
                    !.now = clock, !.permit = permit,
                    !.provider = IF providerRead THEN ProviderView ELSE @,
                    !.queue = IF queueRead THEN QueueView ELSE [@ EXCEPT !.observedAt = clock]]
      BY <2>1, Zenon DEF ObserveCloud
    <3>2. input'.provider \in {ProviderView, NoInput.provider}
      BY <3>1 DEF NoInput
    <3>3. ProviderView.vmStatus = "absent" => vm.status = "absent"
      BY DEF ProviderView, OwnedVms, OneVm
    <3>4. NoInput.provider.vmStatus # "absent"
      BY DEF NoInput, UnknownProvider
    <3> QED BY <3>2, <3>3, <3>4
  <2>2. CASE ObserveGuest
    <3>1. PICK g, q, j : input' = [input EXCEPT !.guest = g, !.queue = q, !.journal = j]
      BY <2>2, Zenon DEF ObserveGuest
    <3>2. input'.provider = input.provider
      BY <3>1, ReadTyped DEF RunningInv, Inputs
    <3>3. pc = "observing"
      BY <1>1, <2>2
    <3> QED BY <3>2, <3>3 DEF OneVm
  <2> QED BY <2>1, <2>2
<1>3. HasPending' <=> HasPending
  BY <1>1 DEF HasPending
<1>4. CreateUnsent' => CreateUnsent
  BY <1>1 DEF CreateUnsent, CreatePending
<1>5. creating = 1 => CreateSent'
  BY <1>1 DEF OneVm, CreateSent, CreatePending, cloudVars
<1> QED BY <1>1, <1>2, <1>3, <1>4, <1>5 DEF OneVm, cloudVars

(* recordAndExecuteDecision: a create is written down where no VM is, and    *)
(* nothing is in flight without a pending create.                            *)
LEMMA RecordOneVm ==
    ASSUME RunningInv, OneVm, RecordDecision
    PROVE  OneVm'
<1> DEFINE d == DecideLifecycle(input)
<1>1. pc = "observed" /\ ~HasPending /\ WriteIntent(input.journal, d)
      /\ UNCHANGED cloudVars
  BY Zenon DEF RecordDecision
<1>2. input \in Inputs /\ input.journal.intent.type = "none"
  BY <1>1, ReadTyped, ObservedTick, ConstantsTyped DEF RunningInv, IInv, JournalConsistent
<1>3. d.effect.type = "create-vm" => input.provider.vmStatus = "absent"
  BY <1>2, DecisionBased DEF Based
<1> HIDE DEF d
<1>4. pc' = "intent" /\ pending'.effect = d.effect
  BY <1>1 DEF WriteIntent
<1>5. creating # 1
  BY <1>1 DEF HasPending, OneVm, CreateSent, CreatePending
<1>6. CreateUnsent' => vm.status = "absent"
  BY <1>1, <1>3, <1>4 DEF OneVm, CreateUnsent, CreatePending
<1> QED BY <1>1, <1>4, <1>5, <1>6 DEF OneVm, cloudVars

(* The stage is written before the request is sent. *)
LEMMA EmitOneVm ==
    ASSUME RunningInv, OneVm, EmitIntent
    PROVE  OneVm'
<1>1. pending.stage = "intent" /\ pc' = "emitting" /\ UNCHANGED cloudVars
  BY Zenon DEF EmitIntent, Cleared
<1>2. pending'.effect = pending.effect
  BY OneVmTyped DEF EmitIntent, PendingEffects
<1>3. creating # 1 /\ (CreateUnsent' => CreateUnsent)
  BY <1>1, <1>2 DEF OneVm, CreateSent, CreateUnsent, CreatePending
<1> QED BY <1>1, <1>3 DEF OneVm, cloudVars

(* An effect is abandoned after its deadline, when its create has settled. *)
LEMMA AbandonOneVm ==
    ASSUME RunningInv, OneVm, AbandonPending
    PROVE  OneVm'
<1>1. /\ UNCHANGED <<cloudVars, clock>> /\ pc' = "idle" /\ pending' = NoPending /\ CanAbandon
  BY DEF AbandonPending, Idle
<1>2. input.now > pending.effectDeadline
  BY <1>1 DEF CanAbandon, PendingEffectIsStale
<1>3. creating # 1
  BY <1>2, OneVmTyped DEF OneVm, CreateSent
<1> QED BY <1>1, <1>3, EndsOneVm

LEMMA TickStepOneVm ==
    ASSUME RunningInv, OneVm, TickStep
    PROVE  OneVm'
<1>1. CASE DecideNothing
  BY <1>1, EndsOneVm DEF DecideNothing, Idle
<1>2. CASE BlockPending
  <2>1. /\ pending'.effect = pending.effect /\ pending'.stage = pending.stage
        /\ pending'.effectDeadline = pending.effectDeadline
    BY <1>2, OneVmTyped DEF BlockPending, PendingEffects
  <2> QED BY <1>2, <2>1, EndsOneVm DEF BlockPending, Idle
<1> QED BY <1>1, <1>2, ObserveOneVm, RecordOneVm, EmitOneVm, AbandonOneVm DEF TickStep

(* executeEffect: one create, where none is in flight and no VM exists. *)
LEMMA ExecuteOneVm ==
    ASSUME RunningInv, OneVm, ExecuteStep, CreateInTime
    PROVE  OneVm'
<1>1. pc = "emitting" /\ pc' = "replied" /\ UNCHANGED <<pending, clock>>
  BY DEF ExecuteStep, RequestFails, RefusedForCapacity, ExecuteCreate, ExecuteStart,
         ExecuteStop, ExecuteDelete, ExecuteRegister, ExecuteDrain, ExecuteResume, Refused,
         AcceptedReply, ReplyMayBeLost, Reply, Executing, journalVars
<1>2. creating = 0 /\ ~CreateUnsent' /\ pending.stage = "emitting"
  BY <1>1, OneVmTyped DEF OneVm, CreateSent, CreateUnsent, CreatePending
<1>3. CASE ExecuteCreate /\ CanCreate
  <2>1. /\ creating' = 1 /\ opDue' = clock + OperationTime /\ createOp' = "running"
        /\ UNCHANGED <<vm, extra>> /\ AcceptedReply /\ CreatePending
    BY <1>2, <1>3 DEF ExecuteCreate, Executing, CreatePending
  <2>2. vm.status = "absent" /\ opDue' <= pending.effectDeadline
    BY <1>1, <1>3, <2>1 DEF OneVm, CreateUnsent, CreateInTime
  <2>3. reply' # "capacity"
    BY <2>1 DEF AcceptedReply, ReplyMayBeLost, Reply
  <2>4. clock <= opDue'
    BY <2>1, OneVmTyped
  <2>5. CreateSent'
    BY <1>1, <1>2, <2>1, <2>2, <2>3, <2>4 DEF CreateSent, CreatePending
  <2> QED BY <1>1, <1>2, <2>1, <2>5 DEF OneVm
<1>4. CASE ~(ExecuteCreate /\ CanCreate)
  <2>1. UNCHANGED <<creating, extra>>
    BY <1>4
    DEF ExecuteStep, RequestFails, RefusedForCapacity, ExecuteCreate, ExecuteStart, ExecuteStop,
        ExecuteDelete, ExecuteRegister, ExecuteDrain, ExecuteResume, Refused, cloudVars
  <2> QED BY <1>1, <1>2, <2>1 DEF OneVm
<1> QED BY <1>3, <1>4

(* executePendingEffect: only a request that was not accepted is refused. *)
LEMMA ReplyOneVm ==
    ASSUME RunningInv, OneVm, JournalReply
    PROVE  OneVm'
<1>1. pc = "replied" /\ UNCHANGED <<cloudVars, clock>> /\ pc' \in {"idle", "down"}
  BY DEF JournalReply, Idle, Exit
<1>2. CASE reply \in {"resolved", "capacity"}
  <2>1. creating # 1
    BY <1>1, <1>2 DEF RunningInv, ResolvedIsRegistration, OneVm, CreateSent, CreatePending
  <2>2. pending' = NoPending
    BY <1>2 DEF JournalReply, WaitForCapacity
  <2> QED BY <1>1, <2>1, <2>2, EndsOneVm
<1>3. CASE reply \notin {"resolved", "capacity"}
  <2>1. /\ pending'.effect = pending.effect /\ pending'.stage = pending.stage
        /\ pending'.effectDeadline = pending.effectDeadline
    BY <1>3, OneVmTyped DEF JournalReply, PendingEffects, journalVars
  <2> QED BY <1>1, <2>1, EndsOneVm
<1> QED BY <1>2, <1>3

(* reconcileEffect: a create in flight is neither proven nor refused. *)
LEMMA ReconcileOneVm ==
    ASSUME RunningInv, OneVm, ReconcileStep
    PROVE  OneVm'
<1>1. CASE ReconcileProven
  <2>1. Proven /\ Settle /\ UNCHANGED <<cloudVars, clock>> /\ pc' = "idle"
    BY <1>1 DEF ReconcileProven, Idle
  <2>2. CreatePending => OwnedVms = 1
    BY <2>1, Zenon DEF Proven, CreatePending
  <2>3. creating # 1
    BY <2>2 DEF OneVm, CreateSent, OwnedVms
  <2> QED BY <2>1, <2>3, EndsOneVm DEF Settle
<1>2. CASE ArmGrant
  <2>1. /\ UNCHANGED <<extra, creating>> /\ pc' = "idle" /\ pending.effect.type = "start-vm"
        /\ pending' \in {pending, NoPending}
    BY <1>2 DEF ArmGrant, NeedsArming, Idle, Settle, journalVars
  <2>2. creating # 1
    BY <2>1 DEF OneVm, CreateSent, CreatePending
  <2>3. ~CreateUnsent'
    BY <2>1, NothingPending DEF CreateUnsent, CreatePending
  <2> QED BY <2>1, <2>2, <2>3 DEF OneVm
<1>3. CASE ArmFails \/ ReconcileUnresolved
  BY <1>3, EndsOneVm DEF ArmFails, ReconcileUnresolved, Idle, Exit, journalVars
<1>4. CASE ReconcileStartRefused \/ ReconcileCreateRefused
  <2>1. creating # 1
    BY <1>4 DEF ReconcileStartRefused, ReconcileCreateRefused, StartRefused, StartOperationOver,
                CreateRefused, OneVm, CreateSent, CreatePending
  <2> QED BY <1>4, <2>1, EndsOneVm
          DEF ReconcileStartRefused, ReconcileCreateRefused, WaitForCapacity, Idle
<1>5. CASE RetireStoppedStart
  <2>1. /\ pending.effect.type = "start-vm" /\ pc' = "intent" /\ UNCHANGED cloudVars
        /\ pending'.effect.type = "delete-vm"
    BY <1>5 DEF RetireStoppedStart, StartOperationOver, WriteIntent, Decision, Effect
  <2> QED BY <2>1 DEF OneVm, CreateSent, CreateUnsent, CreatePending, cloudVars
<1> QED BY <1>1, <1>2, <1>3, <1>4, <1>5 DEF ReconcileStep

LEMMA OneVmStep ==
    ASSUME RunningInv, OneVm, [Next]_vars, [CreateInTime]_vars
    PROVE  OneVm'
<1>1. CASE UNCHANGED vars
  BY <1>1 DEF vars, OneVm, CreateSent, CreateUnsent, CreatePending, HasPending
<1>2. CASE Next /\ ~UNCHANGED vars
  <2>1. CASE Crash \/ Restart
    BY <2>1, EndsOneVm DEF Crash, Restart, Exit, journalVars
  <2>2. CreateInTime
    BY <1>2
  <2> QED BY <1>2, <2>1, <2>2, WorldOneVm, TickStepOneVm, ExecuteOneVm, ReplyOneVm, ReconcileOneVm
          DEF Next, ControllerStep
<1> QED BY <1>1, <1>2

(* executeEffect, abandonPendingEffect and reconcileEffect: the one check    *)
(* that executeEffect lacks, a look at the time before it sends a create, is *)
(* enough for a single VM whatever crashes, is lost or is refused, and       *)
(* however often.                                                            *)
THEOREM SingleVmIfSentInTime == Spec /\ [][CreateInTime]_vars => []SingleVm
<1>1. Init => OneVm
  BY NothingPending
  DEF Init, OneVm, CreateUnsent, CreatePending
<1>2. RunningInv /\ OneVm /\ [Next]_vars /\ [CreateInTime]_vars => OneVm'
  BY OneVmStep
<1>3. OneVm => SingleVm
  BY DEF OneVm, CreateSent, SingleVm, OwnedVms
<1> QED BY <1>1, <1>2, <1>3, RunningInvariant, PTL DEF Spec

-----------------------------------------------------------------------------
(***************************************************************************)
(* When a create is sent in time: by the tick that wrote it down.          *)
(***************************************************************************)

(* The process dies between the journal write of a create and its request. *)
CreateCutOff == CreatePending /\ pc = "intent" /\ pc' = "down"

(* The permit of this tick covers the pending create. *)
CreateCovered ==
    /\ input.permit.own /\ "create" \in input.permit.ops
    /\ input.permit.id = pending.permitId /\ input.permit.expires = pending.permitExpires
    /\ input.now < pending.permitExpires

Timely ==
    /\ pc \in {"observing", "observed", "intent", "emitting"} => clock <= input.now + TickTime
    /\ CreatePending => pending.createdAt + MaxJob + ShutdownMargin <= pending.effectDeadline
    /\ CreateUnsent => /\ pc \in {"intent", "emitting"} /\ input.now = pending.createdAt
    /\ CreatePending /\ pc = "intent" => CreateCovered

(* startBudget: a create is decided for a whole job, under a permit that    *)
(* covers it now.                                                           *)
LEMMA CreateBudgeted ==
    ASSUME NEW i \in Inputs, i.journal.intent.type = "none",
           DecideLifecycle(i).effect.type = "create-vm"
    PROVE  /\ i.now + MaxJob + ShutdownMargin <= DecideLifecycle(i).effect.deadline
           /\ DecideLifecycle(i).effect.deadline # None
           /\ i.permit.own /\ "create" \in i.permit.ops /\ i.now < i.permit.expires
<1>1. i.provider.vmStatus = "absent"
  BY DecisionBased DEF Based
<1>2. Blocked.effect.type # "create-vm" /\ \A s : Stay(s).effect.type # "create-vm"
  BY NoEffectType DEF Blocked, Stay, Decision
<1>3. DecideLifecycle(i) = DecideAbsent(i)
  BY <1>1, <1>2 DEF DecideLifecycle, LifetimeReached
<1> DEFINE d == Decision("starting", Effect("create-vm", i.journal.startCount + 1,
                                            i.now + AvailableRuntime(i)))
<1>4. DecideAbsent(i) = Authorized(i, "create", d) /\ StartBudget(i)
  BY <1>2, <1>3 DEF DecideAbsent
<1>5. /\ Authorized(i, "create", d) = d /\ ValidPermit(i.permit, i.now)
      /\ "create" \in i.permit.ops
  <2> HIDE DEF d
  <2> QED BY <1>2, <1>3, <1>4 DEF Authorized
<1>6. d.effect.deadline = i.now + AvailableRuntime(i)
  BY DEF Decision, Effect
<1>7. i.now + AvailableRuntime(i) \in Nat /\ AvailableRuntime(i) >= MaxJob + ShutdownMargin
  BY <1>4, BudgetPositive DEF StartBudget
<1>8. /\ AvailableRuntime(i) \in Int /\ i.now \in Nat
      /\ MaxJob \in Nat /\ ShutdownMargin \in Nat
  BY ConfigAssumption DEF AvailableRuntime, Smaller, Inputs, PermitRecords, Journals
<1>9. i.now + MaxJob + ShutdownMargin <= i.now + AvailableRuntime(i)
  BY <1>7, <1>8
<1> HIDE DEF d
<1>10. DecideLifecycle(i).effect.deadline = i.now + AvailableRuntime(i)
  BY <1>3, <1>4, <1>5, <1>6
<1> QED BY <1>5, <1>7, <1>9, <1>10 DEF ValidPermit, WellFormedPermit, None

(* A step of the world. *)
LEMMA WorldTimely ==
    ASSUME RunningInv, Timely, Tick \/ JobStep \/ GuestStep \/ CloudStep
    PROVE  Timely'
<1>1. UNCHANGED <<journal, pending, pc, input>>
  BY DEF Tick, JobStep, JobArrives, JobWithdrawn, AssignJob, StartJob, FinishJob, LoseJob,
         CloudStep, CreateSettles, StartSettles, StopSettles, DeleteSettles,
         GuestStep, GuestBootstrapped, WatchdogExpires, GuestFails, journalVars, processVars
<1>2. pc \in {"observing", "observed", "intent", "emitting"} => clock' <= input.now + TickTime
  <2>1. CASE Tick
    BY <2>1, OneVmTyped DEF Tick, Urgent, Smaller
  <2>2. CASE ~Tick
    <3>1. UNCHANGED clock
      BY <2>2
      DEF JobStep, JobArrives, JobWithdrawn, AssignJob, StartJob, FinishJob, LoseJob,
          CloudStep, CreateSettles, StartSettles, StopSettles, DeleteSettles,
          GuestStep, GuestBootstrapped, WatchdogExpires, GuestFails
    <3> QED BY <3>1 DEF Timely
  <2> QED BY <2>1, <2>2
<1> QED BY <1>1, <1>2 DEF Timely, CreateUnsent, CreatePending, CreateCovered

(* A tick that ends or a request that is answered leaves no create unsent. *)
LEMMA EndsTimely ==
    ASSUME RunningInv, Timely, pc' \in {"idle", "down", "replied"},
           \/ /\ pending'.effect = pending.effect /\ pending'.stage = pending.stage
              /\ pending'.createdAt = pending.createdAt
              /\ pending'.effectDeadline = pending.effectDeadline
              /\ ~(CreatePending /\ pc = "intent")
           \/ pending' = NoPending
    PROVE  Timely'
<1>1. CASE pending' = NoPending
  BY <1>1, NothingPending DEF Timely, CreateUnsent, CreatePending
<1>2. CASE /\ pending'.effect = pending.effect /\ pending'.stage = pending.stage
           /\ pending'.createdAt = pending.createdAt
           /\ pending'.effectDeadline = pending.effectDeadline
           /\ ~(CreatePending /\ pc = "intent")
  <2>1. ~CreateUnsent'
    BY <1>2, OneVmTyped DEF Timely, CreateUnsent, CreatePending
  <2> QED BY <1>2, <2>1 DEF Timely, CreatePending
<1> QED BY <1>1, <1>2

LEMMA ObserveTimely ==
    ASSUME RunningInv, Timely, ObserveCloud \/ ObserveGuest
    PROVE  Timely'
<1>1. /\ UNCHANGED pending /\ UNCHANGED clock
      /\ pc' \in {"observing", "observed"} /\ pc \in {"idle", "observing"}
  <2>1. CASE ObserveCloud
    <3>1. pc = "idle" /\ pc' = "observing" /\ UNCHANGED <<journalVars, clock>>
      BY <2>1, Zenon DEF ObserveCloud
    <3> QED BY <3>1 DEF journalVars
  <2>2. CASE ObserveGuest
    <3>1. pc = "observing" /\ pc' = "observed" /\ UNCHANGED <<journalVars, clock>>
      BY <2>2, Zenon DEF ObserveGuest
    <3> QED BY <3>1 DEF journalVars
  <2> QED BY <2>1, <2>2
<1>2. clock' <= input'.now + TickTime
  <2>1. CASE ObserveCloud
    <3>1. PICK p, q :
             input' = [NoInput EXCEPT !.now = clock, !.permit = permit, !.provider = p, !.queue = q]
      BY <2>1, Zenon DEF ObserveCloud
    <3>2. input'.now = clock
      BY <3>1 DEF NoInput
    <3> QED BY <1>1, <3>2, OneVmTyped
  <2>2. CASE ObserveGuest
    <3>1. PICK g, q, j : input' = [input EXCEPT !.guest = g, !.queue = q, !.journal = j]
      BY <2>2, Zenon DEF ObserveGuest
    <3>2. input'.now = input.now
      BY <3>1, ReadTyped DEF RunningInv, Inputs
    <3>3. pc = "observing"
      BY <2>2, Zenon DEF ObserveGuest
    <3> QED BY <1>1, <3>2, <3>3 DEF Timely
  <2> QED BY <2>1, <2>2
<1>3. ~CreateUnsent'
  BY <1>1 DEF Timely, CreateUnsent, CreatePending
<1> QED BY <1>1, <1>2, <1>3 DEF Timely, CreatePending

(* The create is written down with its permit and a deadline of its own. *)
LEMMA RecordTimely ==
    ASSUME RunningInv, Timely, RecordDecision
    PROVE  Timely'
<1> DEFINE d == DecideLifecycle(input)
<1>1. pc = "observed" /\ ~HasPending /\ WriteIntent(input.journal, d) /\ UNCHANGED clock
  BY Zenon DEF RecordDecision
<1>2. input \in Inputs /\ input.journal.intent.type = "none"
  BY <1>1, ReadTyped, ObservedTick, ConstantsTyped DEF RunningInv, IInv, JournalConsistent
<1>3. d.effect.type = "create-vm" =>
         /\ input.now + MaxJob + ShutdownMargin <= d.effect.deadline /\ d.effect.deadline # None
         /\ input.permit.own /\ "create" \in input.permit.ops /\ input.now < input.permit.expires
  BY <1>2, CreateBudgeted
<1> HIDE DEF d
<1>4. /\ pc' = "intent" /\ UNCHANGED input
      /\ pending'.effect = d.effect /\ pending'.createdAt = input.now
      /\ pending'.permitId = input.permit.id /\ pending'.permitExpires = input.permit.expires
      /\ pending'.effectDeadline = AuthorizationDeadline(d.effect)
  BY <1>1 DEF WriteIntent
<1>5. CreatePending' => pending'.effectDeadline = d.effect.deadline
  BY <1>3, <1>4 DEF AuthorizationDeadline, CreatePending
<1>6. CreatePending' => CreateCovered'
  BY <1>3, <1>4 DEF CreatePending, CreateCovered
<1> QED BY <1>1, <1>3, <1>4, <1>5, <1>6 DEF Timely, CreateUnsent, CreatePending

LEMMA EmitTimely ==
    ASSUME RunningInv, Timely, EmitIntent
    PROVE  Timely'
<1>1. /\ pending.stage = "intent" /\ pc \in {"observed", "intent"} /\ pc' = "emitting"
      /\ UNCHANGED clock /\ input' = [NoInput EXCEPT !.now = input.now]
      /\ pending' = [pending EXCEPT !.stage = "emitting"]
  BY Zenon DEF EmitIntent, Cleared, AtPending
<1>2. /\ pending'.effect = pending.effect /\ pending'.createdAt = pending.createdAt
      /\ pending'.effectDeadline = pending.effectDeadline /\ input'.now = input.now
  BY <1>1, OneVmTyped DEF PendingEffects, NoInput
<1>3. CreateUnsent' => CreateUnsent
  BY <1>1, <1>2 DEF CreateUnsent, CreatePending
<1> QED BY <1>1, <1>2, <1>3 DEF Timely, CreatePending

(* An unsent create is not blocked by the tick that wrote it down. *)
LEMMA BlockTimely ==
    ASSUME RunningInv, Timely, BlockPending
    PROVE  Timely'
<1>1. AuthorizationProblem # "none" /\ pc' = "idle"
      /\ pending' = [pending EXCEPT !.status = "blocked"]
  BY DEF BlockPending, Idle
<1>2. /\ pending'.effect = pending.effect /\ pending'.stage = pending.stage
      /\ pending'.createdAt = pending.createdAt
      /\ pending'.effectDeadline = pending.effectDeadline
  BY <1>1, OneVmTyped DEF PendingEffects
<1>3. ~(CreatePending /\ pc = "intent")
  <2> SUFFICES ASSUME CreatePending, pc = "intent" PROVE FALSE
    OBVIOUS
  <2>1. CreateCovered
    BY DEF Timely
  <2>2. PendingOperation = "create"
    BY DEF PendingOperation, RequiredPermitOperation, CreatePending
  <2>3. input.now \in Nat /\ pending.permitExpires \in Nat
    BY OneVmTyped DEF PendingEffects
  <2> QED BY <1>1, <2>1, <2>2, <2>3 DEF AuthorizationProblem, CreateCovered
<1> QED BY <1>1, <1>2, <1>3, EndsTimely

LEMMA TickStepTimely ==
    ASSUME RunningInv, Timely, TickStep
    PROVE  Timely'
<1>1. CASE DecideNothing
  <2>1. pc' = "idle" /\ UNCHANGED pending /\ pc = "observed"
    BY <1>1 DEF DecideNothing, Idle
  <2> QED BY <2>1, EndsTimely
<1>2. CASE AbandonPending
  <2>1. pc' = "idle" /\ pending' = NoPending
    BY <1>2 DEF AbandonPending, Idle
  <2> QED BY <2>1, EndsTimely
<1> QED BY <1>1, <1>2, ObserveTimely, RecordTimely, EmitTimely, BlockTimely DEF TickStep

LEMMA ExecuteTimely ==
    ASSUME RunningInv, Timely, ExecuteStep
    PROVE  Timely'
<1>1. pc = "emitting" /\ pc' = "replied" /\ UNCHANGED pending
  BY DEF ExecuteStep, RequestFails, RefusedForCapacity, ExecuteCreate, ExecuteStart,
         ExecuteStop, ExecuteDelete, ExecuteRegister, ExecuteDrain, ExecuteResume, Refused,
         AcceptedReply, ReplyMayBeLost, Reply, Executing, journalVars
<1> QED BY <1>1, EndsTimely

LEMMA ReplyTimely ==
    ASSUME RunningInv, Timely, JournalReply
    PROVE  Timely'
<1>1. pc = "replied" /\ pc' \in {"idle", "down"}
  BY DEF JournalReply, Idle, Exit
<1>2. \/ pending' = NoPending
      \/ /\ pending'.effect = pending.effect /\ pending'.stage = pending.stage
         /\ pending'.createdAt = pending.createdAt
         /\ pending'.effectDeadline = pending.effectDeadline
  BY OneVmTyped DEF JournalReply, WaitForCapacity, PendingEffects, journalVars
<1> QED BY <1>1, <1>2, EndsTimely

LEMMA ReconcileTimely ==
    ASSUME RunningInv, Timely, ReconcileStep
    PROVE  Timely'
<1>1. pc = "observed"
  BY Zenon
  DEF ReconcileStep, ReconcileProven, ArmGrant, ArmFails, ReconcileStartRefused,
      RetireStoppedStart, ReconcileCreateRefused, ReconcileUnresolved, NeedsArming, Reconciling
<1>2. CASE RetireStoppedStart
  <2>1. /\ pc' = "intent" /\ pending'.effect.type = "delete-vm" /\ UNCHANGED <<input, clock>>
    BY <1>2 DEF RetireStoppedStart, WriteIntent, Decision, Effect
  <2> QED BY <1>1, <2>1 DEF Timely, CreateUnsent, CreatePending
<1>3. CASE ~RetireStoppedStart
  <2>1. pc' \in {"idle", "down"}
    BY <1>3 DEF ReconcileStep, ReconcileProven, ArmGrant, ArmFails, ReconcileStartRefused,
                ReconcileCreateRefused, ReconcileUnresolved, Idle, Exit
  <2>2. pending' \in {pending, NoPending}
    BY <1>3 DEF ReconcileStep, ReconcileProven, ArmGrant, ArmFails, ReconcileStartRefused,
                ReconcileCreateRefused, ReconcileUnresolved, Settle, WaitForCapacity, journalVars
  <2> QED BY <1>1, <2>1, <2>2, EndsTimely
<1> QED BY <1>2, <1>3

LEMMA TimelyStep ==
    ASSUME RunningInv, Timely, [Next]_vars, [~CreateCutOff]_vars
    PROVE  Timely'
<1>1. CASE UNCHANGED vars
  BY <1>1 DEF vars, Timely, CreateUnsent, CreatePending, CreateCovered
<1>2. CASE Next /\ ~UNCHANGED vars
  <2>1. CASE Crash \/ Restart
    <3>1. pc' \in {"idle", "down"} /\ UNCHANGED pending
      BY <2>1 DEF Crash, Restart, Exit, journalVars
    <3>2. ~(CreatePending /\ pc = "intent")
      BY <1>2, <2>1 DEF CreateCutOff, Crash, Restart, Exit
    <3> QED BY <3>1, <3>2, EndsTimely
  <2> QED BY <1>2, <2>1, WorldTimely, TickStepTimely, ExecuteTimely, ReplyTimely, ReconcileTimely
          DEF Next, ControllerStep
<1> QED BY <1>1, <1>2

(* What a create may take, from the observation of its tick to the end of    *)
(* its operation at the provider, fits the time a whole job is given.        *)
CreateFits == TickTime + OperationTime <= MaxJob + ShutdownMargin

LEMMA TimelyIsInTime ==
    ASSUME CreateFits, RunningInv, Timely
    PROVE  CreateInTime
<1> SUFFICES ASSUME ExecuteCreate PROVE clock + OperationTime <= pending.effectDeadline
  BY DEF CreateInTime
<1>1. pc = "emitting" /\ CreatePending
  BY DEF ExecuteCreate, Executing, CreatePending
<1>2. /\ clock <= pending.createdAt + TickTime
      /\ pending.createdAt + MaxJob + ShutdownMargin <= pending.effectDeadline
  BY <1>1 DEF Timely, CreateUnsent
<1> QED BY <1>2, OneVmTyped, ConfigAssumption DEF CreateFits

(* tickController and executeEffect: at most one VM exists or is being       *)
(* created, for all permits and any number of crashes, restarts, lost        *)
(* answers and refusals, so long as the process does not die between the     *)
(* journal write of a create and its request. A later tick would send that   *)
(* create with what is left of its deadline, and could abandon it in flight. *)
THEOREM SingleVmUnlessCutOff ==
    ASSUME CreateFits
    PROVE  Spec /\ [][~CreateCutOff]_vars => []SingleVm
<1>1. Init => OneVm /\ Timely
  BY NothingPending DEF Init, OneVm, Timely, CreateUnsent, CreatePending
<1>2. RunningInv /\ OneVm /\ Timely /\ [Next]_vars /\ [~CreateCutOff]_vars => OneVm' /\ Timely'
  <2> SUFFICES ASSUME RunningInv, OneVm, Timely, [Next]_vars, [~CreateCutOff]_vars
               PROVE  OneVm' /\ Timely'
    OBVIOUS
  <2>1. [CreateInTime]_vars
    BY TimelyIsInTime
  <2> QED BY <2>1, OneVmStep, TimelyStep
<1>3. OneVm => SingleVm
  BY DEF OneVm, CreateSent, SingleVm, OwnedVms
<1> QED BY <1>1, <1>2, <1>3, RunningInvariant, PTL DEF Spec
=============================================================================
