----------------------------- MODULE DirectAction -----------------------------
(***************************************************************************)
(* The direct actions of packages/cli/src/runner-service.ts: runner stop   *)
(* and runner cleanup (mutateOwned), the recovery of one that was cut off  *)
(* after its emission (recoverDirectEmission) and the recovery of a watch  *)
(* that receives SIGINT (interruptRecovery).                               *)
(*                                                                         *)
(* A process takes the controller lock, reads the record an earlier action *)
(* left in direct-action-state.json, and writes it again at each stage, so *)
(* that whoever comes after a crash knows how far the action got. Between  *)
(* two steps of a process the provider, the guest, GitHub and, while the   *)
(* lock is free, the watch loop may move.                                  *)
(***************************************************************************)
EXTENDS Naturals, Sequences, TLAPS

CONSTANTS
    Procs,                 \* processes that run a direct action
    Nobody,                \* no process
    MaxVm,                 \* bound: instances ever created
    MaxOps,                \* bound: no new record after so many operations
    MaxStarts,             \* bound: starts by the watch loop
    InterruptMayTimeOut    \* whether an interrupt recovery may exceed its time limit

DirectAssumption ==
    /\ Nobody \notin Procs
    /\ MaxVm \in Nat /\ MaxOps \in Nat /\ MaxStarts \in Nat
    /\ InterruptMayTimeOut \in BOOLEAN

VARIABLES
    record,      \* direct-action-state.json
    lock,        \* holder of the controller lock
    pc, me,      \* where each process is, and what it remembers
    answer,      \* what the last command of each process printed
    permit,      \* "active", or "expired": valid for recovery only
    vm,          \* the exact owned instance at the provider
    ops,         \* the provider's stop and delete operations, in order
    registered,  \* the owned runner is registered at GitHub
    assigned,    \* GitHub has handed it a job
    listener, worker,   \* processes on the guest
    journalUp,   \* lifecycle.state of controller-state.json is one of GUEST_UP_STATES
    starts,      \* starts by the watch loop so far
    sent,        \* history: requests sent under the current record
    sentOps,     \* history: the operations they became
    stoppedBy    \* history: who stopped the instance last

recordVars == <<record, sent, sentOps>>
procVars == <<lock, pc, me, answer>>
worldVars == <<vm, ops, registered, assigned, listener, worker, stoppedBy>>
watchVars == <<permit, journalUp, starts>>
vars == <<recordVars, procVars, worldVars, watchVars>>

Actions == {"stop", "cleanup"}
NoRecord == [action |-> "none", stage |-> "resolved", vm |-> 0, op |-> 0, retry |-> FALSE]
Records == [action : Actions \cup {"none"}, stage : {"intent", "emitting", "resolved"},
            vm : Nat, op : Nat, retry : BOOLEAN]
VmStates == {"absent", "stopped", "running", "stopping", "deleting"}
OpStates == {"running", "succeeded", "failed"}
Stages == {"off", "readback", "observe", "list", "prepared", "emitting", "drained", "emit", "note",
           "emitted", "waiting", "recover", "recoverObserve", "recoverDrain", "recoverVerify",
           "recoverRunners", "recoverFinal", "interruptDrain", "interruptVerify", "interruptIntent",
           "interruptEmitting"}
Nothing == [action |-> "none", vm |-> 0, state |-> "absent", owned |-> FALSE, op |-> 0]
Memories == [action : Actions \cup {"none"}, vm : Nat, state : VmStates, owned : BOOLEAN, op : Nat]

\* Type invariant: every file, process and resource is in one of its states.
DirectTypeOK ==
    /\ record \in Records /\ lock \in Procs \cup {Nobody}
    /\ pc \in [Procs -> Stages] /\ me \in [Procs -> Memories]
    /\ answer \in [Procs -> {"none", "done"}]
    /\ permit \in {"active", "expired"}
    /\ vm \in [id : Nat, state : VmStates]
    /\ ops \in Seq([vm : Nat, kind : Actions, state : OpStates])
    /\ registered \in BOOLEAN /\ assigned \in BOOLEAN /\ listener \in BOOLEAN /\ worker \in BOOLEAN
    /\ journalUp \in BOOLEAN /\ starts \in Nat
    /\ sent \in Nat /\ sentOps \subseteq Nat /\ stoppedBy \in {"guest", "controller"}

\* The watch loop has a stopped VM or one with a listener, and no direct action yet.
Init ==
    /\ record = NoRecord /\ lock = Nobody
    /\ pc = [p \in Procs |-> "off"] /\ me = [p \in Procs |-> Nothing]
    /\ answer = [p \in Procs |-> "none"] /\ permit = "active"
    /\ \E up \in BOOLEAN :
          /\ vm = [id |-> 1, state |-> IF up THEN "running" ELSE "stopped"]
          /\ registered = up /\ listener = up /\ journalUp = up
    /\ ops = <<>> /\ assigned = FALSE /\ worker = FALSE /\ starts = 0
    /\ sent = 0 /\ sentOps = {} /\ stoppedBy = "guest"
-----------------------------------------------------------------------------
\* A process goes on, or ends and frees the lock it holds.
GoTo(p, stage) == pc' = [pc EXCEPT ![p] = stage] /\ UNCHANGED <<lock, answer>>

End(p, outcome) ==
    /\ pc' = [pc EXCEPT ![p] = "off"] /\ lock' = IF lock = p THEN Nobody ELSE lock
    /\ answer' = [answer EXCEPT ![p] = outcome]

InFlight(o) == ops[o].state = "running"

\* listInstances and exactOwnedInstance of one process.
VmExists == vm.state # "absent"

\* requirePermit; requireRecoveryPermit accepts an expired permit too.
PermitActive == permit = "active"

SameAction(a) == record.action = a

\* mutateOwned: what the record of an earlier invocation allows this one to do.
Begin(p, a) ==
    /\ lock = Nobody /\ pc[p] = "off"
    /\ lock' = p /\ me' = [me EXCEPT ![p] = [Nothing EXCEPT !.action = a]]
    /\ answer' = [answer EXCEPT ![p] = "none"]
    /\ \/ SameAction(a) /\ record.stage = "resolved" /\ pc' = [pc EXCEPT ![p] = "readback"]
       \/ SameAction(a) /\ record.stage = "emitting" /\ pc' = [pc EXCEPT ![p] = "recover"]
       \/ /\ IF SameAction(a) THEN record.stage = "intent" ELSE PermitActive
          /\ Len(ops) < MaxOps /\ pc' = [pc EXCEPT ![p] = "observe"]
    /\ UNCHANGED <<recordVars, worldVars, watchVars>>

\* A resolved record is an answer only while the provider agrees with it.
StillResolved(a) == ~VmExists \/ (a = "stop" /\ vm.id = record.vm /\ vm.state = "stopped")

ReadBack(p) ==
    /\ pc[p] = "readback"
    /\ IF StillResolved(me[p].action) THEN End(p, "done")
       ELSE IF PermitActive /\ Len(ops) < MaxOps THEN GoTo(p, "observe") ELSE End(p, "none")
    /\ UNCHANGED <<me, recordVars, worldVars, watchVars>>

\* observe: queue, runner and guest show no job.
Idle == ~assigned /\ ~worker

Observe(p) ==
    /\ pc[p] = "observe"
    /\ IF Idle THEN GoTo(p, "list") ELSE End(p, "none")
    /\ UNCHANGED <<me, recordVars, worldVars, watchVars>>

\* decideStop and decideDelete: nothing to wait for, nothing that blocks.
MayAct(a) == IF a = "stop" THEN vm.state \in {"stopped", "running"} ELSE vm.state = "stopped"

NewRecord(a) == [action |-> a, stage |-> "intent", vm |-> vm.id, op |-> 0, retry |-> FALSE]

\* A new record has no request behind it yet.
WriteIntent(a) == record' = NewRecord(a) /\ sent' = 0 /\ sentOps' = {}

\* The instance and the runner are listed again before the intent is written.
List(p) ==
    /\ pc[p] = "list"
    /\ \/ assigned /\ End(p, "none") /\ UNCHANGED <<me, recordVars>>
       \/ /\ ~assigned /\ ~VmExists /\ End(p, "done") /\ UNCHANGED me
          /\ record' = NoRecord /\ sent' = 0 /\ sentOps' = {}
       \/ ~assigned /\ VmExists /\ ~MayAct(me[p].action) /\ End(p, "none") /\ UNCHANGED <<me, recordVars>>
       \/ /\ ~assigned /\ MayAct(me[p].action) /\ GoTo(p, "prepared")
          /\ me' = [me EXCEPT ![p].vm = vm.id, ![p].state = vm.state, ![p].owned = registered]
          /\ WriteIntent(me[p].action)
    /\ UNCHANGED <<worldVars, watchVars>>

\* Mutant: the observation was idle, so the request follows at once.
WriteEmittingAndSend(p) ==
    /\ pc[p] = "prepared" /\ GoTo(p, "emit")
    /\ record' = [record EXCEPT !.stage = "emitting"]
    /\ UNCHANGED <<sent, sentOps, me, worldVars, watchVars>>

WriteEmitting(p) ==
    /\ pc[p] = "prepared" /\ GoTo(p, "emitting")
    /\ record' = [record EXCEPT !.stage = "emitting"]
    /\ UNCHANGED <<sent, sentOps, me, worldVars, watchVars>>

\* drain.sh on a running guest; a worker makes it fail and keeps its job.
DrainGuest(p, next) ==
    IF worker \/ vm.state # "running" THEN End(p, "none") /\ UNCHANGED listener
    ELSE GoTo(p, next) /\ listener' = FALSE

Drain(p) ==
    /\ pc[p] = "emitting"
    /\ IF me[p].action = "stop" /\ me[p].state = "running" THEN DrainGuest(p, "drained")
       ELSE GoTo(p, "drained") /\ UNCHANGED listener
    /\ UNCHANGED <<me, recordVars, vm, ops, registered, assigned, worker, stoppedBy, watchVars>>

\* removeOwnedRunner: GitHub refuses to remove a runner that has a job.
RemoveRunner(p, next) ==
    IF registered /\ assigned THEN End(p, "none") /\ UNCHANGED registered
    ELSE GoTo(p, next) /\ registered' = FALSE

Remove(p) ==
    /\ pc[p] = "drained"
    /\ IF me[p].owned THEN RemoveRunner(p, "emit") ELSE GoTo(p, "emit") /\ UNCHANGED registered
    /\ UNCHANGED <<me, recordVars, vm, ops, assigned, listener, worker, stoppedBy, watchVars>>

\* The provider takes a request about an instance it has: the instance moves
\* and an operation exists, whether or not the reply arrives.
Takes(a, id) == vm.id = id /\ vm.state = (IF a = "stop" THEN "running" ELSE "stopped")

Accept(a) ==
    /\ vm' = [vm EXCEPT !.state = IF a = "stop" THEN "stopping" ELSE "deleting"]
    /\ ops' = Append(ops, [vm |-> vm.id, kind |-> a, state |-> "running"])
    /\ sentOps' = sentOps \cup {Len(ops) + 1}

\* emitControllerStop and NebiusCli.delete. A lost or failed reply ends the
\* process; an accepted request may come back without an operation id.
Request(p, a, id) ==
    /\ sent' = sent + 1
    /\ \/ /\ Takes(a, id) /\ Accept(a)
          /\ \/ End(p, "none") /\ UNCHANGED me
             \/ /\ GoTo(p, "note")
                /\ \E op \in {0, Len(ops) + 1} : me' = [me EXCEPT ![p].op = op]
       \/ End(p, "none") /\ UNCHANGED <<me, vm, ops, sentOps>>

\* mutateOwned sends nothing when a stop finds the instance stopped already.
Emit(p) ==
    /\ pc[p] = "emit"
    /\ IF me[p].action = "stop" /\ me[p].state = "stopped"
       THEN GoTo(p, "emitted") /\ UNCHANGED <<me, vm, ops, sent, sentOps>>
       ELSE Request(p, me[p].action, me[p].vm)
    /\ UNCHANGED <<record, registered, assigned, listener, worker, stoppedBy, watchVars>>

\* The tail of emitControllerStop: the lifecycle learns that this stop is ours.
NoteStop(p) ==
    /\ pc[p] = "note" /\ GoTo(p, "emitted")
    /\ journalUp' = IF me[p].action = "stop" THEN FALSE ELSE journalUp
    /\ UNCHANGED <<me, recordVars, worldVars, permit, starts>>

WriteOperation(p) ==
    /\ pc[p] = "emitted" /\ GoTo(p, "waiting")
    /\ record' = [record EXCEPT !.stage = "emitting", !.op = IF me[p].op = 0 THEN record.op ELSE me[p].op]
    /\ UNCHANGED <<sent, sentOps, me, worldVars, watchVars>>

\* waitForTerminalProvider looks for the instance by its id.
Terminal(a, id) ==
    IF a = "stop" THEN vm.id = id /\ vm.state = "stopped" ELSE vm.id # id \/ ~VmExists

Wait(p) ==
    /\ pc[p] = "waiting" /\ Terminal(me[p].action, me[p].vm)
    /\ record' = [record EXCEPT !.stage = "resolved"] /\ End(p, "done")
    /\ UNCHANGED <<sent, sentOps, me, worldVars, watchVars>>

\* A crash, a read that fails, a wait that takes too long, or any other throw.
\* recoverDirectEmission writes the record again as it is.
Fail(p) ==
    /\ pc[p] # "off" /\ End(p, "none")
    /\ UNCHANGED <<me, recordVars, worldVars, watchVars>>
-----------------------------------------------------------------------------
\* recoverDirectEmission: operations that may be the recorded emission. (One
\* with the recorded id is of the recorded VM, whether or not the listing names
\* its resource.)
Related == IF record.op = 0 THEN {o \in 1..Len(ops) : ops[o].vm = record.vm}
           ELSE {o \in {record.op} \cap (1..Len(ops)) : ops[o].vm = record.vm}

\* Mutant: an operation in flight is looked up by its recorded id only.
MayRetryUnidentified ==
    /\ \A o \in {record.op} \cap (1..Len(ops)) : ~InFlight(o)
    /\ vm.state \notin {"stopping", "deleting"} \/ record.op = 0
    /\ ~record.retry

\* Nothing in flight can still move the instance, and no retry was made yet.
MayRetry ==
    /\ \A o \in Related : ~InFlight(o)
    /\ vm.state \notin {"stopping", "deleting"}
    /\ record.op # 0 => Related # {}
    /\ ~record.retry

RecoveryTarget(a) == ~VmExists \/ (a = "stop" /\ vm.state = "stopped")

Recover(p) ==
    /\ pc[p] = "recover"
    /\ \/ /\ RecoveryTarget(me[p].action) /\ End(p, "done") /\ UNCHANGED me
          /\ record' = [record EXCEPT !.stage = "resolved"]
       \/ ~RecoveryTarget(me[p].action) /\ ~MayRetry /\ End(p, "none") /\ UNCHANGED <<me, record>>
       \/ /\ ~RecoveryTarget(me[p].action) /\ MayRetry /\ GoTo(p, "recoverObserve")
          /\ me' = [me EXCEPT ![p].vm = record.vm, ![p].state = vm.state] /\ UNCHANGED record
    /\ UNCHANGED <<sent, sentOps, worldVars, watchVars>>

RecoverObserve(p) ==
    /\ pc[p] = "recoverObserve"
    /\ IF ~Idle THEN End(p, "none")
       ELSE IF me[p].action = "stop" /\ me[p].state = "running" THEN GoTo(p, "recoverDrain")
       ELSE GoTo(p, "recoverRunners")
    /\ UNCHANGED <<me, recordVars, worldVars, watchVars>>

RecoverDrain(p) ==
    /\ pc[p] = "recoverDrain" /\ DrainGuest(p, "recoverVerify")
    /\ UNCHANGED <<me, recordVars, vm, ops, registered, assigned, worker, stoppedBy, watchVars>>

\* Readback of drain.sh: drained, and no job was assigned meanwhile.
DrainedIdle == Idle /\ ~listener /\ vm.state = "running"

RecoverVerify(p) ==
    /\ pc[p] = "recoverVerify"
    /\ IF DrainedIdle THEN GoTo(p, "recoverRunners") ELSE End(p, "none")
    /\ UNCHANGED <<me, recordVars, worldVars, watchVars>>

RecoverRunners(p) ==
    /\ pc[p] = "recoverRunners" /\ RemoveRunner(p, "recoverFinal")
    /\ UNCHANGED <<me, recordVars, vm, ops, assigned, listener, worker, stoppedBy, watchVars>>

\* The retry is recorded before it is made, so that nobody makes another. It
\* is always a request, whatever the state read before.
RecoverFinal(p) ==
    /\ pc[p] = "recoverFinal"
    /\ IF registered THEN End(p, "none") /\ UNCHANGED <<me, record>>
       ELSE /\ GoTo(p, "emit") /\ record' = [record EXCEPT !.retry = TRUE]
            /\ me' = [me EXCEPT ![p].state = "running"]
    /\ UNCHANGED <<sent, sentOps, worldVars, watchVars>>
-----------------------------------------------------------------------------
\* The watch process, which holds the lock, receives SIGINT (interruptRecovery).
Interrupt(p) ==
    /\ lock = Nobody /\ pc[p] = "off" /\ Len(ops) < MaxOps
    /\ VmExists /\ vm.state # "stopped"
    /\ lock' = p /\ pc' = [pc EXCEPT ![p] = "interruptDrain"]
    /\ answer' = [answer EXCEPT ![p] = "none"]
    /\ me' = [me EXCEPT ![p] = [Nothing EXCEPT !.action = "stop", !.vm = vm.id, !.state = "running"]]
    /\ UNCHANGED <<recordVars, worldVars, watchVars>>

InterruptDrain(p) ==
    /\ pc[p] = "interruptDrain" /\ DrainGuest(p, "interruptVerify")
    /\ UNCHANGED <<me, recordVars, vm, ops, registered, assigned, worker, stoppedBy, watchVars>>

InterruptVerify(p) ==
    /\ pc[p] = "interruptVerify"
    /\ IF DrainedIdle THEN RemoveRunner(p, "interruptIntent") ELSE End(p, "none") /\ UNCHANGED registered
    /\ UNCHANGED <<me, recordVars, vm, ops, assigned, listener, worker, stoppedBy, watchVars>>

InterruptIntent(p) ==
    /\ pc[p] = "interruptIntent" /\ GoTo(p, "interruptEmitting")
    /\ record' = [NewRecord("stop") EXCEPT !.vm = me[p].vm] /\ sent' = 0 /\ sentOps' = {}
    /\ UNCHANGED <<me, worldVars, watchVars>>

\* The guest is drained and the runner removed already; the request follows.
InterruptEmitting(p) ==
    /\ pc[p] = "interruptEmitting" /\ GoTo(p, "emit")
    /\ record' = [record EXCEPT !.action = "stop", !.stage = "emitting", !.vm = me[p].vm]
    /\ UNCHANGED <<sent, sentOps, me, worldVars, watchVars>>

\* runInterruptRecovery returns at its time limit and watch frees the lock; the
\* recovery itself only looks at the signal while it waits for the provider.
InterruptStages == {"interruptDrain", "interruptVerify", "interruptIntent", "interruptEmitting"}

InterruptTimesOut(p) ==
    /\ InterruptMayTimeOut /\ lock = p /\ pc[p] \in InterruptStages
    /\ lock' = Nobody
    /\ UNCHANGED <<pc, me, answer, recordVars, worldVars, watchVars>>
-----------------------------------------------------------------------------
\* Provider: an operation ends, or fails and leaves the instance as it was.
Settle(o) ==
    /\ ops[o].state = "running"
    /\ \/ /\ ops' = [ops EXCEPT ![o].state = "succeeded"]
          /\ vm' = [vm EXCEPT !.state = IF ops[o].kind = "stop" THEN "stopped" ELSE "absent"]
          /\ stoppedBy' = "controller" /\ listener' = FALSE /\ worker' = FALSE
       \/ /\ ops' = [ops EXCEPT ![o].state = "failed"]
          /\ vm' = [vm EXCEPT !.state = IF ops[o].kind = "stop" THEN "running" ELSE "stopped"]
          /\ UNCHANGED <<stoppedBy, listener, worker>>
    /\ UNCHANGED <<registered, assigned, recordVars, procVars, watchVars>>

\* The guest's watchdog powers the instance off.
PowerOff ==
    /\ vm.state = "running" /\ vm' = [vm EXCEPT !.state = "stopped"]
    /\ listener' = FALSE /\ worker' = FALSE /\ stoppedBy' = "guest"
    /\ UNCHANGED <<ops, registered, assigned, recordVars, procVars, watchVars>>

\* GitHub hands a job to a listening runner; the listener starts a worker.
Assign ==
    /\ registered /\ listener /\ ~assigned /\ assigned' = TRUE
    /\ UNCHANGED <<vm, ops, registered, listener, worker, stoppedBy, recordVars, procVars, watchVars>>

StartJob ==
    /\ assigned /\ listener /\ ~worker /\ worker' = TRUE
    /\ UNCHANGED <<vm, ops, registered, assigned, listener, stoppedBy, recordVars, procVars, watchVars>>

\* An ephemeral runner serves one job; a job its runner lost ends as well.
JobEnds ==
    /\ assigned /\ (worker \/ ~listener)
    /\ assigned' = FALSE /\ worker' = FALSE /\ listener' = FALSE /\ registered' = FALSE
    /\ UNCHANGED <<vm, ops, stoppedBy, recordVars, procVars, watchVars>>

\* Between direct actions the watch loop starts the VM again, or creates the
\* next one, and registers a runner on it.
WatchStarts ==
    /\ lock = Nobody /\ starts < MaxStarts /\ ~assigned
    /\ \/ vm.state = "stopped" /\ vm' = [vm EXCEPT !.state = "running"]
       \/ ~VmExists /\ vm.id < MaxVm /\ vm' = [id |-> vm.id + 1, state |-> "running"]
       \/ vm.state = "running" /\ ~listener /\ UNCHANGED vm
    /\ starts' = starts + 1 /\ registered' = TRUE /\ listener' = TRUE /\ journalUp' = TRUE
    /\ UNCHANGED <<ops, assigned, worker, stoppedBy, permit, recordVars, procVars>>

Expire ==
    /\ permit = "active" /\ permit' = "expired"
    /\ UNCHANGED <<journalUp, starts, recordVars, procVars, worldVars>>

Step(p) ==
    \/ ReadBack(p) \/ Observe(p) \/ List(p) \/ WriteEmitting(p) \/ Drain(p) \/ Remove(p)
    \/ Emit(p) \/ NoteStop(p) \/ WriteOperation(p) \/ Wait(p)
    \/ Recover(p) \/ RecoverObserve(p) \/ RecoverDrain(p) \/ RecoverVerify(p)
    \/ RecoverRunners(p) \/ RecoverFinal(p)
    \/ InterruptDrain(p) \/ InterruptVerify(p) \/ InterruptIntent(p) \/ InterruptEmitting(p)

World == (\E o \in 1..Len(ops) : Settle(o)) \/ PowerOff \/ Assign \/ StartJob \/ JobEnds

Next ==
    \/ \E p \in Procs : Step(p) \/ Fail(p) \/ InterruptTimesOut(p) \/ Interrupt(p)
    \/ \E p \in Procs, a \in Actions : Begin(p, a)
    \/ World \/ WatchStarts \/ Expire

Spec == Init /\ [][Next]_vars
-----------------------------------------------------------------------------
RecordInFlight == \E o \in sentOps : InFlight(o)

\* One record stands for at most two requests to the provider, however often it
\* is cut off and taken up again, and the second one waits for the operation of
\* the first, also when the reply that named it was lost (recoverDirectEmission).
SecondRequestWaits ==
    [][sent' > sent => sent < 2 /\ record.stage = "emitting" /\ ~RecordInFlight]_vars

\* No direct action stops the VM under a job, although every look at queue,
\* runner and guest is older than the request (mutateOwned, drain.sh).
NoJobStopped == worker => vm.state = "running"

\* A command that answers done is right at that moment: the instance is
\* stopped or gone, also when the answer comes from a record that an earlier
\* invocation left and the VM was started again in between (mutateOwned).
DoneIsTrue ==
    [][\A p \in Procs : answer'[p] = "done" /\ answer[p] # "done" =>
          ~VmExists \/ (me[p].action = "stop" /\ vm.state = "stopped")]_vars

\* A stop that was cut off. It does not stay so for ever, also when both of its
\* requests were used up without effect: the guest's watchdog ends the VM and
\* the repeated command finds it stopped (recoverDirectEmission).
StopCutOff == record.action = "stop" /\ record.stage = "emitting"

\* runner-service.ts, emitControllerStop: a stop the controller emits is
\* recorded at emission, so that the lifecycle guard can tell it from a guest
\* that powered itself off.
OwnStopRecorded ==
    lock = Nobody /\ vm.state = "stopped" /\ stoppedBy = "controller" => ~journalUp

\* Phase 3, R10: of two controller processes on one state directory only the
\* one that holds the lock can mutate.
OnlyHolderMutates == [][\A p \in Procs : sent' # sent /\ pc[p] # pc'[p] => lock = p]_vars
-----------------------------------------------------------------------------
(* Proofs, for any number of processes that share the lock, as long as an    *)
(* interrupt recovery stays within its time limit.  A process that is at     *)
(* work has the lock, so the watch loop registers no runner between its      *)
(* drain and its request; the provider's operation in flight shows in the    *)
(* state of the instance, so a retry that finds no such state is alone.      *)
WithinTime == DirectAssumption /\ ~InterruptMayTimeOut

AtWorkHasLock == \A p \in Procs : pc[p] # "off" => lock = p /\ me[p].action \in Actions

(* A job runs under a listener, a listener on a running instance. *)
JobsRun == /\ worker => listener
           /\ listener => vm.state = "running"

(* The operation in flight, one at most, is the one the instance is in. *)
InFlightShows ==
    /\ \A o \in 1..Len(ops) :
          InFlight(o) => vm.state = IF ops[o].kind = "stop" THEN "stopping" ELSE "deleting"
    /\ \A o, q \in 1..Len(ops) : InFlight(o) /\ InFlight(q) => o = q

Quiet == \A o \in 1..Len(ops) : ~InFlight(o)

(* The requests behind the record: one, and a second after a retry. *)
RequestsCounted == /\ sent <= 2 /\ (~record.retry => sent <= 1)
                   /\ sentOps \subseteq 1..Len(ops)

Fresh == sent = 0 /\ sentOps = {}

(* From its drain to its request a stop has no listener behind its back. *)
StaysDrained(p) ==
    /\ pc[p] \in {"prepared", "emitting"} /\ me[p].action = "stop"
          => me[p].state \in {"stopped", "running"}
    /\ pc[p] \in {"drained", "emit"} /\ me[p].action = "stop" /\ me[p].state # "stopped"
          => ~listener
    /\ pc[p] \in {"recoverVerify", "recoverRunners", "recoverFinal", "interruptVerify",
                  "interruptIntent", "interruptEmitting"} /\ me[p].action = "stop"
          => ~listener
    /\ pc[p] = "recoverObserve" /\ me[p].action = "stop" => me[p].state = "running"

(* What was requested under the record at each stage of an action. *)
RecordKept(p) ==
    /\ pc[p] \in {"prepared", "interruptEmitting"} => Fresh
    /\ pc[p] \in {"emitting", "drained"} => Fresh /\ record.stage = "emitting"
    /\ pc[p] \in {"recover", "recoverObserve", "recoverDrain", "recoverVerify",
                  "recoverRunners", "recoverFinal", "emit"} => record.stage = "emitting"
    /\ pc[p] \in {"recoverObserve", "recoverDrain", "recoverVerify", "recoverRunners",
                  "recoverFinal"} => ~record.retry /\ Quiet
    /\ pc[p] = "emit" => Fresh \/ (record.retry /\ sent <= 1 /\ Quiet)

(* A deletion that was accepted is the deletion of the instance there is. *)
WaitsForOwn(p) ==
    pc[p] \in {"note", "emitted", "waiting"} /\ me[p].action # "stop" => vm.id = me[p].vm

Sound(p) == StaysDrained(p) /\ RecordKept(p) /\ WaitsForOwn(p)

DirectInv == /\ DirectTypeOK /\ AtWorkHasLock /\ JobsRun /\ InFlightShows
             /\ RequestsCounted /\ \A p \in Procs : Sound(p)

(* Every step keeps files, processes and resources in their states. *)
LEMMA EndsTyped ==
  ASSUME DirectTypeOK, NEW p \in Procs, NEW a \in {"none", "done"}, End(p, a)
  PROVE  /\ pc' \in [Procs -> Stages] /\ lock' \in Procs \cup {Nobody}
         /\ answer' \in [Procs -> {"none", "done"}]
BY DEF DirectTypeOK, End, Stages

LEMMA GoesTyped ==
  ASSUME DirectTypeOK, NEW p \in Procs, NEW s \in Stages, GoTo(p, s)
  PROVE  /\ pc' \in [Procs -> Stages] /\ lock' \in Procs \cup {Nobody}
         /\ answer' \in [Procs -> {"none", "done"}]
BY DEF DirectTypeOK, GoTo

(* What a process remembers, with some of it noted anew. *)
LEMMA MemoryNotes ==
  ASSUME NEW m \in Memories, NEW v \in Nat, NEW s \in VmStates, NEW b \in BOOLEAN
  PROVE  /\ [m EXCEPT !.vm = v, !.state = s, !.owned = b] \in Memories
         /\ [m EXCEPT !.vm = v, !.state = s] \in Memories
         /\ [m EXCEPT !.state = s] \in Memories
         /\ [m EXCEPT !.op = v] \in Memories
BY DEF Memories

LEMMA MutationTyped ==
  ASSUME DirectTypeOK, NEW p \in Procs,
         \/ ReadBack(p) \/ Observe(p) \/ List(p) \/ WriteEmitting(p) \/ Drain(p) \/ Remove(p)
         \/ NoteStop(p) \/ WriteOperation(p) \/ Wait(p)
  PROVE  DirectTypeOK'
<1> USE DEF DirectTypeOK, recordVars, worldVars, watchVars, Stages
<1>1. CASE ReadBack(p)
  BY <1>1, EndsTyped, GoesTyped DEF ReadBack
<1>2. CASE Observe(p)
  BY <1>2, EndsTyped, GoesTyped DEF Observe
<1>3. CASE List(p)
  <2>1. me[p].action \in Actions \cup {"none"} /\ vm.id \in Nat /\ vm.state \in VmStates
    BY DEF Memories
  <2>2. NewRecord(me[p].action) \in Records /\ NoRecord \in Records
    BY <2>1 DEF NewRecord, NoRecord, Records
  <2>3. record' \in Records /\ sent' \in Nat /\ sentOps' \subseteq Nat
    BY <1>3, <2>2 DEF List, WriteIntent
  <2>4. [me[p] EXCEPT !.vm = vm.id, !.state = vm.state, !.owned = registered] \in Memories
    BY <2>1, MemoryNotes
  <2>5. me' \in [Procs -> Memories]
    BY <1>3, <2>4 DEF List, Memories
  <2> QED
    BY <1>3, <2>3, <2>5, EndsTyped, GoesTyped DEF List
<1>4. CASE WriteEmitting(p)
  BY <1>4, GoesTyped DEF WriteEmitting, Records
<1>5. CASE Drain(p)
  BY <1>5, EndsTyped, GoesTyped DEF Drain, DrainGuest
<1>6. CASE Remove(p)
  BY <1>6, EndsTyped, GoesTyped DEF Remove, RemoveRunner
<1>7. CASE NoteStop(p)
  BY <1>7, EndsTyped, GoesTyped DEF NoteStop
<1>8. CASE WriteOperation(p)
  <2>1. record' \in Records
    BY <1>8 DEF WriteOperation, Records, Memories
  <2> QED
    BY <1>8, <2>1, GoesTyped DEF WriteOperation
<1>9. CASE Wait(p)
  BY <1>9, EndsTyped DEF Wait, Records
<1> QED
  BY <1>1, <1>2, <1>3, <1>4, <1>5, <1>6, <1>7, <1>8, <1>9

LEMMA EmitTyped ==
  ASSUME DirectTypeOK, NEW p \in Procs, me[p].action \in Actions, Emit(p)
  PROVE  DirectTypeOK'
<1> USE DEF DirectTypeOK, Stages
<1>1. /\ pc' \in [Procs -> Stages] /\ lock' \in Procs \cup {Nobody}
      /\ answer' \in [Procs -> {"none", "done"}]
  BY EndsTyped, GoesTyped DEF Emit, Request
<1>2. me' \in [Procs -> Memories]
  <2>1. Len(ops) + 1 \in Nat
    OBVIOUS
  <2>2. \A op \in {0, Len(ops) + 1} : [me[p] EXCEPT !.op = op] \in Memories
    BY <2>1, MemoryNotes DEF VmStates
  <2> QED
    BY <2>2 DEF Emit, Request
<1>3. sent' \in Nat /\ sentOps' \subseteq Nat
  BY DEF Emit, Request, Accept
<1>4. vm' \in [id : Nat, state : VmStates]
  BY DEF Emit, Request, Accept, VmStates
<1>5. ops' \in Seq([vm : Nat, kind : Actions, state : OpStates])
  <2>1. CASE ops' = ops
    BY <2>1
  <2>2. CASE ops' = Append(ops, [vm |-> vm.id, kind |-> me[p].action, state |-> "running"])
    <3>1. [vm |-> vm.id, kind |-> me[p].action, state |-> "running"]
            \in [vm : Nat, kind : Actions, state : OpStates]
      BY <2>2 DEF OpStates
    <3> QED
      BY <2>2, <3>1
  <2> QED
    BY <2>1, <2>2 DEF Emit, Request, Accept
<1> QED
  BY <1>1, <1>2, <1>3, <1>4, <1>5 DEF Emit, watchVars

LEMMA RecoveryTyped ==
  ASSUME DirectTypeOK, NEW p \in Procs,
         \/ Recover(p) \/ RecoverObserve(p) \/ RecoverDrain(p) \/ RecoverVerify(p)
         \/ RecoverRunners(p) \/ RecoverFinal(p) \/ Fail(p)
  PROVE  DirectTypeOK'
<1> USE DEF DirectTypeOK, recordVars, worldVars, watchVars, Stages
<1>1. CASE Recover(p)
  <2>1. record' \in Records
    BY <1>1 DEF Recover, Records
  <2>2. [me[p] EXCEPT !.vm = record.vm, !.state = vm.state] \in Memories
    BY MemoryNotes DEF Records
  <2>3. me' \in [Procs -> Memories]
    BY <1>1, <2>2 DEF Recover
  <2> QED
    BY <1>1, <2>1, <2>3, EndsTyped, GoesTyped DEF Recover
<1>2. CASE RecoverObserve(p)
  BY <1>2, EndsTyped, GoesTyped DEF RecoverObserve
<1>3. CASE RecoverDrain(p)
  BY <1>3, EndsTyped, GoesTyped DEF RecoverDrain, DrainGuest
<1>4. CASE RecoverVerify(p)
  BY <1>4, EndsTyped, GoesTyped DEF RecoverVerify
<1>5. CASE RecoverRunners(p)
  BY <1>5, EndsTyped, GoesTyped DEF RecoverRunners, RemoveRunner
<1>6. CASE RecoverFinal(p)
  <2>1. record' \in Records
    BY <1>6 DEF RecoverFinal, Records
  <2>2. [me[p] EXCEPT !.state = "running"] \in Memories
    BY MemoryNotes DEF VmStates
  <2>3. me' \in [Procs -> Memories]
    BY <1>6, <2>2 DEF RecoverFinal
  <2> QED
    BY <1>6, <2>1, <2>3, EndsTyped, GoesTyped DEF RecoverFinal
<1>7. CASE Fail(p)
  BY <1>7, EndsTyped DEF Fail
<1> QED
  BY <1>1, <1>2, <1>3, <1>4, <1>5, <1>6, <1>7

LEMMA StartsTyped ==
  ASSUME DirectTypeOK, NEW p \in Procs,
         \/ \E a \in Actions : Begin(p, a)
         \/ Interrupt(p) \/ InterruptDrain(p) \/ InterruptVerify(p) \/ InterruptIntent(p)
         \/ InterruptEmitting(p)
  PROVE  DirectTypeOK'
<1> USE DEF DirectTypeOK, recordVars, worldVars, watchVars, Stages
<1>1. ASSUME NEW a \in Actions, Begin(p, a)
      PROVE  DirectTypeOK'
  <2>1. [Nothing EXCEPT !.action = a] \in Memories
    BY DEF Nothing, Memories, VmStates
  <2>2. me' \in [Procs -> Memories]
    BY <1>1, <2>1 DEF Begin
  <2> QED
    BY <1>1, <2>2 DEF Begin
<1>2. CASE Interrupt(p)
  <2>1. [Nothing EXCEPT !.action = "stop", !.vm = vm.id, !.state = "running"] \in Memories
    BY DEF Nothing, Memories, VmStates, Actions
  <2>2. me' \in [Procs -> Memories]
    BY <1>2, <2>1 DEF Interrupt
  <2> QED
    BY <1>2, <2>2 DEF Interrupt
<1>3. CASE InterruptDrain(p)
  BY <1>3, EndsTyped, GoesTyped DEF InterruptDrain, DrainGuest
<1>4. CASE InterruptVerify(p)
  BY <1>4, EndsTyped, GoesTyped DEF InterruptVerify, RemoveRunner
<1>5. CASE InterruptIntent(p)
  <2>1. [NewRecord("stop") EXCEPT !.vm = me[p].vm] \in Records
    BY DEF NewRecord, Records, Memories, Actions
  <2> QED
    BY <1>5, <2>1, GoesTyped DEF InterruptIntent
<1>6. CASE InterruptEmitting(p)
  <2>1. record' \in Records
    BY <1>6 DEF InterruptEmitting, Records, Memories, Actions
  <2> QED
    BY <1>6, <2>1, GoesTyped DEF InterruptEmitting
<1> QED
  BY <1>1, <1>2, <1>3, <1>4, <1>5, <1>6

LEMMA SequenceUpdated ==
  ASSUME NEW S, NEW q \in Seq(S), NEW o \in 1..Len(q)
  PROVE  q[o] \in S /\ \A r \in S : [q EXCEPT ![o] = r] \in Seq(S)
OBVIOUS

LEMMA WorldTyped ==
  ASSUME DirectTypeOK, World \/ WatchStarts \/ Expire
  PROVE  DirectTypeOK'
<1> USE DEF DirectTypeOK, recordVars, procVars, watchVars
<1>1. ASSUME NEW o \in 1..Len(ops), Settle(o)
      PROVE  DirectTypeOK'
  <2>1. ops' \in Seq([vm : Nat, kind : Actions, state : OpStates])
    <3>1. PICK s \in {"succeeded", "failed"} : ops' = [ops EXCEPT ![o].state = s]
      BY <1>1 DEF Settle
    <3>2. ops[o] \in [vm : Nat, kind : Actions, state : OpStates]
      BY SequenceUpdated
    <3>3. [ops[o] EXCEPT !.state = s] \in [vm : Nat, kind : Actions, state : OpStates]
      BY <3>2 DEF OpStates
    <3> QED
      BY <3>1, <3>3, SequenceUpdated
  <2>2. vm' \in [id : Nat, state : VmStates]
    BY <1>1 DEF Settle, VmStates
  <2> QED
    BY <1>1, <2>1, <2>2 DEF Settle
<1>2. CASE PowerOff \/ Assign \/ StartJob \/ JobEnds
  BY <1>2 DEF PowerOff, Assign, StartJob, JobEnds, VmStates
<1>3. CASE WatchStarts
  <2>1. vm' \in [id : Nat, state : VmStates]
    BY <1>3 DEF WatchStarts, VmStates
  <2> QED
    BY <1>3, <2>1 DEF WatchStarts
<1>4. CASE Expire
  BY <1>4 DEF Expire, worldVars
<1> QED
  BY <1>1, <1>2, <1>3, <1>4 DEF World

-----------------------------------------------------------------------------
(* A step of the one process that has the lock, or takes it: the others are *)
(* not at work.                                                             *)
LEMMA ActorKeeps ==
  ASSUME WithinTime, DirectInv, NEW p \in Procs, DirectTypeOK',
         pc[p] # "off" \/ lock = Nobody, \A q \in Procs \ {p} : pc'[q] = pc[q],
         pc'[p] # "off" => lock' = p /\ me'[p].action \in Actions,
         JobsRun', InFlightShows', RequestsCounted', Sound(p)'
  PROVE  DirectInv'
<1>1. \A q \in Procs \ {p} : pc[q] = "off" /\ pc'[q] = "off"
  BY DEF DirectInv, AtWorkHasLock, WithinTime, DirectAssumption
<1>2. AtWorkHasLock'
  BY <1>1 DEF AtWorkHasLock
<1>3. \A q \in Procs : Sound(q)'
  BY <1>1 DEF Sound, StaysDrained, RecordKept, WaitsForOwn
<1> QED
  BY <1>2, <1>3 DEF DirectInv

(* One that asks the provider for nothing. *)
LEMMA LocalKeeps ==
  ASSUME WithinTime, DirectInv, NEW p \in Procs, DirectTypeOK',
         pc[p] # "off" \/ lock = Nobody, \A q \in Procs \ {p} : pc'[q] = pc[q],
         pc'[p] # "off" => lock' = p /\ me'[p].action \in Actions,
         UNCHANGED <<vm, ops, worker>>, listener' = listener \/ (~listener' /\ ~worker),
         \/ UNCHANGED <<sent, sentOps>> /\ (record.retry => record'.retry)
         \/ sent' = 0 /\ sentOps' = {},
         Sound(p)'
  PROVE  DirectInv'
<1>1. JobsRun'
  BY DEF DirectInv, JobsRun
<1>2. InFlightShows'
  BY DEF DirectInv, InFlightShows, InFlight
<1>3. RequestsCounted'
  <2>1. record.retry \in BOOLEAN /\ record'.retry \in BOOLEAN
    BY DEF DirectInv, DirectTypeOK, Records
  <2>2. CASE UNCHANGED <<sent, sentOps>> /\ (record.retry => record'.retry)
    BY <2>1, <2>2 DEF DirectInv, RequestsCounted
  <2>3. CASE sent' = 0 /\ sentOps' = {}
    <3>1. 0 <= 2 /\ 0 <= 1
      OBVIOUS
    <3> QED
      BY <2>3, <3>1 DEF RequestsCounted
  <2> QED
    BY <2>2, <2>3
<1> QED
  BY <1>1, <1>2, <1>3, ActorKeeps

(* Where a process goes, and what an end gives up. *)
LEMMA Goes ==
  ASSUME DirectTypeOK, NEW p \in Procs, NEW s \in Stages, GoTo(p, s)
  PROVE  pc'[p] = s /\ lock' = lock /\ \A q \in Procs \ {p} : pc'[q] = pc[q]
BY DEF GoTo, DirectTypeOK

LEMMA Ends ==
  ASSUME DirectTypeOK, NEW p \in Procs, NEW a \in {"none", "done"}, End(p, a)
  PROVE  pc'[p] = "off" /\ \A q \in Procs \ {p} : pc'[q] = pc[q]
BY DEF End, DirectTypeOK

(* An ended action owes nothing. *)
LEMMA OffIsSound == ASSUME NEW p \in Procs, pc'[p] = "off" PROVE Sound(p)'
BY DEF Sound, StaysDrained, RecordKept, WaitsForOwn

LEMMA MutationKeeps ==
  ASSUME WithinTime, DirectInv, NEW p \in Procs,
         ReadBack(p) \/ Observe(p) \/ WriteEmitting(p) \/ Drain(p) \/ Remove(p)
  PROVE  DirectInv'
<1> USE Goes, Ends, OffIsSound DEF Stages
<1> DEFINE Others == \A q \in Procs \ {p} : pc'[q] = pc[q]
<1>1. DirectTypeOK /\ DirectTypeOK'
  BY MutationTyped DEF DirectInv
<1>2. pc[p] # "off" /\ lock = p /\ me[p].action \in Actions
  BY DEF DirectInv, AtWorkHasLock, ReadBack, Observe, WriteEmitting, Drain, Remove
<1>3. CASE ReadBack(p)
  <2>1. Others /\ (pc'[p] # "off" => pc'[p] = "observe" /\ lock' = lock)
    BY <1>1, <1>3 DEF ReadBack
  <2>2. Sound(p)'
    BY <2>1 DEF Sound, StaysDrained, RecordKept, WaitsForOwn
  <2> QED
    BY <1>1, <1>2, <1>3, <2>1, <2>2, LocalKeeps DEF ReadBack, recordVars, worldVars
<1>4. CASE Observe(p)
  <2>1. Others /\ (pc'[p] # "off" => pc'[p] = "list" /\ lock' = lock)
    BY <1>1, <1>4 DEF Observe
  <2>2. Sound(p)'
    BY <2>1 DEF Sound, StaysDrained, RecordKept, WaitsForOwn
  <2> QED
    BY <1>1, <1>2, <1>4, <2>1, <2>2, LocalKeeps DEF Observe, recordVars, worldVars
<1>5. CASE WriteEmitting(p)
  <2>1. Others /\ pc'[p] = "emitting" /\ lock' = lock
    BY <1>1, <1>5 DEF WriteEmitting
  <2>2. record'.stage = "emitting" /\ record'.retry = record.retry
    BY <1>1, <1>5 DEF WriteEmitting, DirectTypeOK, Records
  <2>3. Sound(p)'
    BY <1>5, <2>1, <2>2 DEF WriteEmitting, DirectInv, Sound, StaysDrained, RecordKept, WaitsForOwn,
                       Fresh
  <2> QED
    BY <1>1, <1>2, <1>5, <2>1, <2>2, <2>3, LocalKeeps DEF WriteEmitting, worldVars
<1>6. CASE Drain(p)
  <2>1. /\ Others
        /\ pc'[p] # "off" => /\ pc'[p] = "drained" /\ lock' = lock
                             /\ me[p].action = "stop" /\ me[p].state # "stopped" => ~listener'
    BY <1>1, <1>6 DEF Drain, DrainGuest, DirectInv, Sound, StaysDrained
  <2>2. Sound(p)'
    BY <1>6, <2>1 DEF Drain, DirectInv, Sound, StaysDrained, RecordKept, WaitsForOwn, Fresh,
                      recordVars
  <2>3. listener' = listener \/ (~listener' /\ ~worker)
    BY <1>6 DEF Drain, DrainGuest
  <2> QED
    BY <1>1, <1>2, <1>6, <2>1, <2>2, <2>3, LocalKeeps DEF Drain, recordVars
<1>7. CASE Remove(p)
  <2>1. Others /\ (pc'[p] # "off" => pc'[p] = "emit" /\ lock' = lock)
    BY <1>1, <1>7 DEF Remove, RemoveRunner
  <2>2. Sound(p)'
    BY <1>7, <2>1 DEF Remove, DirectInv, Sound, StaysDrained, RecordKept, WaitsForOwn, Fresh,
                      recordVars
  <2> QED
    BY <1>1, <1>2, <1>7, <2>1, <2>2, LocalKeeps DEF Remove, recordVars
<1> QED
  BY <1>3, <1>4, <1>5, <1>6, <1>7

(* The steps that write a new record, or end one, have asked for nothing *)
(* under it yet.                                                         *)
LEMMA RecordKeeps ==
  ASSUME WithinTime, DirectInv, NEW p \in Procs,
         List(p) \/ NoteStop(p) \/ WriteOperation(p) \/ Wait(p)
  PROVE  DirectInv'
<1> USE Goes, Ends, OffIsSound DEF Stages
<1> DEFINE Others == \A q \in Procs \ {p} : pc'[q] = pc[q]
<1>1. DirectTypeOK /\ DirectTypeOK'
  BY MutationTyped DEF DirectInv
<1>2. pc[p] # "off" /\ lock = p /\ me[p].action \in Actions
  BY DEF DirectInv, AtWorkHasLock, List, NoteStop, WriteOperation, Wait
<1>3. CASE List(p)
  <2>1. Others /\ (pc'[p] # "off" => pc'[p] = "prepared" /\ lock' = lock)
    BY <1>1, <1>3 DEF List
  <2>2. pc'[p] # "off" => Fresh'
    BY <1>1, <1>3 DEF List, WriteIntent, Fresh
  <2>3. me'[p].action = me[p].action
    BY <1>1, <1>3 DEF List, DirectTypeOK, Memories
  <2>4. pc'[p] # "off" => me'[p].state = vm.state /\ MayAct(me[p].action)
    <3>1. pc'[p] # "off" => /\ MayAct(me[p].action)
                            /\ me' = [me EXCEPT ![p].vm = vm.id, ![p].state = vm.state,
                                                ![p].owned = registered]
      BY <1>1, <1>3 DEF List
    <3>2. me \in [Procs -> Memories] /\ me[p] \in Memories
      BY <1>1 DEF DirectTypeOK
    <3> QED
      BY <3>1, <3>2 DEF Memories
  <2>6. Sound(p)'
    BY <2>1, <2>2, <2>3, <2>4 DEF MayAct, Sound, StaysDrained, RecordKept, WaitsForOwn
  <2>5. UNCHANGED <<record, sent, sentOps>> \/ (sent' = 0 /\ sentOps' = {})
    BY <1>3 DEF List, WriteIntent, recordVars
  <2> QED
    BY <1>1, <1>2, <1>3, <2>1, <2>3, <2>5, <2>6, LocalKeeps DEF List, worldVars
<1>4. CASE NoteStop(p)
  <2>1. Others /\ pc'[p] = "emitted" /\ lock' = lock
    BY <1>1, <1>4 DEF NoteStop
  <2>2. Sound(p)'
    BY <1>4, <2>1 DEF NoteStop, DirectInv, Sound, StaysDrained, RecordKept, WaitsForOwn, worldVars
  <2> QED
    BY <1>1, <1>2, <1>4, <2>1, <2>2, LocalKeeps DEF NoteStop, recordVars, worldVars
<1>5. CASE WriteOperation(p)
  <2>1. Others /\ pc'[p] = "waiting" /\ lock' = lock /\ record'.retry = record.retry
    BY <1>1, <1>5 DEF WriteOperation, DirectTypeOK, Records
  <2>2. Sound(p)'
    BY <1>5, <2>1 DEF WriteOperation, DirectInv, Sound, StaysDrained, RecordKept, WaitsForOwn,
                      worldVars
  <2> QED
    BY <1>1, <1>2, <1>5, <2>1, <2>2, LocalKeeps DEF WriteOperation, worldVars
<1>6. CASE Wait(p)
  <2>1. Others /\ pc'[p] = "off" /\ record'.retry = record.retry
    BY <1>1, <1>6 DEF Wait, DirectTypeOK, Records
  <2> QED
    BY <1>1, <1>2, <1>6, <2>1, LocalKeeps DEF Wait, worldVars
<1> QED
  BY <1>3, <1>4, <1>5, <1>6

(* A recovery goes on only when nothing in flight moves the instance, and *)
(* records its retry before the request.                                  *)
LEMMA RecoveryKeeps ==
  ASSUME WithinTime, DirectInv, NEW p \in Procs,
         \/ Recover(p) \/ RecoverObserve(p) \/ RecoverDrain(p) \/ RecoverVerify(p)
         \/ RecoverRunners(p) \/ RecoverFinal(p) \/ Fail(p)
  PROVE  DirectInv'
<1> USE Goes, Ends, OffIsSound DEF Stages
<1> DEFINE Others == \A q \in Procs \ {p} : pc'[q] = pc[q]
<1>1. DirectTypeOK /\ DirectTypeOK'
  BY RecoveryTyped DEF DirectInv
<1>2. pc[p] # "off" /\ lock = p /\ me[p].action \in Actions
  BY DEF DirectInv, AtWorkHasLock, Recover, RecoverObserve, RecoverDrain, RecoverVerify,
         RecoverRunners, RecoverFinal, Fail
<1>3. StaysDrained(p) /\ RecordKept(p)
  BY DEF DirectInv, Sound
<1>4. CASE Recover(p)
  <2>1. Others /\ record'.retry = record.retry
        /\ (pc'[p] # "off" => pc'[p] = "recoverObserve" /\ lock' = lock)
    BY <1>1, <1>4 DEF Recover, DirectTypeOK, Records
  <2>2. me'[p].action = me[p].action /\ UNCHANGED <<sent, sentOps, vm, ops, listener, worker>>
    BY <1>1, <1>4 DEF Recover, DirectTypeOK, Memories, worldVars
  <2>3. ASSUME pc'[p] # "off"
        PROVE  /\ me'[p].state = vm.state /\ ~RecoveryTarget(me[p].action) /\ MayRetry
               /\ record' = record
    BY <1>1, <1>4, <2>3 DEF Recover, DirectTypeOK, Memories
  <2>4. ASSUME pc'[p] # "off"
        PROVE  vm.state = "running" \/ (me[p].action # "stop" /\ vm.state = "stopped")
    <3>1. vm.state \notin {"absent", "stopping", "deleting"}
          /\ (me[p].action = "stop" => vm.state # "stopped")
      BY <2>3, <2>4 DEF RecoveryTarget, MayRetry, VmExists
    <3> QED
      BY <1>1, <3>1 DEF DirectTypeOK, VmStates
  <2>5. ASSUME pc'[p] # "off"
        PROVE  ~record'.retry /\ Quiet' /\ record'.stage = "emitting"
    BY <1>3, <1>4, <2>2, <2>3, <2>4, <2>5 DEF DirectInv, InFlightShows, MayRetry, Quiet, InFlight,
       RecordKept, Recover
  <2>6. Sound(p)'
    BY <2>1, <2>2, <2>3, <2>4, <2>5 DEF Sound, StaysDrained, RecordKept, WaitsForOwn
  <2> QED
    BY <1>1, <1>2, <2>1, <2>2, <2>6, LocalKeeps
<1>5. CASE RecoverObserve(p)
  <2>1. /\ Others /\ UNCHANGED <<me, record, sent, sentOps, vm, ops, listener, worker>>
        /\ pc'[p] # "off" => /\ lock' = lock
                             /\ \/ pc'[p] = "recoverDrain"
                                \/ /\ pc'[p] = "recoverRunners"
                                   /\ ~(me[p].action = "stop" /\ me[p].state = "running")
    BY <1>1, <1>5 DEF RecoverObserve, recordVars, worldVars
  <2>2. Sound(p)'
    BY <1>3, <1>5, <2>1 DEF RecoverObserve, Sound, StaysDrained, RecordKept, WaitsForOwn, Quiet,
                            InFlight
  <2> QED
    BY <1>1, <1>2, <2>1, <2>2, LocalKeeps
<1>6. CASE RecoverDrain(p)
  <2>1. /\ Others /\ UNCHANGED <<me, record, sent, sentOps, vm, ops, worker>>
        /\ pc'[p] # "off" => lock' = lock /\ pc'[p] = "recoverVerify" /\ ~listener'
    BY <1>1, <1>6 DEF RecoverDrain, DrainGuest, recordVars
  <2>2. Sound(p)'
    BY <1>3, <1>6, <2>1 DEF RecoverDrain, Sound, StaysDrained, RecordKept, WaitsForOwn, Quiet,
                            InFlight
  <2>3. listener' = listener \/ (~listener' /\ ~worker)
    BY <1>6 DEF RecoverDrain, DrainGuest
  <2> QED
    BY <1>1, <1>2, <2>1, <2>2, <2>3, LocalKeeps
<1>7. CASE RecoverVerify(p)
  <2>1. /\ Others /\ UNCHANGED <<me, record, sent, sentOps, vm, ops, listener, worker>>
        /\ pc'[p] # "off" => lock' = lock /\ pc'[p] = "recoverRunners" /\ ~listener
    BY <1>1, <1>7 DEF RecoverVerify, DrainedIdle, recordVars, worldVars
  <2>2. Sound(p)'
    BY <1>3, <1>7, <2>1 DEF RecoverVerify, Sound, StaysDrained, RecordKept, WaitsForOwn, Quiet,
                            InFlight
  <2> QED
    BY <1>1, <1>2, <2>1, <2>2, LocalKeeps
<1>8. CASE RecoverRunners(p)
  <2>1. /\ Others /\ UNCHANGED <<me, record, sent, sentOps, vm, ops, listener, worker>>
        /\ pc'[p] # "off" => lock' = lock /\ pc'[p] = "recoverFinal"
    BY <1>1, <1>8 DEF RecoverRunners, RemoveRunner, recordVars
  <2>2. Sound(p)'
    BY <1>3, <1>8, <2>1 DEF RecoverRunners, Sound, StaysDrained, RecordKept, WaitsForOwn, Quiet,
                            InFlight
  <2> QED
    BY <1>1, <1>2, <2>1, <2>2, LocalKeeps
<1>9. CASE RecoverFinal(p)
  <2>1. /\ Others /\ UNCHANGED <<sent, sentOps, vm, ops, listener, worker>>
        /\ me'[p].action = me[p].action
        /\ pc'[p] # "off" => lock' = lock /\ pc'[p] = "emit"
                             /\ record' = [record EXCEPT !.retry = TRUE]
    BY <1>1, <1>9 DEF RecoverFinal, worldVars, DirectTypeOK, Memories
  <2>2. /\ record' = record \/ record' = [record EXCEPT !.retry = TRUE]
        /\ record' = [record EXCEPT !.retry = TRUE] =>
              record'.retry /\ record'.stage = record.stage
    BY <1>1, <1>9 DEF RecoverFinal, DirectTypeOK, Records
  <2>3. sent <= 1
    BY <1>3, <1>9 DEF RecoverFinal, RecordKept, DirectInv, RequestsCounted
  <2>4. Sound(p)'
    BY <1>3, <1>9, <2>1, <2>2, <2>3 DEF RecoverFinal, Sound, StaysDrained, RecordKept, WaitsForOwn, Quiet,
                                  InFlight
  <2> QED
    BY <1>1, <1>2, <2>1, <2>2, <2>4, LocalKeeps
<1>10. CASE Fail(p)
  BY <1>1, <1>2, <1>10, LocalKeeps DEF Fail, recordVars, worldVars
<1> QED
  BY <1>4, <1>5, <1>6, <1>7, <1>8, <1>9, <1>10

(* An action begins when nobody is at work; an interrupt recovery drains the *)
(* guest before it writes its record.                                        *)
LEMMA InterruptKeeps ==
  ASSUME WithinTime, DirectInv, NEW p \in Procs,
         \/ \E a \in Actions : Begin(p, a)
         \/ Interrupt(p) \/ InterruptDrain(p) \/ InterruptVerify(p) \/ InterruptIntent(p)
         \/ InterruptEmitting(p)
  PROVE  DirectInv'
<1> USE Goes, Ends, OffIsSound DEF Stages
<1> DEFINE Others == \A q \in Procs \ {p} : pc'[q] = pc[q]
<1>1. DirectTypeOK /\ DirectTypeOK'
  BY StartsTyped DEF DirectInv
<1>2. StaysDrained(p) /\ RecordKept(p) /\ (pc[p] # "off" => lock = p /\ me[p].action \in Actions)
  BY DEF DirectInv, Sound, AtWorkHasLock
<1>3. ASSUME NEW a \in Actions, Begin(p, a)
      PROVE  DirectInv'
  <2>1. /\ Others /\ UNCHANGED <<record, sent, sentOps, vm, ops, listener, worker>>
        /\ lock = Nobody /\ lock' = p /\ pc'[p] \in {"readback", "recover", "observe"}
        /\ pc'[p] = "recover" => record.stage = "emitting"
    BY <1>1, <1>3 DEF Begin, DirectTypeOK, recordVars, worldVars
  <2>2. me'[p].action = a
    BY <1>1, <1>3 DEF Begin, DirectTypeOK, Nothing
  <2>3. Sound(p)'
    BY <2>1 DEF Sound, StaysDrained, RecordKept, WaitsForOwn
  <2> QED
    BY <1>1, <2>1, <2>2, <2>3, LocalKeeps
<1>4. CASE Interrupt(p)
  <2>1. /\ Others /\ UNCHANGED <<record, sent, sentOps, vm, ops, listener, worker>>
        /\ lock = Nobody /\ lock' = p /\ pc'[p] = "interruptDrain"
    BY <1>1, <1>4 DEF Interrupt, DirectTypeOK, recordVars, worldVars
  <2>2. me'[p].action \in Actions
    BY <1>1, <1>4 DEF Interrupt, DirectTypeOK, Nothing, Actions
  <2>3. Sound(p)'
    BY <2>1 DEF Sound, StaysDrained, RecordKept, WaitsForOwn
  <2> QED
    BY <1>1, <2>1, <2>2, <2>3, LocalKeeps
<1>5. CASE InterruptDrain(p)
  <2>1. /\ Others /\ UNCHANGED <<me, record, sent, sentOps, vm, ops, worker>> /\ pc[p] # "off"
        /\ pc'[p] # "off" => lock' = lock /\ pc'[p] = "interruptVerify" /\ ~listener'
        /\ listener' = listener \/ (~listener' /\ ~worker)
    BY <1>1, <1>5 DEF InterruptDrain, DrainGuest, recordVars
  <2>2. Sound(p)'
    BY <2>1 DEF Sound, StaysDrained, RecordKept, WaitsForOwn
  <2> QED
    BY <1>1, <1>2, <2>1, <2>2, LocalKeeps
<1>6. CASE InterruptVerify(p)
  <2>1. /\ Others /\ UNCHANGED <<me, record, sent, sentOps, vm, ops, listener, worker>>
        /\ pc[p] # "off"
        /\ pc'[p] # "off" => lock' = lock /\ pc'[p] = "interruptIntent" /\ ~listener
    BY <1>1, <1>6 DEF InterruptVerify, DrainedIdle, RemoveRunner, recordVars
  <2>2. Sound(p)'
    BY <2>1 DEF Sound, StaysDrained, RecordKept, WaitsForOwn
  <2> QED
    BY <1>1, <1>2, <2>1, <2>2, LocalKeeps
<1>7. CASE InterruptIntent(p)
  <2>1. /\ Others /\ UNCHANGED <<me, vm, ops, listener, worker>> /\ sent' = 0 /\ sentOps' = {}
        /\ pc[p] = "interruptIntent" /\ pc'[p] = "interruptEmitting" /\ lock' = lock
    BY <1>1, <1>7 DEF InterruptIntent, worldVars
  <2>2. Sound(p)'
    BY <1>2, <2>1 DEF Sound, StaysDrained, RecordKept, WaitsForOwn, Fresh
  <2> QED
    BY <1>1, <1>2, <2>1, <2>2, LocalKeeps
<1>8. CASE InterruptEmitting(p)
  <2>1. /\ Others /\ UNCHANGED <<me, sent, sentOps, vm, ops, listener, worker>>
        /\ pc[p] = "interruptEmitting" /\ pc'[p] = "emit" /\ lock' = lock
    BY <1>1, <1>8 DEF InterruptEmitting, worldVars
  <2>2. record'.stage = "emitting" /\ record'.retry = record.retry
    BY <1>1, <1>8 DEF InterruptEmitting, DirectTypeOK, Records
  <2>3. Sound(p)'
    BY <1>2, <2>1, <2>2 DEF Sound, StaysDrained, RecordKept, WaitsForOwn, Fresh
  <2> QED
    BY <1>1, <1>2, <2>1, <2>2, <2>3, LocalKeeps
<1> QED
  BY <1>3, <1>4, <1>5, <1>6, <1>7, <1>8

(* The request leaves with no listener behind it, and not before the        *)
(* operation of the one before has ended.                                   *)
LEMMA EmitKeeps ==
  ASSUME WithinTime, DirectInv, NEW p \in Procs, Emit(p)
  PROVE  DirectInv'
<1> USE Goes, Ends, OffIsSound DEF Stages
<1> DEFINE Others == \A q \in Procs \ {p} : pc'[q] = pc[q]
           a == me[p].action
<1>1. pc[p] = "emit" /\ lock = p /\ a \in Actions
  BY DEF DirectInv, AtWorkHasLock, Emit
<1>2. DirectTypeOK /\ DirectTypeOK' /\ StaysDrained(p) /\ RecordKept(p)
  BY <1>1, EmitTyped DEF DirectInv, Sound
<1>3. UNCHANGED <<record, listener, worker>> /\ Others /\ (pc'[p] # "off" => lock' = lock)
  BY <1>2 DEF Emit, Request
<1>4. me'[p].action = a /\ me'[p].vm = me[p].vm
  <2>1. me \in [Procs -> Memories] /\ me[p] \in Memories
    BY <1>2 DEF DirectTypeOK
  <2>2. me' = me \/ \E op \in {0, Len(ops) + 1} : me' = [me EXCEPT ![p].op = op]
    BY DEF Emit, Request
  <2> QED
    BY <2>1, <2>2 DEF Memories
<1>5. CASE a = "stop" /\ me[p].state = "stopped"
  <2>1. pc'[p] = "emitted" /\ UNCHANGED <<vm, ops, sent, sentOps>>
    BY <1>2, <1>5 DEF Emit
  <2>2. Sound(p)'
    BY <1>4, <1>5, <2>1 DEF Sound, StaysDrained, RecordKept, WaitsForOwn
  <2> QED
    BY <1>1, <1>2, <1>3, <1>4, <2>1, <2>2, LocalKeeps
<1>6. CASE ~(a = "stop" /\ me[p].state = "stopped")
  <2>1. Request(p, a, me[p].vm)
    BY <1>6 DEF Emit
  <2>2. sent \in Nat /\ sent' = sent + 1 /\ sent <= 1 /\ (~record.retry => sent = 0)
    BY <1>1, <1>2, <2>1 DEF Request, RecordKept, Fresh, DirectTypeOK, DirectInv, RequestsCounted
  <2>3. CASE pc'[p] = "off" /\ UNCHANGED <<vm, ops, sentOps>>
    <3>1. JobsRun' /\ InFlightShows'
      BY <1>3, <2>3 DEF DirectInv, JobsRun, InFlightShows, InFlight
    <3>2. RequestsCounted'
      BY <1>3, <2>2, <2>3 DEF DirectInv, RequestsCounted
    <3> QED
      BY <1>1, <1>2, <1>3, <2>3, <3>1, <3>2, ActorKeeps
  <2>4. CASE Takes(a, me[p].vm) /\ Accept(a) /\ pc'[p] \in {"off", "note"}
    <3>1. /\ vm.id = me[p].vm /\ vm'.id = vm.id /\ vm.state \in {"running", "stopped"}
          /\ vm'.state = IF a = "stop" THEN "stopping" ELSE "deleting"
          /\ vm.state = IF a = "stop" THEN "running" ELSE "stopped"
      BY <1>2, <2>4 DEF Takes, Accept, DirectTypeOK
    <3>2. ~listener /\ ~worker
      BY <1>1, <1>2, <1>6, <3>1 DEF StaysDrained, DirectInv, JobsRun
    <3>3. JobsRun'
      BY <1>3, <3>2 DEF JobsRun
    <3>4. /\ ops' = Append(ops, [vm |-> vm.id, kind |-> a, state |-> "running"])
          /\ sentOps' = sentOps \cup {Len(ops) + 1}
      BY <2>4 DEF Accept
    <3>5. /\ Len(ops) \in Nat /\ Len(ops') = Len(ops) + 1
          /\ ops'[Len(ops) + 1] = [vm |-> vm.id, kind |-> a, state |-> "running"]
          /\ \A o \in 1..Len(ops) : ops'[o] = ops[o]
      BY <1>2, <3>4 DEF DirectTypeOK
    <3>6. \A o \in 1..Len(ops) : ~InFlight(o)
      BY <3>1 DEF DirectInv, InFlightShows
    <3>7. \A o \in 1..Len(ops') : InFlight(o)' => o = Len(ops) + 1
      BY <3>5, <3>6 DEF InFlight
    <3>8. InFlightShows'
      BY <3>1, <3>5, <3>7 DEF InFlightShows
    <3>9. RequestsCounted'
      <4>1. sent' <= 2 /\ (~record'.retry => sent' <= 1)
        BY <1>3, <2>2
      <4>2. sentOps \subseteq 1..Len(ops)
        BY DEF DirectInv, RequestsCounted
      <4>3. \A n \in Nat : 1..n \subseteq 1..(n + 1) /\ n + 1 \in 1..(n + 1)
        OBVIOUS
      <4>4. sentOps' \subseteq 1..Len(ops')
        BY <3>4, <3>5, <4>2, <4>3
      <4> QED
        BY <4>1, <4>4 DEF RequestsCounted
    <3>10. Sound(p)'
      BY <1>4, <2>4, <3>1 DEF Sound, StaysDrained, RecordKept, WaitsForOwn
    <3> QED
      BY <1>1, <1>2, <1>3, <1>4, <3>3, <3>8, <3>9, <3>10, ActorKeeps
  <2> QED
    BY <1>2, <2>1, <2>3, <2>4 DEF Request
<1> QED
  BY <1>5, <1>6

(* The world moves under an action, and never against what it has checked: *)
(* no listener appears, no operation starts and the instance keeps its id. *)
LEMMA WorldSound ==
  ASSUME DirectInv, UNCHANGED <<pc, me, record, sent, sentOps>>, listener' => listener,
         vm'.id = vm.id, Quiet => Quiet'
  PROVE  \A p \in Procs : Sound(p)'
<1> SUFFICES ASSUME NEW p \in Procs
             PROVE  Sound(p)'
  OBVIOUS
<1>1. Sound(p)
  BY DEF DirectInv
<1>2. StaysDrained(p)'
  BY <1>1 DEF Sound, StaysDrained
<1>3. RecordKept(p)'
  BY <1>1 DEF Sound, RecordKept, Fresh
<1>4. WaitsForOwn(p)'
  BY <1>1 DEF Sound, WaitsForOwn
<1> QED
  BY <1>2, <1>3, <1>4 DEF Sound

LEMMA WorldKeeps ==
  ASSUME WithinTime, DirectInv, World \/ WatchStarts \/ Expire
  PROVE  DirectInv'
<1>1. DirectTypeOK /\ DirectTypeOK'
  BY WorldTyped DEF DirectInv
<1>2. ASSUME NEW o \in 1..Len(ops), Settle(o)
      PROVE  DirectInv'
  <2>1. /\ UNCHANGED <<pc, me, lock, record, sent, sentOps>> /\ vm'.id = vm.id
        /\ \/ ~listener' /\ ~worker'
           \/ UNCHANGED <<listener, worker>>
                /\ vm'.state = IF ops[o].kind = "stop" THEN "running" ELSE "stopped"
    BY <1>1, <1>2 DEF Settle, DirectTypeOK, recordVars, procVars
  <2>2. /\ InFlight(o) /\ Len(ops') = Len(ops) /\ ops'[o].state # "running"
        /\ \A q \in 1..Len(ops) : q # o => ops'[q] = ops[q]
    <3>1. PICK s \in {"succeeded", "failed"} : ops' = [ops EXCEPT ![o].state = s]
      BY <1>2 DEF Settle
    <3>2. /\ ops \in Seq([vm : Nat, kind : Actions, state : OpStates])
          /\ ops[o] \in [vm : Nat, kind : Actions, state : OpStates]
      BY <1>1, SequenceUpdated DEF DirectTypeOK
    <3>3. Len(ops') = Len(ops) /\ \A q \in 1..Len(ops) : q # o => ops'[q] = ops[q]
      BY <3>1, <3>2
    <3>4. ops'[o] = [ops[o] EXCEPT !.state = s]
      BY <3>1, <3>2
    <3>5. ops'[o].state = s
      BY <3>2, <3>4
    <3> QED
      BY <1>2, <3>3, <3>5 DEF Settle, InFlight
  <2>3. vm.state # "running" /\ ~listener /\ \A q \in 1..Len(ops) : InFlight(q) => q = o
    BY <2>2 DEF DirectInv, InFlightShows, JobsRun
  <2>4. Quiet'
    BY <2>2, <2>3 DEF Quiet, InFlight
  <2>5. JobsRun'
    BY <2>1, <2>3 DEF DirectInv, JobsRun
  <2>6. InFlightShows'
    BY <2>4 DEF Quiet, InFlightShows
  <2>7. RequestsCounted' /\ AtWorkHasLock'
    BY <2>1, <2>2 DEF DirectInv, RequestsCounted, AtWorkHasLock
  <2>8. \A p \in Procs : Sound(p)'
    BY <2>1, <2>3, <2>4, WorldSound
  <2> QED
    BY <1>1, <2>5, <2>6, <2>7, <2>8 DEF DirectInv
<1>3. CASE PowerOff \/ Assign \/ StartJob \/ JobEnds
  <2>1. /\ UNCHANGED <<pc, me, lock, record, sent, sentOps, ops>> /\ vm'.id = vm.id
        /\ listener' => listener
    BY <1>1, <1>3 DEF PowerOff, Assign, StartJob, JobEnds, recordVars, procVars, DirectTypeOK
  <2>2. JobsRun'
    BY <1>3 DEF PowerOff, Assign, StartJob, JobEnds, DirectInv, JobsRun
  <2>3. InFlightShows'
    BY <1>3 DEF PowerOff, Assign, StartJob, JobEnds, DirectInv, InFlightShows, InFlight
  <2>4. RequestsCounted' /\ AtWorkHasLock'
    BY <2>1 DEF DirectInv, RequestsCounted, AtWorkHasLock
  <2>5. \A p \in Procs : Sound(p)'
    BY <2>1, WorldSound DEF Quiet, InFlight
  <2> QED
    BY <1>1, <2>2, <2>3, <2>4, <2>5 DEF DirectInv
<1>4. CASE WatchStarts
  <2>1. /\ lock = Nobody /\ UNCHANGED <<pc, me, lock, record, sent, sentOps, ops>>
        /\ vm'.state = "running" /\ worker' = worker /\ listener'
        /\ vm.state \in {"stopped", "running", "absent"}
    BY <1>1, <1>4 DEF WatchStarts, recordVars, procVars, VmExists, DirectTypeOK
  <2>2. \A p \in Procs : pc[p] = "off"
    BY <2>1 DEF DirectInv, AtWorkHasLock, WithinTime, DirectAssumption
  <2>3. JobsRun' /\ AtWorkHasLock'
    BY <2>1, <2>2 DEF JobsRun, AtWorkHasLock
  <2>4. InFlightShows'
    BY <2>1 DEF DirectInv, InFlightShows, InFlight
  <2>5. RequestsCounted'
    BY <2>1 DEF DirectInv, RequestsCounted
  <2>6. \A p \in Procs : Sound(p)'
    BY <2>1, <2>2 DEF Sound, StaysDrained, RecordKept, WaitsForOwn
  <2> QED
    BY <1>1, <2>3, <2>4, <2>5, <2>6 DEF DirectInv
<1>5. CASE Expire
  <2>1. UNCHANGED <<pc, me, lock, record, sent, sentOps, ops, vm, listener, worker>>
    BY <1>5 DEF Expire, recordVars, procVars, worldVars
  <2>2. JobsRun' /\ InFlightShows' /\ RequestsCounted' /\ AtWorkHasLock'
    BY <2>1 DEF DirectInv, JobsRun, InFlightShows, InFlight, RequestsCounted, AtWorkHasLock
  <2>3. \A p \in Procs : Sound(p)'
    BY <2>1, WorldSound DEF Quiet, InFlight
  <2> QED
    BY <1>1, <2>2, <2>3 DEF DirectInv
<1> QED
  BY <1>2, <1>3, <1>4, <1>5 DEF World

LEMMA DirectInitially == WithinTime /\ Init => DirectInv
<1> SUFFICES ASSUME WithinTime, Init
             PROVE  DirectInv
  OBVIOUS
<1>1. DirectTypeOK
  <2>1. NoRecord \in Records
    BY DEF NoRecord, Records
  <2>2. Nothing \in Memories
    BY DEF Nothing, Memories, VmStates
  <2>3. vm \in [id : Nat, state : VmStates]
    <3>1. PICK s \in {"running", "stopped"} : vm = [id |-> 1, state |-> s]
      BY DEF Init
    <3> QED
      BY <3>1 DEF VmStates
  <2>4. ops \in Seq([vm : Nat, kind : Actions, state : OpStates])
    BY DEF Init
  <2>5. /\ pc \in [Procs -> Stages] /\ me \in [Procs -> Memories]
        /\ answer \in [Procs -> {"none", "done"}]
    BY <2>2 DEF Init, Stages
  <2>6. /\ registered \in BOOLEAN /\ assigned \in BOOLEAN /\ listener \in BOOLEAN
        /\ worker \in BOOLEAN /\ journalUp \in BOOLEAN
    BY DEF Init
  <2> QED
    BY <2>1, <2>3, <2>4, <2>5, <2>6 DEF Init, DirectTypeOK
<1>2. AtWorkHasLock /\ JobsRun /\ InFlightShows /\ RequestsCounted
  BY DEF Init, AtWorkHasLock, JobsRun, InFlightShows, RequestsCounted
<1>3. \A p \in Procs : Sound(p)
  BY DEF Init, Sound, StaysDrained, RecordKept, WaitsForOwn
<1> QED
  BY <1>1, <1>2, <1>3 DEF DirectInv

LEMMA DirectStep ==
  ASSUME WithinTime, DirectInv, [Next]_vars
  PROVE  DirectInv'
<1>1. CASE UNCHANGED vars
  <2>1. UNCHANGED <<pc, me, lock, answer, record, sent, sentOps, ops, vm, listener, worker,
                    registered, assigned, stoppedBy, permit, journalUp, starts>>
    BY <1>1 DEF vars, recordVars, procVars, worldVars, watchVars
  <2>2. DirectTypeOK' /\ JobsRun' /\ InFlightShows' /\ RequestsCounted' /\ AtWorkHasLock'
    BY <2>1 DEF DirectInv, DirectTypeOK, JobsRun, InFlightShows, InFlight, RequestsCounted,
                AtWorkHasLock
  <2>3. \A p \in Procs : Sound(p)'
    BY <2>1, WorldSound DEF Quiet, InFlight
  <2> QED
    BY <2>2, <2>3 DEF DirectInv
<1> QED
  BY <1>1, MutationKeeps, RecordKeeps, RecoveryKeeps, InterruptKeeps, EmitKeeps, WorldKeeps
     DEF Next, Step, InterruptTimesOut, WithinTime

LEMMA DirectInvariant == WithinTime /\ Spec => []DirectInv
<1> SUFFICES ASSUME WithinTime
             PROVE  Spec => []DirectInv
  OBVIOUS
<1>1. Init => DirectInv
  BY DirectInitially
<1>2. DirectInv /\ [Next]_vars => DirectInv'
  BY DirectStep
<1> QED
  BY <1>1, <1>2, PTL DEF Spec

(* However many processes stop, clean up, recover and are interrupted, and   *)
(* wherever they die, none stops the instance under a job: between the drain *)
(* and the request nobody registers a listener (mutateOwned, drain.sh).      *)
THEOREM JobsNeverStopped == WithinTime /\ Spec => []NoJobStopped
<1>1. DirectInv => NoJobStopped
  BY DEF DirectInv, JobsRun, NoJobStopped
<1> QED
  BY <1>1, DirectInvariant, PTL

(* A record, however often it is cut off and taken up, stands for at most    *)
(* two requests, the second after the first's operation has ended, its reply *)
(* lost or not (recoverDirectEmission).                                      *)
THEOREM SecondRequestAlwaysWaits == WithinTime /\ Spec => SecondRequestWaits
<1> SUFFICES ASSUME WithinTime
             PROVE  Spec => SecondRequestWaits
  OBVIOUS
<1>1. DirectInv /\ [Next]_vars =>
        [sent' > sent => sent < 2 /\ record.stage = "emitting" /\ ~RecordInFlight]_vars
  <2> SUFFICES ASSUME DirectInv, Next, sent' > sent
               PROVE  sent < 2 /\ record.stage = "emitting" /\ ~RecordInFlight
    OBVIOUS
  <2>1. sent \in Nat
    BY DEF DirectInv, DirectTypeOK
  <2>2. PICK p \in Procs : Emit(p)
    <3>1. ASSUME NEW p \in Procs, Step(p), ~Emit(p)
          PROVE  sent' = sent \/ sent' = 0
      BY <3>1 DEF Step, ReadBack, Observe, List, WriteIntent, WriteEmitting, Drain, Remove,
         NoteStop, WriteOperation, Wait, Recover, RecoverObserve, RecoverDrain, RecoverVerify,
         RecoverRunners, RecoverFinal, InterruptDrain, InterruptVerify, InterruptIntent,
         InterruptEmitting, recordVars
    <3>2. ASSUME NEW p \in Procs,
                 \/ Fail(p) \/ InterruptTimesOut(p) \/ Interrupt(p)
                 \/ \E a \in Actions : Begin(p, a)
          PROVE  sent' = sent
      BY <3>2 DEF Fail, InterruptTimesOut, Interrupt, Begin, recordVars
    <3>3. ASSUME World \/ WatchStarts \/ Expire
          PROVE  sent' = sent
      BY <3>3 DEF World, Settle, PowerOff, Assign, StartJob, JobEnds, WatchStarts, Expire,
                  recordVars
    <3> QED
      BY <2>1, <3>1, <3>2, <3>3 DEF Next
  <2>3. pc[p] = "emit" /\ RecordKept(p)
    BY <2>2 DEF Emit, DirectInv, Sound
  <2>4. sentOps \subseteq 1..Len(ops)
    BY DEF DirectInv, RequestsCounted
  <2> QED
    BY <2>1, <2>3, <2>4 DEF RecordKept, Fresh, Quiet, RecordInFlight
<1> QED
  BY <1>1, DirectInvariant, PTL DEF SecondRequestWaits, Spec

(* done is only ever printed of an instance that is stopped or gone          *)
(* (mutateOwned, waitForTerminalProvider, recoverDirectEmission).            *)
THEOREM DoneIsAlwaysTrue == WithinTime /\ Spec => DoneIsTrue
<1> SUFFICES ASSUME WithinTime
             PROVE  Spec => DoneIsTrue
  OBVIOUS
<1> DEFINE Done == \A p \in Procs : answer'[p] = "done" /\ answer[p] # "done" =>
                     ~VmExists \/ (me[p].action = "stop" /\ vm.state = "stopped")
<1>1. DirectInv /\ [Next]_vars => [Done]_vars
  <2> SUFFICES ASSUME DirectInv, Next, NEW p \in Procs, answer'[p] = "done", answer[p] # "done"
               PROVE  ~VmExists \/ (me[p].action = "stop" /\ vm.state = "stopped")
    OBVIOUS
  <2>1. DirectTypeOK
    BY DEF DirectInv
  <2>2. \/ ReadBack(p) /\ StillResolved(me[p].action)
        \/ List(p) /\ ~VmExists
        \/ Wait(p)
        \/ Recover(p) /\ RecoveryTarget(me[p].action)
    <3>1. ASSUME NEW q \in Procs, NEW a \in {"none", "done"}, End(q, a)
          PROVE  q = p /\ a = "done"
      BY <2>1, <3>1 DEF End, DirectTypeOK
    <3>2. ASSUME NEW q \in Procs, Step(q)
          PROVE  \/ ReadBack(q) /\ StillResolved(me[q].action) /\ End(q, "done")
                 \/ List(q) /\ ~VmExists /\ End(q, "done")
                 \/ Wait(q) /\ End(q, "done")
                 \/ Recover(q) /\ RecoveryTarget(me[q].action) /\ End(q, "done")
      <4>1. ~End(q, "none")
        BY <3>1
      <4>2. \A s : ~GoTo(q, s)
        BY DEF GoTo
      <4> QED
        BY <3>2, <4>1, <4>2 DEF Step, ReadBack, Observe, List, WriteEmitting, Drain, DrainGuest,
           Remove, RemoveRunner, Emit, Request, NoteStop, WriteOperation, Wait, Recover,
           RecoverObserve, RecoverDrain, RecoverVerify, RecoverRunners, RecoverFinal,
           InterruptDrain, InterruptVerify, InterruptIntent, InterruptEmitting
    <3>3. ASSUME NEW q \in Procs, Fail(q)
          PROVE  FALSE
      BY <3>1, <3>3 DEF Fail
    <3>4. ASSUME NEW q \in Procs, Interrupt(q) \/ \E a \in Actions : Begin(q, a)
          PROVE  FALSE
      <4>1. answer' = [answer EXCEPT ![q] = "none"]
        BY <3>4 DEF Interrupt, Begin
      <4> QED
        BY <2>1, <4>1 DEF DirectTypeOK
    <3>5. ASSUME \/ World \/ WatchStarts \/ Expire
                 \/ \E q \in Procs : InterruptTimesOut(q)
          PROVE  FALSE
      <4>1. answer' = answer
        BY <3>5 DEF World, Settle, PowerOff, Assign, StartJob, JobEnds, WatchStarts, Expire,
                    InterruptTimesOut, procVars
      <4> QED
        BY <4>1
    <3> QED
      BY <3>1, <3>2, <3>3, <3>4, <3>5 DEF Next
  <2>3. Wait(p) => me[p].action = "stop" \/ vm.id = me[p].vm
    BY DEF Wait, DirectInv, Sound, WaitsForOwn
  <2> QED
    BY <2>2, <2>3 DEF StillResolved, Wait, Terminal, RecoveryTarget
<1> QED
  BY <1>1, DirectInvariant, PTL DEF DoneIsTrue, Spec

(* Only the process that has the lock begins or repeats a record or sends a  *)
(* request under it (Phase 3, R10), wherever others died with the lock.      *)
THEOREM HolderAlwaysMutates == WithinTime /\ Spec => OnlyHolderMutates
<1> SUFFICES ASSUME WithinTime
             PROVE  Spec => OnlyHolderMutates
  OBVIOUS
<1> DEFINE Held == \A p \in Procs : sent' # sent /\ pc[p] # pc'[p] => lock = p
<1>1. DirectInv /\ [Next]_vars => [Held]_vars
  <2> SUFFICES ASSUME DirectInv, Next, NEW p \in Procs, sent' # sent, pc[p] # pc'[p]
               PROVE  lock = p
    OBVIOUS
  <2>1. PICK q \in Procs : List(q) \/ Emit(q) \/ InterruptIntent(q)
    <3>1. ASSUME NEW q \in Procs, Step(q), ~(List(q) \/ Emit(q) \/ InterruptIntent(q))
          PROVE  sent' = sent
      BY <3>1 DEF Step, ReadBack, Observe, WriteEmitting, Drain, Remove,
         NoteStop, WriteOperation, Wait, Recover, RecoverObserve, RecoverDrain, RecoverVerify,
         RecoverRunners, RecoverFinal, InterruptDrain, InterruptVerify,
         InterruptEmitting, recordVars
    <3>2. ASSUME NEW q \in Procs,
                 \/ Fail(q) \/ InterruptTimesOut(q) \/ Interrupt(q)
                 \/ \E a \in Actions : Begin(q, a)
          PROVE  sent' = sent
      BY <3>2 DEF Fail, InterruptTimesOut, Interrupt, Begin, recordVars
    <3>3. ASSUME World \/ WatchStarts \/ Expire
          PROVE  sent' = sent
      BY <3>3 DEF World, Settle, PowerOff, Assign, StartJob, JobEnds, WatchStarts, Expire,
                  recordVars
    <3> QED
      BY <3>1, <3>2, <3>3 DEF Next
  <2>2. pc[q] # "off" /\ lock = q
    BY <2>1 DEF List, Emit, InterruptIntent, DirectInv, AtWorkHasLock
  <2>3. \E s : pc' = [pc EXCEPT ![q] = s]
    BY <2>1 DEF List, Emit, Request, InterruptIntent, GoTo, End
  <2>4. p = q
    BY <2>3 DEF DirectInv, DirectTypeOK
  <2> QED
    BY <2>2, <2>4
<1> QED
  BY <1>1, DirectInvariant, PTL DEF OnlyHolderMutates, Spec
=============================================================================
