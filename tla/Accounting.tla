----------------------------- MODULE Accounting -----------------------------
(***************************************************************************)
(* What the controller charges against its permit: run time, disk and       *)
(* network, from observations it makes at intervals of its own choosing.    *)
(*                                                                          *)
(* advanceObservedLifecycle and readAccounting of                           *)
(* packages/cli/src/runner-service.ts.  A tick observes, writes the         *)
(* accounting file, then saves the journal together with its effect; the    *)
(* process may die between the two writes.  The truth beside it is how long *)
(* the VM really ran, how long its disk existed and what it sent.           *)
(***************************************************************************)
EXTENDS Integers

CONSTANTS MaxTime,    \* the clock stops here
          MaxVms,     \* VMs created in all
          Lifetime,   \* timing.lifetimeMs
          MaxRuntime, \* permit.maxRuntimeMs
          MaxStarts,  \* permit.maxStarts
          JobAndMargin, \* timing.maxJobMs + timing.shutdownMarginMs
          MaxBytes    \* what one generation sends at most

AccountingAssumption ==
  {MaxTime, MaxVms, Lifetime, MaxRuntime, MaxStarts, JobAndMargin, MaxBytes} \subseteq Nat

VARIABLES now, vm,        \* the clock; absent | stopped | running
          sent,           \* the guest's counter: bytes since boot
          file,           \* accounting-state.json, or Fresh
          journal,        \* startCount, runtime and grantStarted of the saved lifecycle
          observed,       \* the lifecycle of the tick under way, or NoTick
          truth           \* what really was used, and what no observation could see

vars == <<now, vm, sent, file, journal, observed, truth>>

None == MaxTime + 1  \* null
Fresh == [there |-> FALSE, diskStarted |-> None, disk |-> 0, baseline |-> 0,
          generation |-> 0, bytes |-> 0, bytesBaseline |-> 0, bytesStart |-> 0]
NoTick == [on |-> FALSE, runtime |-> 0, tail |-> 0]

MaxOf(a, b) == IF a > b THEN a ELSE b
MinOf(a, b) == IF a < b THEN a ELSE b
Since(a, b) == MaxOf(0, a - b)

Init == /\ now = 0 /\ vm = "absent" /\ sent = 0 /\ file = Fresh
        /\ journal = [starts |-> 0, runtime |-> 0, grantStarted |-> None,
                       deadline |-> 0, create |-> None]
        /\ observed = NoTick
        /\ truth = [run |-> 0, disk |-> 0, bytes |-> 0, tail |-> 0, dark |-> 0,
                    darkDisk |-> 0, lost |-> 0, lostDisk |-> 0, missed |-> 0, vms |-> 0]

\* readAccounting: without a file the disk counts from the pending create.
ReadAccounting ==
  IF file.there THEN file
  ELSE [Fresh EXCEPT !.there = TRUE, !.baseline = journal.runtime,
                     !.diskStarted = IF vm = "absent" THEN None
                                     ELSE IF journal.create # None THEN journal.create ELSE now]

\* The disk counts from one observation to the next, up to the one that no
\* longer finds it.
AdvanceDisk(a) ==
  LET started == IF vm # "absent" /\ a.diskStarted = None THEN now ELSE a.diskStarted
  IN [a EXCEPT !.disk = @ + (IF started = None THEN 0 ELSE Since(now, started)),
               !.diskStarted = IF vm = "absent" THEN None ELSE now]

\* The first observation of a generation running fixes its baselines.
AdvanceGeneration(a, guest) ==
  IF vm = "running" /\ journal.starts > 0 /\ a.generation # journal.starts
  THEN [a EXCEPT !.generation = journal.starts, !.baseline = journal.runtime,
                 !.bytesBaseline = a.bytes,
                 !.bytesStart = IF a.generation = 0 /\ a.bytes = 0 THEN 0
                                ELSE IF guest THEN sent ELSE 0]
  ELSE a

\* Run time is the baseline plus the time since the start was sent.
StaleBaseline(a) == IF vm = "running" /\ journal.starts > 0
                    THEN MaxOf(journal.runtime, Since(now, journal.grantStarted))
                    ELSE journal.runtime
ObservedRuntime(a) == IF vm = "running" /\ journal.starts > 0
                      THEN MaxOf(journal.runtime, a.baseline + Since(now, journal.grantStarted))
                      ELSE journal.runtime

AdvanceBytes(a, guest) ==
  IF guest THEN [a EXCEPT !.bytes = MaxOf(@, a.bytesBaseline + Since(sent, a.bytesStart))] ELSE a

\* What the observation makes visible: the disk since its creation, the bytes
\* since the last reading, but not those before the first one.
Seen(guest) ==
  [truth EXCEPT !.darkDisk = 0, !.lostDisk = @ + (IF file.there THEN truth.darkDisk ELSE 0),
                !.dark = IF guest /\ vm = "running" THEN 0 ELSE @,
                !.missed = @ + (IF guest /\ vm = "running" /\ file.there
                                     /\ file.generation # journal.starts
                                     /\ ~(file.generation = 0 /\ file.bytes = 0)
                                  THEN sent ELSE 0)]

\* One observation: accounting-state.json is written at its end.
Observe == \E guest \in IF vm = "running" THEN BOOLEAN ELSE {FALSE} :
             LET a == AdvanceGeneration(AdvanceDisk(ReadAccounting), guest)
             IN /\ ~observed.on
                /\ file' = AdvanceBytes(a, guest)
                /\ observed' = [on |-> TRUE, runtime |-> ObservedRuntime(a),
                                 tail |-> IF vm = "running" THEN truth.tail ELSE 0]
                /\ truth' = Seen(guest)
                /\ UNCHANGED <<now, vm, sent, journal>>

\* The journal is saved with the effect of the tick: nothing, a create, a start
\* with what the run time envelope leaves, a stop or a delete.
Available(runtime) == MinOf(Lifetime, Since(MaxRuntime, runtime))
MayStart == /\ vm = "stopped" /\ journal.starts < MaxStarts
            /\ observed.runtime < MaxRuntime
            /\ Available(observed.runtime) >= JobAndMargin
\* Once the journal is saved, the observed part of the tail is charged.
Charged == IF vm = "running" THEN [truth EXCEPT !.tail = @ - observed.tail]
           ELSE [truth EXCEPT !.lost = @ - observed.tail]
GenerationOver(t) == [t EXCEPT !.lost = @ + t.tail, !.tail = 0,
                               !.missed = @ + t.dark, !.dark = 0]
Save ==
  /\ observed.on /\ observed' = NoTick
  /\ \/ /\ journal' = [journal EXCEPT !.runtime = observed.runtime, !.create = None]
        /\ truth' = Charged /\ UNCHANGED <<vm, sent>>
     \/ /\ vm = "absent" /\ truth.vms < MaxVms
        /\ journal' = [journal EXCEPT !.runtime = observed.runtime, !.create = now]
        /\ vm' = "stopped" /\ truth' = [Charged EXCEPT !.vms = @ + 1]
        /\ UNCHANGED sent
     \/ /\ MayStart
        /\ journal' = [journal EXCEPT !.runtime = observed.runtime, !.starts = @ + 1,
                                      !.grantStarted = now,
                                      !.deadline = now + Available(observed.runtime)]
        /\ vm' = "running" /\ sent' = 0 /\ truth' = Charged
     \/ /\ vm = "running" /\ vm' = "stopped"
        /\ journal' = [journal EXCEPT !.runtime = observed.runtime]
        /\ truth' = GenerationOver(Charged) /\ UNCHANGED sent
     \/ /\ vm = "stopped" /\ vm' = "absent"
        /\ journal' = [journal EXCEPT !.runtime = observed.runtime]
        /\ truth' = [Charged EXCEPT !.lostDisk = @ + truth.darkDisk, !.darkDisk = 0]
        /\ UNCHANGED sent
  /\ UNCHANGED <<now, file>>

\* The process dies after the accounting file was written.
Crash == /\ observed.on /\ observed' = NoTick
         /\ UNCHANGED <<now, vm, sent, file, journal, truth>>

\* Time passes, for as long as the watchdog lets a generation run: to the
\* deadline its start was granted. (The watchdog may be late by a period and a
\* wait for the lock; that tail is left out.)
Pass == /\ now < MaxTime /\ now' = now + 1
        /\ vm = "running" => now < journal.deadline
        /\ truth' = [truth EXCEPT
             !.run = IF vm = "running" THEN @ + 1 ELSE @,
             !.tail = IF vm = "running" THEN @ + 1 ELSE @,
             !.disk = IF vm = "absent" THEN @ ELSE @ + 1,
             !.darkDisk = IF vm # "absent" /\ (~file.there \/ file.diskStarted = None)
                          THEN @ + 1 ELSE @]
        /\ UNCHANGED <<vm, sent, file, journal, observed>>

Send == /\ vm = "running" /\ sent < MaxBytes /\ sent' = sent + 1
        /\ truth' = [truth EXCEPT !.bytes = @ + 1, !.dark = @ + 1]
        /\ UNCHANGED <<now, vm, file, journal, observed>>

\* The watchdog, or the owner, powers the VM off unseen.
PowerOff == /\ vm = "running" /\ vm' = "stopped"
            /\ truth' = GenerationOver(truth)
            /\ UNCHANGED <<now, sent, file, journal, observed>>

Next == Observe \/ Save \/ Crash \/ Pass \/ Send \/ PowerOff
Spec == Init /\ [][Next]_vars

-----------------------------------------------------------------------------
(* All run time is charged except the tails: what a generation ran after the
   last saved observation that found it running.  Neither a crash between the
   accounting file and the journal nor a generation observed late loses more
   (baseline plus time since the start was sent). *)
RuntimeCharged == journal.runtime + truth.lost + truth.tail >= truth.run

(* The run time envelope of the permit holds for the real run time up to those
   tails: a start is granted no more than what is left of it. *)
RuntimeWithinPermit == truth.run <= MaxRuntime + truth.lost

(* The disk is never undercounted by more than the time from a VM's creation
   to the first observation that found it; the interval in which it vanished
   is charged in full, and a crash before the journal is written loses
   nothing. *)
DiskCharged ==
  file.there =>
    file.disk + (IF file.diskStarted = None THEN 0 ELSE Since(now, file.diskStarted))
      + truth.lostDisk + truth.darkDisk >= truth.disk

(* Network bytes are charged except those a generation sent before its first
   reading, when it is not the first one, or after its last reading: the
   counter starts from zero at every boot and the total never goes back. *)
BytesCharged == file.there => file.bytes + truth.missed + truth.dark >= truth.bytes

-----------------------------------------------------------------------------
(* The invariant the theorems about Spec rest on, part by part: what the     *)
(* accounting file, the truth beside it and the saved journal may hold.      *)
FileTyped(f) ==
    /\ DOMAIN f = DOMAIN Fresh
    /\ f.diskStarted \in Nat /\ f.disk \in Nat /\ f.baseline \in Nat /\ f.generation \in Nat
    /\ f.bytes \in Nat /\ f.bytesBaseline \in Nat /\ f.bytesStart \in Nat

TruthTyped ==
    /\ DOMAIN truth = {"run", "disk", "bytes", "tail", "dark", "darkDisk", "lost", "lostDisk",
                       "missed", "vms"}
    /\ truth.run \in Nat /\ truth.disk \in Nat /\ truth.bytes \in Nat /\ truth.tail \in Nat
    /\ truth.dark \in Nat /\ truth.darkDisk \in Nat /\ truth.lost \in Int
    /\ truth.lostDisk \in Nat /\ truth.missed \in Nat

AccountTyped ==
    /\ now \in Nat /\ now <= MaxTime /\ vm \in {"absent", "stopped", "running"} /\ sent \in Nat
    /\ FileTyped(file) /\ TruthTyped
    /\ DOMAIN journal = {"starts", "runtime", "grantStarted", "deadline", "create"}
    /\ journal.starts \in Nat /\ journal.runtime \in Nat /\ journal.grantStarted \in Nat
    /\ journal.deadline \in Nat /\ journal.create \in Nat
    /\ observed.runtime \in Nat /\ observed.tail \in Nat

(* Before the first observation nothing was created. *)
NothingYet ==
    ~file.there => /\ vm = "absent" /\ ~observed.on /\ truth.disk = 0 /\ truth.bytes = 0
                   /\ truth.lostDisk = 0 /\ truth.darkDisk = 0

(* What a generation may run, and what it has run since its start. *)
GenerationRuns ==
    vm = "running" =>
        /\ journal.starts > 0 /\ journal.grantStarted <= now /\ now <= journal.deadline
        /\ truth.run + journal.deadline <= MaxRuntime + truth.lost + now
        /\ truth.run <= journal.runtime + truth.lost + (now - journal.grantStarted)
        /\ file.generation = journal.starts =>
              truth.run <= file.baseline + truth.lost + (now - journal.grantStarted)

(* What a saved or a pending observation charges. *)
ObservedEnough ==
    /\ observed.on =>
          /\ observed.runtime >= journal.runtime
          /\ truth.run + observed.tail <= observed.runtime + truth.lost + truth.tail
    /\ ~observed.on => observed.tail = 0
    /\ vm # "running" => truth.tail = 0 /\ truth.run + observed.tail <= MaxRuntime + truth.lost
    /\ vm = "running" => observed.tail <= truth.tail

(* The bytes of the generation that runs, once it was observed. *)
BytesRead ==
    /\ file.generation <= journal.starts
    /\ vm # "running" => truth.dark = 0
    /\ truth.dark <= sent
    /\ vm = "running" /\ file.generation = journal.starts =>
          file.bytesBaseline + (sent - file.bytesStart) + truth.missed >= truth.bytes

(* The disk counts from an observation that is over. *)
DiskSeen == file.diskStarted = None \/ file.diskStarted <= now

(* All of it: with what is charged it is inductive. *)
AccountInv ==
    /\ AccountTyped /\ NothingYet /\ GenerationRuns /\ ObservedEnough /\ BytesRead /\ DiskSeen
    /\ RuntimeCharged /\ DiskCharged /\ BytesCharged
=============================================================================
