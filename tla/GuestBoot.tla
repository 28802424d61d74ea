------------------------------ MODULE GuestBoot ------------------------------
(***************************************************************************)
(* First boot and lifetime of a runner VM, seen from inside: the commands  *)
(* renderCloudInit lists (packages/runner/src/adapters/cloud-init.ts), the *)
(* watchdog that powers the guest off (guest/watchdog.sh) and the helper   *)
(* that arms a generation's grant (guest/arm-grant.sh).  The last two      *)
(* share grant.env under grant.lock and read the monotonic clock at        *)
(* different moments.  Where Controller lets a grant be written and the    *)
(* watchdog act in one step, here every read, lock and write is its own.   *)
(*                                                                         *)
(* cloud-init is external: it runs the commands once per VM, in order, and *)
(* goes on when one of them fails.                                         *)
(***************************************************************************)
EXTENDS Integers, Sequences, FiniteSets, SequencesExt

CONSTANTS
    Armers,          \* arm-grant processes: a timed-out call leaves its helper running
    Window,          \* length of a generation's grant
    UnarmedWindow,   \* unarmed_window_ms
    Period,          \* the watchdog's sleep
    MaxStall,        \* a running script makes its next step within this time
    MaxBoots, MaxFaults, MaxRan,   \* bounds
    Failures         \* what may go wrong, out of AllFailures

AllFailures == {"safety", "ssh", "slow", "bootstrap", "hang", "watchdog"}
BootAssumption == Failures \subseteq AllFailures /\ Period >= 1

VARIABLES
    on,           \* the VM is powered on
    boots,        \* boots so far: the boot id
    uptime,       \* monotonic clock of this boot
    generation,   \* the generation the controller started
    next,         \* index of the cloud-init command to run
    hung,         \* that command never returns
    sshFailed,    \* the daemon preflight failed
    helpers, ready,   \* helpers installed, ready marker
    wd,           \* the watchdog: where it is, the clock it read, the grant it sourced
    wake,         \* when it wakes
    anchor,       \* clock.env
    grant,        \* grant.env
    arm,          \* per armer: where it is, its window, the clock it read
    lock,         \* holder of grant.lock
    stall,        \* per script that is under way: time since it made a step
    ended,        \* markers: "quarantined", "deadline-reached"
    ran,          \* powered-on time since the current grant was written
    watched,      \* history: when this boot's first watchdog started, -1 before
    faults

cloud == <<next, hung, sshFailed, helpers, ready>>
scripts == <<wd, wake, anchor, grant, arm, lock>>
history == <<ran, watched>>
vars == <<on, boots, uptime, generation, cloud, scripts, stall, ended, history, faults>>

\* GUEST_FILE_NAMES, and what bootstrap.sh installs of it.
GuestFiles == {"bootstrap", "diagnose-ssh", "watchdog", "arm-grant", "register-runner",
               "job-start-hook", "drain", "status", "resume-admission", "watchdog.service"}
Installed == {"watchdog", "diagnose-ssh", "arm-grant", "job-start-hook", "register-runner",
              "drain", "status", "resume-admission", "watchdog.service"}
InstalledAreWritten == Installed \subseteq GuestFiles

\* runcmd: the safety bootstrap and the listener come before the slow packages.
RunCmd == <<"safety", "ssh", "packages", "bootstrap">>

Scripts == Armers \cup {"watchdog"}

NoGrant == [generation |-> 0, window |-> 0, boot |-> 0, last |-> 0, elapsed |-> 0]
Armed == grant # NoGrant
Idle == [pc |-> "idle", window |-> 0, now |-> 0]
WatchdogOff == [pc |-> "off", now |-> 0, copy |-> NoGrant]

TypeOK ==
    /\ on \in BOOLEAN /\ boots \in 0 .. MaxBoots /\ generation \in 0 .. MaxBoots
    /\ next \in 1 .. Len(RunCmd) + 1 /\ hung \in BOOLEAN /\ sshFailed \in BOOLEAN
    /\ helpers \in BOOLEAN /\ (ready => helpers)
    /\ wd.pc \in {"off", "sleep", "read", "locked", "sourced"}
    /\ grant.generation <= generation
    /\ \A a \in Armers : arm[a].pc \in {"idle", "waiting", "locked", "read"}
    /\ lock \in Armers \cup {"free", "watchdog"}
    /\ lock # "free" => lock = "watchdog" \/ arm[lock].pc \in {"locked", "read"}
    /\ stall \in [Scripts -> 0 .. MaxStall] /\ faults \in 0 .. MaxFaults

Fresh == [x \in Scripts |-> 0]

Init ==
    /\ on = TRUE /\ boots = 1 /\ uptime = 0 /\ generation = 1
    /\ next = 1 /\ hung = FALSE /\ sshFailed = FALSE /\ helpers = FALSE
    /\ ready = FALSE
    /\ wd = WatchdogOff /\ wake = 0 /\ anchor = [boot |-> 0, at |-> 0] /\ grant = NoGrant
    /\ arm = [a \in Armers |-> Idle] /\ lock = "free" /\ stall = Fresh
    /\ ended = {} /\ ran = 0 /\ watched = -1 /\ faults = 0

NoFault == UNCHANGED faults
Fault(kind) == kind \in Failures /\ faults < MaxFaults /\ faults' = faults + 1
-----------------------------------------------------------------------------
UnderWay == {a \in Armers : arm[a].pc # "idle"}
            \cup (IF wd.pc \in {"read", "locked", "sourced"} THEN {"watchdog"} ELSE {})

\* A script makes a step of its own.
Moves(x) == stall' = [stall EXCEPT ![x] = 0]

Tick ==
    /\ on
    /\ ~(wd.pc = "sleep" /\ uptime >= wake)
    /\ \A x \in UnderWay : stall[x] < MaxStall
    /\ \/ watched = -1 /\ uptime < 2
       \/ watched >= 0 /\ ~Armed /\ uptime - watched < UnarmedWindow + 2 * (Period + 4 * MaxStall)
       \/ Armed /\ ran < MaxRan
    /\ uptime' = uptime + 1
    /\ ran' = IF Armed THEN ran + 1 ELSE 0
    /\ stall' = [x \in Scripts |-> IF x \in UnderWay THEN stall[x] + 1 ELSE 0]
    /\ UNCHANGED <<on, boots, generation, cloud, scripts, ended, watched, faults>>

\* The VM is off: every process is gone, the disk stays; an interrupted runcmd
\* is not run again.
Off ==
    /\ on' = FALSE /\ uptime' = 0 /\ stall' = Fresh /\ watched' = -1
    /\ wd' = WatchdogOff /\ wake' = 0 /\ lock' = "free" /\ arm' = [a \in Armers |-> Idle]
    /\ next' = Len(RunCmd) + 1 /\ hung' = FALSE
    /\ UNCHANGED <<boots, generation, sshFailed, helpers, ready>>

\* The provider stops the VM, or the host it runs on fails.
Stop ==
    /\ on
    /\ Off
    /\ UNCHANGED <<anchor, grant, ended, ran, faults>>

\* anchor_boot_id: the unarmed window counts from the first watchdog of a boot.
Anchored(boot, now) == IF anchor.boot = boot THEN anchor ELSE [boot |-> boot, at |-> now]

Watched(now) == watched' = IF watched = -1 THEN now ELSE watched

StartWatchdog(boot, now) ==
    /\ wd' = [WatchdogOff EXCEPT !.pc = "sleep"] /\ wake' = now
    /\ anchor' = Anchored(boot, now) /\ Watched(now)

\* The controller starts the VM as its next generation, or the guest reboots by
\* itself.  The enabled unit starts with the system.  (What follows once the
\* watchdog has ended a guest is out of bounds: a boot on a spent or quarantined
\* grant is not followed.)
Boot(start) ==
    /\ ~on /\ boots < MaxBoots /\ ended = {}
    /\ on' = TRUE /\ boots' = boots + 1
    /\ generation' = IF start THEN generation + 1 ELSE generation
    /\ IF helpers THEN StartWatchdog(boots + 1, 0) ELSE UNCHANGED <<wd, wake, anchor, watched>>
    /\ UNCHANGED <<uptime, cloud, grant, arm, lock, stall, ended, ran, faults>>
-----------------------------------------------------------------------------
\* cloud-init: a command that fails does not keep the next from running.
Command(name) == on /\ ~hung /\ next <= Len(RunCmd) /\ RunCmd[next] = name

Enable == IF wd.pc = "off" THEN StartWatchdog(boots, uptime) ELSE UNCHANGED <<wd, wake, anchor, watched>>

\* bootstrap.sh with CIRUJANO_SAFETY_ONLY: helpers and watchdog.
SafetyBootstrap ==
    /\ Command("safety")
    /\ next' = next + 1
    /\ \/ helpers' = TRUE /\ Enable /\ NoFault
       \/ UNCHANGED <<helpers, wd, wake, anchor, watched>> /\ Fault("safety")
    /\ UNCHANGED <<on, boots, uptime, generation, hung, sshFailed, ready, grant, arm, lock,
                   stall, ended, ran>>

\* diagnose-ssh.sh: restart the listener; on failure print redacted diagnostics
\* to the console and return the failure.
DiagnoseSsh ==
    /\ Command("ssh")
    /\ next' = next + 1
    /\ \/ NoFault /\ UNCHANGED sshFailed
       \/ helpers /\ sshFailed' = TRUE /\ Fault("ssh")
    /\ UNCHANGED <<on, boots, uptime, generation, hung, helpers, ready, scripts, stall, ended, history>>

\* Packages, Node and Docker come over the network: slow, failing or stuck.
SlowCommand ==
    /\ Command("packages")
    /\ \/ next' = next + 1 /\ UNCHANGED hung /\ (NoFault \/ Fault("slow"))
       \/ hung' = TRUE /\ UNCHANGED next /\ Fault("hang")
    /\ UNCHANGED <<on, boots, uptime, generation, sshFailed, helpers, ready, scripts, stall,
                   ended, history>>

\* bootstrap.sh again, with the runner archive: it stops at its first failure.
Bootstrap ==
    /\ Command("bootstrap")
    /\ next' = next + 1
    /\ helpers' = TRUE /\ Enable
    /\ \/ ready' = TRUE /\ NoFault
       \/ UNCHANGED ready /\ Fault("bootstrap")
    /\ UNCHANGED <<on, boots, uptime, generation, hung, sshFailed, grant, arm, lock, stall,
                   ended, ran>>
-----------------------------------------------------------------------------
\* watchdog.sh.  The clock is read before the lock is asked for.
WatchdogWakes ==
    /\ on /\ wd.pc = "sleep" /\ uptime >= wake
    /\ wd' = [wd EXCEPT !.pc = "read", !.now = uptime]
    /\ Moves("watchdog")
    /\ UNCHANGED <<on, boots, uptime, generation, cloud, wake, anchor, grant, arm, lock, ended, history, faults>>

\* Mutant: the lock file is opened and never locked.
WatchdogLocksNothing ==
    /\ on /\ wd.pc = "read"
    /\ wd' = [wd EXCEPT !.pc = "locked"]
    /\ Moves("watchdog")
    /\ UNCHANGED <<on, boots, uptime, generation, cloud, wake, anchor, grant, arm, lock, ended, history, faults>>

WatchdogLocks ==
    /\ on /\ wd.pc = "read" /\ lock = "free"
    /\ lock' = "watchdog" /\ wd' = [wd EXCEPT !.pc = "locked"]
    /\ Moves("watchdog")
    /\ UNCHANGED <<on, boots, uptime, generation, cloud, wake, anchor, grant, arm, ended, history, faults>>

Release == lock' = IF lock = "watchdog" THEN "free" ELSE lock
Sleep == wd' = [WatchdogOff EXCEPT !.pc = "sleep"] /\ wake' = uptime + Period

\* flock -w 10 gives up: this turn writes nothing.
WatchdogSkips ==
    /\ on /\ wd.pc = "read" /\ lock # "free" /\ stall["watchdog"] = MaxStall
    /\ Sleep /\ Moves("watchdog")
    /\ UNCHANGED <<on, boots, uptime, generation, cloud, anchor, grant, arm, lock, ended, history, faults>>

\* quarantine and expire: leave a marker and power off.
PowerOff(marker) ==
    /\ Off /\ ended' = ended \cup {marker}
    /\ UNCHANGED <<anchor, ran, faults>>

\* Without a grant only the unarmed window counts.
WatchdogSources ==
    /\ on /\ wd.pc = "locked"
    /\ IF Armed
       THEN /\ wd' = [wd EXCEPT !.pc = "sourced", !.copy = grant]
            /\ Moves("watchdog")
            /\ UNCHANGED <<on, boots, uptime, generation, cloud, wake, anchor, grant, arm, lock,
                           ended, history, faults>>
       ELSE IF wd.now - anchor.at >= UnarmedWindow
       THEN PowerOff("deadline-reached") /\ UNCHANGED grant
       ELSE /\ Sleep /\ Release /\ Moves("watchdog")
            /\ UNCHANGED <<on, boots, uptime, generation, cloud, anchor, grant, arm, ended, history, faults>>

\* Running time accumulates within a boot; a new boot only moves the mark.
Advanced(g, now) ==
    [g EXCEPT !.boot = boots, !.last = now, !.elapsed = IF g.boot = boots THEN @ + now - g.last ELSE @]

WatchdogPersists ==
    /\ on /\ wd.pc = "sourced"
    /\ LET g == Advanced(wd.copy, wd.now)
       IN  IF wd.copy.boot = boots /\ wd.now < wd.copy.last
           THEN PowerOff("quarantined") /\ UNCHANGED grant
           ELSE /\ grant' = g
                /\ IF g.elapsed >= g.window
                   THEN PowerOff("deadline-reached")
                   ELSE /\ Sleep /\ Release /\ Moves("watchdog")
                        /\ UNCHANGED <<on, boots, uptime, generation, cloud, anchor, arm, ended, history, faults>>

\* A write fails, which ends the script; the unit has Restart=no.
WatchdogDies ==
    /\ on /\ wd.pc # "off" /\ Fault("watchdog")
    /\ wd' = WatchdogOff /\ wake' = 0 /\ Release /\ Moves("watchdog")
    /\ UNCHANGED <<on, boots, uptime, generation, cloud, anchor, grant, arm, ended, history>>
-----------------------------------------------------------------------------
\* arm-grant.sh.  The controller calls it while the status shows another
\* generation; each call starts later and has less of the window left.
CallArm(a) ==
    /\ on /\ helpers /\ arm[a].pc = "idle" /\ grant.generation # generation
    /\ Window > uptime
    /\ arm' = [arm EXCEPT ![a] = [pc |-> "waiting", window |-> Window - uptime, now |-> 0]]
    /\ Moves(a)
    /\ UNCHANGED <<on, boots, uptime, generation, cloud, wd, wake, anchor, grant, lock, ended, history, faults>>

ArmLocks(a) ==
    /\ arm[a].pc = "waiting" /\ lock = "free"
    /\ lock' = a /\ arm' = [arm EXCEPT ![a].pc = "locked"]
    /\ Moves(a)
    /\ UNCHANGED <<on, boots, uptime, generation, cloud, wd, wake, anchor, grant, ended, history, faults>>

\* Exit 4, grant lock busy.
ArmGivesUp(a) ==
    /\ arm[a].pc = "waiting" /\ lock # "free" /\ stall[a] = MaxStall
    /\ arm' = [arm EXCEPT ![a] = Idle] /\ Moves(a)
    /\ UNCHANGED <<on, boots, uptime, generation, cloud, wd, wake, anchor, grant, lock, ended, history, faults>>

ArmReadsClock(a) ==
    /\ arm[a].pc = "locked"
    /\ arm' = [arm EXCEPT ![a].pc = "read", ![a].now = uptime]
    /\ Moves(a)
    /\ UNCHANGED <<on, boots, uptime, generation, cloud, wd, wake, anchor, grant, lock, ended, history, faults>>

\* A generation cannot be extended; the next one must not follow a spent grant.
Accepted(a) ==
    \/ ~Armed
    \/ /\ generation = grant.generation + 1
       /\ grant.elapsed < grant.window

ArmWrites(a) ==
    /\ arm[a].pc = "read"
    /\ IF Accepted(a)
       THEN /\ grant' = [generation |-> generation, window |-> arm[a].window,
                         boot |-> boots, last |-> arm[a].now, elapsed |-> 0]
            /\ ran' = 0
       ELSE UNCHANGED <<grant, ran>>
    /\ arm' = [arm EXCEPT ![a] = Idle]
    /\ lock' = IF lock = a THEN "free" ELSE lock
    /\ Moves(a)
    /\ UNCHANGED <<on, boots, uptime, generation, cloud, wd, wake, anchor, ended, watched, faults>>

Watchdog == WatchdogWakes \/ WatchdogLocks \/ WatchdogSkips \/ WatchdogSources \/ WatchdogPersists
ArmStep(a) == ArmLocks(a) \/ ArmGivesUp(a) \/ ArmReadsClock(a) \/ ArmWrites(a)
CloudInit == SafetyBootstrap \/ DiagnoseSsh \/ SlowCommand \/ Bootstrap

Next ==
    \/ Tick \/ Stop \/ \E start \in BOOLEAN : Boot(start)
    \/ CloudInit
    \/ Watchdog \/ WatchdogDies
    \/ \E a \in Armers : CallArm(a) \/ ArmStep(a)

Spec == Init /\ [][Next]_vars
-----------------------------------------------------------------------------
(* The grant on disk only moves to the next generation, and the window of a
   generation is what its first accepted call gave it: neither the write-back
   of a watchdog that read the old grant nor a call that timed out on the
   controller's side and still runs in the guest changes it.
   (watchdog.sh: the locked loop; arm-grant.sh)                             *)
GrantsAreImmutable ==
    [][/\ grant'.generation >= grant.generation
       /\ grant'.generation = grant.generation => grant'.window = grant.window]_vars

(* A guest whose watchdog has never died does not outlive its grant, over
   reboots as well: per boot by two turns of the watchdog, one of which the
   lock may cost it (the time between the last reading of a boot and the first
   of the next is nobody's).                                                *)
LifetimeBounded ==
    on /\ Armed /\ wd.pc # "off" /\ faults = 0
        => ran <= grant.window + 2 * (Period + 3 * MaxStall) * (1 + boots - grant.generation)

(* An unarmed guest's watchdog goes back to sleep only within the window of
   the boot's first watchdog: one that died and was started again by the
   second bootstrap does not start the window over.                         *)
UnarmedBounded ==
    on /\ ~Armed /\ wd.pc = "sleep" /\ wake > uptime /\ (\A a \in Armers : arm[a].pc = "idle")
        => wake - watched < UnarmedWindow + Period + 2 * MaxStall

\* A first boot that hangs in its slow commands does not run for ever: the
\* watchdog was installed before them.
HungBoot == on /\ hung /\ faults = 1

(* guest.test.ts: "Monotonic time cannot go backwards within one boot."  The
   watchdog quarantines a guest whose clock did; no clock here ever does.   *)
QuarantineMeansRegression == "quarantined" \notin ended

(* The repair plan: the SSH helper must not "keep bootstrapping after a failed
   daemon preflight".                                                       *)
PreflightFailureStops == sshFailed => ~ready
=============================================================================
