--------------------------- MODULE TelemetryAgent ---------------------------
(***************************************************************************)
(* The daily telemetry collection (scripts/collect-actions-telemetry.sh)   *)
(* and its installer (scripts/install-telemetry-agent.sh).  launchd starts *)
(* the collector at load, at login and every day; the owner may run the    *)
(* same script by hand, also while it is being installed.  One lock file   *)
(* serialises them; what a collection itself reads is in TelemetryStore.   *)
(*                                                                         *)
(* launchd, the kernel's file locks, GitHub and the owner are external.    *)
(***************************************************************************)
EXTENDS Naturals, TLAPS

CONSTANTS MaxSnapshots,  \* bound on snapshots written
          MaxManual,     \* bound on collections run by hand
          MaxFaults      \* bound on kills and commands that fail
ASSUME BoundsAreCounts == MaxSnapshots \in Nat /\ MaxManual \in Nat /\ MaxFaults \in Nat

Collectors == {"agent", "manual"}
Releases == {"old", "new"}

VARIABLES
    fleet,       \* a registry exists, so health and the fleet report are due
    red, up,     \* the world: a routing switch is red, GitHub answers
    at,          \* at[c]: the command collector c is about to run
    holder,      \* who holds .collect.lock
    temp,        \* temp[c]: the snapshots its unmoved report has read
    snapshots,   \* daily snapshots written so far
    report, fleetReport,   \* how many of them latest.md and fleet-latest.md know
    told,        \* the owner was notified, or the log says that failed
    inst,        \* the command the installer is about to run
    plist, cli, collector, \* what it has put in place
    job,         \* the agent in launchd
    script,      \* the release of the collector script the agent runs
    exit,        \* last exit code launchd reports for the agent
    freshSnapshot, freshReport,   \* written since the installer started
    collected,   \* the launch at load wrote a snapshot
    manual, faults
world == <<fleet, red, up>>
runs == <<at, holder, temp>>
store == <<snapshots, report, fleetReport, freshSnapshot, freshReport, collected>>
setup == <<inst, plist, cli, collector>>
agent == <<job, script, exit>>
vars == <<world, runs, store, told, setup, agent, manual, faults>>

Stages == {"off", "lock", "health", "notify", "owner", "collect", "report", "moveReport",
           "fleet", "moveFleet"}
TypeOK ==
    /\ at \in [Collectors -> Stages] /\ holder \in Collectors \cup {"none"}
    /\ holder # "none" => at[holder] \notin {"off", "lock"}
    /\ report <= snapshots /\ fleetReport <= snapshots /\ (fleetReport > 0 => fleet)
    /\ job \in {"unloaded", "ending", "loaded"} /\ (at["agent"] # "off" => job # "unloaded")
    /\ (inst = "verified" => plist /\ cli = "new" /\ collector = "new")

Init ==
    /\ fleet \in BOOLEAN /\ red = FALSE /\ up = TRUE
    /\ at = [c \in Collectors |-> "off"] /\ holder = "none" /\ temp = [c \in Collectors |-> 0]
    /\ snapshots = 0 /\ report = 0 /\ fleetReport = 0 /\ told = FALSE
    /\ inst = "idle" /\ plist \in BOOLEAN
    /\ cli = (IF plist THEN "old" ELSE "none") /\ collector = cli
    /\ job = (IF plist THEN "loaded" ELSE "unloaded") /\ script = "none" /\ exit = "none"
    /\ freshSnapshot = FALSE /\ freshReport = FALSE /\ collected = FALSE
    /\ manual = 0 /\ faults = 0
-----------------------------------------------------------------------------
\* The world.
Outage == up' = ~up /\ UNCHANGED <<fleet, red, runs, store, told, setup, agent, manual, faults>>

TurnsRed == ~red /\ red' = TRUE
            /\ UNCHANGED <<fleet, up, runs, store, told, setup, agent, manual, faults>>

\* The collector: c goes on to command s, or exits with a code.
Goes(c, s) == at' = [at EXCEPT ![c] = s]

Exits(c, code) ==
    /\ Goes(c, "off") /\ holder' = (IF holder = c THEN "none" ELSE holder)
    /\ temp' = [temp EXCEPT ![c] = 0]
    /\ exit' = (IF c = "agent" THEN code ELSE exit)
    /\ UNCHANGED <<job, script>>

Manual ==
    /\ at["manual"] = "off" /\ manual < MaxManual /\ manual' = manual + 1 /\ Goes("manual", "lock")
    /\ UNCHANGED <<world, holder, temp, store, told, setup, agent, faults>>

\* Mutant: the collector runs without its lock.
LockNothing(c) ==
    /\ at[c] = "lock" /\ Goes(c, IF fleet THEN "health" ELSE "owner")
    /\ holder' = c /\ UNCHANGED <<temp, agent>>
    /\ UNCHANGED <<world, store, told, setup, manual, faults>>

\* lockf -t 0: a collector that finds the lock taken exits 0.
Lock(c) ==
    /\ at[c] = "lock"
    /\ \/ /\ holder = "none" /\ holder' = c
          /\ Goes(c, IF fleet THEN "health" ELSE "owner") /\ UNCHANGED <<temp, agent>>
       \/ holder \notin {"none", c} /\ Exits(c, "0")
    /\ UNCHANGED <<world, store, told, setup, manual, faults>>

\* A red row and a failed check are told; neither ends the collection.  A check
\* may fail for its own reasons too.
Health(c) ==
    /\ at[c] = "health"
    /\ \/ Goes(c, "notify")
       \/ ~red /\ up /\ Goes(c, "owner")
    /\ UNCHANGED <<world, holder, temp, store, told, setup, agent, manual, faults>>

\* osascript, or the log when it fails.
Notify(c) ==
    /\ at[c] = "notify" /\ told' = TRUE /\ Goes(c, "owner")
    /\ UNCHANGED <<world, holder, temp, store, setup, agent, manual, faults>>

\* The owner lookup, three times; an outage outlasts them.
Owner(c) ==
    /\ at[c] = "owner"
    /\ IF up THEN Goes(c, "collect") /\ UNCHANGED <<holder, temp, agent>> ELSE Exits(c, "1")
    /\ UNCHANGED <<world, store, told, setup, manual, faults>>

\* All or nothing: one failed read fails the day's snapshot.  At the bound
\* every collection fails.
Collect(c) ==
    /\ at[c] = "collect"
    /\ IF up /\ snapshots < MaxSnapshots
       THEN /\ snapshots' = snapshots + 1 /\ freshSnapshot' = TRUE
            /\ collected' = (collected \/ c = "agent")
            /\ Goes(c, "report") /\ UNCHANGED <<holder, temp, agent>>
       ELSE Exits(c, "1") /\ UNCHANGED <<snapshots, freshSnapshot, collected>>
    /\ UNCHANGED <<world, report, fleetReport, freshReport, told, setup, manual, faults>>

\* The cumulative report is written beside latest.md ...
Report(c) ==
    /\ at[c] \in {"report", "fleet"}
    /\ temp' = [temp EXCEPT ![c] = snapshots]
    /\ Goes(c, IF at[c] = "report" THEN "moveReport" ELSE "moveFleet")
    /\ UNCHANGED <<world, holder, store, told, setup, agent, manual, faults>>

\* ... and moved over it.
MoveReport(c) ==
    /\ at[c] = "moveReport" /\ report' = temp[c] /\ freshReport' = TRUE
    /\ IF fleet THEN Goes(c, "fleet") /\ UNCHANGED <<holder, temp, agent>> ELSE Exits(c, "0")
    /\ UNCHANGED <<world, snapshots, fleetReport, freshSnapshot, collected, told, setup, manual,
                   faults>>

MoveFleet(c) ==
    /\ at[c] = "moveFleet" /\ fleetReport' = temp[c] /\ Exits(c, "0")
    /\ UNCHANGED <<world, snapshots, report, freshSnapshot, freshReport, collected, told, setup,
                   manual, faults>>

\* Mutant: a lock that survives its process, like a directory would.
FailsHolding(c) ==
    /\ at[c] # "off" /\ faults < MaxFaults /\ faults' = faults + 1
    /\ Goes(c, "off") /\ UNCHANGED <<holder, temp, agent>>
    /\ UNCHANGED <<world, store, told, setup, manual>>

\* set -e: a command fails (the build, a report with a coverage gap), or the
\* process is killed; the kernel drops its lock, the trap its copies.
Fails(c) ==
    /\ at[c] # "off" /\ faults < MaxFaults /\ faults' = faults + 1 /\ Exits(c, "1")
    /\ UNCHANGED <<world, store, told, setup, manual>>
-----------------------------------------------------------------------------
\* launchd: it starts a loaded agent that is not running, at load and daily ...
Launch ==
    /\ job = "loaded" /\ at["agent"] = "off" /\ Goes("agent", "lock") /\ script' = collector
    /\ UNCHANGED <<world, holder, temp, store, told, setup, job, exit, manual, faults>>

\* ... loads the agents it finds at login ...
Login ==
    /\ job = "unloaded" /\ plist /\ cli # "none" /\ collector # "none"
    /\ inst \in {"idle", "failed"}
    /\ job' = "loaded" /\ exit' = "none"
    /\ UNCHANGED <<world, runs, store, told, setup, script, manual, faults>>

\* ... and kills what is left of one it was told to remove.
TearDown ==
    /\ job = "ending" /\ job' = "unloaded" /\ Goes("agent", "off")
    /\ holder' = (IF holder = "agent" THEN "none" ELSE holder)
    /\ temp' = [temp EXCEPT !["agent"] = 0]
    /\ UNCHANGED <<world, store, told, setup, script, exit, manual, faults>>
-----------------------------------------------------------------------------
\* The installer.
Does(from, to) == inst = from /\ inst' = to

\* The bundle is built and copied beside its target; so is the script.
Begin ==
    /\ Does("idle", "plist") /\ freshSnapshot' = FALSE /\ freshReport' = FALSE
    /\ UNCHANGED <<world, runs, snapshots, report, fleetReport, collected, told, plist, cli,
                   collector, agent, manual, faults>>

WritePlist ==
    /\ Does("plist", "bootout") /\ plist' = TRUE
    /\ UNCHANGED <<world, runs, store, told, cli, collector, agent, manual, faults>>

\* Mutant: the new files are moved in place under a loaded agent.
KeepRunning ==
    /\ Does("bootout", "moveCli")
    /\ UNCHANGED <<world, runs, store, told, plist, cli, collector, agent, manual, faults>>

\* launchctl bootout may return while the agent is still ending.
Bootout ==
    /\ Does("bootout", "moveCli") /\ job' = (IF job = "loaded" THEN "ending" ELSE job)
    /\ UNCHANGED <<world, runs, store, told, plist, cli, collector, script, exit, manual, faults>>

MoveCli ==
    /\ Does("moveCli", "moveCollector") /\ cli' = "new"
    /\ UNCHANGED <<world, runs, store, told, plist, collector, agent, manual, faults>>

MoveCollector ==
    /\ Does("moveCollector", "bootstrap") /\ collector' = "new"
    /\ UNCHANGED <<world, runs, store, told, plist, cli, agent, manual, faults>>

\* launchctl refuses an agent it still has; the installer does not try again.
Bootstrap ==
    /\ \/ /\ job = "unloaded" /\ Does("bootstrap", "wait")
          /\ job' = "loaded" /\ exit' = "none" /\ collected' = FALSE
       \/ job # "unloaded" /\ Does("bootstrap", "failed") /\ UNCHANGED <<job, exit, collected>>
    /\ UNCHANGED <<world, runs, snapshots, report, fleetReport, freshSnapshot, freshReport, told,
                   plist, cli, collector, script, manual, faults>>

\* It polls until the agent is not running, or until its deadline.
Wait ==
    /\ Does("wait", "check")
    /\ UNCHANGED <<world, runs, store, told, plist, cli, collector, agent, manual, faults>>

\* The last exit code, today's snapshot and latest.md younger than the
\* installer, and a report the new bundle can make of them.
Check ==
    /\ inst = "check"
    /\ \/ exit = "0" /\ freshSnapshot /\ freshReport /\ inst' = "verified"
       \/ ~(exit = "0" /\ freshSnapshot /\ freshReport) /\ inst' = "failed"
    /\ UNCHANGED <<world, runs, store, told, plist, cli, collector, agent, manual, faults>>

InstallFails ==
    /\ inst \notin {"idle", "verified", "failed"} /\ faults < MaxFaults /\ faults' = faults + 1
    /\ inst' = "failed"
    /\ UNCHANGED <<world, runs, store, told, plist, cli, collector, agent, manual>>

Installer == Begin \/ WritePlist \/ Bootout \/ MoveCli \/ MoveCollector \/ Bootstrap \/ Wait \/ Check

Step(c) == \/ Lock(c) \/ Health(c) \/ Notify(c) \/ Owner(c) \/ Collect(c) \/ Report(c)
           \/ MoveReport(c) \/ MoveFleet(c)

Next == \/ Outage \/ TurnsRed \/ Manual \/ Launch \/ Login \/ TearDown
        \/ \E c \in Collectors : Step(c) \/ Fails(c)
        \/ Installer \/ InstallFails

Spec == Init /\ [][Next]_vars
-----------------------------------------------------------------------------
(* A report never goes back: a collector that was slower than another does  *)
(* not put an older latest.md or fleet-latest.md over a newer one           *)
(* (collect-actions-telemetry.sh:29-40, 100-116).                           *)
ReportNeverOlder == [][report' >= report /\ fleetReport' >= fleetReport]_vars

(* A loaded agent runs one release: its script never calls the bundle of    *)
(* another one, unless an installer died between moving the two files       *)
(* (install-telemetry-agent.sh:57-60).                                      *)
OneRelease ==
    at["agent"] # "off" /\ job = "loaded" /\ inst # "failed" => script = cli

(* A red switch is told to the owner, or the log says why not, even if      *)
(* GitHub never answers again (collect-actions-telemetry.sh:58-80,          *)
(* "a GitHub outage that fails collection cannot hide it").                 *)
RedIsTold == red /\ fleet /\ plist /\ collector # "none" ~> told

(* Once GitHub stays up, an installed agent collects, whatever was killed   *)
(* before (collect-actions-telemetry.sh:29-40).                             *)
CollectionComesBack ==
    <>[](up /\ plist /\ collector # "none") => <>(snapshots > 0)

(* A verified installation means that the agent it loaded has collected:    *)
(* docs/runbooks/fleet-telemetry.md:29-31 "loads one launch agent, and      *)
(* waits up to 20 minutes for a verified first collection".                 *)
VerifiedMeansCollected == inst = "verified" => collected
-----------------------------------------------------------------------------
(***************************************************************************)
(* Proofs, for any number of collections, kills and failures.              *)
(***************************************************************************)

(* Who has passed the lock holds it; what the holder is about to put over a *)
(* report is not older than that report.                                    *)
ReportInv ==
    /\ at \in [Collectors -> Stages]
    /\ temp \in [Collectors -> Nat]
    /\ snapshots \in Nat /\ report \in 0 .. snapshots /\ fleetReport \in 0 .. snapshots
    /\ \A c \in Collectors :
          /\ temp[c] <= snapshots
          /\ at[c] \notin {"off", "lock"} => holder = c
          /\ at[c] = "moveReport" => report <= temp[c]
          /\ at[c] = "moveFleet" => fleetReport <= temp[c]

LEMMA ReportInit == Init => ReportInv
BY DEF Init, ReportInv, Stages

LEMMA ReportSteps ==
    ASSUME ReportInv, NEW c \in Collectors, Step(c) \/ Fails(c)
    PROVE  ReportInv' /\ report' >= report /\ fleetReport' >= fleetReport
<1>1. CASE Lock(c)
  <2>1. /\ \/ at' = [at EXCEPT ![c] = "off"] /\ holder' = holder /\ temp' = [temp EXCEPT ![c] = 0]
           \/ at' = [at EXCEPT ![c] = "health"] /\ holder = "none" /\ holder' = c /\ temp' = temp
           \/ at' = [at EXCEPT ![c] = "owner"] /\ holder = "none" /\ holder' = c /\ temp' = temp
        /\ UNCHANGED <<snapshots, report, fleetReport>> /\ at[c] = "lock"
    BY <1>1 DEF Lock, Goes, Exits, store
  <2> QED BY <2>1 DEF ReportInv, Stages, Collectors
<1>2. CASE Health(c) \/ Notify(c)
  BY <1>2 DEF Health, Notify, Goes, ReportInv, Stages, store
<1>3. CASE Owner(c)
  BY <1>3 DEF Owner, Goes, Exits, ReportInv, Stages, store, agent
<1>4. CASE Collect(c)
  BY <1>4 DEF Collect, Goes, Exits, ReportInv, Stages, agent
<1>5. CASE Report(c)
  BY <1>5 DEF Report, Goes, ReportInv, Stages, store
<1>6. CASE MoveReport(c)
  BY <1>6 DEF MoveReport, Goes, Exits, ReportInv, Stages, agent
<1>7. CASE MoveFleet(c)
  BY <1>7 DEF MoveFleet, Goes, Exits, ReportInv, Stages
<1>8. CASE Fails(c)
  BY <1>8 DEF Fails, Exits, Goes, ReportInv, Stages, store
<1> QED BY <1>1, <1>2, <1>3, <1>4, <1>5, <1>6, <1>7, <1>8 DEF Step

LEMMA ReportStep ==
    ASSUME ReportInv, [Next]_vars
    PROVE  ReportInv' /\ report' >= report /\ fleetReport' >= fleetReport
<1>1. CASE \E c \in Collectors : Step(c) \/ Fails(c)
  BY <1>1, ReportSteps
<1>2. CASE Manual \/ Launch \/ TearDown
  BY <1>2 DEF Manual, Launch, TearDown, Goes, ReportInv, Collectors, Stages, store
<1>3. CASE Outage \/ TurnsRed \/ Login \/ Installer \/ InstallFails \/ UNCHANGED vars
  <2>1. UNCHANGED <<at, holder, temp, snapshots, report, fleetReport>>
    BY <1>3 DEF Outage, TurnsRed, Login, Installer, InstallFails, Begin, WritePlist, Bootout,
                MoveCli, MoveCollector, Bootstrap, Wait, Check, vars, runs, store
  <2> QED BY <2>1 DEF ReportInv
<1> QED BY <1>1, <1>2, <1>3 DEF Next

(* However often collections overlap, are killed or fail: the lock is only   *)
(* given up with the process, so nobody else moves a report between a         *)
(* collector's reading of the snapshots and its own move.                    *)
THEOREM ReportsMoveForward == Spec => ReportNeverOlder
<1>1. Spec => []ReportInv
  BY ReportInit, ReportStep, PTL DEF Spec
<1>2. ReportInv /\ [Next]_vars => [report' >= report /\ fleetReport' >= fleetReport]_vars
  BY ReportStep
<1> QED BY <1>1, <1>2, PTL DEF Spec, ReportNeverOlder

(* While the bundle and the script differ no agent is loaded: the installer  *)
(* boots it out first, and it is not loaded again before both are in place.  *)
AgentInv ==
    /\ at \in [Collectors -> Stages]
    /\ job \in {"unloaded", "ending", "loaded"}
    /\ job = "unloaded" => at["agent"] = "off"
    /\ inst \in {"moveCli", "moveCollector", "bootstrap"} => job # "loaded"
    /\ inst = "moveCollector" => cli = "new"
    /\ inst \notin {"moveCollector", "failed"} => collector = cli
    /\ OneRelease

LEMMA AgentStep ==
    ASSUME AgentInv, [Next]_vars
    PROVE  AgentInv'
<1>1. CASE \E c \in Collectors : Step(c) \/ Fails(c)
  <2>1. PICK c \in Collectors : Step(c) \/ Fails(c)
    BY <1>1
  <2>2. at[c] # "off" /\ \E s \in Stages : at' = [at EXCEPT ![c] = s]
    BY <2>1 DEF Step, Fails, Lock, Health, Notify, Owner, Collect, Report, MoveReport, MoveFleet,
                Goes, Exits, Stages
  <2>3. UNCHANGED <<job, script, setup>>
    BY <2>1 DEF Step, Fails, Lock, Health, Notify, Owner, Collect, Report, MoveReport, MoveFleet,
                Exits, agent
  <2>4. at' \in [Collectors -> Stages] /\ (at["agent"] = "off" => at'["agent"] = "off")
    BY <2>2 DEF AgentInv, Collectors
  <2> QED BY <2>3, <2>4 DEF AgentInv, OneRelease, setup
<1>2. CASE Manual
  BY <1>2 DEF Manual, Goes, AgentInv, OneRelease, Collectors, Stages, setup, agent
<1>3. CASE Launch
  BY <1>3 DEF Launch, Goes, AgentInv, OneRelease, Collectors, Stages, setup
<1>4. CASE Login \/ TearDown
  BY <1>4 DEF Login, TearDown, Goes, AgentInv, OneRelease, Collectors, Stages, setup, runs
<1>5. CASE Installer \/ InstallFails
  <2>1. at' = at /\ script' = script
    BY <1>5 DEF Installer, InstallFails, Begin, WritePlist, Bootout, MoveCli, MoveCollector,
                Bootstrap, Wait, Check, runs, agent
  <2>2. CASE Begin \/ WritePlist \/ Wait \/ Check \/ InstallFails
    BY <2>1, <2>2 DEF Begin, WritePlist, Wait, Check, InstallFails, Does, AgentInv, OneRelease, agent
  <2>3. CASE Bootout \/ Bootstrap
    BY <2>1, <2>3 DEF Bootout, Bootstrap, Does, AgentInv, OneRelease
  <2>4. CASE MoveCli \/ MoveCollector
    BY <2>1, <2>4 DEF MoveCli, MoveCollector, Does, AgentInv, OneRelease, agent
  <2> QED BY <1>5, <2>2, <2>3, <2>4 DEF Installer
<1>6. CASE Outage \/ TurnsRed \/ UNCHANGED vars
  BY <1>6 DEF Outage, TurnsRed, vars, AgentInv, OneRelease, runs, setup, agent
<1> QED BY <1>1, <1>2, <1>3, <1>4, <1>5, <1>6 DEF Next

(* Whatever fails while a release is installed: an agent that is loaded      *)
(* never runs the script of one release against the bundle of another,       *)
(* until an installer dies between the two moves.                            *)
THEOREM LoadedAgentIsOneRelease == Spec => []OneRelease
<1>1. Init => AgentInv
  BY DEF Init, AgentInv, OneRelease, Stages, Collectors
<1>2. AgentInv => OneRelease
  BY DEF AgentInv
<1> QED BY <1>1, <1>2, AgentStep, PTL DEF Spec
=============================================================================
