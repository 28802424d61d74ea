----------------------------- MODULE AgentInstall -----------------------------
(***************************************************************************)
(* Installing a controller release (scripts/install-runner-agent.sh) while *)
(* controllers run: launchd keeps one agent per enrollment alive, each     *)
(* through the wrapper scripts/run-cirujano-controller.sh, and all share   *)
(* one bundle and one directory of guest helpers.  The installer is run    *)
(* for the enrollment Own.                                                 *)
(*                                                                         *)
(* launchd is external: it starts an agent that is loaded and not running, *)
(* may take a while to tear one down, and refuses to load it meanwhile.    *)
(***************************************************************************)
EXTENDS Naturals, FiniteSets

CONSTANTS Enrollments, Own, MaxCrashes, MaxAttempts
OwnIsEnrolled == Own \in Enrollments /\ MaxAttempts \in Nat \ {0}

Releases == {"old", "new"}

VARIABLES
    good,        \* the new release reaches its first tick
    pc,          \* where the installer is
    attempts,    \* launchctl bootstrap calls
    cli, guest, runnerEnv,   \* installed bundle, helpers, Own's actions-runner.env
    agent,       \* per enrollment: state of its process in launchd
    code,        \* per enrollment: the release its process loaded
    digest,      \* the bundle it measured as its own
    used,        \* the permit it read at its start
    permit,      \* the permit file
    fresh,       \* enrollments whose event file changed since the installer started
    newTick,     \* the new release of Own ticked
    operated,    \* a controller has just acted under its permit
    crashes
files == <<cli, guest, runnerEnv>>
processes == <<agent, code, digest, used>>
vars == <<good, pc, attempts, files, processes, permit, fresh, newTick, operated, crashes>>

Stages == {"checks", "staged", "plist", "bootout", "cli", "guestRemoved", "guest", "bootstrap",
           "verify", "verified", "failed"}
BeforeSwitch == {"checks", "staged", "plist"}
Processes == {"unloaded", "ending", "waiting", "loaded", "running", "dryRun"}

TypeOK ==
    /\ pc \in Stages /\ attempts \in 0 .. MaxAttempts
    /\ cli \in Releases /\ guest \in Releases \cup {"none"} /\ runnerEnv \in Releases \cup {"none"}
    /\ agent \in [Enrollments -> Processes]
    /\ \A e \in Enrollments : agent[e] = "running" => code[e] # "none" /\ used[e] # "none"
    /\ \A e \in Enrollments : agent[e] = "dryRun" => used[e] = "none"
    /\ fresh \subseteq Enrollments /\ (newTick => good)

Init ==
    /\ good \in BOOLEAN /\ pc = "checks" /\ attempts = 0
    /\ cli = "old" /\ guest = "old" /\ runnerEnv \in {"old", "none"}
    /\ agent = [e \in Enrollments |-> IF e = Own /\ runnerEnv = "none" THEN "unloaded" ELSE "waiting"]
    /\ code = [e \in Enrollments |-> "none"] /\ digest = code /\ used = code
    /\ permit \in [Enrollments -> {"old", "none"}]
    /\ fresh = {} /\ newTick = FALSE /\ operated = {} /\ crashes = 0
-----------------------------------------------------------------------------
\* The installer: set -e, so every command may be its last; the trap removes the
\* copies it made.
Goes(from, to) == pc = from /\ pc' = to

Fails ==
    /\ pc \in Stages \ {"verified", "failed"} /\ crashes < MaxCrashes
    /\ pc' = "failed" /\ crashes' = crashes + 1
    /\ UNCHANGED <<good, attempts, files, processes, permit, fresh, newTick, operated>>

\* Inputs checked, keys made, the release resolved, everything copied beside its target.
Stage ==
    /\ Goes("checks", "staged")
    /\ UNCHANGED <<good, attempts, files, processes, permit, fresh, newTick, operated, crashes>>

WritePlist ==
    /\ Goes("staged", "plist")
    /\ UNCHANGED <<good, attempts, files, processes, permit, fresh, newTick, operated, crashes>>

\* launchctl bootout returns while the process may still be ending.
Bootout ==
    /\ Goes("plist", "bootout")
    /\ agent' = [agent EXCEPT ![Own] = IF @ = "unloaded" THEN @ ELSE "ending"]
    /\ UNCHANGED <<good, attempts, files, code, digest, used, permit, fresh, newTick, operated, crashes>>

\* The bundle, and the wrapper that calls it, whose move follows.
MoveCli ==
    /\ Goes("bootout", "cli") /\ cli' = "new"
    /\ UNCHANGED <<good, attempts, guest, runnerEnv, processes, permit, fresh, newTick, operated, crashes>>

RemoveGuest ==
    /\ Goes("cli", "guestRemoved") /\ guest' = "none"
    /\ UNCHANGED <<good, attempts, cli, runnerEnv, processes, permit, fresh, newTick, operated, crashes>>

MoveGuest ==
    /\ Goes("guestRemoved", "guest") /\ guest' = "new"
    /\ UNCHANGED <<good, attempts, cli, runnerEnv, processes, permit, fresh, newTick, operated, crashes>>

MoveEnv ==
    /\ Goes("guest", "bootstrap") /\ runnerEnv' = "new"
    /\ UNCHANGED <<good, attempts, cli, guest, processes, permit, fresh, newTick, operated, crashes>>

\* Only the bootstrap is retried, while the old service is torn down.
Bootstrap ==
    /\ pc = "bootstrap" /\ attempts < MaxAttempts /\ attempts' = attempts + 1
    /\ IF agent[Own] = "unloaded"
       THEN pc' = "verify" /\ agent' = [agent EXCEPT ![Own] = "waiting"]
       ELSE pc' = (IF attempts + 1 = MaxAttempts THEN "failed" ELSE pc) /\ UNCHANGED agent
    /\ UNCHANGED <<good, files, code, digest, used, permit, fresh, newTick, operated, crashes>>

\* An event file younger than the start of the installer; or not running; or too late.
Verify ==
    /\ pc = "verify"
    /\ \/ Own \in fresh /\ pc' = "verified"
       \/ Own \notin fresh /\ pc' = "failed"
    /\ UNCHANGED <<good, attempts, files, processes, permit, fresh, newTick, operated, crashes>>
-----------------------------------------------------------------------------
\* launchd and the processes.
TearDownEnds(e) ==
    /\ agent[e] = "ending"
    /\ agent' = [agent EXCEPT ![e] = "unloaded"]
    /\ UNCHANGED <<good, pc, attempts, files, code, digest, used, permit, fresh, newTick, operated, crashes>>

\* The wrapper checks the files it needs, and node loads the bundle.
FilesThere(e) == guest # "none" /\ (e = Own => runnerEnv # "none")

Launch(e) ==
    /\ agent[e] = "waiting" /\ FilesThere(e)
    /\ agent' = [agent EXCEPT ![e] = "loaded"] /\ code' = [code EXCEPT ![e] = cli]
    /\ UNCHANGED <<good, pc, attempts, files, digest, used, permit, fresh, newTick, operated, crashes>>

Measured(e) == cli

\* createContext: the permit, then the digest of the bundle's file.
ReadContext(e) ==
    /\ agent[e] = "loaded"
    /\ used' = [used EXCEPT ![e] = permit[e]]
    /\ digest' = [digest EXCEPT ![e] = Measured(e)]
    /\ agent' = [agent EXCEPT ![e] = IF permit[e] = "none" THEN "dryRun" ELSE "running"]
    /\ UNCHANGED <<good, pc, attempts, files, code, permit, fresh, newTick, operated, crashes>>

\* A tick journals an event; with a permit that names its bundle the controller acts.
Acts(e) == agent[e] = "running" /\ used[e] = digest[e]

Tick(e) ==
    /\ agent[e] \in {"running", "dryRun"} /\ (code[e] = "new" => good)
    /\ fresh' = fresh \cup {e}
    /\ newTick' = (newTick \/ (e = Own /\ code[e] = "new"))
    /\ operated' = IF Acts(e) THEN {e} ELSE {}
    /\ UNCHANGED <<good, pc, attempts, files, processes, permit, crashes>>

\* A process ends, a bad release before its first tick; KeepAlive starts it again.
Exit(e) ==
    /\ agent[e] \in {"loaded", "running", "dryRun"}
    /\ (code[e] = "new" /\ ~good) \/ crashes < MaxCrashes
    /\ crashes' = IF code[e] = "new" /\ ~good THEN crashes ELSE crashes + 1
    /\ agent' = [agent EXCEPT ![e] = "waiting"] /\ code' = [code EXCEPT ![e] = "none"]
    /\ digest' = [digest EXCEPT ![e] = "none"] /\ used' = [used EXCEPT ![e] = "none"]
    /\ UNCHANGED <<good, pc, attempts, files, permit, fresh, newTick, operated>>

\* The owner issues a permit for the installed bundle; no start is as slow as that.
IssuePermit(e) ==
    /\ permit[e] # cli /\ \A f \in Enrollments : agent[f] # "loaded"
    /\ permit' = [permit EXCEPT ![e] = cli]
    /\ UNCHANGED <<good, pc, attempts, files, processes, fresh, newTick, operated, crashes>>

Install == Stage \/ WritePlist \/ Bootout \/ MoveCli \/ RemoveGuest \/ MoveGuest \/ MoveEnv
           \/ Bootstrap \/ Verify
Process(e) == Launch(e) \/ ReadContext(e)

Next ==
    \/ Install \/ Fails
    \/ \E e \in Enrollments : Process(e) \/ TearDownEnds(e) \/ Tick(e) \/ Exit(e) \/ IssuePermit(e)

Spec == Init /\ [][Next]_vars
-----------------------------------------------------------------------------
(* An installation that ends, or is about to end, before it unloads the agent
   has changed nothing the running controllers use, and the shared bundle only
   changes while Own's agent is not running.
   (install-runner-agent.sh, set -e, the temporary copies)                  *)
NothingBeforeSwitch ==
    /\ pc \in BeforeSwitch => cli = "old" /\ guest = "old" /\ runnerEnv # "new"
    /\ agent[Own] \in {"running", "dryRun"} => code[Own] = cli

(* A controller acts only as the release its permit names, whatever bundle was
   moved into place while it ran.  (executableDigest, run-cirujano-controller.sh) *)
ActsAsPermitted == \A e \in operated : Acts(e) => code[e] = used[e]

(* Every other enrollment's agent comes back after an installation that goes
   through, also one that was started while the helpers were replaced.      *)
GoesThrough == pc = "verify" /\ good
OthersAreBack == \A e \in Enrollments \ {Own} : agent[e] \in {"running", "dryRun"}

(* The installer: "The first tick writes a redacted event; a controller that
   exits before then failed to start."                                      *)
VerifiedMeansNewTick == pc = "verified" => newTick
=============================================================================
