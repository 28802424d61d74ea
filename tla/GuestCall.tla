------------------------------- MODULE GuestCall -------------------------------
(***************************************************************************)
(* The controller's calls into its guest: runGuest in                      *)
(* packages/cli/src/runner-service.ts, the ssh command line and the        *)
(* classification of its failures (packages/runner/src/adapters/ssh.ts),   *)
(* the child process with its time limit (adapters/process.ts), and the    *)
(* reconciliation of a pending start that makes them: probe the status,    *)
(* arm the grant, confirm.                                                 *)
(*                                                                         *)
(* ssh itself is external: it gives up a connection or a banner after      *)
(* ConnectTimeout, checks the host key against known_hosts, and ends with  *)
(* 255 and a message when it fails, or with the helper's own exit code.    *)
(***************************************************************************)
EXTENDS Integers, FiniteSets

CONSTANTS
    Addresses,       \* public addresses the provider hands out
    PollIntervalMs,  \* timing.pollIntervalMs
    Step,            \* milliseconds of a step of the clock
    MaxFaults        \* bound: moves, drops, slow helpers

PollIsValid == /\ PollIntervalMs \in Nat /\ Step \in Nat
               /\ PollIntervalMs >= 2000 /\ Step > 0 /\ 1000 % Step = 0

VARIABLES
    step,       \* where reconcileEffect is
    late,       \* the boot deadline has passed
    home,       \* address of the own VM
    strangers,  \* addresses another VM answers at
    sshd,       \* the own VM's listener
    target,     \* address the controller read
    call,       \* the ssh process
    result,     \* what the last call came to
    remote,     \* arm-grant helpers under way in the guest
    armed,      \* the guest enforces the generation's grant
    faults
vars == <<step, late, home, strangers, sshd, target, call, result, remote, armed, faults>>

controller == <<step, target>>
world == <<late, home, strangers, sshd>>

\* sshAttemptTiming: ssh is to give up before the process is killed.
Timing(poll) ==
    LET process == IF poll < 60000 THEN poll ELSE 60000
    IN  [connect |-> 1000 * ((process - 1000) \div 1000), process |-> process]

ConnectTimeout == Timing(PollIntervalMs).connect
ProcessTimeout == Timing(PollIntervalMs).process

\* What ssh's message says of a failure, and the transient ones among it.
Transient == {"connection-refused", "connection-reset", "connection-timeout", "no-route",
              "pre-banner-reset"}
Fatal == {"host-key", "authentication", "helper", "attempt-timeout", "unknown"}

NoCall == [stage |-> "none", address |-> "", age |-> 0, timedOut |-> FALSE, ran |-> FALSE]
NoResult == [reason |-> "none", exit |-> -1, ran |-> FALSE, at |-> ""]

TypeOK ==
    /\ step \in {"idle", "probe", "arm", "confirm", "done", "threw"}
    /\ home \in Addresses /\ strangers \subseteq Addresses \ {home}
    /\ sshd \in {"silent", "down", "resetting", "mute", "denying", "up"}
    /\ call.stage \in {"none", "connect", "session", "dying"}
    /\ call.stage # "none" => step \in {"probe", "arm", "confirm"}
    /\ call.age \in 0 .. ProcessTimeout + Step
    /\ result.reason \in Transient \cup Fatal \cup {"none", "ok"}
    /\ faults \in 0 .. MaxFaults
    /\ remote \in 0 .. MaxFaults + 1

Init ==
    /\ step = "idle" /\ late = FALSE
    /\ home \in Addresses /\ strangers = {} /\ sshd = "silent" /\ target = home
    /\ call = NoCall /\ result = NoResult /\ remote = 0 /\ armed = FALSE /\ faults = 0

Fault == faults < MaxFaults /\ faults' = faults + 1
-----------------------------------------------------------------------------
\* The guest boots: its listener comes up, goes through a restart, and up again.
ListenerChanges ==
    /\ \/ sshd = "silent" /\ sshd' \in {"down", "mute", "up"}
       \/ sshd \in {"down", "mute"} /\ sshd' \in {"resetting", "denying", "up"}
       \/ sshd \in {"resetting", "denying"} /\ sshd' = "up"
       \/ sshd = "up" /\ sshd' = "resetting" /\ Fault
    /\ sshd # "up" => UNCHANGED faults
    /\ UNCHANGED <<controller, late, home, strangers, call, result, remote, armed>>

\* The VM is stopped and started behind the controller's back: another address,
\* and somebody else at the old one.
AddressMoves ==
    /\ Fault
    /\ \E other \in Addresses \ ({home} \cup strangers) :
           home' = other /\ strangers' \in {strangers, strangers \cup {home}}
    /\ sshd' = "silent" /\ remote' = 0
    /\ UNCHANGED <<controller, late, call, result, armed>>

DeadlinePasses ==
    /\ ~late /\ late' = TRUE
    /\ UNCHANGED <<controller, home, strangers, sshd, call, result, remote, armed, faults>>
-----------------------------------------------------------------------------
\* A tick of the watch loop: observeProvider reads the address.
BeginTick ==
    /\ step = "idle" /\ call.stage = "none"
    /\ step' = "probe" /\ target' = home
    /\ UNCHANGED <<world, call, result, remote, armed, faults>>

\* launchd starts the controller that threw again.
Restart ==
    /\ step = "threw"
    /\ step' = "idle"
    /\ UNCHANGED <<world, target, call, result, remote, armed, faults>>

\* runGuest: known_hosts is written for this address and the own key.
Spawn ==
    /\ call.stage = "none" /\ step \in {"probe", "arm", "confirm"}
    /\ call' = [NoCall EXCEPT !.stage = "connect", !.address = target]
    /\ UNCHANGED <<controller, world, result, remote, armed, faults>>

\* Who answers at the address of the call.
Answers == IF call.address = home THEN sshd
           ELSE IF call.address \in strangers THEN "stranger" ELSE "nobody"

\* An exit code of 255 is ssh's own, and its message tells why.
Failed(reason) == [reason |-> reason, exit |-> 255, ran |-> call.ran, at |-> call.address]

Dropped == "unknown"

\* classifySshReadinessFailure: a call that ran out of time is judged by that alone.
Classified(r) == IF call.timedOut THEN [r EXCEPT !.reason = "attempt-timeout"]
                 ELSE IF r.exit \notin {0, 255} THEN [r EXCEPT !.reason = "helper"] ELSE r

\* The result of a step of reconcileEffect for a start that is not armed yet.
\* observeGuest swallows a failed probe: the snapshot is incomplete.
After(r) ==
    CASE step = "probe"   -> IF r.reason = "ok" /\ armed THEN "done" ELSE "arm"
      [] step = "arm"     -> IF r.reason = "ok" THEN "confirm"
                             ELSE IF ~call.timedOut /\ r.exit = 4 /\ ~late THEN "idle"
                             ELSE IF r.reason \in Transient /\ ~late THEN "idle" ELSE "threw"
      [] step = "confirm" -> IF r.reason = "ok" /\ armed THEN "done" ELSE "idle"

\* The process closes.  An arm call reads the instance list anew.
Close(r0) ==
    LET r == Classified(r0) IN
    /\ result' = r /\ call' = NoCall
    /\ step' = After(r)
    /\ target' = IF After(r) = "arm" THEN home ELSE target

Refused ==
    /\ call.stage = "connect"
    /\ \/ Answers = "down" /\ Close(Failed("connection-refused"))
       \/ Answers = "resetting" /\ \E r \in {"pre-banner-reset", "connection-reset"} : Close(Failed(r))
       \/ Answers = "nobody" /\ Close(Failed("no-route"))
       \/ Answers = "denying" /\ Close(Failed("authentication"))
    /\ UNCHANGED <<world, remote, armed, faults>>

\* StrictHostKeyChecking: only the key in known_hosts is accepted.
KeyAccepted == call.address = home

Connected ==
    /\ call.stage = "connect" /\ Answers \in {"up", "stranger"}
    /\ IF KeyAccepted
       THEN /\ call' = [call EXCEPT !.stage = "session", !.ran = TRUE]
            /\ remote' = IF step = "arm" /\ call.address = home THEN remote + 1 ELSE remote
            /\ UNCHANGED <<controller, result>>
       ELSE Close(Failed("host-key")) /\ UNCHANGED remote
    /\ UNCHANGED <<world, armed, faults>>

\* ConnectTimeout covers the connection and the banner; the messages differ.
ConnectTimesOut ==
    /\ call.stage = "connect" /\ call.age >= ConnectTimeout
    /\ Answers \in {"silent", "mute", "nobody"}
    /\ Close(Failed(IF Answers = "mute" THEN "unknown" ELSE "connection-timeout"))
    /\ UNCHANGED <<world, remote, armed, faults>>

\* The helper ends; ssh passes its exit code on.  0 and 3 leave the grant as armed.
HelperReplies ==
    /\ call.stage = "session" /\ call.address = home
    /\ \E code \in (IF step = "arm" THEN IF remote = 0 THEN {3} ELSE {0, 4} ELSE {0}) :
         /\ code = 4 => faults < MaxFaults
         /\ faults' = IF code = 4 THEN faults + 1 ELSE faults
         /\ armed' = (armed \/ (step = "arm" /\ code = 0))
         /\ remote' = IF step = "arm" /\ remote > 0 THEN remote - 1 ELSE remote
         /\ Close([reason |-> IF code = 0 THEN "ok" ELSE "helper", exit |-> code,
                   ran |-> TRUE, at |-> call.address])
    /\ UNCHANGED world

\* A session that breaks leaves its helper running.
Drop ==
    /\ call.stage = "session" /\ Fault
    /\ Close(Failed(Dropped))
    /\ UNCHANGED <<world, remote, armed>>

\* An arm-grant nobody waits for any more still writes the grant.
OrphanEnds ==
    /\ remote > (IF call.stage = "session" /\ step = "arm" THEN 1 ELSE 0)
    /\ remote' = remote - 1 /\ armed' = TRUE
    /\ UNCHANGED <<controller, world, call, result, faults>>
-----------------------------------------------------------------------------
\* Time passes for a call; the session outlasts it only by a fault.
Tick ==
    /\ call.stage # "none"
    /\ call.stage = "connect" => call.age < ConnectTimeout
    /\ call.age < ProcessTimeout + (IF call.stage = "dying" THEN Step ELSE 0)
    /\ IF call.stage = "session" /\ call.address = home /\ call.age + Step >= ProcessTimeout THEN Fault ELSE UNCHANGED faults
    /\ call' = [call EXCEPT !.age = @ + Step]
    /\ UNCHANGED <<controller, world, result, remote, armed>>

\* runProcess: SIGTERM at the limit, and ssh ends, or does not.
TimerFires ==
    /\ call.stage \in {"connect", "session"} /\ call.age >= ProcessTimeout
    /\ call' = [call EXCEPT !.stage = "dying", !.timedOut = TRUE]
    /\ UNCHANGED <<controller, world, result, remote, armed, faults>>

Obeys ==
    /\ call.stage = "dying"
    /\ Close(Failed("unknown"))
    /\ UNCHANGED <<world, remote, armed, faults>>

\* SIGKILL cannot be ignored.
Killed == call.stage = "dying" /\ call.age > ProcessTimeout /\ Obeys

Next ==
    \/ ListenerChanges \/ AddressMoves \/ DeadlinePasses
    \/ BeginTick \/ Restart \/ Spawn
    \/ Refused \/ Connected \/ ConnectTimesOut \/ HelperReplies \/ Drop \/ OrphanEnds
    \/ Tick \/ TimerFires \/ Obeys \/ Killed

Spec == Init /\ [][Next]_vars
-----------------------------------------------------------------------------
(* A call that is retried at the next poll as not ready yet never reached its
   helper: the retry is the first execution.
   (reconcileEffect, classifySshReadinessFailure)                           *)
TransientNeverRan == result.reason \in Transient => ~result.ran

(* A helper only ever runs in the controller's own VM, also when the address
   it read has passed to another one in between.  (runGuest, known_hosts)   *)
RanAtHome == [][call'.ran /\ ~call.ran => call'.address = home]_vars

(* A guest that does not answer is never charged as a helper that hung: the
   call that ran out of time had a session.  (sshAttemptTiming)             *)
TimeoutMeansSession == result.reason = "attempt-timeout" => result.ran

\* Every call comes to a result, also when ssh does not obey SIGTERM.
\* (runProcess)
CallRuns == call.stage # "none"

(* A guest that becomes reachable is armed and seen to be, whatever the calls
   before came to: fatal results only cost a restart of the controller.     *)
ReachableUnarmed == sshd = "up" /\ step # "done"

--------------------------------------------------------------------------------
(* The invariant the theorems about Spec rest on: the helper runs from the   *)
(* moment the session is there, and the timer of the process never fires     *)
(* before ssh itself would have given up its connection.                     *)
CallTyped ==
    /\ DOMAIN call = {"stage", "address", "age", "timedOut", "ran"}
    /\ call.stage \in {"none", "connect", "session", "dying"} /\ call.age \in Nat

CallInv ==
    /\ CallTyped
    /\ call.stage = "connect" => ~call.ran /\ ~call.timedOut /\ call.age < ProcessTimeout
    /\ call.stage = "session" => call.ran
    /\ call.timedOut => call.ran
    /\ TransientNeverRan /\ TimeoutMeansSession
================================================================================
