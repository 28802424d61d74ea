------------------------------- MODULE Routing -------------------------------
(***************************************************************************)
(* The decisions behind the routing switch: packages/runner/src/routing.ts,*)
(* validateReleasePermit of lifecycle.ts and the health row of             *)
(* packages/cli/src/fleet-health.ts. Pure, as in the code; RoutingRelease  *)
(* puts them to work and RoutingParity compares them with the lifecycle.   *)
(*                                                                         *)
(* A service input is a lifecycle input (Lifecycle!Inputs) together with   *)
(* what only the fleet and the release check look at.                      *)
(***************************************************************************)
EXTENDS Lifecycle, FiniteSets

ServingOperations == {"create", "start", "register"}

\* The last moment a start still fits one complete job and its margin.
ServiceEnd(permit) == permit.expires - MaxJob - ShutdownMargin

\* The first refusal in the order of the code; "none" is serviceable.
\* NoPermit (id 0) is the absent permit. same says whether the identity fields
\* the caller knows agree with the permit; projected is the cost of a start.
AssessService(i, private, same, projected) ==
    LET p == i.permit IN
    CASE ~private -> "repository-not-private"
      [] p.id = 0 -> "permit-absent"
      [] ~same -> "permit-identity-mismatch"
      [] ~(ServingOperations \subseteq p.ops) -> "permit-operations-missing"
      [] p.issued > i.now -> "permit-not-active"
      [] p.expires <= i.now -> "permit-expired"
      [] i.journal.startCount >= p.maxStarts -> "starts-exhausted"
      [] p.maxRuntime - i.journal.runtime < MaxJob + ShutdownMargin -> "runtime-exhausted"
      [] i.journal.runtime * ComputeRate + projected > p.maxCost -> "cost-exhausted"
      [] i.now > ServiceEnd(p) -> "past-service-end"
      [] OTHER -> "none"

\* Authority to turn the switch off survives expiry under recovery.
ReleasePermit(p, now) ==
    (ValidPermit(p, now) \/ RecoveryPermit(p, now)) /\ "release-routing" \in p.ops

-----------------------------------------------------------------------------
(***************************************************************************)
(* Stranded runs. A listing maps each listed run to its unfinished jobs of *)
(* the listed attempt, each [status, label].                               *)
(***************************************************************************)

StrandedIn(unfinished) ==
    {j \in DOMAIN unfinished : unfinished[j].status # "in_progress" /\ unfinished[j].label = "runner"}

SelectStranded(listing) ==
    LET stranded == [r \in DOMAIN listing |-> StrandedIn(listing[r])]
        hit == {r \in DOMAIN listing : stranded[r] # {}}
        all == {r \in hit : stranded[r] = DOMAIN listing[r]}
    IN  [cancellable |-> all, waiting |-> hit \ all, jobs |-> [r \in hit |-> stranded[r]]]

\* Mutant: a refusal is checked once and never again.
ReleaseCheckDueOnce(last, age, reason, interval) == last # reason

\* last is the reason of the last check ("none" before the first), age the
\* time since, up to the interval of 10 minutes.
ReleaseCheckDue(last, age, reason, interval) == last # reason \/ age >= interval

OwnedRunnerMayTakeJobs(vm, outstanding, effect) ==
    vm \notin {"absent", "stopped"} \/ outstanding \/ effect # "none"

-----------------------------------------------------------------------------
(***************************************************************************)
(* fleet health. An evidence record is what the row is computed from: the  *)
(* enrollment's gate, the switch, the controller files and the jobs GitHub *)
(* lists; unread stands for a GitHub read that failed.                     *)
(***************************************************************************)
CONSTANT Warning            \* WARNING_MS, seven days

\* readController: an unreadable permit file is reported as such, any other
\* unreadable file leaves no evidence; without config.json there is no
\* identity to compare and no projected cost, and the digest of the
\* installed bundle (p.own in full) is the controller's to check.
ControllerEvidence(e) ==
    [permit |-> IF e.unreadable = "none" THEN e.input.permit ELSE NoPermit,
     same |-> e.config => e.sameButDigest,
     projected |-> IF e.config THEN ProjectedStartCost ELSE 0]

HealthRow(e) ==
    LET evidence == ControllerEvidence(e)
        i == [e.input EXCEPT !.permit = evidence.permit]
        assessment == AssessService(i, e.private, evidence.same, evidence.projected)
        row(status, colour) == [status |-> status, colour |-> colour, recovery |-> colour # "green"]
    IN  CASE ~e.gated -> row("ungated", "red")
          [] e.unread -> row("unknown", "red")
          [] e.switch # "on" /\ ~e.stranded -> row("released", "green")
          [] e.switch # "on" -> row("stranded", "red")
          [] e.unreadable # "none" -> row("unserviceable", "red")
          [] assessment # "none" -> row("unserviceable", "red")
          [] ServiceEnd(i.permit) - i.now <= Warning -> row("expiring", "amber")
          [] "release-routing" \notin i.permit.ops -> row("no-auto-release", "amber")
          [] OTHER -> row("serving", "green")

=============================================================================
