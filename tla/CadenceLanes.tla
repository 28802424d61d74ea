---------------------------- MODULE CadenceLanes ----------------------------
(***************************************************************************)
(* The lanes of the CI cadence contract.  An event of the repository is    *)
(* given a lane by the definition and the mode in force when it arrives;   *)
(* its run waits in the concurrency group of the lane, where GitHub keeps  *)
(* one run going and one waiting; and what it executed is accepted or      *)
(* not.  The operator meanwhile installs the helper, changes the mode and  *)
(* marks a release candidate.                                              *)
(***************************************************************************)
EXTENDS Integers, Sequences, FiniteSets

CONSTANTS
    Default,        \* the default branch: the integration or the production branch
    Shas,           \* commits that events are about
    Events,         \* the native events that may arrive
    MaxRuns

DefaultIsKnown == Default \in {"integration", "production"}

(* Two items stand for the four of the fast lane, and two jobs for the full inventory. *)
FastWork == {"secret-scan", "policy-validation"}
FullJobs == {"unit", "build"}

VARIABLES
    mode, helper,   \* of the repository: the cadence mode, and whether the protected helper is installed
    candidate,      \* the commit marked as the release candidate, or "none"
    runs            \* in the order their events arrived

vars == <<mode, helper, candidate, runs>>

Ids == DOMAIN runs

Init == mode = "missing" /\ helper = FALSE /\ candidate = "none" /\ runs = <<>>

(* The refusals that come before any lane; a definition is pinned to a protected branch. *)
Refused(e) ==
    \/ e.definition \notin {"integration", "production"}
    \/ e.kind = "pull_request" /\ e.definition \notin {Default, e.target}
    \/ e.kind \notin {"push", "pull_request", "schedule", "workflow_dispatch"}

TrustedOwner(e) == e.owner /\ (e.kind = "pull_request" => e.sameRepository)

classifyEvent(e) ==
    CASE Refused(e) -> "blocked"
      [] e.kind \in {"push", "pull_request"} /\ ~TrustedOwner(e) -> "untrusted"
      [] e.kind \in {"push", "pull_request"} /\ e.target = "production" -> "release"
      [] e.kind = "schedule" ->
           IF e.definition # Default \/ e.target # "integration" \/ mode # "lean" \/ ~helper THEN "blocked" ELSE "nightly"
      [] e.kind = "workflow_dispatch" -> IF e.authorized /\ TrustedOwner(e) THEN "full" ELSE "blocked"
      [] e.target # "integration" -> "full"
      [] e.kind = "push" /\ candidate = e.sha -> "release"
      [] ~helper \/ mode # "lean" -> "full"
      [] OTHER -> "fast"

Production(e, lane) == lane = "release" /\ e.target = "production"
AllowPrivileged(e, lane) == Production(e, lane)
AllowDeploy(e, lane) == Production(e, lane) /\ e.kind = "push"

cancellationPolicy(e, lane) ==
    [group |-> <<lane, e.target, IF lane = "release" THEN e.sha ELSE "any">>, cancelInProgress |-> lane = "fast"]

InGroup(group) == {r \in Ids : runs[r].group = group}

(* An event arrives; of its group the run that waited gives way, and the one that runs if the lane says so. *)
Arrive(e) ==
    /\ Len(runs) < MaxRuns
    /\ LET lane == classifyEvent(e)
           policy == cancellationPolicy(e, lane)
           displaced == {r \in InGroup(policy.group) :
                            runs[r].state = "waiting" \/ (policy.cancelInProgress /\ runs[r].state = "running")}
           kept == [r \in Ids |-> IF r \in displaced THEN [runs[r] EXCEPT !.state = "cancelled"] ELSE runs[r]]
       IN runs' = Append(kept, [event |-> e, lane |-> lane, group |-> policy.group, state |-> "waiting", jobs |-> {},
                                privileged |-> FALSE, deploy |-> FALSE, lean |-> mode = "lean" /\ helper])
    /\ UNCHANGED <<mode, helper, candidate>>

Start(r) ==
    /\ runs[r].state = "waiting" /\ \A s \in InGroup(runs[r].group) : runs[s].state # "running"
    /\ runs' = [runs EXCEPT ![r].state = "running"]
    /\ UNCHANGED <<mode, helper, candidate>>

(* The full inventory: every job of every workflow and every context succeeded. *)
inventoryErrors(jobs) == FullJobs \ jobs

validateExecutionGraph(run, jobs, privileged, deploy) ==
    /\ privileged => AllowPrivileged(run.event, run.lane)
    /\ deploy => AllowDeploy(run.event, run.lane)
    /\ run.lane \notin {"blocked", "untrusted"}
    /\ IF run.lane = "fast" THEN jobs = FastWork ELSE inventoryErrors(jobs) = {}

(* The jobs of a run end; the ones that succeeded and what they were allowed to touch are its graph. *)
Finish(r, jobs, privileged, deploy) ==
    /\ runs[r].state = "running"
    /\ runs' = [runs EXCEPT ![r] = IF validateExecutionGraph(@, jobs, privileged, deploy)
                                  THEN [@ EXCEPT !.state = "accepted", !.jobs = jobs, !.privileged = privileged, !.deploy = deploy]
                                  ELSE [@ EXCEPT !.state = "rejected"]]
    /\ UNCHANGED <<mode, helper, candidate>>

Operate ==
    /\ \/ mode' \in {"lean", "legacy"} \ {mode} /\ UNCHANGED <<helper, candidate>>
       \/ helper' = ~helper /\ UNCHANGED <<mode, candidate>>
       \/ candidate' \in Shas \ {candidate} /\ UNCHANGED <<mode, helper>>
    /\ UNCHANGED runs

Graphs == {{"unit"}, FastWork, {"unit"} \cup FastWork, FullJobs}

Next ==
    \/ Operate
    \/ \E e \in Events : Arrive(e)
    \/ \E r \in Ids : Start(r)
    \/ \E r \in Ids, jobs \in Graphs, privileged, deploy \in BOOLEAN : Finish(r, jobs, privileged, deploy)

Spec == Init /\ [][Next]_vars
-----------------------------------------------------------------------------
(* One run of a group goes at a time, and one waits. *)
TypeOK ==
    /\ mode \in {"missing", "lean", "legacy"} /\ helper \in BOOLEAN /\ candidate \in Shas \cup {"none"}
    /\ \A r, s \in Ids : r # s /\ runs[r].group = runs[s].group =>
          /\ runs[r].state = "running" => runs[s].state # "running"
          /\ runs[r].state = "waiting" => runs[s].state # "waiting"

(* A run that was cancelled left a later one that stands for it: of its lane and branch, and when it was a release  *)
(* run, of the very commit.  No fast or nightly run displaces release evidence, and no newer candidate does.        *)
CancelledIsSuperseded ==
    \A r \in Ids : runs[r].state = "cancelled" =>
        \E s \in Ids :
            /\ r < s /\ runs[s].state # "cancelled"
            /\ runs[s].lane = runs[r].lane /\ runs[s].event.target = runs[r].event.target
            /\ runs[r].lane = "release" => runs[s].event.sha = runs[r].event.sha

(* What is accepted without the full suite is a change an owner made to the integration branch, as himself and in   *)
(* this repository, while the lean mode was validated; and the release candidate is not accepted that way.          *)
ReducedOnlyForOwners ==
    \A r \in Ids : runs[r].state = "accepted" /\ ~(FullJobs \subseteq runs[r].jobs) =>
        /\ runs[r].event.target = "integration" /\ runs[r].lean
        /\ runs[r].event.kind = "push" => runs[r].event.owner
        /\ runs[r].event.kind = "pull_request" => runs[r].event.owner /\ runs[r].event.sameRepository
        /\ runs[r].event.kind \in {"push", "pull_request"} /\ FastWork \subseteq runs[r].jobs

(* An accepted run that deployed was a push of an owner to production that passed the whole suite. *)
DeployedWasProved ==
    \A r \in Ids : runs[r].state = "accepted" /\ (runs[r].deploy \/ runs[r].privileged) =>
        /\ runs[r].event.target = "production" /\ runs[r].event.owner
        /\ runs[r].deploy => runs[r].event.kind = "push"
        /\ FullJobs \subseteq runs[r].jobs
=============================================================================
