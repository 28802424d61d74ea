---------------------------- MODULE RoutingParity ----------------------------
(***************************************************************************)
(* The routing decisions against the lifecycle's start budget. Every input *)
(* of a small grid is a state: Choose picks the evidence of one health row *)
(* and the invariants compare what the fleet, the release check and the    *)
(* lifecycle conclude from it.                                             *)
(***************************************************************************)
EXTENDS Routing

CONSTANTS MaxNow, MaxExpiry, MaxRuntimes, MaxCosts, OpSets

\* The evidence in hand; ready is FALSE before the first choice.
VARIABLES evidence, ready

vars == <<evidence, ready>>

GridPermits ==
    {NoPermit} \cup [id : {1}, own : BOOLEAN, ops : OpSets, issued : {1}, expires : 2..MaxExpiry,
                     maxStarts : {1, 2}, maxRuntime : MaxRuntimes, maxCost : MaxCosts,
                     recovery : {FALSE}]

\* The journal of a stopped controller, as far as the budget reads it.
GridJournal(starts, runtime) ==
    [state |-> "stopped", startCount |-> starts, runtime |-> runtime, intent |-> NoIntent,
     idle |-> NoIdle, grantDeadline |-> None, grantStarted |-> None, wait |-> NoWait]

\* The part of a lifecycle input that the budget reads.
GridInput(now, permit, starts, runtime) ==
    [now |-> now, permit |-> permit, journal |-> GridJournal(starts, runtime)]

\* The digest may disagree (own) only when nothing else decides.
GridEvidence(input, unreadable, config, same, flags) ==
    [gated |-> flags # "ungated", unread |-> flags = "unread", private |-> flags # "public",
     switch |-> IF flags \in {"off", "strandedOff"} THEN "absent" ELSE "on",
     stranded |-> flags = "strandedOff",
     unreadable |-> unreadable, config |-> config, sameButDigest |-> same, input |-> input]

Flags == {"on", "off", "strandedOff", "public", "unread", "ungated"}

Init == ready = FALSE /\ evidence = GridEvidence(GridInput(0, NoPermit, 0, 0), "none", TRUE, TRUE, "on")

ChooseFile == \E u \in {"state", "permit"}, f \in Flags, now \in 0..MaxNow :
    evidence' = GridEvidence(GridInput(now, NoPermit, 0, 0), u, FALSE, TRUE, f)

ChooseBudget == \E now \in 0..MaxNow, p \in GridPermits, starts \in 0..2, runtime \in 0..2, f \in Flags :
    \E same \in BOOLEAN, config \in BOOLEAN :
       /\ p.own => same
       /\ evidence' = GridEvidence(GridInput(now, p, starts, runtime), "none", config, same, f)

Choose == ~ready /\ ready' = TRUE /\ (ChooseFile \/ ChooseBudget)

Next == Choose

Spec == Init /\ [][Next]_vars
-----------------------------------------------------------------------------
\* What the controller itself concludes of the evidence.
ControllerAssessment ==
    AssessService(evidence.input, evidence.private, evidence.input.permit.own, ProjectedStartCost)

\* The lifecycle would start a runner now: the permit is current, of this
\* controller, names the three serving operations and covers one more start.
StartsAllowed ==
    LET i == evidence.input IN
    /\ StartBudget(i)
    /\ i.journal.startCount < i.permit.maxStarts
    /\ ServingOperations \subseteq i.permit.ops

\* "Uses the same limits as the lifecycle start budget, so routing is released
\* no later than starts stop" (routing.ts assessService): on every input the
\* two agree, at each boundary of time, runtime, cost and number of starts.
ServiceIsStartBudget ==
    evidence.private => ((ControllerAssessment = "none") <=> StartsAllowed)

\* A row of fleet health is green only when no job can be stranded: with the
\* switch on, the controller could start a runner for the next job for longer
\* than the warning period and may turn the switch off itself; with it off, no
\* job waits on the label. Holds where the fleet can know (config.json read,
\* bundle digest as permitted).
GreenRowIsSafe ==
    LET row == HealthRow(evidence)
        i == evidence.input IN
    /\ (row.colour = "green" /\ evidence.switch = "on" /\ evidence.config /\ (evidence.sameButDigest => i.permit.own))
          => /\ StartsAllowed
             /\ StartBudget([i EXCEPT !.now = @ + Warning])
             /\ ReleasePermit(i.permit, i.now + Warning)
    /\ (row.colour = "green" /\ evidence.switch # "on") => ~evidence.stranded
=============================================================================
