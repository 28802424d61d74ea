------------------------------ MODULE MCDelivery ------------------------------
(*****************************************************************************)
(* What is delivered around the runner, checked component by component: the  *)
(* collection agent of the telemetry, the guard of validated pushes and the  *)
(* cadence of measurements.  A behaviour is about one of them, and the       *)
(* others rest.                                                              *)
(*****************************************************************************)
EXTENDS TelemetryAgent, Integers

CONSTANT Parts   \* Parts: the components this instance runs

VARIABLES part,   \* the component this behaviour is about
    commits, base, head, otherOpen, pushRuns, pushPush, pushStep, seenOther, seenRun,
    outcome, readFailed,
    needs, guardKind, opaque, guardEvent, guard, gate, verdict, classifier, said,
    guardCancelled, guardResult,
    cohortPush, pr, cohortEntry, cohortPhase, pulled, cohortRuns, errors, files,
    cohortFaults,
    nightClock, nightHead, nightRuns, retry, night, nightVerdict,
    mode, helper, candidate, laneRuns,
    usageClock, usageRun, rates, usageStep, listed, expected, complete, todo, jobs,
    usageReport

Event(kind, target, sha, owner, same, definition) ==
    [kind |-> kind, target |-> target, sha |-> sha, owner |-> owner, sameRepository |-> same,
     authorized |-> same, definition |-> definition]

\* The events that reach every lane, about one commit, and a release of another ...
AnyEvent ==
    {Event("push", "integration", "s1", o, TRUE, "integration") : o \in BOOLEAN}
    \cup {Event("push", target, "s1", TRUE, TRUE, "integration") : target \in {"production", "feature"}}
    \cup {Event("push", "production", "s2", TRUE, TRUE, "integration")}
    \cup {Event("pull_request", "integration", "s1", TRUE, same, "integration") : same \in BOOLEAN}
    \cup {Event("pull_request", "production", "s1", TRUE, TRUE, pinned) : pinned \in {"production", "feature"}}
    \cup {Event(kind, "integration", "s1", TRUE, TRUE, "integration") : kind \in {"schedule", "workflow_dispatch"}}

\* ... and those of an owner that wait for one another: release and development.
OwnEvents ==
    {Event("push", target, "s1", TRUE, TRUE, "integration") : target \in {"production", "integration"}}

\* A branch of two changes and its classifier ...
Pushes == INSTANCE PushClassifier WITH Changes <- {"x", "y"}, Environment <- {},
    MaxCommits <- 5, MaxRuns <- 1, MaxAttempts <- 1, runs <- pushRuns, push <- pushPush,
    step <- pushStep
ASSUME Pushes!ClassifierAssumption

\* ... also with rewritten history and re-runs.
Reads == INSTANCE PushClassifier WITH Changes <- {"x", "y"}, Environment <- {"rewrite"},
    MaxCommits <- 3, MaxRuns <- 2, MaxAttempts <- 2, runs <- pushRuns, push <- pushPush,
    step <- pushStep
ASSUME Reads!ClassifierAssumption

\* Every workflow of two jobs, and every candidate for its guards.
Guard == INSTANCE PushGuard WITH Jobs <- {1, 2}, kind <- guardKind, event <- guardEvent,
                                 cancelled <- guardCancelled, result <- guardResult
ASSUME Guard!JobsAreNumbered

\* A cohort in which one push is out of the ordinary ...
Savings == INSTANCE PushMeasurement WITH OddEntries <- {1, 2, 5, 7},
    Conclusions <- {"success", "skipped", "failure"}, Durations <- {60, 90, 121},
    Verdicts <- {"absent", "valid", "direct", "other", "red", "twice"}, MaxReruns <- 0,
    MaxFaults <- 0, push <- cohortPush, entry <- cohortEntry, phase <- cohortPhase,
    runs <- cohortRuns, faults <- cohortFaults

\* ... and one that is re-run while it is read.
Reruns == INSTANCE PushMeasurement WITH OddEntries <- {5},
    Conclusions <- {"success", "skipped"}, Durations <- {60},
    Verdicts <- {"valid", "other"}, MaxReruns <- 2, MaxFaults <- 1, push <- cohortPush,
    entry <- cohortEntry, phase <- cohortPhase, runs <- cohortRuns, faults <- cohortFaults

\* Nights over two heads ...
Nightly == INSTANCE CadenceNightly WITH Workflows <- {"w1"}, Refresh <- 2, Holes <- FALSE,
    MaxTime <- 2, MaxHeads <- 2, MaxNights <- 1, MaxOthers <- 1, MaxRetries <- 1,
    clock <- nightClock, head <- nightHead, runs <- nightRuns, verdict <- nightVerdict
ASSUME Nightly!PolicyIsValid

\* ... three nights of one head ...
Nights == INSTANCE CadenceNightly WITH Workflows <- {"w1", "w2"}, Refresh <- 2,
    Holes <- FALSE, MaxTime <- 2, MaxHeads <- 1, MaxNights <- 3, MaxOthers <- 0,
    MaxRetries <- 1, clock <- nightClock, head <- nightHead, runs <- nightRuns,
    verdict <- nightVerdict
ASSUME Nights!PolicyIsValid

\* ... and suites in which a job was skipped.
Judged == INSTANCE CadenceNightly WITH Workflows <- {"w1"}, Refresh <- 2, Holes <- TRUE,
    MaxTime <- 1, MaxHeads <- 2, MaxNights <- 1, MaxOthers <- 1, MaxRetries <- 0,
    clock <- nightClock, head <- nightHead, runs <- nightRuns, verdict <- nightVerdict
ASSUME Judged!PolicyIsValid

\* Two events of every kind ...
Arrivals == INSTANCE CadenceLanes WITH Default <- "integration", Shas <- {"s1"},
    Events <- AnyEvent, MaxRuns <- 2, runs <- laneRuns
ASSUME Arrivals!DefaultIsKnown

\* ... and three that wait for one another.
Queued == INSTANCE CadenceLanes WITH Default <- "integration", Shas <- {"s1"},
    Events <- OwnEvents, MaxRuns <- 3, runs <- laneRuns
ASSUME Queued!DefaultIsKnown

\* A short window, read page by page while runs go on ...
Window == INSTANCE CadenceMeasure WITH WindowStart <- 2, Early <- FALSE, Cap <- 2,
    Limit <- 1, MaxRuns <- 2, Lanes <- {"nightly"}, Kinds <- {"hosted"},
    Supplied <- {FALSE}, WindowEnd <- 3, PageSize <- 1, MaxAttempts <- 2, MaxTime <- 3,
    clock <- usageClock, run <- usageRun, step <- usageStep, report <- usageReport
ASSUME Window!WindowIsOrdered

\* ... and one with runs nobody can place.
Target == INSTANCE CadenceMeasure WITH WindowStart <- 2, Early <- FALSE, Cap <- 2,
    Limit <- 1, MaxRuns <- 2, Lanes <- {"nightly", "unknown"},
    Kinds <- {"hosted", "unheard"}, Supplied <- BOOLEAN, WindowEnd <- 3, PageSize <- 2,
    MaxAttempts <- 1, MaxTime <- 3, clock <- usageClock, run <- usageRun, step <- usageStep,
    report <- usageReport
ASSUME Target!WindowIsOrdered

pushVars == <<commits, base, head, otherOpen, pushRuns, pushPush, pushStep, seenOther,
              seenRun, outcome, readFailed>>
guardVars == <<needs, guardKind, opaque, guardEvent, guard, gate, verdict, classifier, said,
               guardCancelled, guardResult>>
cohortVars == <<cohortPush, pr, cohortEntry, cohortPhase, pulled, cohortRuns, errors, files,
                cohortFaults>>
nightVars == <<nightClock, nightHead, nightRuns, retry, night, nightVerdict>>
laneVars == <<mode, helper, candidate, laneRuns>>
usageVars == <<usageClock, usageRun, rates, usageStep, listed, expected, complete, todo,
               jobs, usageReport>>
allVars == <<part, vars, pushVars, guardVars, cohortVars, nightVars, laneVars, usageVars>>

\* One component runs; the others rest in an initial state of theirs.
MCInit ==
    /\ part \in Parts
    /\ part = "guard" \/ (needs = [j \in {1, 2} |-> {}] /\ guardKind = [j \in {1, 2} |-> "none"] /\ opaque = [j \in {1, 2} |-> TRUE]
          /\ guardEvent = "push" /\ guard = {} /\ gate = {})
    /\ part \notin {"window", "target"} => rates = FALSE
    /\ part = "agent" \/ (fleet = FALSE /\ plist = FALSE)
    /\ Init
    /\ IF part = "reads" THEN Reads!Init ELSE Pushes!Init
    /\ Guard!Init
    /\ IF part = "savings" THEN Savings!Init ELSE IF part = "reruns" THEN Reruns!Init ELSE
       /\ cohortPush = [i \in Savings!Entries |-> Savings!Ordinary(Savings!Roles[i])]
       /\ pr = [i \in Savings!Entries |-> <<"success">>] /\ cohortRuns = <<>>
       /\ cohortEntry = 1 /\ cohortPhase = "run" /\ pulled = 0 /\ errors = {} /\ files = {} /\ cohortFaults = 0
    /\ IF part = "retries" THEN Nights!Init ELSE IF part = "judged" THEN Judged!Init ELSE Nightly!Init
    /\ IF part = "supersede" THEN Queued!Init ELSE Arrivals!Init
    /\ IF part = "target" THEN Target!Init ELSE Window!Init

\* A step of one component, which leaves the others as they are.
CollectingAlone == part = "agent" /\ UNCHANGED <<part, pushVars, guardVars, cohortVars,
                                                 nightVars, laneVars, usageVars>>
PushesAlone == part = "classifier" /\ UNCHANGED <<part, vars, guardVars, cohortVars,
                                                  nightVars, laneVars, usageVars>>
ReadsAlone == part = "reads" /\ UNCHANGED <<part, vars, guardVars, cohortVars, nightVars,
                                            laneVars, usageVars>>
GuardAlone == part = "guard" /\ UNCHANGED <<part, vars, pushVars, cohortVars, nightVars,
                                            laneVars, usageVars>>
SavingsAlone == part = "savings" /\ UNCHANGED <<part, vars, pushVars, guardVars, nightVars,
                                                laneVars, usageVars>>
RerunsAlone == part = "reruns" /\ UNCHANGED <<part, vars, pushVars, guardVars, nightVars,
                                              laneVars, usageVars>>
NightlyAlone == part = "nightly" /\ UNCHANGED <<part, vars, pushVars, guardVars, cohortVars,
                                                laneVars, usageVars>>
NightsAlone == part = "retries" /\ UNCHANGED <<part, vars, pushVars, guardVars, cohortVars,
                                               laneVars, usageVars>>
JudgedAlone == part = "judged" /\ UNCHANGED <<part, vars, pushVars, guardVars, cohortVars,
                                              laneVars, usageVars>>
ArrivalsAlone == part = "lanes" /\ UNCHANGED <<part, vars, pushVars, guardVars, cohortVars,
                                               nightVars, usageVars>>
QueuedAlone == part = "supersede" /\ UNCHANGED <<part, vars, pushVars, guardVars,
                                                 cohortVars, nightVars, usageVars>>
WindowAlone == part = "window" /\ UNCHANGED <<part, vars, pushVars, guardVars, cohortVars,
                                              nightVars, laneVars>>
TargetAlone == part = "target" /\ UNCHANGED <<part, vars, pushVars, guardVars, cohortVars,
                                              nightVars, laneVars>>

MCNext ==
    \/ CollectingAlone /\ Next
    \/ PushesAlone /\ Pushes!Next
    \/ ReadsAlone /\ Reads!Next
    \/ GuardAlone /\ Guard!Next
    \/ SavingsAlone /\ Savings!Next
    \/ RerunsAlone /\ Reruns!Next
    \/ NightlyAlone /\ Nightly!Next
    \/ NightsAlone /\ Nights!Next
    \/ JudgedAlone /\ Judged!Next
    \/ ArrivalsAlone /\ Arrivals!Next
    \/ QueuedAlone /\ Queued!Next
    \/ WindowAlone /\ Window!Next
    \/ TargetAlone /\ Target!Next

MCSpec == MCInit /\ [][MCNext]_allVars

\* What is sure to go on.  A started collector runs to its end, launchd launches
\* daily and at a login that comes, and an installer that was started goes on.
AgentFairness ==
    /\ \A c \in Collectors : WF_allVars(CollectingAlone /\ Step(c))
    /\ WF_allVars(CollectingAlone /\ Launch) /\ WF_allVars(CollectingAlone /\ Login)
    /\ WF_allVars(CollectingAlone /\ TearDown)
    /\ WF_allVars(CollectingAlone /\ Installer /\ inst # "idle")

\* The steps of the classifier run.  The schedule fires every night, its steps
\* run to their end, and so does every suite.
ScheduleFairness ==
    /\ WF_allVars(ReadsAlone /\ Reads!Classify)
    /\ WF_allVars(JudgedAlone /\ Judged!Pin) /\ WF_allVars(JudgedAlone /\ Judged!Decide)
    /\ WF_allVars(JudgedAlone /\ \E receipts \in SUBSET {r \in Judged!Ids : Judged!Finished(r)}, all \in BOOLEAN :
                                    Judged!Lookup(receipts, all))
    /\ WF_allVars(JudgedAlone /\ \E r \in Judged!Ids, w \in {"w1"}, result \in Judged!Conclusions :
                                    Judged!Conclude(r, w, result))

MCFairSpec == MCSpec /\ AgentFairness /\ ScheduleFairness

-----------------------------------------------------------------------------
\* Every read, run, report and file of every component is in one of its
\* states.
MCTypeOK ==
    /\ TypeOK
    /\ part = "classifier" => Pushes!TypeOK
    /\ part = "guard" => Guard!TypeOK
    /\ part = "savings" => Savings!TypeOK
    /\ part = "nightly" => Nightly!TypeOK
    /\ part = "lanes" => Arrivals!TypeOK
    /\ part = "window" => Window!TypeOK

\* A push that is called validated was tested: its tree had a green run
\* (push-classifier.ts). A classifier that could not read everything asks for
\* the full suite, the merge of a tested pull request that is up to date is
\* recognised, and the classifier costs a pull request or a dispatched run
\* nothing (push-guard.ts).
SkippedWasTested ==
    /\ part = "classifier" => Pushes!ValidatedWasTested /\ Pushes!FailsToFullSuite
    /\ part = "reads" => Reads!UsualMergeIsValidated
    /\ part = "guard" => Guard!OnlyPushesPay

\* A guarded job runs exactly when the job it replaces would have run, except
\* on a push that was vouched for (push-guard-verifier.ts), and the guard that
\* is generated passes its own verification (guard-expression.ts).
GuardKeepsWorkflow == Guard!GuardImplementsWorkflow /\ Guard!GeneratedIsPublished

\* What the scripts decide rests on what GitHub ran. A measured improvement
\* saves whole billed minutes, of one attempt's jobs, is accepted by the decoder
\* and readable only when complete (push measurement). The nightly skips a head
\* only on a fresh and complete receipt of it and uses an authorised retry for
\* one attempt (chooseNightly). Only an owner on a protected definition gets
\* less than the full suite, what is deployed had passed it, and a run is only
\* cancelled for a newer one of its branch and lane (classifyEvent,
\* validateExecutionGraph, cancellationPolicy). A complete collection missed no
\* job of its window and a target said to be met was met (measure-ci-cadence.mjs).
DecidedOnEvidence ==
    /\ MCTypeOK
    /\ part = "savings" => Savings!ImprovementIsReal /\ Savings!GateAndDecoderAgree
    /\ part = "reruns" => Reruns!OnlyCompleteIsReadable /\ Reruns!JobsOfOneAttempt
    /\ part = "nightly" => Nightly!SkipIsEarned
    /\ part = "retries" => Nights!OneAttemptPerRetry
    /\ part = "lanes" => /\ Arrivals!ReducedOnlyForOwners /\ Arrivals!DeployedWasProved
                         /\ Arrivals!CancelledIsSuperseded
    /\ part = "supersede" => Queued!CancelledIsSuperseded
    /\ part = "window" => Window!CompleteMissesNothing
    /\ part = "target" => Target!TargetIsReal

\* A red routing switch is told to the owner although collections fail, a
\* killed collection does not keep the next ones away
\* (collect-actions-telemetry.sh), every head that stays is judged some night
\* (chooseNightly), and every classification comes to an end.
NewsArrives ==
    /\ RedIsTold /\ CollectionComesBack
    /\ part = "judged" => Judged!HeadIsJudged
    /\ Reads!ClassificationEnds

=============================================================================
