------------------------------- MODULE MCFleet --------------------------------
(*****************************************************************************)
(* The fleet of enrolled workflows and the evidence about it, checked        *)
(* component by component: a behaviour is about one of them, and the others  *)
(* rest.                                                                     *)
(*****************************************************************************)
EXTENDS Fleet, TLC

CONSTANT Parts   \* Parts: the components this instance runs

VARIABLES part,   \* the component this behaviour is about
    current, archives, copied, spent, executed,
    storeNow, attempts, visibility, store, backfill, collection, missed,
    telemetryNow, live, telemetryRegistry, job, journal, stored, stage, read, shown,
    machine, fresh, history, results,
    build, rows, assignments, vm, disk, work, cleanup, report

\* Three jobs over journals that are replaced, archived and carried forward.
Evidence == INSTANCE FleetEvidence WITH MaxJobs <- 3, MaxUnits <- 2, MaxArchives <- 2

\* Three days of collections, one of them missed ...
Missed == INSTANCE TelemetryStore WITH RunIds <- {"r1"}, Day <- 2, Lookback <- 2,
    Phase <- 0, MaxSpan <- 2, MaxCollect <- 0, MaxMissed <- 1, Days <- 3, Since <- 2,
    now <- storeNow
ASSUME Missed!TelemetryStoreAssumption

\* ... and with one written every day, also across midnight.
Daily == INSTANCE TelemetryStore WITH RunIds <- {"r1"}, Day <- 3, Lookback <- 6, Phase <- 1,
    MaxSpan <- 2, MaxCollect <- 1, MaxMissed <- 0, Days <- 2, Since <- 0, now <- storeNow
ASSUME Daily!TelemetryStoreAssumption

\* A workflow that is enrolled twice while one job runs ...
Telemetry == INSTANCE TelemetryReport WITH Jobs <- {1}, Workflows <- {"ci"},
    MaxEnrollments <- 2, WindowEnd <- 2, MaxTime <- 3, now <- telemetryNow,
    registry <- telemetryRegistry

\* ... and two jobs of one enrollment, reported together.
Jobs == INSTANCE TelemetryReport WITH Jobs <- {1, 2}, Workflows <- {"ci"},
    MaxEnrollments <- 1, WindowEnd <- 2, MaxTime <- 2, now <- telemetryNow,
    registry <- telemetryRegistry

\* Four fixture runs on machines that are replaced or reused.
Pilot == INSTANCE PilotEvidence WITH Candidates <- {"c1", "c2"}, Wanted <- "c1",
    MaxRuns <- 4, HostedRuns <- 2, MaxMachines <- 3
ASSUME Pilot!WantedIsCandidate
ASSUME Pilot!FixtureParses

\* A scenario that is rerun across a rebuild.
Runner == INSTANCE RunnerReport WITH Scenarios <- {"R10"}, Builds <- {1, 2}, MaxRows <- 3,
    MaxAssignments <- 2, MaxWork <- 3
ASSUME Runner!BuildsCount

\* The jobs of the workflow differ in nothing but their key.
JobSymmetry == Permutations(JobKeys)

evidenceVars == <<current, archives, copied, spent, executed>>
storeVars == <<storeNow, attempts, visibility, store, backfill, collection, missed>>
telemetryVars == <<telemetryNow, live, telemetryRegistry, job, journal, stored, stage, read,
                   shown>>
pilotVars == <<machine, fresh, history, results>>
runnerVars == <<build, rows, assignments, vm, disk, work, cleanup, report>>
allVars == <<part, vars, evidenceVars, storeVars, telemetryVars, pilotVars, runnerVars>>

\* One component runs; the others rest in an initial state of theirs.
MCInit ==
    /\ part \in Parts
    /\ Init
    /\ Evidence!Init
    /\ IF part = "daily" THEN Daily!Init ELSE Missed!Init
    /\ IF part = "jobs" THEN Jobs!Init ELSE Telemetry!Init
    /\ Pilot!Init
    /\ Runner!Init

\* A step of one component, which leaves the others as they are.
FleetAlone == part = "fleet" /\ UNCHANGED <<part, evidenceVars, storeVars, telemetryVars,
                                            pilotVars, runnerVars>>
EvidenceAlone == part = "evidence" /\ UNCHANGED <<part, vars, storeVars, telemetryVars,
                                                  pilotVars, runnerVars>>
MissedAlone == part = "missed" /\ UNCHANGED <<part, vars, evidenceVars, telemetryVars,
                                              pilotVars, runnerVars>>
DailyAlone == part = "daily" /\ UNCHANGED <<part, vars, evidenceVars, telemetryVars,
                                            pilotVars, runnerVars>>
TelemetryAlone == part = "report" /\ UNCHANGED <<part, vars, evidenceVars, storeVars,
                                                 pilotVars, runnerVars>>
JobsAlone == part = "jobs" /\ UNCHANGED <<part, vars, evidenceVars, storeVars, pilotVars,
                                          runnerVars>>
PilotAlone == part = "pilot" /\ UNCHANGED <<part, vars, evidenceVars, storeVars,
                                            telemetryVars, runnerVars>>
RunnerAlone == part = "runner" /\ UNCHANGED <<part, vars, evidenceVars, storeVars,
                                              telemetryVars, pilotVars>>

MCNext ==
    \/ FleetAlone /\ Next
    \/ EvidenceAlone /\ Evidence!Next
    \/ MissedAlone /\ Missed!Next
    \/ DailyAlone /\ Daily!Next
    \/ TelemetryAlone /\ Telemetry!Next
    \/ JobsAlone /\ Jobs!Next
    \/ PilotAlone /\ Pilot!Next
    \/ RunnerAlone /\ Runner!Next

MCSpec == MCInit /\ [][MCNext]_allVars

-----------------------------------------------------------------------------
\* With one fleet command at a time, a long history of enrolling, cutting over,
\* reverting and replacing leaves a registry its own validator accepts, forgets
\* no enrollment and no cutover, and commits no more than the fleet ceiling
\* (fleet-service.ts, fleet-registry.ts). A journal belongs to the config.json
\* beside it unless a controller and a controller-config race; what has parted
\* then is left alone until it is archived, and the accounting file always
\* belongs to the config of the journal (runner-service.ts, controller.ts).
RegistrySound ==
    /\ [](part = "fleet" =>
            CommandsBuildValidRegistries /\ WithinFleetCeiling /\ FilesAgree)
    /\ NothingForgotten
    /\ JournalsPartOnlyInRace
    /\ PartedLeftAlone

\* Every job, start and snapshot counts once. An enrollment and its successor
\* share no job, in the registry and in the report (telemetry.ts); an accepted
\* evidence set charges every generation once (fleet evidence); snapshots read
\* back, never contradict each other, keep the visibility a job was first seen
\* with, count no job copied into a retry, and on daily collections without a
\* gap a report misses no finished job (telemetry-store.ts).
CountedOnce ==
    /\ part = "fleet" => CreditedOnce
    /\ part = "report" => Telemetry!TypeOK /\ Telemetry!CreditedOnce
    /\ part = "evidence" => Evidence!ChargedOnce
    /\ part = "missed" =>
        /\ Missed!SnapshotsValid /\ Missed!NeverConflicts
        /\ Missed!ChargedAsFirstSeen /\ Missed!ReportCovers
    /\ part = "daily" => Daily!NoCopyCounted /\ Daily!ReportComplete

\* What a report claims it can show. Net savings are stated only when every job
\* is matched, count only journaled minutes less their cost, and a report
\* without them says why; latencies are nearest-rank percentiles (telemetry.ts);
\* a complete pilot speaks of isolated runs of the candidate (pilot.ts); a
\* complete runner report hides no failure and leaves no VM up (report.ts).
ClaimsEarned ==
    /\ part = "evidence" => Evidence!NetOnlyIfMatched
    /\ part = "report" => Telemetry!IncompleteIsSaid
    /\ part = "jobs" => Jobs!NetSavingsEarned /\ Jobs!NearestRank
    /\ part = "pilot" => Pilot!CompleteMeansIsolated
    /\ part = "runner" => Runner!NoFailureHidden /\ Runner!NothingLeftRunning

=============================================================================
