---------------------------- MODULE FleetEvidence ---------------------------
(* The controller evidence behind a savings report                           *)
(* (packages/cli/src/fleet-service.ts loadControllerEvidence,                *)
(* packages/cli/src/telemetry.ts enrollmentReport, packages/runner/cost.ts). *)
(*                                                                           *)
(* One enrollment's controller keeps cumulative journals.  Replacing the     *)
(* controller bundle archives them, and the next controller starts from      *)
(* fresh ones; an upgrade may also archive a copy of a stopped generation    *)
(* whose journals stay in use until they are replaced.  The loader adds up   *)
(* the current journals and the archives.  Jobs executed on the runner are   *)
(* credited by telemetry whether or not the journal recorded the assignment. *)
EXTENDS Integers, Sequences, FiniteSets, SequencesExt

CONSTANTS
  MaxJobs,      \* jobs that may run on the runner
  MaxUnits,     \* bound of each counter
  MaxArchives   \* archive directories

VARIABLES
  current,      \* the journals of the state directory
  archives,     \* the archived ones, oldest first
  copied,       \* the current generation was archived as a copy
  spent,        \* history: what was really spent
  executed      \* the jobs telemetry credits to the runner

vars == <<current, archives, copied, spent, executed>>

Jobs == 1 .. MaxJobs

\* Runtimes are milliseconds: no two generations ran equally long.
Runtime(job) == 2 ^ (job - 1)

Fresh == [starts |-> 0, runtime |-> 0, disk |-> 0, egress |-> 0, assignments |-> {}]

Init ==
  /\ current = Fresh /\ archives = <<>> /\ copied = FALSE
  /\ spent = [starts |-> 0, runtime |-> 0, disk |-> 0, egress |-> 0]
  /\ executed = {}

\* A generation starts and runs a job; the assignment may have been missed.
Work(job) ==
  /\ ~copied /\ job \notin executed
  /\ executed' = executed \cup {job}
  /\ \E seen \in BOOLEAN :
       current' = [current EXCEPT !.starts = @ + 1, !.runtime = @ + Runtime(job),
                                  !.assignments = IF seen THEN @ \cup {job} ELSE @]
  /\ spent' = [spent EXCEPT !.starts = @ + 1, !.runtime = @ + Runtime(job)]
  /\ UNCHANGED <<archives, copied>>

\* The disk of a stopped generation is retained, traffic is counted.
Retain ==
  /\ current.starts > 0 /\ spent.disk < MaxUnits
  /\ current' = [current EXCEPT !.disk = @ + 1]
  /\ spent' = [spent EXCEPT !.disk = @ + 1]
  /\ UNCHANGED <<archives, copied, executed>>
Egress ==
  /\ current.starts > 0 /\ spent.egress < MaxUnits
  /\ current' = [current EXCEPT !.egress = @ + 1]
  /\ spent' = [spent EXCEPT !.egress = @ + 1]
  /\ UNCHANGED <<archives, copied, executed>>

\* The journals are moved to an archive.
Replace ==
  /\ Len(archives) < MaxArchives
  /\ archives' = Append(archives, current)
  /\ current' = Fresh /\ copied' = FALSE
  /\ UNCHANGED <<spent, executed>>

\* A stopped generation is archived and carried forward.
CarryForward ==
  /\ Len(archives) < MaxArchives /\ current.starts > 0
  /\ archives' = Append(archives, current)
  /\ copied' = TRUE
  /\ UNCHANGED <<current, spent, executed>>

Next == (\E job \in Jobs : Work(job)) \/ Retain \/ Egress \/ Replace \/ CarryForward

Spec == Init /\ [][Next]_vars

-----------------------------------------------------------------------------
(* Loading and reporting.                                                    *)

SameSnapshot(a, b) == a.starts > 0 /\ a.starts = b.starts /\ a.runtime = b.runtime
Dominates(a, b) == a.disk >= b.disk /\ a.egress >= b.egress

\* One archive: a copy of a segment already read replaces it or is dropped,
\* ambiguous ones are refused.
AddSegment(acc, segment) ==
  LET same == {i \in DOMAIN acc.segments : SameSnapshot(segment, acc.segments[i])}
      i == CHOOSE i \in same : \A k \in same : i <= k
  IN  IF acc.refused THEN acc
      ELSE IF same # {}
      THEN IF \/ acc.segments[i].assignments # {} \/ segment.assignments # {}
              \/ ~Dominates(segment, acc.segments[i]) /\ ~Dominates(acc.segments[i], segment)
           THEN [acc EXCEPT !.refused = TRUE]
           ELSE IF Dominates(segment, acc.segments[i])
                THEN [acc EXCEPT !.segments[i] = segment] ELSE acc
      ELSE IF \E k \in DOMAIN acc.segments :
                acc.segments[k].assignments \cap segment.assignments # {}
      THEN [acc EXCEPT !.refused = TRUE]
      ELSE [acc EXCEPT !.segments = Append(@, segment)]

loadControllerEvidence ==
  FoldLeft(AddSegment, [segments |-> <<current>>, refused |-> FALSE], archives)

\* The sum of a counter over the segments, priced per unit by the rates.
Total(segments, counter) ==
  FoldLeft(LAMBDA sum, segment : sum + segment[counter], 0, segments)

Unmatched(segments) ==
  executed \ UNION {segments[i].assignments : i \in DOMAIN segments}

enrollmentReport ==
  LET segments == loadControllerEvidence.segments
  IN  [vmStarts |-> Total(segments, "starts"), compute |-> Total(segments, "runtime"),
       disk |-> Total(segments, "disk"), network |-> Total(segments, "egress"),
       complete |-> Unmatched(segments) = {}]

\* A report that is given charges every generation exactly once: starts,
\* compute, disk and traffic are what was really spent, however the journals
\* were replaced, archived or carried forward.
ChargedOnce ==
  ~loadControllerEvidence.refused =>
     /\ enrollmentReport.vmStarts = spent.starts
     /\ enrollmentReport.compute = spent.runtime
     /\ enrollmentReport.disk = spent.disk
     /\ enrollmentReport.network = spent.egress

\* Net savings are only stated when each job credited to the runner is in some
\* journal, so a job whose assignment was missed leaves the savings open.
NetOnlyIfMatched ==
  ~loadControllerEvidence.refused /\ enrollmentReport.complete =>
     \A job \in executed :
        job \in current.assignments \/ \E i \in DOMAIN archives : job \in archives[i].assignments
=============================================================================
