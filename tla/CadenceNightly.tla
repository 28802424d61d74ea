--------------------------- MODULE CadenceNightly ---------------------------
(***************************************************************************)
(* The nightly decision of the CI cadence contract.  A head of the         *)
(* integration branch is tested by full suites: one per workflow of the    *)
(* policy, whose receipts are folded into one receipt of the run.  Every   *)
(* night one run pins the head and the time, looks the receipts up, and    *)
(* skips, blocks, or tests the head again.  A head stands for the whole    *)
(* identity a receipt binds: the commit, the definitions, the policy, the  *)
(* lockfile and the runtime.                                               *)
(***************************************************************************)
EXTENDS Integers, Sequences, FiniteSets, FiniteSetsExt

CONSTANTS
    Workflows,      \* of the policy
    Refresh,        \* the policy's refreshHours, in ticks
    Holes,          \* TRUE when a suite may conclude with a job skipped
    MaxTime,        \* the clock only ticks up to here
    MaxHeads,       \* commits on the integration branch
    MaxNights,      \* suites the nightly starts per head
    MaxOthers,      \* suites that pushes, pull requests and people start
    MaxRetries      \* authorised

PolicyIsValid == Workflows # {} /\ Refresh \in Nat \ {0}

VARIABLES
    clock,
    head,       \* of the integration branch
    runs,       \* the full suites, in the order they were started
    retry,      \* the retries authorised, newest last
    night,      \* the nightly run: its phase, the head and time it pinned, the history it read
    verdict     \* what the last nightly run decided

vars == <<clock, head, runs, retry, night, verdict>>

Ended == {"success", "failure", "cancelled"}
Conclusions == Ended \cup IF Holes THEN {"skipped job"} ELSE {}
Ids == DOMAIN runs

Idle == [phase |-> "idle", head |-> 0, now |-> 0, receipts |-> {}, complete |-> FALSE]
NoVerdict == [action |-> "none", head |-> 0, now |-> 0, retry |-> 0]

Init ==
    /\ clock = 1 /\ head = 1 /\ runs = <<>> /\ retry = <<>>
    /\ night = Idle /\ verdict = NoVerdict

Finished(r) == \A w \in Workflows : runs[r].suites[w].result # "running"
CompletedAt(r) == Max({runs[r].suites[w].at : w \in Workflows})
Conclusion(r) ==
    LET results == {runs[r].suites[w].result : w \in Workflows}
    IN IF "failure" \in results THEN "failure" ELSE IF "cancelled" \in results THEN "cancelled" ELSE "success"

(* Mutant: a diagnostic counts. *)
IdentityMatchesDiagnostic(r, h) ==
    /\ runs[r].head = h /\ runs[r].lane \in {"full", "nightly", "release"}
    /\ runs[r].lane = "release" => runs[r].event \in {"push", "pull_request"}

(* The measurement a receipt was made by: fast runs, diagnostics and releases on a schedule prove nothing. *)
IdentityMatches(r, h) ==
    /\ runs[r].head = h
    /\ runs[r].lane \in {"full", "nightly", "release"}
    /\ runs[r].event # "workflow_dispatch"
    /\ runs[r].lane = "release" => runs[r].event \in {"push", "pull_request"}

AllJobsPassed(r) == \A w \in Workflows : runs[r].suites[w].result = "success"

ValidReceipt(r, h) == IdentityMatches(r, h) /\ Conclusion(r) = "success" /\ AllJobsPassed(r)

Latest(rs) == CHOOSE r \in rs : \A s \in rs : CompletedAt(s) <= CompletedAt(r)

(* The retry in force names the failed run and the one attempt that may follow it. *)
Retries(f, h) ==
    /\ retry # <<>>
    /\ LET option == retry[Len(retry)]
       IN option.head = h /\ option.run = runs[f].id /\ option.max = runs[f].attempt + 1

Decision(action, granted) ==
    [action |-> action, head |-> night.head, now |-> night.now, retry |-> IF granted THEN Len(retry) ELSE 0]

chooseNightly ==
    LET h == night.head
        matching == {r \in night.receipts : IdentityMatches(r, h) /\ CompletedAt(r) <= night.now}
        successes == {r \in matching : ValidReceipt(r, h)}
        failures == {r \in matching : Conclusion(r) \in {"failure", "cancelled"}}
        failed == failures # {} /\ (successes # {} => CompletedAt(Latest(failures)) >= CompletedAt(Latest(successes)))
    IN IF failed
       THEN IF night.complete /\ Retries(Latest(failures), h) THEN Decision("full", TRUE) ELSE Decision("blocked", FALSE)
       ELSE IF \/ ~night.complete
               \/ successes = {}
               \/ night.now - CompletedAt(Latest(successes)) >= Refresh
            THEN Decision("full", FALSE)
            ELSE Decision("skip", FALSE)
-----------------------------------------------------------------------------
Started(id, attempt, event, lane, granted) ==
    [id |-> id, attempt |-> attempt, head |-> IF lane = "nightly" THEN night.head ELSE head, event |-> event, lane |-> lane,
     retry |-> granted, suites |-> [w \in Workflows |-> [result |-> "running", at |-> 0]]]

Tick == clock < MaxTime /\ clock' = clock + 1 /\ UNCHANGED <<head, runs, retry, night, verdict>>

Push == head < MaxHeads /\ head' = head + 1 /\ UNCHANGED <<clock, runs, retry, night, verdict>>

(* A push, a pull request or a person has the head tested, in the lane its event got. *)
Measure(event, lane) ==
    /\ Cardinality({r \in Ids : runs[r].lane # "nightly"}) < MaxOthers
    /\ runs' = Append(runs, Started(Len(runs) + 1, 1, event, lane, 0))
    /\ UNCHANGED <<clock, head, retry, night, verdict>>

(* A suite of one workflow ends; no two end at the same time. *)
Conclude(r, w, result) ==
    /\ runs[r].suites[w].result = "running"
    /\ clock' = clock + 1
    /\ runs' = [runs EXCEPT ![r].suites[w] = [result |-> result, at |-> clock']]
    /\ UNCHANGED <<head, retry, night, verdict>>

(* The owner authorises one more attempt at a failed run. *)
Authorize(r) ==
    /\ Len(retry) < MaxRetries /\ Finished(r) /\ Conclusion(r) # "success"
    /\ \A i \in DOMAIN retry : retry[i].run # runs[r].id \/ retry[i].max # runs[r].attempt + 1
    /\ retry' = Append(retry, [run |-> runs[r].id, max |-> runs[r].attempt + 1, head |-> runs[r].head])
    /\ UNCHANGED <<clock, head, runs, night, verdict>>

(* Nightly runs share a group and are not cancelled in progress: one at a time. *)
GroupIsFree == \A r \in Ids : runs[r].lane = "nightly" => Finished(r)

Pin ==
    /\ night.phase = "idle" /\ GroupIsFree
    /\ Cardinality({r \in Ids : runs[r].lane = "nightly" /\ runs[r].head = head}) < MaxNights
    /\ night' = [Idle EXCEPT !.phase = "pinned", !.head = head, !.now = clock]
    /\ UNCHANGED <<clock, head, runs, retry, verdict>>

(* The lookup returns every finished run, or fails on the way with some of them. *)
Lookup(receipts, complete) ==
    /\ night.phase = "pinned"
    /\ complete => receipts = {r \in Ids : Finished(r)}
    /\ night' = [night EXCEPT !.phase = "read", !.receipts = receipts, !.complete = complete]
    /\ UNCHANGED <<clock, head, runs, retry, verdict>>

(* The run of a granted retry is the next attempt of the failed run. *)
Decide ==
    /\ night.phase = "read"
    /\ verdict' = chooseNightly
    /\ runs' = CASE chooseNightly.action # "full" -> runs
                 [] chooseNightly.retry # 0 ->
                      Append(runs, Started(retry[Len(retry)].run, retry[Len(retry)].max, "schedule", "nightly", Len(retry)))
                 [] OTHER -> Append(runs, Started(Len(runs) + 1, 1, "schedule", "nightly", 0))
    /\ night' = Idle
    /\ UNCHANGED <<clock, head, retry>>

Measurements == {<<"push", "fast">>, <<"push", "release">>, <<"pull_request", "full">>, <<"workflow_dispatch", "full">>}

Next ==
    \/ Tick \/ Push \/ Pin \/ Decide
    \/ \E m \in Measurements : Measure(m[1], m[2])
    \/ \E r \in Ids, w \in Workflows, result \in Conclusions : Conclude(r, w, result)
    \/ \E r \in Ids : Authorize(r)
    \/ \E receipts \in SUBSET {r \in Ids : Finished(r)}, complete \in BOOLEAN : Lookup(receipts, complete)

Spec == Init /\ [][Next]_vars
-----------------------------------------------------------------------------
Receipt == [id : Nat, attempt : Nat, head : 1..MaxHeads, event : {"push", "pull_request", "schedule", "workflow_dispatch"},
            lane : {"fast", "full", "nightly", "release"}, retry : 0..MaxRetries,
            suites : [Workflows -> [result : Conclusions \cup {"running"}, at : Nat]]]

(* What is known of every run, decision and retry; a run is of a head that exists. *)
TypeOK ==
    /\ clock \in Nat /\ head \in 1..MaxHeads
    /\ \A r \in Ids : runs[r] \in Receipt /\ runs[r].head <= head
    /\ \A i \in DOMAIN retry : retry[i] \in [run : Nat, max : Nat, head : 1..MaxHeads]
    /\ night.phase \in {"idle", "pinned", "read"} /\ night.receipts \subseteq Ids
    /\ verdict.action \in {"none", "full", "blocked", "skip"}

(* A night is skipped only when a full suite of the very head that was pinned really passed every job of every      *)
(* workflow within the refresh period, and no full suite of that head that ended by then failed after it.           *)
SkipIsEarned ==
    verdict.action = "skip" =>
        LET full == {r \in Ids : Finished(r) /\ IdentityMatches(r, verdict.head) /\ CompletedAt(r) <= verdict.now}
        IN \E r \in full :
              /\ AllJobsPassed(r) /\ runs[r].event # "workflow_dispatch" /\ runs[r].lane # "fast"
              /\ verdict.now - CompletedAt(r) < Refresh
              /\ \A f \in full : Conclusion(f) # "success" => CompletedAt(f) < CompletedAt(r)

(* An authorised retry of a failed head is one more attempt: no authorisation starts two suites. *)
OneAttemptPerRetry ==
    \A r, s \in Ids : r # s => runs[r].retry = 0 \/ runs[r].retry # runs[s].retry

(* Every head that stays on the branch comes to be tested by a full suite, passed or failed. *)
HeadIsJudged ==
    \A h \in 1..MaxHeads :
        (head = h) ~> (head # h \/ \E r \in Ids : Finished(r) /\ IdentityMatches(r, h))
=============================================================================
