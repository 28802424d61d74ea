----------------------------- MODULE PushGuard -----------------------------
(***************************************************************************)
(* The guarded workflow of the skip-validated-push proposal: what          *)
(* inspectPushWorkflow lets through, what guardExpression writes, what     *)
(* guardMatrix checks of a candidate before it is published, and a run of  *)
(* the published workflow on GitHub (push-workflow.ts, push-guard.ts,      *)
(* guard-expression.ts, push-guard-verifier.ts of packages/core).          *)
(*                                                                         *)
(* A candidate's guard is a set of the parts of the generated expression;  *)
(* a faulty one lacks some.  verifyPushGuards also requires the exact      *)
(* generated bytes; that check is left out, so that the matrix alone has   *)
(* to tell a faulty guard.                                                 *)
(***************************************************************************)
EXTENDS Integers, FiniteSets

CONSTANTS Jobs    \* job numbers: a job needs only lower ones

JobsAreNumbered == Jobs \subseteq Nat

VARIABLES
    needs, kind, opaque,    \* the workflow of the repository
    event,                  \* what triggers this run
    guard, gate,            \* parts of the guards, and of the classifier's own condition
    verdict,                \* of the verifier: "none", "published" or "rejected"
    classifier, said,       \* result of the classifier job, and its `validated` output
    cancelled, result

workflow == <<needs, kind, opaque, event, guard, gate>>
vars == <<workflow, verdict, classifier, said, cancelled, result>>

Kinds == {"none", "plain", "always", "wide"}
Events == {"push", "pull_request", "workflow_dispatch"}
\* !cancelled(), the needs, the classifier's result, its output, the original condition
GuardParts == {"cancelled", "needs", "result", "output", "original"}
GateParts == {"event", "ref"}
JobResults == {"success", "failure", "skipped", "cancelled"}
Results == JobResults \cup {"waiting", "running"}
Outputs == {"true", "false", ""}

TypeOK ==
    /\ needs \in [Jobs -> SUBSET Jobs] /\ kind \in [Jobs -> Kinds] /\ opaque \in [Jobs -> BOOLEAN]
    /\ event \in Events /\ guard \subseteq GuardParts /\ gate \subseteq GateParts
    /\ verdict \in {"none", "published", "rejected"}
    /\ classifier \in Results /\ said \in Outputs /\ cancelled \in BOOLEAN
    /\ result \in [Jobs -> Results]
    /\ classifier \in {"waiting", "skipped"} => said = ""

Init ==
    /\ needs \in [Jobs -> SUBSET Jobs] /\ \A j \in Jobs : \A n \in needs[j] : n < j
    /\ kind \in [Jobs -> Kinds]
    /\ opaque \in [Jobs -> BOOLEAN] /\ \A j \in Jobs : kind[j] # "plain" => opaque[j]
    /\ event \in Events /\ guard \in SUBSET GuardParts /\ gate \in SUBSET GateParts
    /\ verdict = "none" /\ cancelled = FALSE
    /\ classifier = "waiting" /\ said = ""
    /\ result = [j \in Jobs |-> "waiting"]

-----------------------------------------------------------------------------
\* Conditions the guard would change the meaning of are refused.
Eligible == \A j \in Jobs : kind[j] \notin {"always", "wide"}

(* The guard of a job, evaluated.  Without a status function in it GitHub
   adds success(), which counts the classifier among the needs.            *)
GuardHolds(parts, done, cls, out, original, isCancelled) ==
    /\ "cancelled" \in parts => ~isCancelled
    /\ "needs" \in parts => \A n \in DOMAIN done : done[n] = "success"
    /\ parts \cap {"result", "output"} # {} =>
          \/ "result" \in parts /\ cls # "success"
          \/ "output" \in parts /\ out # "true"
    /\ "original" \in parts => original
    /\ "cancelled" \notin parts =>
          ~isCancelled /\ cls = "success" /\ \A n \in DOMAIN done : done[n] = "success"

\* The classifier's own condition: a push to the integration branch.
GateHolds(parts, onEvent, onBranch) ==
    /\ "event" \in parts => onEvent = "push"
    /\ "ref" \in parts => onBranch

\* Mutant: a classifier that said `true` and then failed is forgotten.
ClassifierStatesClean ==
    {<<"success", o>> : o \in Outputs} \cup {<<"failure", "">>, <<"cancelled", "">>, <<"skipped", "">>}

\* What the classifier job may look like to a guarded job, by event.
ClassifierStates ==
    {<<"success", o>> : o \in Outputs}
      \cup {<<c, o>> : c \in {"failure", "cancelled"}, o \in {"", "true"}}
      \cup {<<"skipped", "">>}

\* Every combination of need results (up to five needs).
NeedCombinations(ns) == [ns -> JobResults]

\* The classifier runs on a push to the branch, and on nothing else.
GateMatrix ==
    /\ GateHolds(gate, "push", TRUE) /\ ~GateHolds(gate, "push", FALSE)
    /\ \A e \in Events \ {"push"}, b \in BOOLEAN : ~GateHolds(gate, e, b)

(* guardMatrix: in every cell the candidate job runs exactly when the base job
   would and the classifier did not vouch for the push.  A guard that does not
   end in the original condition is evaluated without it.                  *)
JobMatrix(j) ==
    \A s \in ClassifierStates, done \in NeedCombinations(needs[j]),
       original \in (IF kind[j] = "none" THEN {TRUE} ELSE BOOLEAN), c \in BOOLEAN :
       GuardHolds(guard, done, s[1], s[2], original, c)
         <=> /\ ~c /\ original
             /\ \A n \in needs[j] : done[n] = "success"
             /\ s # <<"success", "true">>

Verify ==
    /\ verdict = "none"
    /\ \/ /\ Eligible /\ GateMatrix /\ \A j \in Jobs : JobMatrix(j)
          /\ verdict' = "published"
          /\ UNCHANGED <<guard, gate>>
       \/ /\ ~(Eligible /\ GateMatrix /\ \A j \in Jobs : JobMatrix(j))
          /\ verdict' = "rejected"
          /\ guard' = {} /\ gate' = {}      \* the candidate is dropped
    /\ UNCHANGED <<needs, kind, opaque, event, classifier, said, cancelled, result>>

-----------------------------------------------------------------------------
(* A run of the published workflow, or of the old one when the candidate was
   rejected (external: GitHub's scheduling of jobs).                       *)
Published == verdict = "published"

\* A pull request's ref is no branch; a dispatched run is on the branch.
ClassifierStarts ==
    /\ Published /\ classifier = "waiting" /\ ~cancelled
    /\ classifier' = IF GateHolds(gate, event, event # "pull_request") THEN "running" ELSE "skipped"
    /\ UNCHANGED <<workflow, verdict, said, cancelled, result>>

ClassifierSays(o) ==
    /\ classifier = "running" /\ said = "" /\ o # ""
    /\ said' = o
    /\ UNCHANGED <<workflow, verdict, classifier, cancelled, result>>

\* It exits 0, or is ended by its time limit or a lost runner.
ClassifierEnds(r) ==
    /\ classifier = "running"
    /\ classifier' = r
    /\ UNCHANGED <<workflow, verdict, said, cancelled, result>>

ClassifierNeverRan ==
    /\ Published /\ classifier = "waiting" /\ cancelled
    /\ classifier' = "cancelled"
    /\ UNCHANGED <<workflow, verdict, said, cancelled, result>>

Ready(j) ==
    /\ result[j] = "waiting"
    /\ verdict = "rejected" \/ (Published /\ classifier \in JobResults)
    /\ \A n \in needs[j] : result[n] \in JobResults

\* The original condition, as GitHub evaluates it in the candidate.
Original(j) ==
    CASE kind[j] = "plain" -> opaque[j]
      [] kind[j] = "wide" -> classifier # "skipped"
      [] OTHER -> TRUE

\* The condition of the job in the workflow that is replaced.
Succeeded(j) == ~cancelled /\ \A n \in needs[j] : result[n] = "success"

Condition(j) ==
    \/ kind[j] = "always"
    \/ kind[j] = "plain" /\ opaque[j] /\ Succeeded(j)
    \/ kind[j] \in {"none", "wide"} /\ Succeeded(j)

Runs(j) ==
    IF verdict = "rejected" THEN Condition(j) ELSE
    GuardHolds(guard, [n \in needs[j] |-> result[n]], classifier, said, Original(j), cancelled)

Decide(j) ==
    /\ Ready(j)
    /\ result' = [result EXCEPT ![j] = IF Runs(j) THEN "running" ELSE "skipped"]
    /\ UNCHANGED <<workflow, verdict, classifier, said, cancelled>>

Finish(j, r) ==
    /\ result[j] = "running"
    /\ result' = [result EXCEPT ![j] = r]
    /\ UNCHANGED <<workflow, verdict, classifier, said, cancelled>>

Cancel ==
    /\ verdict # "none" /\ ~cancelled
    /\ cancelled' = TRUE
    /\ UNCHANGED <<workflow, verdict, classifier, said, result>>

Ends == {"success", "failure", "cancelled"}

Next ==
    \/ Verify
    \/ ClassifierStarts \/ ClassifierNeverRan
    \/ \E o \in Outputs : ClassifierSays(o)
    \/ \E r \in Ends : ClassifierEnds(r)
    \/ \E j \in Jobs : Decide(j)
    \/ \E j \in Jobs, r \in Ends : Finish(j, r)
    \/ Cancel

Spec == Init /\ [][Next]_vars

-----------------------------------------------------------------------------
(* The published workflow behaves as the workflow it replaces: a job runs
   exactly when it would have run, whatever the classifier's fate, on every
   event and however the run is cancelled; the one exception is a push the
   classifier vouched for.  (guardExpression, guardMatrix,
   inspectPushWorkflow)                                                    *)
GuardImplementsWorkflow ==
    [][\A j \in Jobs : result[j] = "waiting" /\ result'[j] # "waiting" =>
          /\ \A n \in needs[j] : result[n] \in JobResults
          /\ IF result'[j] = "running" THEN Condition(j)
             ELSE ~Condition(j) \/ (classifier = "success" /\ said = "true")]_vars

\* The classifier never costs a pull request or a dispatched run a minute.
OnlyPushesPay == event # "push" => classifier \notin {"running"} \cup Ends \/ cancelled

\* A guard worth publishing is published: the generated one passes the matrix.
GeneratedIsPublished ==
    [][verdict' = "rejected" /\ Eligible /\ gate = GateParts => guard # GuardParts]_vars
=============================================================================
