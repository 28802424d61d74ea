--------------------------- MODULE PushClassifier ---------------------------
(***************************************************************************)
(* The skip-validated-push classifier                                      *)
(* (packages/core/src/optimization/push-classifier.template.mjs): the job  *)
(* that decides, on a push to the integration branch, whether the pull     *)
(* request that landed had already been tested on exactly the pushed tree. *)
(*                                                                         *)
(* GitHub is external: a commit graph with three-way merges, one pull      *)
(* request into the integration branch, a second one that may share its    *)
(* head and targets another branch, and the runs of the workflow.  A run   *)
(* of the pull_request event tests the merge of the base and the head as   *)
(* they are when it is created.  The classifier reads GitHub one request   *)
(* at a time while runs are re-run and pull requests are opened.           *)
(***************************************************************************)
EXTENDS Integers, FiniteSets, Sequences

CONSTANTS
    Changes,        \* what a commit can add to or remove from the tree
    Environment,    \* "rewrite": the integration branch is force-pushed before the merge
    MaxCommits, MaxRuns, MaxAttempts   \* bounds

ClassifierAssumption ==
    /\ Environment \subseteq {"rewrite"}
    /\ {MaxCommits, MaxRuns, MaxAttempts} \subseteq Nat

VARIABLES
    commits,     \* the commit graph, by commit number
    base,        \* tip of the integration branch
    head,        \* tip of the pull request
    otherOpen,   \* a second pull request has the same head
    runs,        \* runs of the workflow for the pull_request event
    push,        \* the push being classified: its commit, forced, whether it merged the request
    step,        \* where the classifier is
    seenOther,   \* whether the list last read names the second pull request
    seenRun,     \* the run it selected, 0 before
    outcome,     \* "none", "validated" or "full"
    readFailed   \* a read failed or the deadline passed

github == <<commits, base, head, otherOpen, runs, push>>
local == <<step, seenOther, seenRun, outcome, readFailed>>
vars == <<github, local>>

Mine == 1
Other == 2
NoPush == [sha |-> 0, forced |-> FALSE, merged |-> FALSE, usual |-> FALSE]
Steps == {"idle", "context", "pulls", "commits", "compare", "sameHead", "runs", "jobs", "done"}
\* "skips": the run concluded success with a job that did not run.
RunStates == {"running", "green", "skips", "failed"}

TypeOK ==
    /\ DOMAIN commits = 1 .. Len(commits) /\ Len(commits) <= MaxCommits
    /\ \A c \in 1 .. Len(commits) :
         /\ commits[c].tree \subseteq Changes
         /\ commits[c].first \in 0 .. (c - 1)
         /\ commits[c].history \subseteq 1 .. c
    /\ base \in 1 .. Len(commits) /\ head \in 1 .. Len(commits)
    /\ otherOpen \in BOOLEAN /\ readFailed \in BOOLEAN /\ seenOther \in BOOLEAN
    /\ \A r \in 1 .. Len(runs) : runs[r].state \in RunStates /\ runs[r].attempt <= MaxAttempts
    /\ push = NoPush \/ push.sha \in 1 .. Len(commits)
    /\ step \in Steps /\ seenRun \in 0 .. Len(runs)
    /\ outcome \in {"none", "validated", "full"}
    /\ outcome # "none" <=> step = "done"

-----------------------------------------------------------------------------
\* GitHub: commits and merges.
Commit(tree, first, history) ==
    [tree |-> tree, first |-> first, history |-> history \cup {Len(commits) + 1}]

History(c) == commits[c].history

(* Three-way merge of two commits: a change that both sides kept, or that one
   side added, since their latest common ancestor.                         *)
MergedTree(b, h) ==
    LET common == b.history \cap h.history
        m == commits[CHOOSE c \in common : \A d \in common : d <= c].tree
    IN  (b.tree \cap h.tree) \cup ((b.tree \cup h.tree) \ m)

Toggle(tree, x) == IF x \in tree THEN tree \ {x} ELSE tree \cup {x}

Room == Len(commits) < MaxCommits

\* The other request targets a branch that holds every change.
OtherTree(h) == commits[h].tree \cup Changes

NewRun(pr, h, tree) ==
    [pr |-> pr, head |-> h, tree |-> tree, state |-> "running", attempt |-> 1, tested |-> FALSE,
     late |-> push # NoPush]

Init ==
    /\ commits = << [tree |-> {}, first |-> 0, history |-> {1}] >>
    /\ base = 1 /\ head = 1 /\ otherOpen = FALSE
    /\ runs = << >> /\ push = NoPush
    /\ step = "idle" /\ seenOther = FALSE /\ seenRun = 0
    /\ outcome = "none" /\ readFailed = FALSE

\* A commit is pushed to the pull request's branch; a run of it may be created
\* (path filters and disabled workflows leave it without one).
MoveHead(c, newRun) ==
    /\ commits' = Append(commits, c)
    /\ head' = Len(commits) + 1
    /\ otherOpen' = FALSE
    /\ \/ /\ newRun /\ Len(runs) < MaxRuns
          /\ runs' = Append(runs, NewRun(Mine, Len(commits) + 1, MergedTree(commits[base], c)))
       \/ ~newRun /\ UNCHANGED runs
    /\ UNCHANGED <<base, push, local>>

PushHead(x, newRun) ==
    /\ push = NoPush /\ Room
    /\ MoveHead(Commit(Toggle(commits[head].tree, x), head, History(head)), newRun)

UpdateBranch(newRun) ==
    /\ push = NoPush /\ Room
    /\ ~(base \in History(head))
    /\ MoveHead(Commit(MergedTree(commits[base], commits[head]), head, History(head) \cup History(base)), newRun)

\* Someone else's change lands on the integration branch.
PushBase(x) ==
    /\ push = NoPush /\ Room
    /\ commits' = Append(commits, Commit(Toggle(commits[base].tree, x), base, History(base)))
    /\ base' = Len(commits) + 1
    /\ UNCHANGED <<head, otherOpen, runs, push, local>>

\* The integration branch is reset to an earlier commit of its own.
RewriteBase(c) ==
    /\ "rewrite" \in Environment /\ push = NoPush
    /\ c \in History(base) \ {base}
    /\ base' = c
    /\ UNCHANGED <<commits, head, otherOpen, runs, push, local>>

\* A second pull request is opened at the same head, towards another branch.
OpenOther ==
    /\ step # "done" /\ head # 1 /\ ~otherOpen /\ Len(runs) < MaxRuns
    /\ otherOpen' = TRUE
    /\ runs' = Append(runs, NewRun(Other, head, OtherTree(head)))
    /\ UNCHANGED <<commits, base, head, push, local>>

(* A run created after the push does not finish within the classifier's 75
   seconds.                                                                *)
FinishRun(r, state) ==
    /\ step # "done" /\ runs[r].state = "running" /\ ~runs[r].late
    /\ runs' = [runs EXCEPT ![r].state = state, ![r].tested = @ \/ state = "green"]
    /\ UNCHANGED <<commits, base, head, otherOpen, push, local>>

Rerun(r) ==
    /\ step # "done" /\ runs[r].state # "running" /\ runs[r].attempt < MaxAttempts
    /\ runs' = [runs EXCEPT ![r].state = "running", ![r].attempt = @ + 1]
    /\ UNCHANGED <<commits, base, head, otherOpen, push, local>>

\* One run at the head, the request's own, green at its first attempt.
Untouched ==
    /\ ~otherOpen
    /\ \E r \in 1 .. Len(runs) :
         /\ runs[r].head = head /\ runs[r].pr = Mine
         /\ runs[r].state = "green" /\ runs[r].attempt = 1
         /\ \A s \in 1 .. Len(runs) : runs[s].head = head => s = r

Pushed(sha, forced, merged) ==
    /\ push' = [sha |-> sha, forced |-> forced, merged |-> merged,
                usual |-> merged /\ ~forced /\ base \in History(head) /\ Untouched]
    /\ step' = "context"
    /\ UNCHANGED <<head, otherOpen, runs, seenOther, seenRun, outcome, readFailed>>

MergeRequest(method) ==
    /\ push = NoPush /\ ~(head \in History(base))
    /\ \/ /\ method = "merge" /\ Room
          /\ commits' = Append(commits, Commit(MergedTree(commits[base], commits[head]), base,
                                               History(base) \cup History(head)))
          /\ base' = Len(commits) + 1
          /\ Pushed(Len(commits) + 1, FALSE, TRUE)
       \/ /\ method = "squash" /\ Room
          /\ commits' = Append(commits, Commit(MergedTree(commits[base], commits[head]), base, History(base)))
          /\ base' = Len(commits) + 1
          /\ Pushed(Len(commits) + 1, FALSE, TRUE)
       \/ /\ method = "push" /\ base' = head
          /\ Pushed(head, ~(base \in History(head)), TRUE)
          /\ UNCHANGED commits

DirectPush ==
    /\ push = NoPush /\ base # 1 /\ ~(head \in History(base))
    /\ Pushed(base, FALSE, FALSE)
    /\ UNCHANGED <<commits, base>>

-----------------------------------------------------------------------------
\* The classifier.  Every refusal is the full suite.
Refuse == step' = "done" /\ outcome' = "full" /\ UNCHANGED <<seenOther, seenRun, readFailed>>
Proceed(next) == step' = next /\ UNCHANGED <<seenOther, seenRun, outcome, readFailed>>
Require(condition, next) == IF condition THEN Proceed(next) ELSE Refuse

\* The event: only a push that is explicitly not forced.
Context ==
    /\ step = "context"
    /\ Require(~push.forced, "pulls")
    /\ UNCHANGED github

\* Rule 2: the one merged request whose merge commit is this push.
ReadPulls ==
    /\ step = "pulls"
    /\ IF push.merged
       THEN /\ step' = "commits"
            /\ seenOther' = (otherOpen /\ push.sha = head)
            /\ UNCHANGED <<seenRun, outcome, readFailed>>
       ELSE Refuse
    /\ UNCHANGED github

\* Rule 3: the pushed tree is the tree of the tested head.
ReadCommits ==
    /\ step = "commits"
    /\ Require(commits[push.sha].tree = commits[head].tree, "compare")
    /\ UNCHANGED github

\* Mutant: the same tree is taken for the same history.
CompareUnchecked ==
    /\ step = "compare"
    /\ Proceed("sameHead")
    /\ UNCHANGED github

\* Rule 4: a fast-forward, or the base at the merge is an ancestor of the head.
Compare ==
    /\ step = "compare"
    /\ Require(push.sha = head \/ commits[push.sha].first \in History(head), "sameHead")
    /\ UNCHANGED github

\* No other pull request at the head; a fast-forward uses the first list again.
ReadSameHead ==
    /\ step = "sameHead"
    /\ Require(~(IF push.sha = head THEN seenOther ELSE otherOpen), "runs")
    /\ UNCHANGED github

(* Rule 5: the only run of this workflow at the head, successful.  A run that
   names its pull requests (GitHub may leave the list empty) names only this
   one.                                                                     *)
ReadRuns(named) ==
    /\ step = "runs"
    /\ LET candidates == {r \in 1 .. Len(runs) : runs[r].head = head}
           usable == {r \in candidates : /\ named => runs[r].pr = Mine
                                         /\ runs[r].state \in {"green", "skips"}}
       IN  IF Cardinality(candidates) = 1 /\ usable = candidates
           THEN /\ seenRun' = (CHOOSE r \in usable : TRUE)
                /\ step' = "jobs" /\ UNCHANGED <<seenOther, outcome, readFailed>>
           ELSE Refuse
    /\ UNCHANGED github

\* Every job of its latest attempt passed; a skipped one did not.
ReadJobs ==
    /\ step = "jobs"
    /\ step' = "done"
    /\ outcome' = IF runs[seenRun].state = "green" THEN "validated" ELSE "full"
    /\ UNCHANGED <<github, seenOther, seenRun, readFailed>>

\* An HTTP error, a timeout, a full page or an unreadable answer.
ReadFails ==
    /\ step \in {"pulls", "commits", "compare", "sameHead", "runs", "jobs"}
    /\ step' = "done" /\ outcome' = "full" /\ readFailed' = TRUE
    /\ UNCHANGED <<github, seenOther, seenRun>>

Classify ==
    \/ Context \/ ReadPulls \/ ReadCommits \/ Compare \/ ReadSameHead
    \/ \E named \in BOOLEAN : ReadRuns(named)
    \/ ReadJobs

Next ==
    \/ \E x \in Changes, newRun \in BOOLEAN : PushHead(x, newRun)
    \/ \E newRun \in BOOLEAN : UpdateBranch(newRun)
    \/ \E x \in Changes : PushBase(x)
    \/ \E c \in 1 .. Len(commits) : RewriteBase(c)
    \/ OpenOther
    \/ \E r \in 1 .. Len(runs), s \in {"green", "skips", "failed"} : FinishRun(r, s)
    \/ \E r \in 1 .. Len(runs) : Rerun(r)
    \/ \E m \in {"merge", "squash", "push"} : MergeRequest(m)
    \/ DirectPush
    \/ Classify
    \/ ReadFails

Spec == Init /\ [][Next]_vars

-----------------------------------------------------------------------------
(* A push is only validated when a run of this workflow tested exactly the
   pushed tree and every job of it passed: what the base was when the run was
   created, which request it belonged to, how the request was merged and what
   was re-run between two reads make no difference.  (classify)            *)
ValidatedWasTested ==
    outcome = "validated" => \E r \in 1 .. Len(runs) :
        runs[r].tested /\ runs[r].tree = commits[push.sha].tree

\* A failed, late or unreadable answer always ends in the full suite.
FailsToFullSuite == readFailed => outcome = "full"

(* The optimization is worth its job: the usual merge (base contained in the
   head, one run, green and never re-run, nobody else at the head, every read
   answered) is validated.                                                 *)
UsualMergeIsValidated ==
    step = "done" /\ push.usual /\ Untouched /\ ~readFailed => outcome = "validated"

\* Every classification ends: no answer of GitHub leaves the push waiting.
ClassificationEnds == (step = "context") ~> (step = "done")
=============================================================================
