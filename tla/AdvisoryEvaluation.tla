------------------------- MODULE AdvisoryEvaluation -------------------------
(* scripts/advisory/evaluate.mjs: the owner authorises a batch of permits,   *)
(* one per frozen request; the evaluator validates every request, reserves   *)
(* the authorisation and lets a worker process execute the requests one by   *)
(* one, stopping at the first unknown outcome.  A replay runs the same code  *)
(* against recorded responses and a ledger of its own.  The live-model       *)
(* command of the optimizer takes the same inference permits.                *)
EXTENDS Naturals, FiniteSetTheorems

CONSTANTS N,        \* requests of the experiment
          Nemotron, \* those of them that go to the Nebius model
          Auths,    \* authorisations the owner signed for this batch
          MaxRuns   \* bound on evaluator runs

VARIABLES phase,    \* where the evaluator is
          mode,     \* "native" or "replay"
          auth,     \* the authorisation it was given
          i,        \* the request at work
          worker,   \* the worker of request i
          results,  \* execution.json: status and providerPosts per request
          sent,     \* requests this run sent to the provider
          spent,    \* authorisations reserved
          ledger,   \* permits consumed in the advisory ledger
          expired,  \* permits past expiresAt
          orphans,  \* requests of dead evaluators whose worker may still send
          posts,    \* posts[r]: requests the provider got from evaluators
          live,     \* permits the live-model command consumed from its own ledger
          runs

vars == <<phase, mode, auth, i, worker, results, sent, spent, ledger, expired,
          orphans, posts, live, runs>>

\* The experiment over the frozen corpus of 60 cases is not empty (dryRunEvaluation).
BatchAssumption == N \in Nat \ {0}

Requests == 1..N
Unread == 9     \* a row without providerPosts
NotRun == [status |-> "not-run", posts |-> Unread]
Unknown == [status |-> "outcome-unknown", posts |-> Unread]

Init == /\ phase = "idle" /\ mode = "native" /\ auth \in Auths /\ i = 1
        /\ worker = "none" /\ results = [r \in Requests |-> NotRun]
        /\ sent = {} /\ spent = {} /\ ledger = {} /\ expired = {} /\ orphans = {}
        /\ posts = [r \in Requests |-> 0] /\ live = {} /\ runs = 0

Expire(r) == /\ expired' = expired \cup {r}
             /\ UNCHANGED <<phase, mode, auth, i, worker, results, sent, spent,
                            ledger, orphans, posts, live, runs>>

Begin(a, m) ==
  /\ phase \in {"idle", "done"} /\ runs < MaxRuns
  /\ phase' = "validate" /\ mode' = m /\ auth' = a /\ runs' = runs + 1
  /\ i' = 1 /\ worker' = "none" /\ sent' = {}
  /\ results' = [r \in Requests |-> NotRun]
  /\ UNCHANGED <<spent, ledger, expired, orphans, posts, live>>

\* Every request is validated with its permit before any authority is spent.
Validate ==
  /\ phase = "validate"
  /\ phase' = IF expired = {} THEN "batch" ELSE "idle"
  /\ UNCHANGED <<mode, auth, i, worker, results, sent, spent, ledger, expired,
                 orphans, posts, live, runs>>

\* The authorisation is reserved; a replay reserves it in its own fresh ledger.
Reserve ==
  /\ phase = "batch"
  /\ phase' = IF mode = "replay" \/ auth \notin spent THEN "run" ELSE "idle"
  /\ worker' = "start"
  /\ spent' = IF mode = "replay" THEN spent ELSE spent \cup {auth}
  /\ UNCHANGED <<mode, auth, i, results, sent, ledger, expired, orphans, posts,
                 live, runs>>

\* What the loop does with the row of request i: it saves it, and goes on
\* unless the outcome is unknown.
Continues(row) == row.status # "outcome-unknown"
Record(row) ==
  /\ results' = [results EXCEPT ![i] = row]
  /\ IF Continues(row) /\ i < N
     THEN i' = i + 1 /\ worker' = "start" /\ UNCHANGED phase
     ELSE phase' = "done" /\ worker' = "none" /\ UNCHANGED i
  /\ UNCHANGED <<mode, auth, spent, expired, orphans, live, runs>>

\* The worker decodes the permit again and consumes it. An expired permit, and
\* a consumed one of the other model, end the process, which the loop cannot
\* tell from a lost request; the Nebius client catches the refusal of a consumed
\* one, and answers that nothing was sent.
Unavailable == [status |-> "unavailable", posts |-> 0]
Refused == IF i \in Nemotron /\ i \notin expired THEN Unavailable ELSE Unknown

Consume ==
  /\ phase = "run" /\ worker = "start"
  /\ IF i \in expired \/ (mode = "native" /\ i \in ledger)
     THEN Record(Refused) /\ UNCHANGED <<sent, ledger, posts>>
     ELSE /\ worker' = "consumed"
          /\ ledger' = IF mode = "native" THEN ledger \cup {i} ELSE ledger
          /\ UNCHANGED <<phase, mode, auth, i, results, sent, spent, expired,
                         orphans, posts, live, runs>>

\* The model discovery fails before the permit is consumed, or the permit or the
\* time for the request runs out after it: the request ends before its POST.
Preflight ==
  /\ phase = "run" /\ worker \in {"start", "consumed"} /\ i \in Nemotron
  /\ Record(Unavailable)
  /\ UNCHANGED <<sent, ledger, posts>>

Send ==
  /\ phase = "run" /\ worker = "consumed" /\ worker' = "sent"
  /\ IF mode = "native"
     THEN sent' = sent \cup {i} /\ posts' = [posts EXCEPT ![i] = @ + 1]
     ELSE UNCHANGED <<sent, posts>>
  /\ UNCHANGED <<phase, mode, auth, i, results, spent, ledger, expired, orphans,
                 live, runs>>

\* The worker reports what its transport saw, an unknown outcome included.
Reply ==
  /\ phase = "run" /\ worker = "sent"
  /\ \E s \in {"completed", "unavailable", "outcome-unknown"} :
       Record([status |-> s, posts |-> 1])
  /\ UNCHANGED <<sent, ledger, posts>>

\* The worker fails, exceeds its two minutes or answers for another request.
WorkerFails ==
  /\ phase = "run" /\ worker \in {"start", "consumed", "sent"}
  /\ Record(Unknown) /\ UNCHANGED <<sent, ledger, posts>>

\* The evaluator dies; a worker that consumed its permit may live on (one that
\* had not is taken to die too).
Crash ==
  /\ phase \in {"validate", "batch", "run"} /\ phase' = "idle"
  /\ orphans' = IF worker = "consumed" /\ mode = "native" THEN orphans \cup {i} ELSE orphans
  /\ worker' = "none"
  /\ UNCHANGED <<mode, auth, i, results, sent, spent, ledger, expired, posts,
                 live, runs>>

OrphanSends(r) ==
  /\ r \in orphans /\ orphans' = orphans \ {r}
  /\ posts' = [posts EXCEPT ![r] = @ + 1]
  /\ UNCHANGED <<phase, mode, auth, i, worker, results, sent, spent, ledger,
                 expired, live, runs>>

\* evaluate.mjs --live-models, given the permit of request r: it asks only the
\* ledger of the optimizer.
LiveModel(r) ==
  /\ r \in Nemotron /\ r \notin expired /\ r \notin live
  /\ live' = live \cup {r}
  /\ UNCHANGED <<phase, mode, auth, i, worker, results, sent, spent, ledger,
                 expired, orphans, posts, runs>>

Next == \/ \E r \in Requests : Expire(r) \/ OrphanSends(r) \/ LiveModel(r)
        \/ \E a \in Auths, m \in {"native", "replay"} : Begin(a, m)
        \/ Validate \/ Reserve \/ Consume \/ Preflight \/ Send \/ Reply
        \/ WorkerFails \/ Crash

Spec == Init /\ [][Next]_vars

\* The evaluator kills a worker at its time limit.
Fairness == WF_vars(WorkerFails)

Attempted == {r \in Requests : results[r].status # "not-run"}
Known == {r \in Attempted : results[r].posts # Unread}
LowerBound == Cardinality({r \in Known : results[r].posts = 1})
NoCount == 99
NativeCalls == IF mode = "replay" THEN 0
               ELSE IF Attempted # Known THEN NoCount ELSE LowerBound

\* qualifyFeatures, with every quality gate passed.
Qualified == /\ phase = "done" /\ mode = "native"
             /\ \A r \in Requests : results[r].status = "completed"

-----------------------------------------------------------------------------
(* Nothing is sent after the first unknown outcome of a run, a worker that   *)
(* died before sending included (runSequentialRequests; runbook              *)
(* advisory.md:171).                                                         *)
StopsAtUnknown ==
  \A q, r \in Requests : q < r /\ results[q].status = "outcome-unknown" =>
     results[r].status = "not-run" /\ r \notin sent

(* Crashed evaluators, their orphaned workers and new authorisations of the  *)
(* same batch never send one request twice.                                  *)
SentOnce == \A r \in Requests : posts[r] <= 1

(* The report never overstates or understates what the provider got: the     *)
(* confirmed count is a lower bound, rows without a count cover the rest,    *)
(* and a number is given only when it is exact (accountRequests).            *)
AccountIsHonest ==
  phase = "done" =>
    /\ mode = "native" => /\ LowerBound <= Cardinality(sent)
                          /\ Cardinality(sent) <= LowerBound + Cardinality(Attempted \ Known)
    /\ NativeCalls # NoCount => NativeCalls = Cardinality(sent)

(* A feature qualifies only on requests this very run sent and saw answered: *)
(* not on a replay, an earlier run or a partial one.                         *)
QualifiedIsMeasured == Qualified => sent = Requests

(* The evaluator always comes to its report or gives up.                     *)
EvaluationEnds == phase = "run" ~> phase \in {"done", "idle"}

(* "supply all matching single-use per-request permits" (advisory.md:171):   *)
(* a permit pays for one request, whichever command takes it.                *)
PermitIsSingleUse == \A r \in Requests : r \in live => posts[r] = 0

-----------------------------------------------------------------------------
(* Proofs, for a batch of any size and any number of runs.  A request that   *)
(* was sent, or that an orphaned worker may still send, has its permit in    *)
(* the ledger, so no later run consumes it; the rows of a run are written in *)
(* order, each with what was sent for it.                                    *)
EvaluationTyped ==
  /\ phase \in {"idle", "validate", "batch", "run", "done"}
  /\ mode \in {"native", "replay"}
  /\ i \in Requests
  /\ worker \in {"none", "start", "consumed", "sent"}
  /\ results \in [Requests -> [status : {"not-run", "outcome-unknown", "completed", "unavailable"},
                               posts : {0, 1, Unread}]]
  /\ sent \subseteq Requests
  /\ ledger \subseteq Requests
  /\ orphans \subseteq Requests
  /\ posts \in [Requests -> Nat]

(* Whoever may still send a request is alone, and has consumed its permit. *)
ConsumedFirst ==
  /\ \A r \in Requests : /\ posts[r] <= 1
                         /\ posts[r] > 0 \/ r \in orphans => r \in ledger
                         /\ r \in orphans => posts[r] = 0
  /\ worker \in {"consumed", "sent"} => phase = "run"
  /\ worker = "consumed" /\ mode = "native" => i \in ledger /\ i \notin orphans /\ posts[i] = 0

(* The rows before the request at work are known; those from it on are empty *)
(* until the run stops at it.                                                *)
RowsInOrder ==
  /\ \A r \in Requests : /\ r > i => results[r] = NotRun /\ r \notin sent
                         /\ r < i => results[r].status \notin {"outcome-unknown", "not-run"}
  /\ phase \in {"validate", "batch", "run"} => results[i] = NotRun
  /\ phase \in {"validate", "batch"} => i = 1 /\ sent = {}
  /\ phase = "done" => results[i].status # "not-run"

(* What was sent for a row, and what the row says of it. *)
RowsAreTrue ==
  /\ mode = "replay" => sent = {}
  /\ mode = "native" => \A r \in Requests : results[r].posts = 1 => r \in sent
  /\ \A r \in Requests : /\ results[r].status = "completed" => results[r].posts = 1
                         /\ r \in sent => results[r].posts # 0
                         /\ results[r].status = "not-run" => results[r].posts = Unread
  /\ worker = "sent" /\ mode = "native" => i \in sent
  /\ phase = "run" /\ worker \in {"start", "consumed"} => i \notin sent

EvaluationInv == EvaluationTyped /\ ConsumedFirst /\ RowsInOrder /\ RowsAreTrue
=============================================================================
