------------------------------ MODULE MCPermits -------------------------------
(*****************************************************************************)
(* The services that spend single-use permits, checked side by side: a       *)
(* behaviour is about one component, and the others rest.  Two directories   *)
(* compete for the permits, so every reservation meets its crash, its copy   *)
(* and its retry.                                                            *)
(*****************************************************************************)
EXTENDS Inference, TLC

CONSTANTS
    Parts,       \* the components this instance runs
    Edits,       \* what an advisory permit may be edited to ask for
    Batch,       \* requests of an evaluation,
    Nemotron,    \*   those of them that go to the Nebius model,
    Auths,       \*   and the authorisations signed for it
    MaxRuns,     \* evaluations of one batch
    Changes,     \* what others do to a pull request meanwhile
    MaxPosts,    \* bound of the pull requests counted
    Qualities,   \* measured qualities of a sandbox run
    MaxFaults,   \* bound of the faults of a publication or a verification
    Lifetimes, Windows, Ages, StartCounts, Runtimes, Ceilings, Committed,
    ComputeRates, AddressRates, DiskRates, Retentions, Spells   \* of permit proposals

VARIABLES part,   \* the component this behaviour is about
    enrichFiles, receipt, at, authority, enrichLedger, enrichExpired, post,
    phase, mode, auth, i, worker, results, sent, spent, evalLedger, evalExpired, orphans,
    posts, live, runs,
    proc, permitFile, intent, readback, answer, publishLedger, publishPosts, inflight,
    pulls, refsMoved, publishExpired, faults,
    pc, row, started, rows, latest, image, sandboxAnswer, sandboxLedger, ops, sandboxFaults,
    input, proposePhase, permit, used

\* Two requests may name the same permit id.
Enrich == INSTANCE Enrichment WITH PermitIds <- Permits, Requests <- Edits,
    files <- enrichFiles, ledger <- enrichLedger, expired <- enrichExpired

\* One batch, evaluated several times.
Evaluate == INSTANCE AdvisoryEvaluation WITH N <- Batch, ledger <- evalLedger, expired <- evalExpired
ASSUME EvaluateConstants == Evaluate!BatchAssumption

\* Two copies of a reviewed report, while others change what Changes names.
Publish == INSTANCE Publication WITH Directories <- Dirs, Environment <- Changes,
    ledger <- publishLedger, posts <- publishPosts, expired <- publishExpired
ASSUME PublishConstants == Publish!PublicationAssumption

\* The base and the candidate instance of a verification ...
Pair == INSTANCE SandboxRun WITH Directories <- Dirs, Roles <- <<"base", "candidate">>,
    MaxOperations <- 2, Faults <- {"crash", "read", "stream", "lost", "upload", "image"},
    answer <- sandboxAnswer, ledger <- sandboxLedger, faults <- sandboxFaults
ASSUME PairConstants == Pair!SandboxAssumption

\* ... and the single instance of a push guard.
Verifier == INSTANCE SandboxRun WITH Directories <- Dirs, Roles <- <<"verifier">>,
    MaxOperations <- 1, Faults <- {"crash", "read", "stream", "lost", "upload", "image"},
    answer <- sandboxAnswer, ledger <- sandboxLedger, faults <- sandboxFaults
ASSUME VerifierConstants == Verifier!SandboxAssumption

\* A permit proposal, and what a runner spends of the permit.
Propose == INSTANCE PermitProposal WITH phase <- proposePhase
ASSUME ProposeConstants == Propose!ProposalAssumption

enrichVars == <<enrichFiles, receipt, at, authority, enrichLedger, enrichExpired, post>>
evalVars == <<phase, mode, auth, i, worker, results, sent, spent, evalLedger, evalExpired,
              orphans, posts, live, runs>>
publishVars == <<proc, permitFile, intent, readback, answer, publishLedger, publishPosts,
                 inflight, pulls, refsMoved, publishExpired, faults>>
sandboxVars == <<pc, row, started, rows, latest, image, sandboxAnswer, sandboxLedger, ops,
                 sandboxFaults>>
proposeVars == <<input, proposePhase, permit, used>>
allVars == <<part, vars, enrichVars, evalVars, publishVars, sandboxVars, proposeVars>>

\* One component runs; the others rest in an initial state of theirs.
MCInit ==
    /\ part \in Parts
    /\ part = "evaluation" \/ (auth = "a1")
    /\ Init
    /\ Enrich!Init
    /\ Evaluate!Init
    /\ Publish!Init
    /\ IF part = "verifier" THEN Verifier!Init ELSE Pair!Init
    /\ Propose!Init

\* A step of one component, which leaves the others as they are.
MainAlone == part = "inference" /\ UNCHANGED <<part, enrichVars, evalVars, publishVars,
                                               sandboxVars, proposeVars>>
EnrichAlone == part = "enrichment" /\ UNCHANGED <<part, vars, evalVars, publishVars,
                                                  sandboxVars, proposeVars>>
EvaluateAlone == part = "evaluation" /\ UNCHANGED <<part, vars, enrichVars, publishVars,
                                                    sandboxVars, proposeVars>>
PublishAlone == part = "publication" /\ UNCHANGED <<part, vars, enrichVars, evalVars,
                                                    sandboxVars, proposeVars>>
PairAlone == part = "pair" /\ UNCHANGED <<part, vars, enrichVars, evalVars, publishVars,
                                          proposeVars>>
VerifierAlone == part = "verifier" /\ UNCHANGED <<part, vars, enrichVars, evalVars,
                                                  publishVars, proposeVars>>
ProposeAlone == part = "proposal" /\ UNCHANGED <<part, vars, enrichVars, evalVars,
                                                 publishVars, sandboxVars>>

MCNext ==
    \/ MainAlone /\ Next
    \/ EnrichAlone /\ Enrich!Next
    \/ EvaluateAlone /\ Evaluate!Next
    \/ PublishAlone /\ Publish!Next
    \/ PairAlone /\ Pair!Next
    \/ VerifierAlone /\ Verifier!Next
    \/ ProposeAlone /\ Propose!Next

MCSpec == MCInit /\ [][MCNext]_allVars

MCFairSpec == MCSpec /\ Fairness /\ Enrich!Fairness /\ Evaluate!Fairness
              /\ Publish!Fairness /\ Pair!Fairness

\* Directories and permits are interchangeable.
Interchangeable == Permutations(Dirs) \cup Permutations(Permits)

-----------------------------------------------------------------------------
\* The commands and the journals of publication and verification keep their
\* ranges.
MCTypeOK ==
    /\ part = "publication" => Publish!TypeOK
    /\ part = "pair" => Pair!TypeOK
    /\ part = "verifier" => Verifier!TypeOK

\* However a permit is edited, copied or used again after a crash, it pays for
\* one enrichment request (ledger of enrich.ts), and what a permit's create
\* request made stays what its directory names (publish.ts readback).
SpentOnce == Enrich!OnePostPerPermit /\ Publish!NumberIsStable

\* What is done outside was authorised and recorded first: crashed evaluators
\* and their orphaned workers send no request twice (evaluate.mjs); a create
\* request on the wire has its permit and intent on disk (runPublish), and its
\* permit pays for no other (consumePermit); a sandbox permit starts each role
\* once, at most maxOperations of them (consumePermit), and an instance that may
\* exist is in its journal (beforePost); what a proposed permit lets be spent is
\* within its ceiling.
WithinAuthority ==
    /\ part = "evaluation" => Evaluate!SentOnce
    /\ part = "publication" => Publish!PostIsJournaled /\ Publish!OnePostPerPermit
    /\ part = "pair" => Pair!AuthorityIsKept /\ Pair!InstanceIsJournaled
    /\ part = "verifier" => Verifier!AuthorityIsKept /\ Verifier!InstanceIsJournaled
    /\ part = "proposal" => Propose!SpendWithinCeiling

\* No command answers more than it can know. An inference whose request may
\* have been sent is not failed, and a recorded decision reads back (service.ts);
\* an inspection is never more certain than the truth (enrich.ts); an evaluation
\* stops at an unknown outcome, accounts for what was sent and qualifies only
\* what it measured (evaluate.mjs); published is said of a pull request that
\* exists (publish.ts finish); a definite verdict means that no instance still
\* runs and a verified one that all succeeded without regression (artifactFor).
AnswersAreTrue ==
    /\ MCTypeOK
    /\ part = "inference" => UnknownIsReported /\ DecisionReadsBack
    /\ part = "enrichment" => Enrich!InspectionIsTrue
    /\ part = "evaluation" => /\ Evaluate!StopsAtUnknown /\ Evaluate!AccountIsHonest
                              /\ Evaluate!QualifiedIsMeasured
    /\ part = "publication" => Publish!PublishedExists
    /\ part = "pair" => Pair!DefiniteMeansOver /\ Pair!VerifiedIsEarned
    /\ part = "verifier" => Verifier!DefiniteMeansOver /\ Verifier!VerifiedIsEarned

\* A command that spends a permit ends although the provider never answers; a
\* pull request that is left alone is found by a status that is asked again and
\* again (reconcilePublication), and an instance whose id is known is finally
\* recorded as over (verify.ts recover).
OutcomesSettle ==
    /\ CommandEnds /\ Enrich!EnrichEnds /\ Evaluate!EvaluationEnds
    /\ Publish!JournaledIsResolved /\ Pair!KnownIsSettled

=============================================================================
