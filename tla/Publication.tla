---------------------------- MODULE Publication ----------------------------
(***************************************************************************)
(* `optimize publish` and its read-only reconciliation (optimize status):  *)
(* packages/cli/src/optimization/publish.ts over the operation store and   *)
(* the permit ledger of store.ts.                                          *)
(*                                                                         *)
(* One reviewed report may be present in several directories (the report   *)
(* with its evidence is a plain directory, so it can be copied); each has  *)
(* one fixed publication directory, whose lock admits one command at a     *)
(* time, so a directory is a process.  The permit ledger is shared.  Every *)
(* file write, read and request is a step of its own and a command can die *)
(* between any two of them.  GitHub is external: a request already sent is *)
(* carried out later, also when its sender is gone, and one head has at    *)
(* most one open pull request.                                             *)
(***************************************************************************)
EXTENDS Integers, Sequences

CONSTANTS
    Directories,     \* copies of the reviewed report
    Permits,         \* publication permits issued for it (by digest)
    Environment,     \* what others do meanwhile: "refs", "close", "edit", "unmark", "expire"
    MaxFaults,       \* bound: crashes and failed reads
    MaxPosts         \* bound of the counters (a permit is posted once in the code)

NoPermit == "no permit"

PublicationAssumption ==
    /\ Environment \subseteq {"refs", "close", "edit", "unmark", "expire"}
    /\ MaxFaults \in Nat /\ MaxPosts \in Nat
    /\ NoPermit \notin Permits

NoIntent == [permit |-> NoPermit, status |-> "none", number |-> 0]

VARIABLES
    proc,        \* the command running in each directory
    permitFile,  \* publication-permit.json
    intent,      \* intent.json
    readback,    \* number in publication-readback.json, 0 without the file
    answer,      \* what the last command of the directory told the operator
    ledger,      \* permits with a reservation
    posts,       \* create requests sent under each permit
    inflight,    \* directories whose request GitHub has not carried out
    pulls,       \* GitHub's pull requests for this head, by number
    refsMoved,   \* the base or head ref left the reviewed commit
    expired,     \* permits past their expiry
    faults

disk == <<permitFile, intent, readback>>
github == <<pulls, refsMoved>>
vars == <<proc, disk, answer, ledger, posts, inflight, github, expired, faults>>

Idle == [pc |-> "idle", permit |-> NoPermit, could |-> FALSE, found |-> 0, status |-> FALSE]

\* "withdrawn": closed, and its marker removed
PullStates == {"open", "closed", "edited", "unmarked", "withdrawn"}
IntentStatus == {"none", "intent", "published", "outcome-unknown"}
Steps == {"idle", "open", "refs", "lookup", "source", "existing", "writePermit", "writeIntent",
          "recheck", "consume", "authorize", "post", "confirm", "artifact", "intent"}

TypeOK ==
    /\ proc \in [Directories -> [pc : Steps, permit : Permits \cup {NoPermit}, could : BOOLEAN,
                                 found : 0 .. MaxPosts, status : BOOLEAN]]
    /\ permitFile \in [Directories -> Permits \cup {NoPermit}]
    /\ intent \in [Directories -> [permit : Permits \cup {NoPermit}, status : IntentStatus,
                                   number : 0 .. MaxPosts]]
    /\ readback \in [Directories -> 0 .. MaxPosts]
    /\ answer \in [Directories -> {"none", "published", "outcome-unknown", "rejected"}]
    /\ ledger \subseteq Permits /\ expired \subseteq Permits
    /\ posts \in [Permits -> 0 .. MaxPosts]
    /\ inflight \subseteq Directories
    /\ pulls \in Seq(PullStates) /\ Len(pulls) <= MaxPosts
    /\ refsMoved \in BOOLEAN /\ faults \in 0 .. MaxFaults

Init ==
    /\ proc = [d \in Directories |-> Idle]
    /\ permitFile = [d \in Directories |-> NoPermit]
    /\ intent = [d \in Directories |-> NoIntent]
    /\ readback = [d \in Directories |-> 0]
    /\ answer = [d \in Directories |-> "none"]
    /\ ledger = {} /\ expired = {} /\ inflight = {}
    /\ posts = [p \in Permits |-> 0]
    /\ pulls = <<>> /\ refsMoved = FALSE /\ faults = 0

-----------------------------------------------------------------------------
At(d, pc) == proc[d].pc = pc
Goto(d, pc) == proc' = [proc EXCEPT ![d].pc = pc]

\* The command ends with this answer; the lock is released, the locals are gone.
Answer(d, a) ==
    /\ answer' = [answer EXCEPT ![d] = a]
    /\ proc' = [proc EXCEPT ![d] = Idle]

(* An exception: a known reason (ref drift, marker conflict, bad permit)
   rejects a status; every other failure, and every failure of a publish, is
   outcome-unknown exactly when the effect could have occurred. *)
Failed(d, known) ==
    Answer(d, IF proc[d].could /\ ~(proc[d].status /\ known) THEN "outcome-unknown" ELSE "rejected")

\* The pull requests whose body carries the marker (state=all, every page).
Marked == {n \in 1 .. Len(pulls) : pulls[n] \notin {"unmarked", "withdrawn"}}

\* More than one match, or one that is not the exact open request, is a conflict.
LookupConflict ==
    \/ \E m, n \in Marked : m # n
    \/ \E n \in Marked : pulls[n] # "open"

LookupFound == IF Marked = {} THEN 0 ELSE CHOOSE n \in Marked : TRUE

UNCHANGEDButAnswer == UNCHANGED <<disk, ledger, posts, inflight, github, expired, faults>>

-----------------------------------------------------------------------------
\* runPublish: the reviewed report is read and the permit decoded.
Publish(d, p) ==
    /\ At(d, "idle")
    /\ IF p \in expired
       THEN Answer(d, "rejected")
       ELSE /\ proc' = [proc EXCEPT ![d] = [Idle EXCEPT !.pc = "open", !.permit = p]]
            /\ UNCHANGED answer
    /\ UNCHANGEDButAnswer

\* reconcilePublication: without a readable intent there is nothing to recover.
Status(d) ==
    /\ At(d, "idle")
    /\ IF intent[d] = NoIntent
       THEN Answer(d, "rejected")
       ELSE /\ proc' = [proc EXCEPT ![d] = [Idle EXCEPT
                  !.pc = "refs", !.permit = permitFile[d], !.status = TRUE,
                  !.could = intent[d].status # "published"]]
            /\ UNCHANGED answer
    /\ UNCHANGEDButAnswer

\* An existing intent is only ever read back, and only under its own permit.
OpenDirectory(d) ==
    /\ At(d, "open")
    /\ \/ /\ intent[d] = NoIntent
          /\ Goto(d, "source")
          /\ UNCHANGED answer
       \/ /\ intent[d] # NoIntent
          /\ intent[d].permit = proc[d].permit
          /\ proc' = [proc EXCEPT ![d].pc = "refs", ![d].could = intent[d].status # "published"]
          /\ UNCHANGED answer
       \/ /\ intent[d] # NoIntent
          /\ intent[d].permit # proc[d].permit
          /\ Failed(d, FALSE)
    /\ UNCHANGEDButAnswer

\* refsReadback, before a read-only lookup, before the first write and before the request.
ReadRefs(d, from, to) ==
    /\ At(d, from)
    /\ IF refsMoved
       THEN Failed(d, TRUE)
       ELSE Goto(d, to) /\ UNCHANGED answer
    /\ UNCHANGEDButAnswer

\* lookup of an earlier effect: the read-only path of publish and status.
Lookup(d) ==
    /\ At(d, "lookup")
    /\ IF LookupConflict
       THEN Failed(d, TRUE)
       ELSE /\ proc' = [proc EXCEPT ![d].pc = "artifact", ![d].found = LookupFound]
            /\ UNCHANGED answer
    /\ UNCHANGEDButAnswer

\* lookup before the first write; the permit is decoded again after it.
LookupExisting(d) ==
    /\ At(d, "existing")
    /\ IF LookupConflict \/ proc[d].permit \in expired
       THEN Failed(d, TRUE)
       ELSE /\ proc' = [proc EXCEPT ![d].pc = "writePermit", ![d].found = LookupFound]
            /\ UNCHANGED answer
    /\ UNCHANGEDButAnswer

\* writeJson without replaceIntent refuses a file that exists.
WritePermit(d) ==
    /\ At(d, "writePermit")
    /\ IF permitFile[d] # NoPermit
       THEN Failed(d, FALSE) /\ UNCHANGED permitFile
       ELSE /\ permitFile' = [permitFile EXCEPT ![d] = proc[d].permit]
            /\ Goto(d, "writeIntent")
            /\ UNCHANGED answer
    /\ UNCHANGED <<intent, readback, ledger, posts, inflight, github, expired, faults>>

WriteIntent(d) ==
    /\ At(d, "writeIntent")
    /\ intent' = [intent EXCEPT ![d] = [permit |-> proc[d].permit, status |-> "intent", number |-> 0]]
    /\ Goto(d, IF proc[d].found # 0 THEN "artifact" ELSE "recheck")
    /\ UNCHANGED <<permitFile, readback, answer, ledger, posts, inflight, github, expired, faults>>

(* The permit is decoded and consumePermit reserves it (maximum 1) before
   anything is sent; the ledger outlives the command and serves every
   directory. *)
ConsumePermit(d) ==
    /\ At(d, "consume")
    /\ IF proc[d].permit \in expired \cup ledger
       THEN Failed(d, TRUE) /\ UNCHANGED ledger
       ELSE /\ ledger' = ledger \cup {proc[d].permit}
            /\ Goto(d, "authorize")
            /\ UNCHANGED answer
    /\ UNCHANGED <<disk, posts, inflight, github, expired, faults>>

\* decodePublicationPermit once more: from here on the effect could occur.
Authorize(d) ==
    /\ At(d, "authorize")
    /\ IF proc[d].permit \in expired
       THEN Failed(d, TRUE)
       ELSE /\ proc' = [proc EXCEPT ![d].pc = "post", ![d].could = TRUE]
            /\ UNCHANGED answer
    /\ UNCHANGEDButAnswer

\* createPull: an expired permit, like every error of the request, is swallowed.
CreatePull(d) ==
    /\ At(d, "post")
    /\ LET p == proc[d].permit IN
       IF p \in expired
       THEN UNCHANGED <<posts, inflight>>
       ELSE /\ posts[p] < MaxPosts
            /\ posts' = [posts EXCEPT ![p] = @ + 1]
            /\ inflight' = inflight \cup {d}
    /\ Goto(d, "confirm")
    /\ UNCHANGED <<disk, answer, ledger, github, expired, faults>>

(* The answer of the request (or its timeout) is ignored; the lookup after it
   decides, and one that fails or conflicts leaves the outcome unresolved. *)
Confirm(d) ==
    /\ At(d, "confirm")
    /\ \E seen \in {0, IF LookupConflict THEN 0 ELSE LookupFound} :
          proc' = [proc EXCEPT ![d].pc = "artifact", ![d].found = seen]
    /\ UNCHANGEDButAnswer
    /\ UNCHANGED answer

(* finish: the artifact, and with a pull request its readback, which must
   agree with one written before. *)
WriteArtifact(d) ==
    /\ At(d, "artifact")
    /\ LET n == proc[d].found IN
       IF n # 0 /\ readback[d] \notin {0, n}
       THEN Failed(d, FALSE) /\ UNCHANGED readback
       ELSE /\ readback' = IF n = 0 THEN readback ELSE [readback EXCEPT ![d] = n]
            /\ Goto(d, "intent")
            /\ UNCHANGED answer
    /\ UNCHANGED <<permitFile, intent, ledger, posts, inflight, github, expired, faults>>

FinishIntent(d) ==
    /\ At(d, "intent")
    /\ LET n == proc[d].found
           status == IF n # 0 THEN "published" ELSE "outcome-unknown"
       IN  /\ intent' = [intent EXCEPT ![d].status = status, ![d].number = n]
           /\ Answer(d, status)
    /\ UNCHANGED <<permitFile, readback, ledger, posts, inflight, github, expired, faults>>

-----------------------------------------------------------------------------
\* A failed GitHub read throws; after the request it is swallowed (Confirm).
ReadFails(d) ==
    /\ proc[d].pc \in {"refs", "lookup", "source", "existing", "recheck"}
    /\ faults < MaxFaults /\ faults' = faults + 1
    /\ Failed(d, FALSE)
    /\ UNCHANGED <<disk, ledger, posts, inflight, github, expired>>

\* The process dies; the disk, the ledger and a request on the wire stay.
Crash(d) ==
    /\ ~At(d, "idle")
    /\ faults < MaxFaults /\ faults' = faults + 1
    /\ proc' = [proc EXCEPT ![d] = Idle]
    /\ UNCHANGED <<disk, answer, ledger, posts, inflight, github, expired>>

\* GitHub carries out a request: one open pull request per head and base.
GitHubCreates(d) ==
    /\ d \in inflight
    /\ inflight' = inflight \ {d}
    /\ IF Len(pulls) = MaxPosts \/ \E n \in 1 .. Len(pulls) : pulls[n] \notin {"closed", "withdrawn"}
       THEN UNCHANGED pulls
       ELSE pulls' = Append(pulls, "open")
    /\ UNCHANGED <<proc, disk, answer, ledger, posts, refsMoved, expired, faults>>

\* People close a pull request or edit its text.
PullChanges(change, from, to) ==
    /\ change \in Environment
    /\ \E n \in 1 .. Len(pulls) :
          pulls[n] = from /\ pulls' = [pulls EXCEPT ![n] = to]
    /\ UNCHANGED <<proc, disk, answer, ledger, posts, inflight, refsMoved, expired, faults>>

RefsMove ==
    /\ "refs" \in Environment /\ ~refsMoved
    /\ refsMoved' = TRUE
    /\ UNCHANGED <<proc, disk, answer, ledger, posts, inflight, pulls, expired, faults>>

PermitExpires(p) ==
    /\ "expire" \in Environment /\ p \notin expired
    /\ expired' = expired \cup {p}
    /\ UNCHANGED <<proc, disk, answer, ledger, posts, inflight, github, faults>>

-----------------------------------------------------------------------------
\* The next step of the command running in a directory.
Step(d) ==
    \/ OpenDirectory(d)
    \/ ReadRefs(d, "refs", "lookup")
    \/ Lookup(d)
    \/ ReadRefs(d, "source", "existing")
    \/ LookupExisting(d)
    \/ WritePermit(d)
    \/ WriteIntent(d)
    \/ ReadRefs(d, "recheck", "consume")
    \/ ConsumePermit(d)
    \/ Authorize(d)
    \/ CreatePull(d)
    \/ Confirm(d)
    \/ WriteArtifact(d)
    \/ FinishIntent(d)

Next ==
    \/ \E d \in Directories : Step(d) \/ Status(d) \/ ReadFails(d) \/ Crash(d) \/ GitHubCreates(d)
    \/ \E d \in Directories, p \in Permits : Publish(d, p)
    \/ PullChanges("close", "open", "closed")
    \/ PullChanges("close", "unmarked", "withdrawn")
    \/ PullChanges("edit", "open", "edited")
    \/ PullChanges("unmark", "open", "unmarked")
    \/ RefsMove
    \/ \E p \in Permits : PermitExpires(p)

Spec == Init /\ [][Next]_vars

(* A command that runs goes on, a request on the wire is carried out and the
   operator keeps asking for the status: what the runbook of an unresolved
   publication tells them to do. *)
Fairness ==
    /\ \A d \in Directories : WF_vars(Step(d)) /\ WF_vars(GitHubCreates(d)) /\ SF_vars(intent[d] # NoIntent /\ Status(d))

\* The operator retries the publication itself.
RetrySpec == Spec /\ \A d \in Directories : WF_vars(Step(d)) /\ \A p \in Permits : SF_vars(Publish(d, p))

-----------------------------------------------------------------------------
(* One permit authorizes one create request, across every copy of the
   report, every crash and every repetition of the command
   (consumePermit, maxCreates). *)
OnePostPerPermit == \A p \in Permits : posts[p] <= 1

(* A request on the wire always has a journal from which status can start:
   the permit and the intent of some directory were on disk before it
   (runPublish, order of the writes). *)
PostIsJournaled ==
    \A p \in Permits : posts[p] > 0 =>
        \E d \in Directories : permitFile[d] = p /\ intent[d].permit = p

(* "published" is only recorded for a pull request GitHub has, under the
   number GitHub gave it, never inferred from a request that was sent
   (runPublish, finish). *)
PublishedExists ==
    \A d \in Directories :
        /\ intent[d].status = "published" => intent[d].number \in 1 .. Len(pulls)
        /\ answer[d] = "published" => pulls # <<>>

(* A publication directory never changes from one pull request to another:
   once a number is recorded, later readbacks keep it or leave the outcome
   open (finish, publication-readback.json). *)
NumberIsStable ==
    [][\A d \in Directories : readback[d] # 0 =>
          /\ readback'[d] = readback[d]
          /\ intent'[d].number \in {0, readback[d]}]_vars

(* A pull request that exists and is left alone is found: with the refs in
   place every journaled publication ends as published, whatever crashed or
   was lost before (reconcilePublication). *)
JournaledIsResolved ==
    \A d \in Directories :
        (intent[d] # NoIntent /\ pulls # <<>>) ~> (intent[d].status = "published")

(* The plan of the optimization: "status recovers from journal" after a crash
   between artifact writes, so a directory with the first artifact of a
   publication gets its intent when the operator retries. *)
InterruptedWritesRecover ==
    \A d \in Directories : (permitFile[d] # NoPermit) ~> (intent[d] # NoIntent)

(* The plan, for a lost answer: "return same PR or remain outcome-unknown".
   A status that has not confirmed the pull request never answers rejected
   while the request may have created one. *)
LostAnswerStaysUnknown ==
    [][\A d \in Directories :
          (proc[d].status /\ answer'[d] = "rejected" /\ proc'[d] = Idle
             /\ intent[d].status \in {"intent", "outcome-unknown"})
          => pulls = <<>>]_vars
=============================================================================
