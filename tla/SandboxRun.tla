---------------------------- MODULE SandboxRun ----------------------------
(***************************************************************************)
(* `optimize verify`, its status and its cancellation: verify.ts (a base   *)
(* and a candidate instance) and push-verify.ts (one verifier instance)    *)
(* over the client of sandbox.ts and the permit ledger of store.ts.  Both  *)
(* families run the same protocol over a list of Roles.                    *)
(*                                                                         *)
(* An output directory admits one command at a time (its lock), so it is a *)
(* process; the ledger is shared.  The provider is external: a create      *)
(* request already sent is accepted or refused later, also when its sender *)
(* is gone, and an instance ends by itself.  The artifact and the journal  *)
(* entry naming it are one step: an artifact no journal names is ignored   *)
(* by every reader.                                                        *)
(***************************************************************************)
EXTENDS Integers, Sequences, SequenceTheorems, FiniteSetTheorems, TLAPS

CONSTANTS
    Directories,     \* output directories given the same permit
    Roles,           \* <<"base", "candidate">> or <<"verifier">>
    MaxOperations,   \* maxOperations of the permit
    Qualities,       \* measured quality of an instance's output (0: not acceptable)
    Faults,          \* what may go wrong: "crash", "read", "stream", "lost", "upload", "image"
    MaxFaults        \* bound of their number

SandboxAssumption ==
    /\ Roles \in Seq(STRING) /\ Roles # <<>> /\ MaxOperations \in Nat /\ MaxFaults \in Nat
    /\ Qualities \subseteq Nat
    /\ Faults \subseteq {"crash", "read", "stream", "lost", "upload", "image"}

RoleIndex == 1 .. Len(Roles)
Terminal == {"SUCCESS", "FAILED", "CANCELLED"}
Verdicts == {"none", "failed", "outcome-unknown", "sandbox-verified"}

VARIABLES
    pc, row,     \* the command in each directory, and the role it works on
    started,     \* the journal intent.json exists
    rows,        \* roles of the journal: what is on disk about each instance
    latest,      \* verdict of the artifact the journal names
    image,       \* image-readback.json exists
    answer,      \* last answer to the operator
    ledger,      \* roles reserved under the permit
    ops,         \* provider: the instance of each directory and role
    faults

journal == <<started, rows, latest, image>>
vars == <<pc, row, journal, answer, ledger, ops, faults>>

Row == [create : {"intent", "created", "failed", "outcome-unknown"}, intent : BOOLEAN,
        record : BOOLEAN, receipt : {"none", "running"} \cup Terminal,
        envelope : Qualities \cup {0}, cancel : BOOLEAN]
Operation == [st : {"none", "sent", "refused", "running"} \cup Terminal, q : Qualities \cup {0}]

TypeOK ==
    /\ pc \in [Directories -> {"idle", "image", "reserve", "upload", "intent", "post", "await",
                               "poll", "cancel", "delete", "drain", "recover", "ownership",
                               "recoverCancel", "recoverDelete", "recoverDrain", "finish", "finishRecovery"}]
    /\ row \in [Directories -> RoleIndex]
    /\ started \in [Directories -> BOOLEAN] /\ image \in [Directories -> BOOLEAN]
    /\ rows \in [Directories -> Seq(Row)]
    /\ \A d \in Directories : Len(rows[d]) <= Len(Roles)
    /\ latest \in [Directories -> Verdicts]
    /\ answer \in [Directories -> Verdicts \cup {"rejected"}]
    /\ ledger \subseteq RoleIndex
    /\ ops \in [Directories -> [RoleIndex -> Operation]]
    /\ faults \in 0 .. MaxFaults

Init ==
    /\ pc = [d \in Directories |-> "idle"] /\ row = [d \in Directories |-> 1]
    /\ started = [d \in Directories |-> FALSE] /\ image = [d \in Directories |-> FALSE]
    /\ rows = [d \in Directories |-> <<>>]
    /\ latest = [d \in Directories |-> "none"] /\ answer = [d \in Directories |-> "none"]
    /\ ledger = {} /\ faults = 0
    /\ ops = [d \in Directories |-> [i \in RoleIndex |-> [st |-> "none", q |-> 0]]]

-----------------------------------------------------------------------------
At(d, at) == pc[d] = at
Goto(d, to) == pc' = [pc EXCEPT ![d] = to]
Fault(kind) == kind \in Faults /\ faults < MaxFaults /\ faults' = faults + 1

\* The instance the command is working on, and its row in the journal.
Op(d) == ops[d][row[d]]
SetRow(d, r) == rows' = [rows EXCEPT ![d][row[d]] = r]

(* artifactFor: verified needs every role's envelope, unknown is an instance
   that may exist and is not known to be over. *)
Known(rs) == rs # <<>> /\ \A i \in 1 .. Len(rs) : rs[i].record /\ rs[i].receipt \in Terminal
Clean(rs) == Len(rs) = Len(Roles) /\ \A i \in 1 .. Len(rs) : rs[i].envelope # 0 /\ rs[i].receipt = "SUCCESS"

\* compareQuality throws when the candidate covers less than the base.
QualityRegressed(rs) == Clean(rs) /\ rs[Len(rs)].envelope < rs[1].envelope

artifactFor(rs) ==
    IF Clean(rs) THEN "sandbox-verified"
    ELSE IF ~Known(rs) /\ \E i \in 1 .. Len(rs) : rs[i].intent /\ rs[i].create # "failed"
    THEN "outcome-unknown"
    ELSE "failed"

-----------------------------------------------------------------------------
(* verifyPair, verifyPushGuard: an existing journal is never run again;
   otherwise the context and the first journal are written. *)
Verify(d) ==
    /\ At(d, "idle")
    /\ IF started[d]
       THEN answer' = [answer EXCEPT ![d] = "outcome-unknown"] /\ UNCHANGED <<pc, row, started>>
       ELSE /\ started' = [started EXCEPT ![d] = TRUE]
            /\ row' = [row EXCEPT ![d] = 1]
            /\ Goto(d, "image")
            /\ UNCHANGED answer
    /\ UNCHANGED <<rows, latest, image, ledger, ops, faults>>

\* inspectImage: a failed readback ends the run without an instance.
InspectImage(d) ==
    /\ At(d, "image")
    /\ \/ /\ Fault("image") /\ Goto(d, "finish") /\ UNCHANGED image
       \/ /\ image' = [image EXCEPT ![d] = TRUE] /\ Goto(d, "reserve") /\ UNCHANGED faults
    /\ UNCHANGED <<row, started, rows, latest, answer, ledger, ops>>

EmptyRow == [create |-> "intent", intent |-> FALSE, record |-> FALSE, receipt |-> "none",
             envelope |-> 0, cancel |-> FALSE]

\* The create call ended before anything was posted: the row is journaled as failed.
CreateFailed(d) ==
    /\ rows' = [rows EXCEPT ![d] = IF Len(@) < row[d] THEN Append(@, [EmptyRow EXCEPT !.create = "failed"])
                                   ELSE [@ EXCEPT ![row[d]].create = "failed"]]
    /\ Goto(d, "finish")

\* consumePermit for this role and payload, before any source byte leaves.
Reserve(d) ==
    /\ At(d, "reserve")
    /\ \/ /\ row[d] \in ledger \/ Cardinality(ledger) >= MaxOperations
          /\ CreateFailed(d)
          /\ UNCHANGED ledger
       \/ /\ row[d] \notin ledger /\ Cardinality(ledger) < MaxOperations
          /\ ledger' = ledger \cup {row[d]}
          /\ Goto(d, "upload")
          /\ UNCHANGED rows
    /\ UNCHANGED <<row, started, latest, image, answer, ops, faults>>

\* The payload is uploaded; the upload starts nothing.
Upload(d) ==
    /\ At(d, "upload")
    /\ \/ Fault("upload") /\ CreateFailed(d)
       \/ Goto(d, "intent") /\ UNCHANGED <<rows, faults>>
    /\ UNCHANGED <<row, started, latest, image, answer, ledger, ops>>

\* Mutant: the instance is requested before its intent is on disk.
PostBeforeIntent(d) ==
    /\ At(d, "intent")
    /\ ops' = [ops EXCEPT ![d][row[d]].st = "sent"]
    /\ Goto(d, "await")
    /\ UNCHANGED <<row, journal, answer, ledger, faults>>

\* beforePost: the row with its intent is on disk before the request.
JournalIntent(d) ==
    /\ At(d, "intent")
    /\ rows' = [rows EXCEPT ![d] = Append(@, [EmptyRow EXCEPT !.intent = TRUE])]
    /\ Goto(d, "post")
    /\ UNCHANGED <<row, started, latest, image, answer, ledger, ops, faults>>

PostInstance(d) ==
    /\ At(d, "post")
    /\ ops' = [ops EXCEPT ![d][row[d]].st = "sent"]
    /\ Goto(d, "await")
    /\ UNCHANGED <<row, journal, answer, ledger, faults>>

(* The answer: 201 names the instance and is journaled with its record (a bad
   body after it leaves the creation unknown, record and all), 4xx refuses it,
   anything else leaves the creation unknown. *)
AwaitCreated(d) ==
    /\ At(d, "await")
    /\ \/ /\ Op(d).st \notin {"sent", "refused"}
          /\ SetRow(d, [rows[d][row[d]] EXCEPT !.record = TRUE, !.create = "created"])
          /\ Goto(d, "poll") /\ UNCHANGED faults
       \/ /\ Op(d).st \notin {"sent", "refused"} /\ Fault("lost")
          /\ SetRow(d, [rows[d][row[d]] EXCEPT !.record = TRUE, !.create = "outcome-unknown"])
          /\ Goto(d, "finish")
       \/ /\ Op(d).st = "refused"
          /\ CreateFailed(d) /\ UNCHANGED faults
       \/ /\ Fault("lost")
          /\ SetRow(d, [rows[d][row[d]] EXCEPT !.create = "outcome-unknown"])
          /\ Goto(d, "finish")
    /\ UNCHANGED <<row, started, latest, image, answer, ledger, ops>>

-----------------------------------------------------------------------------
(* readWithin: what one read of the instance yields, as the pair of receipt
   and envelope acceptResult journals.  An unreadable answer has neither; a
   stream that cannot be read leaves a SUCCESS without its envelope. *)
Observed(d) ==
    [receipt |-> Op(d).st, envelope |-> IF Op(d).st = "SUCCESS" THEN Op(d).q ELSE 0]
Unreadable == [receipt |-> "none", envelope |-> 0]
Streamless == [receipt |-> "SUCCESS", envelope |-> 0]

acceptResult(d, seen) ==
    SetRow(d, [rows[d][row[d]] EXCEPT !.receipt = seen.receipt, !.envelope = seen.envelope])

(* One read of the instance.  Only the first of these takes no fault: the
   answer is unreadable, or the streams of a finished instance are. *)
ReadYields(d, seen) ==
    \/ seen = Observed(d) /\ UNCHANGED faults
    \/ seen = Unreadable /\ Fault("read")
    \/ seen = Streamless /\ Op(d).st = "SUCCESS" /\ Fault("stream")
Reads(d) == {Observed(d), Unreadable, Streamless}

\* The next role, after an envelope; the end of the run otherwise.
AfterResult(d, seen) ==
    IF seen.envelope # 0 /\ row[d] < Len(Roles)
    THEN Goto(d, "reserve") /\ row' = [row EXCEPT ![d] = @ + 1]
    ELSE Goto(d, "finish") /\ UNCHANGED row

(* poll: reads until the instance is over; an unreadable answer ends it, and
   a deadline hands over to cancel. *)
Poll(d) ==
    /\ At(d, "poll")
    /\ \/ \E seen \in Reads(d) :
             /\ seen.receipt # "running"
             /\ ReadYields(d, seen) /\ acceptResult(d, seen) /\ AfterResult(d, seen)
       \/ /\ Op(d).st = "running"
          /\ Goto(d, "cancel") /\ UNCHANGED <<rows, row, faults>>
    /\ UNCHANGED <<started, latest, image, answer, ledger, ops>>

(* cancel reads first.  A running instance gets its cancellation journaled
   before the DELETE; what is over or unreadable is accepted as it is. *)
CancelRead(d) ==
    /\ pc[d] \in {"cancel", "recoverCancel"}
    /\ \E seen \in Reads(d) :
          /\ ReadYields(d, seen)
          /\ \/ /\ seen.receipt = "running"
                /\ SetRow(d, [rows[d][row[d]] EXCEPT !.cancel = TRUE])
                /\ Goto(d, IF At(d, "cancel") THEN "delete" ELSE "recoverDelete")
                /\ UNCHANGED row
             \/ /\ seen.receipt # "running" /\ acceptResult(d, seen)
                /\ IF At(d, "cancel") THEN AfterResult(d, seen)
                   ELSE Goto(d, "finishRecovery") /\ UNCHANGED row
    /\ UNCHANGED <<started, latest, image, answer, ledger, ops>>

\* DELETE is only accepted (202); the instance may have ended before.
DeleteInstance(d) ==
    /\ pc[d] \in {"delete", "recoverDelete"}
    /\ \/ Op(d).st = "running" /\ ops' = [ops EXCEPT ![d][row[d]].st = "CANCELLED"]
       \/ UNCHANGED ops
    /\ Goto(d, IF At(d, "delete") THEN "drain" ELSE "recoverDrain")
    /\ UNCHANGED <<row, journal, answer, ledger, faults>>

\* Mutant: an accepted DELETE counts as the end of the instance.
AfterDeleteAssumed(d) ==
    /\ pc[d] \in {"drain", "recoverDrain"}
    /\ acceptResult(d, [receipt |-> "CANCELLED", envelope |-> 0])
    /\ Goto(d, IF At(d, "drain") THEN "finish" ELSE "finishRecovery")
    /\ UNCHANGED <<row, started, latest, image, answer, ledger, ops, faults>>

\* After DELETE: terminal readback, or none before the deadline.
AfterDelete(d) ==
    /\ pc[d] \in {"drain", "recoverDrain"}
    /\ \E seen \in {Observed(d), Unreadable} :
          /\ seen.receipt # "running"
          /\ acceptResult(d, seen)
          /\ IF At(d, "drain") THEN AfterResult(d, seen)
             ELSE Goto(d, "finishRecovery") /\ UNCHANGED row
    /\ UNCHANGED <<started, latest, image, answer, ledger, ops, faults>>

\* Mutant: an instance whose receipt could not be read is not asked for again.
OutstandingRead(d) ==
    {i \in 1 .. Len(rows[d]) : rows[d][i].record /\ rows[d][i].receipt = "running"}

-----------------------------------------------------------------------------
(* The last row with a record and without an envelope for a finished
   instance: the only one that can be outstanding, since a role starts after
   the envelope of the one before. *)
Outstanding(d) ==
    {i \in 1 .. Len(rows[d]) :
        rows[d][i].record /\ ~(rows[d][i].receipt \in Terminal /\ rows[d][i].envelope # 0)}

(* recover, status and cancel: without a journal, and after a run that ended
   without the image readback its artifact is bound to, it is rejected. *)
Recover(d, cancel) ==
    /\ At(d, "idle")
    /\ \/ /\ ~started[d] \/ (latest[d] # "none" /\ ~image[d])
          /\ answer' = [answer EXCEPT ![d] = "rejected"]
          /\ UNCHANGED <<pc, row>>
       \/ /\ started[d] /\ image[d] /\ latest[d] = "sandbox-verified"
          /\ answer' = [answer EXCEPT ![d] = "sandbox-verified"]
          /\ UNCHANGED <<pc, row>>
       \/ /\ started[d] /\ (image[d] \/ latest[d] = "none") /\ latest[d] # "sandbox-verified"
          /\ UNCHANGED answer
          /\ IF Outstanding(d) = {}
             THEN Goto(d, "finishRecovery") /\ UNCHANGED row
             ELSE /\ row' = [row EXCEPT ![d] = CHOOSE i \in Outstanding(d) : TRUE]
                  /\ Goto(d, IF cancel THEN "ownership" ELSE "recover")
    /\ UNCHANGED <<journal, ledger, ops, faults>>

\* An instance that cannot be read is not cancelled.
CheckOwnership(d) ==
    /\ At(d, "ownership")
    /\ \/ Goto(d, "recoverCancel") /\ UNCHANGED <<answer, faults>>
       \/ /\ Fault("read")
          /\ answer' = [answer EXCEPT ![d] = "rejected"]
          /\ Goto(d, "idle")
    /\ UNCHANGED <<row, journal, ledger, ops>>

\* status: one read of the outstanding instance, accepted as it is.
RecoverRead(d) ==
    /\ At(d, "recover")
    /\ \E seen \in Reads(d) : ReadYields(d, seen) /\ acceptResult(d, seen)
    /\ Goto(d, "finishRecovery")
    /\ UNCHANGED <<row, started, latest, image, answer, ledger, ops>>

\* finish: the verdict of the journal, unless the quality comparison throws.
Finish(d) ==
    /\ pc[d] \in {"finish", "finishRecovery"}
    /\ IF QualityRegressed(rows[d])
       THEN /\ answer' = [answer EXCEPT ![d] = IF At(d, "finish") THEN "failed" ELSE "rejected"]
            /\ UNCHANGED latest
       ELSE /\ latest' = [latest EXCEPT ![d] = artifactFor(rows[d])]
            /\ answer' = [answer EXCEPT ![d] = artifactFor(rows[d])]
    /\ Goto(d, "idle")
    /\ UNCHANGED <<row, started, rows, image, ledger, ops, faults>>

-----------------------------------------------------------------------------
\* The process dies; journal, ledger and instances stay.
Crash(d) ==
    /\ ~At(d, "idle")
    /\ Fault("crash")
    /\ Goto(d, "idle")
    /\ UNCHANGED <<row, journal, answer, ledger, ops>>

\* The provider accepts or refuses a request, and instances end.
ProviderDecides(d, i) ==
    /\ ops[d][i].st = "sent"
    /\ \E st \in {"running", "refused"} : ops' = [ops EXCEPT ![d][i].st = st]
    /\ UNCHANGED <<pc, row, journal, answer, ledger, faults>>

InstanceEnds(d, i) ==
    /\ ops[d][i].st = "running"
    /\ \/ ops' = [ops EXCEPT ![d][i].st = "FAILED"]
       \/ \E q \in Qualities \cup {0} : ops' = [ops EXCEPT ![d][i] = [st |-> "SUCCESS", q |-> q]]
    /\ UNCHANGED <<pc, row, journal, answer, ledger, faults>>

-----------------------------------------------------------------------------
Step(d) ==
    \/ InspectImage(d)
    \/ Reserve(d)
    \/ Upload(d)
    \/ JournalIntent(d)
    \/ PostInstance(d)
    \/ AwaitCreated(d)
    \/ Poll(d)
    \/ CancelRead(d)
    \/ DeleteInstance(d)
    \/ AfterDelete(d)
    \/ CheckOwnership(d)
    \/ RecoverRead(d)
    \/ Finish(d)

Provider(d) == \E i \in RoleIndex : ProviderDecides(d, i) \/ InstanceEnds(d, i)

Next == \E d \in Directories :
    \/ Verify(d)
    \/ Recover(d, FALSE)
    \/ Recover(d, TRUE)
    \/ Step(d)
    \/ Crash(d)
    \/ Provider(d)

Spec == Init /\ [][Next]_vars

(* Commands go on, instances end (they have a timeout of 600 s) and the
   operator keeps asking for the status of an unresolved run. *)
Fairness == \A d \in Directories :
    WF_vars(Step(d)) /\ WF_vars(Provider(d)) /\ SF_vars(started[d] /\ Recover(d, FALSE))

-----------------------------------------------------------------------------
Posted(d, i) == ops[d][i].st # "none"

(* One permit starts each role at most once and never more than its
   maxOperations instances, over all directories it is used in
   (consumePermit). *)
AuthorityIsKept ==
    /\ \A i \in RoleIndex : Cardinality({d \in Directories : Posted(d, i)}) <= 1
    /\ Cardinality({x \in Directories \X RoleIndex : Posted(x[1], x[2])}) <= MaxOperations

(* A definite verdict is only given once nothing of the run can still be
   running: not for a request without an answer, and not on an accepted
   DELETE (artifactFor, cancel). *)
DefiniteMeansOver ==
    \A d \in Directories : {latest[d], answer[d]} \cap {"failed", "sandbox-verified"} # {} =>
        \A i \in RoleIndex : ops[d][i].st \notin {"sent", "running"}

(* sandbox-verified is earned by the provider's instances themselves: every
   role ended in SUCCESS with acceptable output and the candidate is no worse
   than the base (artifactFor, compareQuality). *)
VerifiedIsEarned ==
    \A d \in Directories : latest[d] = "sandbox-verified" =>
        /\ \A i \in RoleIndex : ops[d][i].st = "SUCCESS" /\ ops[d][i].q # 0
        /\ ops[d][1].q <= ops[d][Len(Roles)].q

(* An instance that may exist is in the journal: after any crash the status
   command finds its row, and knows its id unless the answer of the create
   request was lost (beforePost, onCreated). *)
InstanceIsJournaled ==
    \A d \in Directories, i \in RoleIndex : Posted(d, i) =>
        i <= Len(rows[d]) /\ rows[d][i].intent

(* With the status asked again and again every instance whose id is known is
   finally recorded as over (recover). *)
KnownIsSettled ==
    \A d \in Directories, i \in RoleIndex :
        (i <= Len(rows[d]) /\ rows[d][i].record)
        ~> (i <= Len(rows[d]) /\ rows[d][i].receipt \in Terminal)

(* phase-4 of the plan: only an "Unknown POST outcome or missing terminal
   readback remains outcome-unknown".  Where every request was answered and
   every instance is recorded as over, the run gets a definite verdict. *)
UnknownIsReconciled ==
    \A d \in Directories :
        (latest[d] = "outcome-unknown"
           /\ \A i \in 1 .. Len(rows[d]) :
                 rows[d][i].create = "failed" \/ rows[d][i].receipt \in Terminal)
        ~> (latest[d] # "outcome-unknown")

(* The plan lists failed among the "Terminal alternatives", of which only
   outcome-unknown "needs reconciliation": a run recorded as failed stays
   failed. *)
FailedIsTerminal ==
    [][\A d \in Directories : latest[d] = "failed" => latest'[d] = "failed"]_vars

-----------------------------------------------------------------------------
(* Proofs.  The invariant reads the journal of a directory next to the       *)
(* instances it stands for: where the command is says how many rows there    *)
(* are (PhaseOk), a row is never ahead of its instance and an instance never *)
(* without its row (RowsOk), a verdict is one of the instances (VerdictOk),  *)
(* and the directory that posted for a role, or may, is the one that         *)
(* reserved it (Reservations).                                               *)
Stages == {"idle", "image", "reserve", "upload", "intent", "post", "await",
           "poll", "cancel", "delete", "drain", "recover", "ownership",
           "recoverCancel", "recoverDelete", "recoverDrain", "finish", "finishRecovery"}
Claiming == {"upload", "intent", "post"}
Reading == {"poll", "cancel", "delete", "drain"}
Recovering == {"ownership", "recover", "recoverCancel", "recoverDelete", "recoverDrain"}
Definite == {"failed", "sandbox-verified"}
Live == {"running"} \cup Terminal

(* What a row says of the instance it stands for. *)
RowOk(w, op) ==
  /\ w.create = "failed" => op.st \in {"none", "refused"}
  /\ w.record => op.st \in Live
  /\ w.receipt \in Terminal => op.st = w.receipt
  /\ w.envelope # 0 => w.receipt = "SUCCESS" /\ w.envelope = op.q

RowsOk(R, o) ==
  /\ Len(R) <= Len(Roles)
  /\ \A i \in RoleIndex : o[i].st # "none" => i <= Len(R) /\ R[i].intent
  /\ \A i \in 1 .. Len(R) : RowOk(R[i], o[i])

VerdictOk(l, a, o) ==
  /\ l \in Definite \/ a \in Definite => \A i \in RoleIndex : o[i].st \notin {"sent", "running"}
  /\ l = "sandbox-verified" => /\ \A i \in RoleIndex : o[i].st = "SUCCESS" /\ o[i].q # 0
                               /\ o[1].q <= o[Len(Roles)].q

(* Where a command stands in the journal. *)
PhaseOk(p, r, R, l, a, o) ==
  /\ p = "image" => Len(R) = 0 /\ r = 1
  /\ p \in {"reserve", "upload", "intent"} => Len(R) = r - 1
  /\ p \in {"post", "await"} \cup Reading => Len(R) = r
  /\ p \in Recovering => r <= Len(R)
  /\ p \in Reading \cup Recovering => R[r].record
  /\ p = "post" => R[r] = [EmptyRow EXCEPT !.intent = TRUE]
  /\ p = "await" => o[r].st # "none"
  /\ p \in {"image", "reserve", "post", "await"} \cup Claiming \cup Reading =>
        l = "none" /\ a \in {"none", "rejected"}

DirInv(p, r, R, l, a, o) == PhaseOk(p, r, R, l, a, o) /\ RowsOk(R, o) /\ VerdictOk(l, a, o)

(* A directory without a journal has no instance and no verdict. *)
FreshDir(p, R, l, a, o) ==
  /\ p = "idle" /\ R = <<>> /\ l = "none" /\ a \in {"none", "rejected"}
  /\ \A i \in RoleIndex : o[i].st = "none"

(* The directory to which the reservation of a role belongs. *)
HeldBy(p, r, o, i) == o[i].st # "none" \/ (p \in Claiming /\ r = i)
Holds(d, i) == HeldBy(pc[d], row[d], ops[d], i)

Reservations ==
  /\ Cardinality(ledger) <= MaxOperations
  /\ \A d \in Directories, i \in RoleIndex : Holds(d, i) =>
        i \in ledger /\ \A e \in Directories : Holds(e, i) => e = d

SandboxInv ==
  /\ TypeOK
  /\ \A d \in Directories : /\ DirInv(pc[d], row[d], rows[d], latest[d], answer[d], ops[d])
                            /\ started[d] \/ FreshDir(pc[d], rows[d], latest[d], answer[d], ops[d])
  /\ Reservations

(* There is at least one role. *)
LEMMA RolesAreThere ==
  ASSUME SandboxAssumption
  PROVE  Len(Roles) \in Nat \ {0} /\ 1 \in RoleIndex /\ Len(Roles) \in RoleIndex
<1>1. Roles \in Seq(STRING) /\ Roles # <<>>
  BY DEF SandboxAssumption
<1>2. Len(Roles) \in Nat
  BY <1>1, LenProperties
<1>3. Len(Roles) # 0
  BY <1>1, EmptySeq
<1> QED
  BY <1>2, <1>3 DEF RoleIndex

(* A row of the journal is replaced. *)
LEMMA RowSet ==
  ASSUME NEW R \in Seq(Row), NEW k \in 1 .. Len(R), NEW w \in Row
  PROVE  LET S == [R EXCEPT ![k] = w]
         IN  /\ S \in Seq(Row) /\ Len(S) = Len(R)
             /\ \A j \in 1 .. Len(R) : S[j] = IF j = k THEN w ELSE R[j]
BY ExceptSeq

(* A row is added to the journal. *)
LEMMA RowAppended ==
  ASSUME NEW R \in Seq(Row), NEW w \in Row
  PROVE  LET S == Append(R, w)
         IN  /\ S \in Seq(Row) /\ Len(R) \in Nat /\ Len(S) = Len(R) + 1 /\ S[Len(R) + 1] = w
             /\ \A j \in 1 .. Len(R) : S[j] = R[j]
BY AppendProperties, LenProperties

(* The two rows a role can begin with: its intent, or a call that sent nothing. *)
LEMMA NewRows ==
  /\ EmptyRow \in Row
  /\ [EmptyRow EXCEPT !.create = "failed"] \in Row
  /\ [EmptyRow EXCEPT !.intent = TRUE] \in Row
  /\ \A op : RowOk([EmptyRow EXCEPT !.intent = TRUE], op)
  /\ \A op : op.st = "none" => RowOk([EmptyRow EXCEPT !.create = "failed"], op)
  /\ [EmptyRow EXCEPT !.intent = TRUE].intent
BY DEF EmptyRow, Row, RowOk, Terminal

(* A replaced row that is true of its instance and keeps its intent. *)
LEMMA SetKeepsRows ==
  ASSUME SandboxAssumption, NEW R \in Seq(Row), NEW o, RowsOk(R, o), NEW k \in 1 .. Len(R), NEW w \in Row,
         RowOk(w, o[k]), w.intent <=> R[k].intent
  PROVE  RowsOk([R EXCEPT ![k] = w], o)
<1> DEFINE S == [R EXCEPT ![k] = w]
<1>1. /\ S \in Seq(Row) /\ Len(S) = Len(R)
      /\ \A j \in 1 .. Len(R) : S[j] = IF j = k THEN w ELSE R[j]
  BY RowSet
<1> HIDE DEF S
<1>2. Len(S) <= Len(Roles)
  BY <1>1 DEF RowsOk
<1>3. ASSUME NEW i \in RoleIndex, o[i].st # "none" PROVE i <= Len(S) /\ S[i].intent
  <2>1. i <= Len(R) /\ R[i].intent
    BY <1>3 DEF RowsOk
  <2>2. i \in 1 .. Len(R)
    BY <2>1, RolesAreThere, LenProperties DEF RoleIndex
  <2> QED
    BY <1>1, <2>1, <2>2
<1>4. ASSUME NEW i \in 1 .. Len(S) PROVE RowOk(S[i], o[i])
  <2>1. CASE i = k
    BY <1>1, <2>1
  <2>2. CASE i # k
    <3>1. S[i] = R[i] /\ RowOk(R[i], o[i])
      BY <1>1, <1>4, <2>2 DEF RowsOk
    <3> QED
      BY <3>1
  <2> QED
    BY <2>1, <2>2
<1>5. RowsOk(S, o)
  BY <1>2, <1>3, <1>4 DEF RowsOk
<1> QED
  BY <1>5 DEF S

(* A new row that is true of its instance. *)
LEMMA AppendKeepsRows ==
  ASSUME SandboxAssumption, NEW R \in Seq(Row), NEW o, RowsOk(R, o), NEW w \in Row, Len(R) < Len(Roles),
         RowOk(w, o[Len(R) + 1])
  PROVE  RowsOk(Append(R, w), o)
<1> DEFINE S == Append(R, w)
<1>1. /\ S \in Seq(Row) /\ Len(R) \in Nat /\ Len(S) = Len(R) + 1 /\ S[Len(R) + 1] = w
      /\ \A j \in 1 .. Len(R) : S[j] = R[j]
  BY RowAppended
<1> HIDE DEF S
<1>2. Len(S) <= Len(Roles)
  BY <1>1, RolesAreThere
<1>3. ASSUME NEW i \in RoleIndex, o[i].st # "none" PROVE i <= Len(S) /\ S[i].intent
  <2>1. i <= Len(R) /\ R[i].intent
    BY <1>3 DEF RowsOk
  <2>2. i \in 1 .. Len(R)
    BY <2>1, RolesAreThere, LenProperties DEF RoleIndex
  <2> QED
    BY <1>1, <2>1, <2>2
<1>4. ASSUME NEW i \in 1 .. Len(S) PROVE RowOk(S[i], o[i])
  <2>1. CASE i = Len(R) + 1
    BY <1>1, <2>1
  <2>2. CASE i # Len(R) + 1
    <3>1. i \in 1 .. Len(R)
      BY <1>1, <1>4, <2>2
    <3>2. S[i] = R[i] /\ RowOk(R[i], o[i])
      BY <1>1, <3>1 DEF RowsOk
    <3> QED
      BY <3>2
  <2> QED
    BY <2>1, <2>2
<1>5. RowsOk(S, o)
  BY <1>2, <1>3, <1>4 DEF RowsOk
<1> QED
  BY <1>5 DEF S

(* An instance that changes as its row allows. *)
LEMMA OpKeepsRows ==
  ASSUME SandboxAssumption, NEW R \in Seq(Row), NEW o, NEW q, NEW k \in RoleIndex, RowsOk(R, o),
         \A i \in RoleIndex : i # k => q[i] = o[i],
         k \in 1 .. Len(R), R[k].intent, RowOk(R[k], q[k])
  PROVE  RowsOk(R, q)
<1>1. Len(R) \in Nat /\ Len(R) <= Len(Roles)
  BY LenProperties DEF RowsOk
<1>2. 1 .. Len(R) \subseteq RoleIndex
  BY <1>1, RolesAreThere DEF RoleIndex
<1>3. ASSUME NEW i \in RoleIndex, q[i].st # "none" PROVE i <= Len(R) /\ R[i].intent
  <2>1. CASE i = k
    BY <1>1, <2>1
  <2>2. CASE i # k
    BY <1>3, <2>2 DEF RowsOk
  <2> QED
    BY <2>1, <2>2
<1>4. ASSUME NEW i \in 1 .. Len(R) PROVE RowOk(R[i], q[i])
  <2>1. CASE i = k
    BY <2>1
  <2>2. CASE i # k
    <3>1. q[i] = o[i] /\ RowOk(R[i], o[i])
      BY <1>2, <1>4, <2>2 DEF RowsOk
    <3> QED
      BY <3>1
  <2> QED
    BY <2>1, <2>2
<1> QED
  BY <1>1, <1>3, <1>4 DEF RowsOk

(* The next state of one directory. *)
Becomes(d, p, r, R, l, a, o) ==
  /\ pc' = [pc EXCEPT ![d] = p] /\ row' = [row EXCEPT ![d] = r] /\ rows' = [rows EXCEPT ![d] = R]
  /\ latest' = [latest EXCEPT ![d] = l] /\ answer' = [answer EXCEPT ![d] = a]
  /\ ops' = [ops EXCEPT ![d] = o]

(* One directory changes, and claims no reservation it did not have. *)
LEMMA DirMoves ==
  ASSUME SandboxAssumption, SandboxInv, NEW d \in Directories, NEW p \in Stages, NEW r \in RoleIndex,
         NEW R \in Seq(Row), NEW l \in Verdicts, NEW a \in Verdicts \cup {"rejected"},
         NEW o \in [RoleIndex -> Operation],
         Becomes(d, p, r, R, l, a, o),
         started' \in [Directories -> BOOLEAN], image' \in [Directories -> BOOLEAN],
         \A e \in Directories : e # d => started'[e] = started[e],
         faults' \in 0 .. MaxFaults,
         DirInv(p, r, R, l, a, o), started'[d] \/ FreshDir(p, R, l, a, o),
         ledger' \subseteq RoleIndex, Reservations'
  PROVE  SandboxInv'
<1>0. TypeOK
  BY DEF SandboxInv
<1>1. \A e \in Directories : /\ pc'[e] = IF e = d THEN p ELSE pc[e]
                             /\ row'[e] = IF e = d THEN r ELSE row[e]
                             /\ rows'[e] = IF e = d THEN R ELSE rows[e]
                             /\ latest'[e] = IF e = d THEN l ELSE latest[e]
                             /\ answer'[e] = IF e = d THEN a ELSE answer[e]
                             /\ ops'[e] = IF e = d THEN o ELSE ops[e]
  BY <1>0 DEF TypeOK, Becomes
<1>2. TypeOK'
  <2>1. pc' \in [Directories -> Stages]
    BY <1>0 DEF TypeOK, Stages, Becomes
  <2>2. row' \in [Directories -> RoleIndex] /\ rows' \in [Directories -> Seq(Row)]
    BY <1>0 DEF TypeOK, Becomes
  <2>3. latest' \in [Directories -> Verdicts] /\ answer' \in [Directories -> Verdicts \cup {"rejected"}]
    BY <1>0 DEF TypeOK, Becomes
  <2>4. ops' \in [Directories -> [RoleIndex -> Operation]]
    BY <1>0 DEF TypeOK, Becomes
  <2>5. \A e \in Directories : Len(rows'[e]) <= Len(Roles)
    BY <1>0, <1>1 DEF TypeOK, DirInv, RowsOk
  <2> QED
    BY <2>1, <2>2, <2>3, <2>4, <2>5 DEF TypeOK, Stages
<1>3. ASSUME NEW e \in Directories
      PROVE  /\ DirInv(pc'[e], row'[e], rows'[e], latest'[e], answer'[e], ops'[e])
             /\ started'[e] \/ FreshDir(pc'[e], rows'[e], latest'[e], answer'[e], ops'[e])
  <2>1. CASE e = d
    BY <1>1, <2>1
  <2>2. CASE e # d
    <3>1. /\ pc'[e] = pc[e] /\ row'[e] = row[e] /\ rows'[e] = rows[e] /\ latest'[e] = latest[e]
          /\ answer'[e] = answer[e] /\ ops'[e] = ops[e]
      BY <1>1, <2>2
    <3>2. /\ DirInv(pc[e], row[e], rows[e], latest[e], answer[e], ops[e])
          /\ started[e] \/ FreshDir(pc[e], rows[e], latest[e], answer[e], ops[e])
      BY DEF SandboxInv
    <3>3. started'[e] = started[e]
      BY <2>2
    <3> QED
      BY <3>1, <3>2, <3>3, Zenon
  <2> QED
    BY <2>1, <2>2
<1> QED
  BY <1>2, <1>3 DEF SandboxInv

(* No directory claims a reservation it did not have. *)
LEMMA ReservationsStay ==
  ASSUME SandboxAssumption, SandboxInv, NEW d \in Directories, NEW p, NEW r, NEW o,
         pc' = [pc EXCEPT ![d] = p], row' = [row EXCEPT ![d] = r], ops' = [ops EXCEPT ![d] = o],
         ledger' = ledger,
         \A i \in RoleIndex : HeldBy(p, r, o, i) => HeldBy(pc[d], row[d], ops[d], i)
  PROVE  Reservations' /\ ledger' \subseteq RoleIndex
<1>1. TypeOK /\ Reservations
  BY DEF SandboxInv
<1>2. \A e \in Directories : /\ pc'[e] = IF e = d THEN p ELSE pc[e]
                             /\ row'[e] = IF e = d THEN r ELSE row[e]
                             /\ ops'[e] = IF e = d THEN o ELSE ops[e]
  BY <1>1 DEF TypeOK
<1>3. ASSUME NEW e \in Directories, NEW i \in RoleIndex, HeldBy(pc'[e], row'[e], ops'[e], i)
      PROVE  Holds(e, i)
  <2>1. CASE e = d
    BY <1>2, <1>3, <2>1 DEF Holds
  <2>2. CASE e # d
    <3>1. pc'[e] = pc[e] /\ row'[e] = row[e] /\ ops'[e] = ops[e]
      BY <1>2, <2>2
    <3> QED
      BY <1>3, <3>1 DEF Holds
  <2> QED
    BY <2>1, <2>2
<1>4. \A e \in Directories, i \in RoleIndex : HeldBy(pc'[e], row'[e], ops'[e], i) =>
         i \in ledger /\ \A f \in Directories : HeldBy(pc'[f], row'[f], ops'[f], i) => f = e
  BY <1>1, <1>3 DEF Reservations
<1>5. Reservations'
  BY <1>1, <1>4 DEF Reservations, Holds
<1> QED
  BY <1>1, <1>5 DEF TypeOK

(* The state of one directory. *)
Now(d, p, r, R, l, a, o) ==
  /\ pc[d] = p /\ row[d] = r /\ rows[d] = R /\ latest[d] = l /\ answer[d] = a /\ ops[d] = o

(* What the invariant says of one directory. *)
LEMMA NowHolds ==
  ASSUME SandboxAssumption, SandboxInv, NEW d \in Directories, NEW p, NEW r, NEW R, NEW l, NEW a, NEW o,
         Now(d, p, r, R, l, a, o)
  PROVE  /\ p \in Stages /\ r \in RoleIndex /\ R \in Seq(Row) /\ Len(R) \in Nat
         /\ l \in Verdicts /\ a \in Verdicts \cup {"rejected"} /\ o \in [RoleIndex -> Operation]
         /\ PhaseOk(p, r, R, l, a, o) /\ RowsOk(R, o) /\ VerdictOk(l, a, o)
         /\ started[d] \/ FreshDir(p, R, l, a, o)
         /\ pc = [pc EXCEPT ![d] = p] /\ row = [row EXCEPT ![d] = r] /\ rows = [rows EXCEPT ![d] = R]
         /\ latest = [latest EXCEPT ![d] = l] /\ answer = [answer EXCEPT ![d] = a]
         /\ ops = [ops EXCEPT ![d] = o]
<1>1. TypeOK
  BY DEF SandboxInv
<1>2. /\ p \in Stages /\ r \in RoleIndex /\ R \in Seq(Row)
      /\ l \in Verdicts /\ a \in Verdicts \cup {"rejected"} /\ o \in [RoleIndex -> Operation]
  BY <1>1 DEF TypeOK, Now, Stages
<1>3. Len(R) \in Nat
  BY <1>2, LenProperties
<1>4. /\ DirInv(p, r, R, l, a, o) /\ (started[d] \/ FreshDir(p, R, l, a, o))
  BY Zenon DEF SandboxInv, Now
<1>5. /\ pc = [pc EXCEPT ![d] = p] /\ row = [row EXCEPT ![d] = r] /\ rows = [rows EXCEPT ![d] = R]
      /\ latest = [latest EXCEPT ![d] = l] /\ answer = [answer EXCEPT ![d] = a]
      /\ ops = [ops EXCEPT ![d] = o]
  BY <1>1 DEF TypeOK, Now
<1> QED
  BY <1>2, <1>3, <1>4, <1>5, Zenon DEF DirInv

(* A step of a command that runs: the directory's journal exists and keeps existing. *)
LEMMA StepMoves ==
  ASSUME SandboxAssumption, SandboxInv, NEW d \in Directories, pc[d] # "idle",
         NEW p \in Stages, NEW r \in RoleIndex, NEW R \in Seq(Row), NEW l \in Verdicts,
         NEW a \in Verdicts \cup {"rejected"}, NEW o \in [RoleIndex -> Operation],
         Becomes(d, p, r, R, l, a, o),
         started' = started, image' \in [Directories -> BOOLEAN],
         faults' \in 0 .. MaxFaults, ledger' = ledger,
         DirInv(p, r, R, l, a, o),
         \A i \in RoleIndex : HeldBy(p, r, o, i) => HeldBy(pc[d], row[d], ops[d], i)
  PROVE  SandboxInv'
<1>1. started' \in [Directories -> BOOLEAN] /\ \A e \in Directories : e # d => started'[e] = started[e]
  BY Zenon DEF SandboxInv, TypeOK
<1>2. started'[d] \/ FreshDir(p, R, l, a, o)
  BY Zenon DEF SandboxInv, FreshDir
<1>3. Reservations' /\ ledger' \subseteq RoleIndex
  BY ReservationsStay DEF Becomes
<1> QED
  BY <1>1, <1>2, <1>3, DirMoves

(* Faults are counted, and the flags are flags. *)
LEMMA FaultsBounded ==
  ASSUME SandboxAssumption, SandboxInv
  PROVE  /\ faults \in 0 .. MaxFaults /\ \A k : Fault(k) => faults' \in 0 .. MaxFaults
         /\ started \in [Directories -> BOOLEAN] /\ image \in [Directories -> BOOLEAN]
<1>1. MaxFaults \in Nat
  BY DEF SandboxAssumption
<1>2. faults \in 0 .. MaxFaults
  BY DEF SandboxInv, TypeOK
<1>3. \A k : Fault(k) => faults' \in 0 .. MaxFaults
  BY <1>1, <1>2 DEF Fault
<1>4. started \in [Directories -> BOOLEAN] /\ image \in [Directories -> BOOLEAN]
  BY Zenon DEF SandboxInv, TypeOK
<1> QED
  BY <1>2, <1>3, <1>4

(* Where a command goes that has nothing more to ask. *)
LEMMA EndPhase ==
  ASSUME NEW p \in {"idle", "finish", "finishRecovery"}, NEW r, NEW R, NEW l, NEW a, NEW o
  PROVE  PhaseOk(p, r, R, l, a, o) /\ p \in Stages \ Claiming
BY DEF PhaseOk, Reading, Recovering, Claiming, Stages

(* The outcome of the create request in a row. *)
LEMMA CreateSet ==
  ASSUME NEW w \in Row, NEW c \in {"created", "failed", "outcome-unknown"}
  PROVE  LET x == [w EXCEPT !.create = c]
         IN  /\ x \in Row /\ x.create = c /\ (x.intent <=> w.intent) /\ (x.record <=> w.record)
             /\ x.receipt = w.receipt /\ x.envelope = w.envelope
BY DEF Row

(* A journaled cancellation in a row. *)
LEMMA CancelSet ==
  ASSUME NEW w \in Row
  PROVE  LET x == [w EXCEPT !.cancel = TRUE]
         IN  /\ x \in Row /\ x.create = w.create /\ (x.intent <=> w.intent) /\ (x.record <=> w.record)
             /\ x.receipt = w.receipt /\ x.envelope = w.envelope
BY DEF Row

(* A command goes on and rewrites its journal, and nothing else. *)
Rewrites(d, t, s, R) ==
  /\ pc' = [pc EXCEPT ![d] = t] /\ row' = [row EXCEPT ![d] = s] /\ rows' = [rows EXCEPT ![d] = R]
  /\ UNCHANGED <<started, latest, image, answer, ledger, ops>>

LEMMA RowMoves ==
  ASSUME SandboxAssumption, SandboxInv, NEW d \in Directories, NEW p, NEW r, NEW R, NEW l, NEW a, NEW o,
         Now(d, p, r, R, l, a, o), p # "idle", r \in 1 .. Len(R),
         NEW w \in Row, RowOk(w, o[r]), w.intent <=> R[r].intent,
         NEW t \in Stages \ Claiming, NEW s \in RoleIndex,
         PhaseOk(t, s, [R EXCEPT ![r] = w], l, a, o),
         Rewrites(d, t, s, [R EXCEPT ![r] = w]), faults' \in 0 .. MaxFaults
  PROVE  SandboxInv'
<1>1. /\ R \in Seq(Row) /\ l \in Verdicts /\ a \in Verdicts \cup {"rejected"}
      /\ o \in [RoleIndex -> Operation] /\ RowsOk(R, o) /\ VerdictOk(l, a, o)
      /\ latest = [latest EXCEPT ![d] = l] /\ answer = [answer EXCEPT ![d] = a]
      /\ ops = [ops EXCEPT ![d] = o]
  BY NowHolds
<1>2. pc[d] # "idle" /\ ops[d] = o
  BY DEF Now
<1> DEFINE S == [R EXCEPT ![r] = w]
<1>3. S \in Seq(Row) /\ RowsOk(S, o)
  BY <1>1, RowSet, SetKeepsRows
<1>4. DirInv(t, s, S, l, a, o)
  BY <1>1, <1>3, Zenon DEF DirInv
<1>5. \A i \in RoleIndex : HeldBy(t, s, o, i) => HeldBy(pc[d], row[d], ops[d], i)
  BY <1>2 DEF HeldBy
<1>6. t \in Stages /\ image' \in [Directories -> BOOLEAN] /\ started' = started /\ ledger' = ledger
  BY FaultsBounded, Zenon DEF Rewrites
<1>7. /\ latest' = [latest EXCEPT ![d] = l] /\ answer' = [answer EXCEPT ![d] = a]
      /\ ops' = [ops EXCEPT ![d] = o]
  BY <1>1, Zenon DEF Rewrites
<1>8. Becomes(d, t, s, S, l, a, o)
  BY <1>7, Zenon DEF Becomes, Rewrites
<1> HIDE DEF S
<1> QED
  BY <1>1, <1>2, <1>3, <1>4, <1>5, <1>6, <1>8, StepMoves

(* A role that sent nothing, or was refused, is journaled as failed. *)
LEMMA CreateFails ==
  ASSUME SandboxAssumption, SandboxInv, NEW d \in Directories, NEW p, NEW r, NEW R, NEW l, NEW a, NEW o,
         Now(d, p, r, R, l, a, o), p \in {"reserve", "upload", "await"},
         p = "await" => o[r].st = "refused", CreateFailed(d),
         UNCHANGED <<row, started, latest, image, answer, ledger, ops>>, faults' \in 0 .. MaxFaults
  PROVE  SandboxInv'
<1>1. /\ r \in RoleIndex /\ R \in Seq(Row) /\ Len(R) \in Nat /\ l \in Verdicts
      /\ a \in Verdicts \cup {"rejected"} /\ o \in [RoleIndex -> Operation]
      /\ PhaseOk(p, r, R, l, a, o) /\ RowsOk(R, o) /\ VerdictOk(l, a, o)
      /\ row = [row EXCEPT ![d] = r] /\ latest = [latest EXCEPT ![d] = l]
      /\ answer = [answer EXCEPT ![d] = a] /\ ops = [ops EXCEPT ![d] = o]
  BY NowHolds
<1>2. pc[d] = p /\ row[d] = r /\ rows[d] = R /\ ops[d] = o
  BY DEF Now
<1>3. pc' = [pc EXCEPT ![d] = "finish"]
  BY DEF CreateFailed, Goto
<1>4. PhaseOk("finish", r, R, l, a, o) /\ "finish" \in Stages /\ "finish" \notin Claiming
  BY EndPhase
<1>5. r \in Nat /\ 1 <= r /\ r <= Len(Roles)
  BY <1>1, RolesAreThere DEF RoleIndex
<1> DEFINE X == IF Len(R) < r THEN Append(R, [EmptyRow EXCEPT !.create = "failed"])
                ELSE [R EXCEPT ![r].create = "failed"]
<1>8. rows' = [rows EXCEPT ![d] = X]
  BY <1>2, Zenon DEF CreateFailed
<1>6. CASE p = "await"
  <2>1. Len(R) = r
    BY <1>1, <1>6 DEF PhaseOk
  <2> DEFINE w == [R[r] EXCEPT !.create = "failed"]
  <2>2. R[r] \in Row /\ r \in 1 .. Len(R) /\ RowOk(R[r], o[r])
    BY <1>1, <1>5, <2>1, ElementOfSeq DEF RowsOk
  <2>3. w \in Row /\ w.create = "failed" /\ (w.intent <=> R[r].intent) /\ (w.record <=> R[r].record)
        /\ w.receipt = R[r].receipt /\ w.envelope = R[r].envelope
    BY <2>2, CreateSet
  <2>4. rows' = [rows EXCEPT ![d] = [R EXCEPT ![r] = w]]
    <3>1. X = [R EXCEPT ![r] = w]
      BY <1>5, <2>1
    <3> HIDE DEF X
    <3> QED
      BY <1>8, <3>1
  <2> HIDE DEF w
  <2>5. RowOk(w, o[r])
    BY <1>6, <2>2, <2>3 DEF RowOk
  <2>6. PhaseOk("finish", r, [R EXCEPT ![r] = w], l, a, o) /\ "finish" \in Stages \ Claiming
    BY EndPhase
  <2>7. row' = [row EXCEPT ![d] = r]
    BY <1>1
  <2>8. p # "idle"
    BY <1>6
  <2>9. Rewrites(d, "finish", r, [R EXCEPT ![r] = w])
    BY <1>3, <2>4, <2>7, Zenon DEF Rewrites
  <2> QED
    BY <1>1, <2>2, <2>3, <2>5, <2>6, <2>8, <2>9, RowMoves
<1>7. CASE p # "await"
  <2>1. Len(R) = r - 1
    BY <1>1, <1>7 DEF PhaseOk
  <2> DEFINE w == [EmptyRow EXCEPT !.create = "failed"]
             S == Append(R, w)
  <2>2. o[r].st = "none"
    BY <1>1, <1>5, <2>1 DEF RowsOk
  <2>3. w \in Row /\ RowOk(w, o[r])
    BY <2>2, NewRows
  <2>4. rows' = [rows EXCEPT ![d] = S]
    <3>1. X = S
      BY <1>5, <2>1
    <3> HIDE DEF X, S
    <3> QED
      BY <1>8, <3>1
  <2> HIDE DEF w
  <2>5. S \in Seq(Row)
    BY <1>1, <2>3, RowAppended
  <2>6. RowsOk(S, o)
    <3>1. Len(R) < Len(Roles) /\ Len(R) + 1 = r
      BY <1>1, <1>5, <2>1, RolesAreThere
    <3>2. RowOk(w, o[Len(R) + 1])
      BY <2>3, <3>1
    <3> QED
      BY <1>1, <2>3, <3>1, <3>2, AppendKeepsRows
  <2>7. DirInv("finish", r, S, l, a, o)
    BY <1>1, <2>6, EndPhase DEF DirInv
  <2>8. \A i \in RoleIndex : HeldBy("finish", r, o, i) => HeldBy(pc[d], row[d], ops[d], i)
    BY <1>2, <1>4 DEF HeldBy
  <2>9. Becomes(d, "finish", r, S, l, a, o)
    BY <1>1, <1>3, <2>4, Zenon DEF Becomes
  <2>10. image' \in [Directories -> BOOLEAN] /\ started' = started /\ ledger' = ledger
    BY FaultsBounded, Zenon
  <2>11. pc[d] # "idle"
    BY <1>2
  <2> HIDE DEF S
  <2> QED
    BY <1>1, <1>4, <2>5, <2>7, <2>8, <2>9, <2>10, <2>11, StepMoves
<1> QED
  BY <1>6, <1>7

(* The command moves on; journal, verdicts and instances stay. *)
LEMMA PhaseMoves ==
  ASSUME SandboxAssumption, SandboxInv, NEW d \in Directories, NEW p, NEW r, NEW R, NEW l, NEW a, NEW o,
         Now(d, p, r, R, l, a, o), p # "idle",
         NEW t \in Stages, t \in Claiming => p \in Claiming, PhaseOk(t, r, R, l, a, o),
         pc' = [pc EXCEPT ![d] = t],
         UNCHANGED <<row, started, rows, latest, answer, ledger, ops>>,
         image' \in [Directories -> BOOLEAN], faults' \in 0 .. MaxFaults
  PROVE  SandboxInv'
<1>1. /\ r \in RoleIndex /\ R \in Seq(Row) /\ l \in Verdicts
      /\ a \in Verdicts \cup {"rejected"} /\ o \in [RoleIndex -> Operation]
      /\ RowsOk(R, o) /\ VerdictOk(l, a, o)
      /\ row = [row EXCEPT ![d] = r] /\ rows = [rows EXCEPT ![d] = R]
      /\ latest = [latest EXCEPT ![d] = l]
      /\ answer = [answer EXCEPT ![d] = a] /\ ops = [ops EXCEPT ![d] = o]
  BY NowHolds
<1>2. pc[d] = p /\ row[d] = r /\ ops[d] = o
  BY DEF Now
<1>3. Becomes(d, t, r, R, l, a, o)
  BY <1>1, Zenon DEF Becomes
<1>4. DirInv(t, r, R, l, a, o)
  BY <1>1, Zenon DEF DirInv
<1>5. \A i \in RoleIndex : HeldBy(t, r, o, i) => HeldBy(pc[d], row[d], ops[d], i)
  BY <1>2 DEF HeldBy
<1>6. started' = started /\ ledger' = ledger /\ pc[d] # "idle"
  BY <1>2
<1> QED
  BY <1>1, <1>3, <1>4, <1>5, <1>6, StepMoves

(* The command is at rest, or comes to rest, with an answer. *)
LEMMA AnswerMoves ==
  ASSUME SandboxAssumption, SandboxInv, NEW d \in Directories, NEW p, NEW r, NEW R, NEW l, NEW a, NEW o,
         Now(d, p, r, R, l, a, o), NEW b \in Verdicts \cup {"rejected"},
         b \in Definite => \A i \in RoleIndex : o[i].st \notin {"sent", "running"},
         started[d] \/ b = "rejected",
         pc' = [pc EXCEPT ![d] = "idle"], answer' = [answer EXCEPT ![d] = b],
         UNCHANGED <<row, started, rows, latest, image, ledger, ops>>, faults' \in 0 .. MaxFaults
  PROVE  SandboxInv'
<1>1. /\ r \in RoleIndex /\ R \in Seq(Row) /\ l \in Verdicts
      /\ o \in [RoleIndex -> Operation]
      /\ RowsOk(R, o) /\ VerdictOk(l, a, o)
      /\ row = [row EXCEPT ![d] = r] /\ rows = [rows EXCEPT ![d] = R]
      /\ latest = [latest EXCEPT ![d] = l] /\ ops = [ops EXCEPT ![d] = o]
  BY NowHolds
<1>0. started[d] \/ FreshDir(p, R, l, a, o)
  BY NowHolds
<1>2. ops[d] = o
  BY DEF Now
<1>3. Becomes(d, "idle", r, R, l, b, o)
  BY <1>1, Zenon DEF Becomes
<1>4. DirInv("idle", r, R, l, b, o)
  <2>1. VerdictOk(l, b, o)
    BY <1>1 DEF VerdictOk
  <2> QED
    BY <1>1, <2>1, EndPhase DEF DirInv
<1>5. \A i \in RoleIndex : HeldBy("idle", r, o, i) => HeldBy(pc[d], row[d], ops[d], i)
  BY <1>2 DEF HeldBy, Claiming
<1>6. "idle" \in Stages
  BY DEF Stages
<1>7. /\ started' \in [Directories -> BOOLEAN] /\ image' \in [Directories -> BOOLEAN]
      /\ \A e \in Directories : e # d => started'[e] = started[e]
  BY FaultsBounded, Zenon
<1>8. started'[d] \/ FreshDir("idle", R, l, b, o)
  <2>1. CASE started[d]
    BY <2>1, Zenon
  <2>2. CASE ~started[d]
    <3>1. b = "rejected"
      BY <2>2, Zenon
    <3>2. FreshDir(p, R, l, a, o)
      BY <1>0, <2>2, Zenon
    <3>3. FreshDir("idle", R, l, b, o)
      BY <3>1, <3>2 DEF FreshDir
    <3> QED
      BY <3>3, Zenon
  <2> QED
    BY <2>1, <2>2, Zenon
<1>9. Reservations' /\ ledger' \subseteq RoleIndex
  <2>1. /\ pc' = [pc EXCEPT ![d] = "idle"] /\ row' = [row EXCEPT ![d] = r]
        /\ ops' = [ops EXCEPT ![d] = o] /\ ledger' = ledger
    BY <1>3 DEF Becomes
  <2> QED
    BY <1>5, <2>1, ReservationsStay
<1> QED
  BY <1>1, <1>3, <1>4, <1>6, <1>7, <1>8, <1>9, DirMoves

(* verifyPair, verifyPushGuard: only a directory without a journal starts. *)
LEMMA VerifyKeeps ==
  ASSUME SandboxAssumption, SandboxInv, NEW d \in Directories, NEW p, NEW r, NEW R, NEW l, NEW a, NEW o,
         Now(d, p, r, R, l, a, o), Verify(d)
  PROVE  SandboxInv'
<1>1. /\ p = "idle" /\ R \in Seq(Row) /\ l \in Verdicts /\ a \in Verdicts \cup {"rejected"}
      /\ o \in [RoleIndex -> Operation] /\ (started[d] \/ FreshDir(p, R, l, a, o))
      /\ RowsOk(R, o) /\ VerdictOk(l, a, o)
      /\ pc = [pc EXCEPT ![d] = p] /\ rows = [rows EXCEPT ![d] = R] /\ latest = [latest EXCEPT ![d] = l]
      /\ answer = [answer EXCEPT ![d] = a] /\ ops = [ops EXCEPT ![d] = o]
  BY NowHolds DEF Verify, At, Now
<1>2. CASE started[d]
  <2>1. /\ answer' = [answer EXCEPT ![d] = "outcome-unknown"] /\ pc' = [pc EXCEPT ![d] = "idle"]
        /\ UNCHANGED <<row, started, rows, latest, image, ledger, ops>> /\ faults' = faults
    BY <1>1, <1>2, Zenon DEF Verify
  <2>2. "outcome-unknown" \in Verdicts \cup {"rejected"} /\ "outcome-unknown" \notin Definite
    BY DEF Verdicts, Definite
  <2> QED
    BY <1>2, <2>1, <2>2, FaultsBounded, AnswerMoves
<1>3. CASE ~started[d]
  <2>1. FreshDir("idle", R, l, a, o)
    BY <1>1, <1>3, Zenon
  <2>2. /\ started' = [started EXCEPT ![d] = TRUE] /\ row' = [row EXCEPT ![d] = 1]
        /\ pc' = [pc EXCEPT ![d] = "image"]
        /\ UNCHANGED <<rows, latest, image, answer, ledger, ops>> /\ faults' = faults
    BY <1>3, Zenon DEF Verify, Goto
  <2>3. Becomes(d, "image", 1, R, l, a, o)
    BY <1>1, <2>2, Zenon DEF Becomes
  <2>4. DirInv("image", 1, R, l, a, o)
    <3>1. Len(R) = 0 /\ l = "none" /\ a \in {"none", "rejected"}
      BY <2>1 DEF FreshDir
    <3>2. PhaseOk("image", 1, R, l, a, o)
      BY <3>1 DEF PhaseOk, Reading, Recovering, Claiming
    <3> QED
      BY <1>1, <3>2, Zenon DEF DirInv
  <2>5. \A i \in RoleIndex : HeldBy("image", 1, o, i) => HeldBy(pc[d], row[d], ops[d], i)
    BY DEF HeldBy, Claiming, Now
  <2>6. Reservations' /\ ledger' \subseteq RoleIndex
    <3>1. /\ pc' = [pc EXCEPT ![d] = "image"] /\ row' = [row EXCEPT ![d] = 1]
          /\ ops' = [ops EXCEPT ![d] = o] /\ ledger' = ledger
      BY <2>2, <2>3 DEF Becomes
    <3> QED
      BY <2>5, <3>1, ReservationsStay
  <2>7. /\ started' \in [Directories -> BOOLEAN] /\ \A e \in Directories : e # d => started'[e] = started[e]
        /\ started'[d]
    BY <2>2, FaultsBounded
  <2>8. image' \in [Directories -> BOOLEAN] /\ faults' \in 0 .. MaxFaults
    BY <2>2, FaultsBounded
  <2>9. "image" \in Stages /\ 1 \in RoleIndex
    BY RolesAreThere DEF Stages
  <2>10. started'[d] \/ FreshDir("image", R, l, a, o)
    BY <2>7, Zenon
  <2> QED
    BY <1>1, <2>3, <2>4, <2>6, <2>7, <2>8, <2>9, <2>10, DirMoves
<1> QED
  BY <1>2, <1>3, Zenon

(* inspectImage. *)
LEMMA InspectImageKeeps ==
  ASSUME SandboxAssumption, SandboxInv, NEW d \in Directories, NEW p, NEW r, NEW R, NEW l, NEW a, NEW o,
         Now(d, p, r, R, l, a, o), InspectImage(d)
  PROVE  SandboxInv'
<1>1. /\ p = "image" /\ PhaseOk(p, r, R, l, a, o)
      /\ UNCHANGED <<row, started, rows, latest, answer, ledger, ops>>
  BY NowHolds DEF InspectImage, At, Now
<1>2. Len(R) = 0 /\ r = 1 /\ l = "none" /\ a \in {"none", "rejected"}
  BY <1>1 DEF PhaseOk
<1>3. PICK t \in {"finish", "reserve"} : pc' = [pc EXCEPT ![d] = t]
  BY DEF InspectImage, Goto
<1>4. t \in Stages /\ t \notin Claiming
  BY <1>3 DEF Stages, Claiming
<1>5. PhaseOk(t, r, R, l, a, o)
  <2>1. CASE t = "finish"
    BY <2>1, EndPhase
  <2>2. CASE t = "reserve"
    BY <1>2, <2>2 DEF PhaseOk, Reading, Recovering, Claiming
  <2> QED
    BY <1>3, <2>1, <2>2
<1>6. image' \in [Directories -> BOOLEAN] /\ faults' \in 0 .. MaxFaults
  <2>1. CASE Fault("image") /\ UNCHANGED image
    BY <2>1, FaultsBounded
  <2>2. CASE image' = [image EXCEPT ![d] = TRUE] /\ faults' = faults
    BY <2>2, FaultsBounded
  <2> QED
    BY <2>1, <2>2, Zenon DEF InspectImage
<1>7. p # "idle"
  BY <1>1
<1> QED
  BY <1>1, <1>3, <1>4, <1>5, <1>6, <1>7, PhaseMoves

(* consumePermit: the only step that claims, and what it claims was free. *)
LEMMA ReserveKeeps ==
  ASSUME SandboxAssumption, SandboxInv, NEW d \in Directories, NEW p, NEW r, NEW R, NEW l, NEW a, NEW o,
         Now(d, p, r, R, l, a, o), Reserve(d)
  PROVE  SandboxInv'
<1>1. /\ p = "reserve" /\ PhaseOk(p, r, R, l, a, o) /\ r \in RoleIndex /\ R \in Seq(Row) /\ l \in Verdicts
      /\ a \in Verdicts \cup {"rejected"} /\ o \in [RoleIndex -> Operation]
      /\ RowsOk(R, o) /\ VerdictOk(l, a, o)
      /\ row = [row EXCEPT ![d] = r] /\ rows = [rows EXCEPT ![d] = R]
      /\ latest = [latest EXCEPT ![d] = l]
      /\ answer = [answer EXCEPT ![d] = a] /\ ops = [ops EXCEPT ![d] = o]
      /\ UNCHANGED <<row, started, latest, image, answer, ops, faults>>
  BY NowHolds DEF Reserve, At, Now
<1>2. pc[d] = p /\ row[d] = r /\ rows[d] = R /\ ops[d] = o
  BY DEF Now
<1>3. CASE CreateFailed(d) /\ UNCHANGED ledger
  <2>1. faults' \in 0 .. MaxFaults /\ p \in {"reserve", "upload", "await"} /\ p # "await"
    BY <1>1, FaultsBounded
  <2> QED
    BY <1>1, <1>3, <2>1, CreateFails
<1>4. ASSUME r \notin ledger, Cardinality(ledger) < MaxOperations, ledger' = ledger \cup {r},
             pc' = [pc EXCEPT ![d] = "upload"], UNCHANGED rows
      PROVE  SandboxInv'
  <2>1. Becomes(d, "upload", r, R, l, a, o)
    BY <1>1, <1>4, Zenon DEF Becomes
  <2>2. PhaseOk("upload", r, R, l, a, o)
    BY <1>1 DEF PhaseOk, Reading, Recovering, Claiming
  <2>3. DirInv("upload", r, R, l, a, o)
    BY <1>1, <2>2, Zenon DEF DirInv
  <2>4. TypeOK /\ Reservations
    BY DEF SandboxInv
  <2>5. IsFiniteSet(ledger) /\ ledger' \subseteq RoleIndex
    <3>1. IsFiniteSet(RoleIndex)
      BY RolesAreThere, FS_Interval DEF RoleIndex
    <3>2. ledger \subseteq RoleIndex
      BY <2>4 DEF TypeOK
    <3> QED
      BY <1>1, <1>4, <3>1, <3>2, FS_Subset
  <2>6. Cardinality(ledger') <= MaxOperations
    <3>1. MaxOperations \in Nat
      BY DEF SandboxAssumption
    <3>2. Cardinality(ledger') = Cardinality(ledger) + 1 /\ Cardinality(ledger) \in Nat
      BY <1>4, <2>5, FS_AddElement, FS_CardinalityType
    <3> QED
      BY <1>4, <3>1, <3>2
  <2>7. \A e \in Directories : /\ pc'[e] = IF e = d THEN "upload" ELSE pc[e]
                               /\ row'[e] = row[e] /\ ops'[e] = ops[e]
    BY <1>1, <1>4, <2>4 DEF TypeOK
  <2>8. ASSUME NEW e \in Directories, NEW i \in RoleIndex, HeldBy(pc'[e], row'[e], ops'[e], i)
        PROVE  Holds(e, i) \/ (e = d /\ i = r)
    BY <1>2, <2>7, <2>8 DEF HeldBy, Holds
  <2>9. \A e \in Directories : ~Holds(e, r)
    BY <1>1, <1>4, <2>4 DEF Reservations
  <2>10. Reservations'
    <3>1. \A e \in Directories, i \in RoleIndex : HeldBy(pc'[e], row'[e], ops'[e], i) =>
             i \in ledger' /\ \A f \in Directories : HeldBy(pc'[f], row'[f], ops'[f], i) => f = e
      BY <1>1, <1>4, <2>4, <2>8, <2>9 DEF Reservations
    <3> QED
      BY <2>6, <3>1 DEF Reservations, Holds
  <2>11. /\ started' \in [Directories -> BOOLEAN] /\ image' \in [Directories -> BOOLEAN]
         /\ \A e \in Directories : e # d => started'[e] = started[e]
    BY <1>1, FaultsBounded, Zenon
  <2>12. started'[d] \/ FreshDir("upload", R, l, a, o)
    <3>1. started[d] \/ FreshDir(p, R, l, a, o)
      BY NowHolds
    <3>2. ~FreshDir(p, R, l, a, o)
      BY <1>1 DEF FreshDir
    <3> QED
      BY <1>1, <3>1, <3>2, Zenon
  <2>13. faults' \in 0 .. MaxFaults /\ "upload" \in Stages
    BY <1>1, FaultsBounded DEF Stages
  <2> QED
    BY <1>1, <2>1, <2>3, <2>5, <2>10, <2>11, <2>12, <2>13, DirMoves
<1> QED
  BY <1>2, <1>3, <1>4, Zenon DEF Reserve, Goto

(* The upload keeps the reservation or journals the failure. *)
LEMMA UploadKeeps ==
  ASSUME SandboxAssumption, SandboxInv, NEW d \in Directories, NEW p, NEW r, NEW R, NEW l, NEW a, NEW o,
         Now(d, p, r, R, l, a, o), Upload(d)
  PROVE  SandboxInv'
<1>1. /\ p = "upload" /\ PhaseOk(p, r, R, l, a, o)
      /\ UNCHANGED <<row, started, latest, image, answer, ledger, ops>>
  BY NowHolds DEF Upload, At, Now
<1>2. CASE Fault("upload") /\ CreateFailed(d)
  <2>1. faults' \in 0 .. MaxFaults /\ p \in {"reserve", "upload", "await"} /\ p # "await"
    BY <1>1, <1>2, FaultsBounded
  <2> QED
    BY <1>1, <1>2, <2>1, CreateFails
<1>3. CASE pc' = [pc EXCEPT ![d] = "intent"] /\ UNCHANGED <<rows, faults>>
  <2>1. "intent" \in Stages /\ p \in Claiming /\ p # "idle"
    BY <1>1 DEF Stages, Claiming
  <2>2. PhaseOk("intent", r, R, l, a, o)
    BY <1>1 DEF PhaseOk, Reading, Recovering, Claiming
  <2>3. faults' \in 0 .. MaxFaults /\ image' \in [Directories -> BOOLEAN]
    BY <1>1, <1>3, FaultsBounded
  <2> QED
    BY <1>1, <1>3, <2>1, <2>2, <2>3, PhaseMoves
<1> QED
  BY <1>2, <1>3, Zenon DEF Upload, Goto

(* beforePost: the row of the role, with its intent. *)
LEMMA JournalIntentKeeps ==
  ASSUME SandboxAssumption, SandboxInv, NEW d \in Directories, NEW p, NEW r, NEW R, NEW l, NEW a, NEW o,
         Now(d, p, r, R, l, a, o), JournalIntent(d)
  PROVE  SandboxInv'
<1> DEFINE w == [EmptyRow EXCEPT !.intent = TRUE]
           S == Append(R, w)
<1>1. /\ p = "intent" /\ PhaseOk(p, r, R, l, a, o) /\ r \in RoleIndex /\ R \in Seq(Row) /\ Len(R) \in Nat
      /\ l \in Verdicts /\ a \in Verdicts \cup {"rejected"} /\ o \in [RoleIndex -> Operation]
      /\ RowsOk(R, o) /\ VerdictOk(l, a, o)
      /\ row = [row EXCEPT ![d] = r] /\ latest = [latest EXCEPT ![d] = l]
      /\ answer = [answer EXCEPT ![d] = a] /\ ops = [ops EXCEPT ![d] = o]
      /\ UNCHANGED <<row, started, latest, image, answer, ledger, ops, faults>>
  BY NowHolds DEF JournalIntent, At, Now
<1>2. pc[d] = p /\ row[d] = r /\ rows[d] = R /\ ops[d] = o
  BY DEF Now
<1>3. Len(R) = r - 1 /\ r \in Nat /\ 1 <= r /\ r <= Len(Roles) /\ l = "none" /\ a \in {"none", "rejected"}
  BY <1>1, RolesAreThere DEF PhaseOk, RoleIndex, Claiming
<1>4. w \in Row /\ \A op : RowOk(w, op)
  BY NewRows
<1>5. rows' = [rows EXCEPT ![d] = S] /\ pc' = [pc EXCEPT ![d] = "post"]
  BY <1>2, Zenon DEF JournalIntent, Goto
<1>10. PhaseOk("post", r, S, l, a, o)
  <2> HIDE DEF w
  <2>1. Len(S) = r /\ S[r] = w
    BY <1>1, <1>3, <1>4, RowAppended
  <2> HIDE DEF S
  <2> QED
    BY <1>3, <2>1 DEF PhaseOk, Reading, Recovering, Claiming, w
<1> HIDE DEF w
<1>6. S \in Seq(Row) /\ Len(S) = r
  BY <1>1, <1>3, <1>4, RowAppended
<1>7. RowsOk(S, o)
  <2>1. Len(R) < Len(Roles)
    BY <1>1, <1>3, RolesAreThere
  <2> QED
    BY <1>1, <1>4, <2>1, AppendKeepsRows
<1>8. Becomes(d, "post", r, S, l, a, o)
  BY <1>1, <1>5, Zenon DEF Becomes
<1> HIDE DEF S
<1>9. DirInv("post", r, S, l, a, o)
  BY <1>1, <1>7, <1>10, Zenon DEF DirInv
<1>11. \A i \in RoleIndex : HeldBy("post", r, o, i) => HeldBy(pc[d], row[d], ops[d], i)
  BY <1>1, <1>2 DEF HeldBy, Claiming
<1>12. /\ pc[d] # "idle" /\ "post" \in Stages /\ started' = started /\ ledger' = ledger
       /\ image' \in [Directories -> BOOLEAN] /\ faults' \in 0 .. MaxFaults
  BY <1>1, <1>2, FaultsBounded DEF Stages
<1> QED
  BY <1>1, <1>6, <1>8, <1>9, <1>11, <1>12, StepMoves

(* One instance changes, and with it at most the stage of the command. *)
LEMMA OpMoves ==
  ASSUME SandboxAssumption, SandboxInv, NEW d \in Directories, NEW p, NEW r, NEW R, NEW l, NEW a, NEW o,
         Now(d, p, r, R, l, a, o), NEW k \in RoleIndex, NEW x \in Operation,
         p # "idle" \/ o[k].st # "none",
         NEW t \in Stages, t # p => t \notin Claiming,
         RowsOk(R, [o EXCEPT ![k] = x]), VerdictOk(l, a, [o EXCEPT ![k] = x]),
         PhaseOk(t, r, R, l, a, [o EXCEPT ![k] = x]), HeldBy(p, r, o, k),
         pc' = [pc EXCEPT ![d] = t], ops' = [ops EXCEPT ![d] = [o EXCEPT ![k] = x]],
         UNCHANGED <<row, started, rows, latest, image, answer, ledger, faults>>
  PROVE  SandboxInv'
<1> DEFINE q == [o EXCEPT ![k] = x]
<1>1. /\ p \in Stages /\ r \in RoleIndex /\ R \in Seq(Row) /\ l \in Verdicts
      /\ a \in Verdicts \cup {"rejected"} /\ o \in [RoleIndex -> Operation]
      /\ row = [row EXCEPT ![d] = r] /\ rows = [rows EXCEPT ![d] = R]
      /\ latest = [latest EXCEPT ![d] = l] /\ answer = [answer EXCEPT ![d] = a]
  BY NowHolds
<1>0. started[d] \/ FreshDir(p, R, l, a, o)
  BY NowHolds
<1>2. pc[d] = p /\ row[d] = r /\ ops[d] = o
  BY DEF Now
<1>3. q \in [RoleIndex -> Operation] /\ \A i \in RoleIndex : q[i] = IF i = k THEN x ELSE o[i]
  BY <1>1
<1>4. DirInv(t, r, R, l, a, q)
  BY Zenon DEF DirInv
<1>8. Becomes(d, t, r, R, l, a, q)
  BY <1>1, Zenon DEF Becomes
<1> HIDE DEF q
<1>5. \A i \in RoleIndex : HeldBy(t, r, q, i) => HeldBy(pc[d], row[d], ops[d], i)
  BY <1>2, <1>3 DEF HeldBy
<1>6. /\ started' \in [Directories -> BOOLEAN] /\ image' \in [Directories -> BOOLEAN]
      /\ \A e \in Directories : e # d => started'[e] = started[e]
  BY FaultsBounded, Zenon
<1>7. started'[d] \/ FreshDir(t, R, l, a, q)
  <2>1. ~FreshDir(p, R, l, a, o)
    BY DEF FreshDir
  <2> QED
    BY <1>0, <2>1, Zenon
<1>9. Reservations' /\ ledger' \subseteq RoleIndex
  <2>1. /\ pc' = [pc EXCEPT ![d] = t] /\ row' = [row EXCEPT ![d] = r]
        /\ ops' = [ops EXCEPT ![d] = q] /\ ledger' = ledger
    BY <1>8 DEF Becomes
  <2> QED
    BY <1>5, <2>1, ReservationsStay
<1>10. faults' \in 0 .. MaxFaults
  BY FaultsBounded
<1> QED
  BY <1>1, <1>3, <1>4, <1>6, <1>7, <1>8, <1>9, <1>10, DirMoves

(* The create request leaves, its intent journaled. *)
LEMMA PostKeeps ==
  ASSUME SandboxAssumption, SandboxInv, NEW d \in Directories, NEW p, NEW r, NEW R, NEW l, NEW a, NEW o,
         Now(d, p, r, R, l, a, o), PostInstance(d)
  PROVE  SandboxInv'
<1> DEFINE x == [o[r] EXCEPT !.st = "sent"]
           q == [o EXCEPT ![r] = x]
<1>1. /\ p = "post" /\ PhaseOk(p, r, R, l, a, o) /\ r \in RoleIndex /\ R \in Seq(Row) /\ Len(R) \in Nat
      /\ o \in [RoleIndex -> Operation] /\ RowsOk(R, o)
      /\ pc' = [pc EXCEPT ![d] = "await"]
      /\ UNCHANGED <<row, started, rows, latest, image, answer, ledger, faults>>
  BY NowHolds DEF PostInstance, At, Now, Goto, journal
<1>2. pc[d] = p /\ row[d] = r /\ ops[d] = o
  BY DEF Now
<1>3. Len(R) = r /\ R[r] = [EmptyRow EXCEPT !.intent = TRUE] /\ l = "none" /\ a \in {"none", "rejected"}
  BY <1>1 DEF PhaseOk
<1>4. x \in Operation /\ x.st = "sent"
  BY <1>1 DEF Operation
<1>5. ops' = [ops EXCEPT ![d] = q]
  <2>1. ops \in [Directories -> [RoleIndex -> Operation]]
    BY DEF SandboxInv, TypeOK
  <2> QED
    BY <1>2, <2>1 DEF PostInstance
<1> HIDE DEF x
<1>6. \A i \in RoleIndex : q[i] = IF i = r THEN x ELSE o[i]
  BY <1>1
<1>7. RowsOk(R, q)
  <2>1. R[r].intent /\ RowOk(R[r], q[r]) /\ r \in 1 .. Len(R)
    <3>1. R[r].intent /\ RowOk(R[r], q[r])
      BY <1>3, NewRows, Zenon
    <3>2. r \in 1 .. Len(R)
      BY <1>1, <1>3, RolesAreThere DEF RoleIndex
    <3> QED
      BY <3>1, <3>2
  <2>2. \A i \in RoleIndex : i # r => q[i] = o[i]
    BY <1>6
  <2> HIDE DEF q
  <2> QED
    BY <1>1, <2>1, <2>2, OpKeepsRows
<1>8. VerdictOk(l, a, q)
  BY <1>3 DEF VerdictOk, Definite
<1>9. PhaseOk("await", r, R, l, a, q)
  BY <1>1, <1>3, <1>4, <1>6 DEF PhaseOk, Reading, Recovering, Claiming
<1>10. /\ "await" \in Stages /\ "await" \notin Claiming /\ p # "idle" /\ HeldBy(p, r, o, r)
  BY <1>1 DEF Stages, Claiming, HeldBy
<1> QED
  BY <1>1, <1>4, <1>5, <1>7, <1>8, <1>9, <1>10, OpMoves

(* An instance that has been requested and is not over. *)
LEMMA InstanceMoves ==
  ASSUME SandboxAssumption, SandboxInv, NEW d \in Directories, NEW p, NEW r, NEW R, NEW l, NEW a, NEW o,
         Now(d, p, r, R, l, a, o), NEW k \in RoleIndex, NEW x \in Operation,
         \/ o[k].st = "sent" /\ x.st \in {"running", "refused"}
         \/ o[k].st = "running" /\ x.st \in Terminal,
         NEW t \in Stages, t # p => t \notin Claiming,
         t = p \/ \A q : PhaseOk(p, r, R, l, a, o) => PhaseOk(t, r, R, l, a, q),
         pc' = [pc EXCEPT ![d] = t], ops' = [ops EXCEPT ![d] = [o EXCEPT ![k] = x]],
         UNCHANGED <<row, started, rows, latest, image, answer, ledger, faults>>
  PROVE  SandboxInv'
<1> DEFINE q == [o EXCEPT ![k] = x]
<1>1. /\ PhaseOk(p, r, R, l, a, o) /\ r \in RoleIndex /\ R \in Seq(Row) /\ Len(R) \in Nat
      /\ o \in [RoleIndex -> Operation] /\ RowsOk(R, o) /\ VerdictOk(l, a, o)
  BY NowHolds
<1>2. o[k].st \in {"sent", "running"} /\ x.st # "none"
  BY DEF Terminal
<1>3. \A i \in RoleIndex : q[i] = IF i = k THEN x ELSE o[i]
  BY <1>1
<1>4. k \in 1 .. Len(R) /\ R[k].intent /\ RowOk(R[k], o[k])
  BY <1>1, <1>2, RolesAreThere DEF RowsOk, RoleIndex
<1>5. RowOk(R[k], x)
  BY <1>4 DEF RowOk, Live, Terminal
<1> HIDE DEF q
<1>6. RowsOk(R, q)
  <2>1. RowOk(R[k], q[k]) /\ \A i \in RoleIndex : i # k => q[i] = o[i]
    BY <1>3, <1>5
  <2> QED
    BY <1>1, <1>4, <2>1, OpKeepsRows
<1>7. VerdictOk(l, a, q)
  BY <1>1, <1>2 DEF VerdictOk, Definite
<1>8. PhaseOk(t, r, R, l, a, q)
  <2>1. CASE t = p
    BY <1>1, <1>2, <1>3, <2>1 DEF PhaseOk
  <2>2. CASE t # p
    BY <1>1, <2>2
  <2> QED
    BY <2>1, <2>2
<1>9. HeldBy(p, r, o, k) /\ o[k].st # "none"
  BY <1>2 DEF HeldBy
<1> QED
  BY <1>1, <1>6, <1>7, <1>8, <1>9, OpMoves DEF q

(* The answer to the create request. *)
LEMMA AwaitKeeps ==
  ASSUME SandboxAssumption, SandboxInv, NEW d \in Directories, NEW p, NEW r, NEW R, NEW l, NEW a, NEW o,
         Now(d, p, r, R, l, a, o), AwaitCreated(d)
  PROVE  SandboxInv'
<1>1. /\ p = "await" /\ PhaseOk(p, r, R, l, a, o) /\ r \in RoleIndex /\ R \in Seq(Row) /\ Len(R) \in Nat
      /\ o \in [RoleIndex -> Operation] /\ RowsOk(R, o)
      /\ UNCHANGED <<row, started, latest, image, answer, ledger, ops>>
      /\ row = [row EXCEPT ![d] = r]
  BY NowHolds DEF AwaitCreated, At, Now
<1>2. pc[d] = p /\ row[d] = r /\ rows[d] = R /\ ops[d] = o /\ Op(d) = o[r] /\ p # "idle"
  BY <1>1 DEF Now, Op
<1>3. Len(R) = r /\ o[r].st # "none" /\ l = "none" /\ a \in {"none", "rejected"}
  BY <1>1 DEF PhaseOk
<1>4. r \in 1 .. Len(R) /\ R[r] \in Row /\ RowOk(R[r], o[r]) /\ o[r] \in Operation
  BY <1>1, <1>3, RolesAreThere, ElementOfSeq DEF RoleIndex, RowsOk
<1>5. ASSUME NEW w \in Row, RowOk(w, o[r]), w.intent <=> R[r].intent,
             NEW t \in {"poll", "finish"}, t = "poll" => w.record, SetRow(d, w),
             pc' = [pc EXCEPT ![d] = t], faults' \in 0 .. MaxFaults
      PROVE  SandboxInv'
  <2> DEFINE S == [R EXCEPT ![r] = w]
  <2>1. rows' = [rows EXCEPT ![d] = S]
    BY <1>2, <1>5 DEF SetRow
  <2>2. Len(S) = Len(R) /\ S[r] = w
    BY <1>1, <1>4, RowSet
  <2>3. Rewrites(d, t, r, S)
    BY <1>1, <1>5, <2>1, Zenon DEF Rewrites
  <2> HIDE DEF S
  <2>4. PhaseOk(t, r, S, l, a, o)
    <3>1. CASE t = "finish"
      BY <3>1, EndPhase
    <3>2. CASE t = "poll"
      BY <1>3, <1>5, <2>2, <3>2 DEF PhaseOk, Reading, Recovering, Claiming
    <3> QED
      BY <1>5, <3>1, <3>2
  <2>5. t \in Stages \ Claiming
    BY <1>5 DEF Stages, Claiming
  <2> QED
    BY <1>1, <1>2, <1>4, <1>5, <2>3, <2>4, <2>5, RowMoves DEF S
<1>6. ASSUME o[r].st \notin {"sent", "refused"}, NEW c \in {"created", "outcome-unknown"},
             NEW t \in {"poll", "finish"}, SetRow(d, [R[r] EXCEPT !.record = TRUE, !.create = c]),
             pc' = [pc EXCEPT ![d] = t], faults' \in 0 .. MaxFaults
      PROVE  SandboxInv'
  <2> DEFINE w == [R[r] EXCEPT !.record = TRUE, !.create = c]
  <2>1. /\ w \in Row /\ w.create = c /\ (w.intent <=> R[r].intent) /\ w.record
        /\ w.receipt = R[r].receipt /\ w.envelope = R[r].envelope
    BY <1>4, <1>6 DEF Row
  <2>2. SetRow(d, w)
    BY <1>6
  <2> HIDE DEF w
  <2>3. o[r].st \in Live
    BY <1>3, <1>4, <1>6 DEF Operation, Live
  <2>4. RowOk(w, o[r])
    BY <1>4, <1>6, <2>1, <2>3 DEF RowOk
  <2> QED
    BY <1>5, <1>6, <2>1, <2>2, <2>4
<1>7. CASE /\ o[r].st \notin {"sent", "refused"}
           /\ SetRow(d, [R[r] EXCEPT !.record = TRUE, !.create = "created"])
           /\ pc' = [pc EXCEPT ![d] = "poll"] /\ UNCHANGED faults
  BY <1>6, <1>7, FaultsBounded
<1>8. CASE /\ o[r].st \notin {"sent", "refused"} /\ Fault("lost")
           /\ SetRow(d, [R[r] EXCEPT !.record = TRUE, !.create = "outcome-unknown"])
           /\ pc' = [pc EXCEPT ![d] = "finish"]
  BY <1>6, <1>8, FaultsBounded
<1>9. CASE o[r].st = "refused" /\ CreateFailed(d) /\ UNCHANGED faults
  <2>1. faults' \in 0 .. MaxFaults /\ p \in {"reserve", "upload", "await"}
    BY <1>1, <1>9, FaultsBounded
  <2> QED
    BY <1>1, <1>9, <2>1, CreateFails
<1>10. CASE /\ Fault("lost")
            /\ SetRow(d, [R[r] EXCEPT !.create = "outcome-unknown"])
            /\ pc' = [pc EXCEPT ![d] = "finish"]
  <2> DEFINE w == [R[r] EXCEPT !.create = "outcome-unknown"]
  <2>1. /\ w \in Row /\ w.create = "outcome-unknown" /\ (w.intent <=> R[r].intent)
        /\ (w.record <=> R[r].record) /\ w.receipt = R[r].receipt /\ w.envelope = R[r].envelope
    BY <1>4, CreateSet
  <2>2. SetRow(d, w) /\ faults' \in 0 .. MaxFaults
    BY <1>10, FaultsBounded
  <2> HIDE DEF w
  <2>4. RowOk(w, o[r])
    BY <1>4, <2>1 DEF RowOk
  <2> QED
    BY <1>5, <1>10, <2>1, <2>2, <2>4
<1> QED
  <2>1. AwaitCreated(d)
    OBVIOUS
  <2> QED
    BY <1>2, <1>7, <1>8, <1>9, <1>10, <2>1, Zenon DEF AwaitCreated, Goto

(* What a read may report of an instance. *)
SeenOk(seen, op) ==
  /\ seen.receipt \in {"none", "running"} \cup Terminal /\ seen.envelope \in Qualities \cup {0}
  /\ seen.receipt \in Terminal => op.st = seen.receipt
  /\ seen.envelope # 0 => seen.receipt = "SUCCESS" /\ seen.envelope = op.q

(* readWithin reports the instance, or less than it is. *)
LEMMA ReadsAreTrue ==
  ASSUME NEW d, Op(d) \in Operation, Op(d).st \in Live, NEW seen \in Reads(d)
  PROVE  /\ seen \in {Observed(d), Unreadable} => SeenOk(seen, Op(d))
         /\ ReadYields(d, seen) => SeenOk(seen, Op(d))
<1>1. SeenOk(Observed(d), Op(d))
  BY DEF SeenOk, Observed, Operation, Live, Terminal
<1>2. SeenOk(Unreadable, Op(d))
  BY DEF SeenOk, Unreadable, Terminal
<1>3. Op(d).st = "SUCCESS" => SeenOk(Streamless, Op(d))
  BY DEF SeenOk, Streamless, Terminal
<1>4. seen \in {Observed(d), Unreadable} => SeenOk(seen, Op(d))
  BY <1>1, <1>2
<1>5. ReadYields(d, seen) => SeenOk(seen, Op(d))
  BY <1>1, <1>2, <1>3, Zenon DEF ReadYields
<1> QED
  BY <1>4, <1>5

(* A read takes at most one fault. *)
LEMMA ReadFaults ==
  ASSUME SandboxAssumption, SandboxInv, NEW d, NEW seen, ReadYields(d, seen)
  PROVE  faults' \in 0 .. MaxFaults
BY FaultsBounded, Zenon DEF ReadYields

(* A result is accepted into the journal. *)
LEMMA ResultMoves ==
  ASSUME SandboxAssumption, SandboxInv, NEW d \in Directories, NEW p, NEW r, NEW R, NEW l, NEW a, NEW o,
         Now(d, p, r, R, l, a, o), p \in Reading \cup Recovering,
         NEW seen, SeenOk(seen, o[r]), acceptResult(d, seen), faults' \in 0 .. MaxFaults,
         UNCHANGED <<started, latest, image, answer, ledger, ops>>,
         \/ /\ pc' = [pc EXCEPT ![d] = "finish"] \/ pc' = [pc EXCEPT ![d] = "finishRecovery"]
            /\ UNCHANGED row
         \/ /\ p \in Reading /\ r < Len(Roles)
            /\ pc' = [pc EXCEPT ![d] = "reserve"] /\ row' = [row EXCEPT ![d] = r + 1]
  PROVE  SandboxInv'
<1>1. /\ PhaseOk(p, r, R, l, a, o) /\ r \in RoleIndex /\ R \in Seq(Row) /\ Len(R) \in Nat
      /\ o \in [RoleIndex -> Operation] /\ RowsOk(R, o)
      /\ row = [row EXCEPT ![d] = r]
  BY NowHolds
<1>2. row[d] = r /\ rows[d] = R
  BY DEF Now
<1>3. p # "idle" /\ r <= Len(R) /\ (p \in Reading => Len(R) = r /\ l = "none" /\ a \in {"none", "rejected"})
  BY <1>1, RolesAreThere DEF PhaseOk, RoleIndex, Reading, Recovering
<1>4. r \in 1 .. Len(R) /\ R[r] \in Row /\ RowOk(R[r], o[r])
  BY <1>1, <1>3, RolesAreThere, ElementOfSeq DEF RoleIndex, RowsOk
<1> DEFINE w == [R[r] EXCEPT !.receipt = seen.receipt, !.envelope = seen.envelope]
           S == [R EXCEPT ![r] = w]
<1>5. /\ w \in Row /\ w.create = R[r].create /\ (w.intent <=> R[r].intent)
      /\ (w.record <=> R[r].record) /\ w.receipt = seen.receipt /\ w.envelope = seen.envelope
  BY <1>4 DEF SeenOk, Row
<1>6. rows' = [rows EXCEPT ![d] = S]
  BY <1>2 DEF acceptResult, SetRow
<1> HIDE DEF w
<1>7. RowOk(w, o[r])
  BY <1>4, <1>5 DEF RowOk, SeenOk
<1>8. Len(S) = Len(R)
  BY <1>1, <1>4, <1>5, RowSet
<1>9. CASE pc' = [pc EXCEPT ![d] = "finish"] /\ UNCHANGED row
  <2>1. Rewrites(d, "finish", r, S)
    BY <1>1, <1>6, <1>9, Zenon DEF Rewrites
  <2>2. PhaseOk("finish", r, S, l, a, o) /\ "finish" \in Stages \ Claiming
    BY EndPhase
  <2> QED
    BY <1>1, <1>3, <1>4, <1>5, <1>7, <2>1, <2>2, RowMoves
<1>10. CASE pc' = [pc EXCEPT ![d] = "finishRecovery"] /\ UNCHANGED row
  <2>1. Rewrites(d, "finishRecovery", r, S)
    BY <1>1, <1>6, <1>10, Zenon DEF Rewrites
  <2>2. PhaseOk("finishRecovery", r, S, l, a, o) /\ "finishRecovery" \in Stages \ Claiming
    BY EndPhase
  <2> QED
    BY <1>1, <1>3, <1>4, <1>5, <1>7, <2>1, <2>2, RowMoves
<1>11. CASE /\ p \in Reading /\ r < Len(Roles)
            /\ pc' = [pc EXCEPT ![d] = "reserve"] /\ row' = [row EXCEPT ![d] = r + 1]
  <2>1. Rewrites(d, "reserve", r + 1, S)
    BY <1>1, <1>6, <1>11, Zenon DEF Rewrites
  <2>2. r + 1 \in RoleIndex /\ r \in Nat
    BY <1>1, <1>11, RolesAreThere DEF RoleIndex
  <2>3. PhaseOk("reserve", r + 1, S, l, a, o)
    <3> HIDE DEF S
    <3> QED
      BY <1>3, <1>8, <1>11, <2>2 DEF PhaseOk, Reading, Recovering, Claiming
  <2>4. "reserve" \in Stages \ Claiming
    BY DEF Stages, Claiming
  <2> QED
    BY <1>1, <1>3, <1>4, <1>5, <1>7, <2>1, <2>2, <2>3, <2>4, RowMoves
<1> QED
  BY <1>9, <1>10, <1>11

(* A command that reads its instance knows the row it belongs to. *)
LEMMA ReadingOf ==
  ASSUME SandboxAssumption, SandboxInv, NEW d \in Directories, NEW p, NEW r, NEW R, NEW l, NEW a, NEW o,
         Now(d, p, r, R, l, a, o), p \in Reading \cup Recovering
  PROVE  /\ pc[d] = p /\ row[d] = r /\ rows[d] = R /\ ops[d] = o /\ p # "idle"
         /\ r \in RoleIndex /\ r \in 1 .. Len(R) /\ R \in Seq(Row) /\ R[r] \in Row /\ R[r].record
         /\ Op(d) = o[r] /\ Op(d) \in Operation /\ Op(d).st \in Live /\ RowOk(R[r], o[r])
<1>1. /\ PhaseOk(p, r, R, l, a, o) /\ r \in RoleIndex /\ R \in Seq(Row) /\ Len(R) \in Nat
      /\ o \in [RoleIndex -> Operation] /\ RowsOk(R, o)
  BY NowHolds
<1>2. pc[d] = p /\ row[d] = r /\ rows[d] = R /\ ops[d] = o /\ p # "idle"
  BY DEF Now, Reading, Recovering
<1>3. r <= Len(R) /\ R[r].record
  BY <1>1, RolesAreThere DEF PhaseOk, RoleIndex, Reading, Recovering
<1>4. r \in 1 .. Len(R) /\ R[r] \in Row /\ RowOk(R[r], o[r])
  BY <1>1, <1>3, RolesAreThere, ElementOfSeq DEF RoleIndex, RowsOk
<1>5. Op(d) = o[r] /\ Op(d) \in Operation
  BY <1>1, <1>2 DEF Op
<1>6. Op(d).st \in Live
  BY <1>3, <1>4, <1>5 DEF RowOk
<1> QED
  BY <1>1, <1>2, <1>3, <1>4, <1>5, <1>6

(* poll. *)
LEMMA PollKeeps ==
  ASSUME SandboxAssumption, SandboxInv, NEW d \in Directories, NEW p, NEW r, NEW R, NEW l, NEW a, NEW o,
         Now(d, p, r, R, l, a, o), Poll(d)
  PROVE  SandboxInv'
<1>1. p = "poll" /\ p \in Reading /\ UNCHANGED <<started, latest, image, answer, ledger, ops>>
  BY DEF Poll, At, Now, Reading
<1>2. /\ pc[d] = p /\ row[d] = r /\ rows[d] = R /\ ops[d] = o /\ p # "idle"
      /\ Op(d) = o[r] /\ Op(d) \in Operation /\ Op(d).st \in Live
  BY <1>1, ReadingOf
<1>3. ASSUME NEW seen \in Reads(d), ReadYields(d, seen), acceptResult(d, seen), AfterResult(d, seen)
      PROVE  SandboxInv'
  <2>1. SeenOk(seen, o[r]) /\ faults' \in 0 .. MaxFaults
    BY <1>2, <1>3, ReadsAreTrue, ReadFaults
  <2>2. \/ pc' = [pc EXCEPT ![d] = "finish"] /\ UNCHANGED row
        \/ r < Len(Roles) /\ pc' = [pc EXCEPT ![d] = "reserve"] /\ row' = [row EXCEPT ![d] = r + 1]
    BY <1>2, <1>3 DEF AfterResult, Goto
  <2> QED
    BY <1>1, <1>3, <2>1, <2>2, ResultMoves
<1>4. CASE pc' = [pc EXCEPT ![d] = "cancel"] /\ UNCHANGED <<rows, row, faults>>
  <2>1. "cancel" \in Stages /\ "cancel" \notin Claiming
    BY DEF Stages, Claiming
  <2>2. PhaseOk("cancel", r, R, l, a, o)
    <3>1. PhaseOk(p, r, R, l, a, o)
      BY NowHolds
    <3> QED
      BY <1>1, <3>1 DEF PhaseOk, Reading, Recovering, Claiming
  <2>3. image' \in [Directories -> BOOLEAN] /\ faults' \in 0 .. MaxFaults
    BY <1>1, <1>4, FaultsBounded
  <2> QED
    BY <1>1, <1>2, <1>4, <2>1, <2>2, <2>3, PhaseMoves
<1> QED
  BY <1>3, <1>4, Zenon DEF Poll, Goto

(* cancel, before the DELETE. *)
LEMMA CancelReadKeeps ==
  ASSUME SandboxAssumption, SandboxInv, NEW d \in Directories, NEW p, NEW r, NEW R, NEW l, NEW a, NEW o,
         Now(d, p, r, R, l, a, o), CancelRead(d)
  PROVE  SandboxInv'
<1>1. /\ p \in {"cancel", "recoverCancel"} /\ p \in Reading \cup Recovering
      /\ p = "cancel" => p \in Reading
      /\ UNCHANGED <<started, latest, image, answer, ledger, ops>>
  BY DEF CancelRead, Now, Reading, Recovering
<1>2. /\ pc[d] = p /\ row[d] = r /\ rows[d] = R /\ ops[d] = o /\ p # "idle"
      /\ r \in RoleIndex /\ r \in 1 .. Len(R) /\ R \in Seq(Row) /\ R[r] \in Row /\ R[r].record
      /\ Op(d) = o[r] /\ Op(d) \in Operation /\ Op(d).st \in Live /\ RowOk(R[r], o[r])
  BY <1>1, ReadingOf
<1>3. PICK seen \in Reads(d) :
          /\ ReadYields(d, seen)
          /\ \/ /\ SetRow(d, [rows[d][row[d]] EXCEPT !.cancel = TRUE])
                /\ Goto(d, IF At(d, "cancel") THEN "delete" ELSE "recoverDelete")
                /\ UNCHANGED row
             \/ /\ acceptResult(d, seen)
                /\ IF At(d, "cancel") THEN AfterResult(d, seen)
                   ELSE Goto(d, "finishRecovery") /\ UNCHANGED row
  BY Zenon DEF CancelRead
<1>4. SeenOk(seen, o[r]) /\ faults' \in 0 .. MaxFaults
  BY <1>2, <1>3, ReadsAreTrue, ReadFaults
<1>5. CASE /\ SetRow(d, [rows[d][row[d]] EXCEPT !.cancel = TRUE])
           /\ Goto(d, IF At(d, "cancel") THEN "delete" ELSE "recoverDelete")
           /\ UNCHANGED row
  <2>1. PICK t \in {"delete", "recoverDelete"} : /\ (p = "cancel" => t = "delete")
          /\ (p # "cancel" => t = "recoverDelete") /\ pc' = [pc EXCEPT ![d] = t]
    BY <1>2, <1>5 DEF Goto, At
  <2> DEFINE w == [R[r] EXCEPT !.cancel = TRUE]
             S == [R EXCEPT ![r] = w]
  <2>2. /\ w \in Row /\ w.create = R[r].create /\ (w.intent <=> R[r].intent)
        /\ (w.record <=> R[r].record) /\ w.receipt = R[r].receipt /\ w.envelope = R[r].envelope
    BY <1>2, CancelSet
  <2>3. rows' = [rows EXCEPT ![d] = S]
    BY <1>2, <1>5 DEF SetRow
  <2> HIDE DEF w
  <2>4. RowOk(w, o[r])
    BY <1>2, <2>2 DEF RowOk
  <2>5. Len(S) = Len(R) /\ S[r] = w
    BY <1>2, <2>2, RowSet
  <2>6. row' = [row EXCEPT ![d] = r]
    BY <1>5, NowHolds
  <2>7. Rewrites(d, t, r, S)
    BY <1>1, <2>1, <2>3, <2>6, Zenon DEF Rewrites
  <2> HIDE DEF S
  <2>8. PhaseOk(t, r, S, l, a, o)
    <3>1. PhaseOk(p, r, R, l, a, o)
      BY NowHolds
    <3> QED
      BY <1>1, <1>2, <2>1, <2>2, <2>5, <3>1 DEF PhaseOk, Reading, Recovering, Claiming
  <2>9. t \in Stages \ Claiming
    BY <2>1 DEF Stages, Claiming
  <2> QED
    BY <1>2, <1>4, <2>2, <2>4, <2>7, <2>8, <2>9, RowMoves DEF S
<1>6. CASE /\ acceptResult(d, seen)
           /\ IF At(d, "cancel") THEN AfterResult(d, seen)
              ELSE Goto(d, "finishRecovery") /\ UNCHANGED row
  <2>1. \/ /\ pc' = [pc EXCEPT ![d] = "finish"] \/ pc' = [pc EXCEPT ![d] = "finishRecovery"]
           /\ UNCHANGED row
        \/ /\ p \in Reading /\ r < Len(Roles)
           /\ pc' = [pc EXCEPT ![d] = "reserve"] /\ row' = [row EXCEPT ![d] = r + 1]
    BY <1>1, <1>2, <1>6 DEF AfterResult, Goto, At
  <2> QED
    BY <1>1, <1>4, <1>6, <2>1, ResultMoves
<1> QED
  BY <1>3, <1>5, <1>6

(* The DELETE request ends the instance, or has no effect. *)
LEMMA DeleteKeeps ==
  ASSUME SandboxAssumption, SandboxInv, NEW d \in Directories, NEW p, NEW r, NEW R, NEW l, NEW a, NEW o,
         Now(d, p, r, R, l, a, o), DeleteInstance(d)
  PROVE  SandboxInv'
<1>1. /\ p \in {"delete", "recoverDelete"} /\ p \in Reading \cup Recovering
      /\ UNCHANGED <<row, started, rows, latest, image, answer, ledger, faults>>
  BY DEF DeleteInstance, Now, Reading, Recovering, journal
<1>2. /\ pc[d] = p /\ row[d] = r /\ rows[d] = R /\ ops[d] = o /\ p # "idle"
      /\ r \in RoleIndex /\ Op(d) = o[r] /\ Op(d) \in Operation /\ Op(d).st \in Live
  BY <1>1, ReadingOf
<1>3. PICK t \in {"drain", "recoverDrain"} : /\ (p = "delete" => t = "drain")
          /\ (p # "delete" => t = "recoverDrain") /\ pc' = [pc EXCEPT ![d] = t]
  BY <1>2 DEF DeleteInstance, Goto, At
<1>4. t \in Stages /\ t \notin Claiming
  BY <1>3 DEF Stages, Claiming
<1>5. \A q : PhaseOk(p, r, R, l, a, o) => PhaseOk(t, r, R, l, a, q)
  BY <1>1, <1>3 DEF PhaseOk, Reading, Recovering, Claiming
<1>6. CASE UNCHANGED ops
  <2>1. image' \in [Directories -> BOOLEAN] /\ faults' \in 0 .. MaxFaults
    BY <1>1, FaultsBounded
  <2>2. PhaseOk(t, r, R, l, a, o)
    BY <1>5, NowHolds
  <2> QED
    BY <1>1, <1>2, <1>3, <1>4, <1>6, <2>1, <2>2, PhaseMoves
<1>7. CASE Op(d).st = "running" /\ ops' = [ops EXCEPT ![d][row[d]].st = "CANCELLED"]
  <2> DEFINE x == [o[r] EXCEPT !.st = "CANCELLED"]
  <2>1. x \in Operation /\ x.st \in Terminal
    BY <1>2 DEF Operation, Terminal
  <2>2. ops' = [ops EXCEPT ![d] = [o EXCEPT ![r] = x]]
    BY <1>2, <1>7
  <2> HIDE DEF x
  <2>3. /\ \/ o[r].st = "sent" /\ x.st \in {"running", "refused"}
           \/ o[r].st = "running" /\ x.st \in Terminal
        /\ (t # p => t \notin Claiming)
        /\ (t = p \/ \A q : PhaseOk(p, r, R, l, a, o) => PhaseOk(t, r, R, l, a, q))
    <3>1. o[r].st = "running"
      BY <1>2, <1>7
    <3> QED
      BY <1>4, <1>5, <2>1, <3>1, Zenon
  <2>4. t \in Stages /\ x \in Operation /\ r \in RoleIndex
    BY <1>2, <1>4, <2>1
  <2>5. pc' = [pc EXCEPT ![d] = t]
        /\ UNCHANGED <<row, started, rows, latest, image, answer, ledger, faults>>
    BY <1>1, <1>3, Zenon
  <2> QED
    BY <2>2, <2>3, <2>4, <2>5, Zenon, InstanceMoves
<1> QED
  BY <1>6, <1>7, Zenon DEF DeleteInstance

(* cancel, after the DELETE: what was read, not what was asked for. *)
LEMMA AfterDeleteKeeps ==
  ASSUME SandboxAssumption, SandboxInv, NEW d \in Directories, NEW p, NEW r, NEW R, NEW l, NEW a, NEW o,
         Now(d, p, r, R, l, a, o), AfterDelete(d)
  PROVE  SandboxInv'
<1>1. /\ p \in {"drain", "recoverDrain"} /\ p \in Reading \cup Recovering
      /\ p = "drain" => p \in Reading
      /\ UNCHANGED <<started, latest, image, answer, ledger, ops, faults>>
  BY DEF AfterDelete, Now, Reading, Recovering
<1>2. /\ pc[d] = p /\ row[d] = r /\ ops[d] = o
      /\ Op(d) = o[r] /\ Op(d) \in Operation /\ Op(d).st \in Live
  BY <1>1, ReadingOf
<1>3. PICK seen \in {Observed(d), Unreadable} :
          /\ acceptResult(d, seen)
          /\ IF At(d, "drain") THEN AfterResult(d, seen)
             ELSE Goto(d, "finishRecovery") /\ UNCHANGED row
  BY Zenon DEF AfterDelete
<1>4. SeenOk(seen, o[r]) /\ faults' \in 0 .. MaxFaults
  BY <1>1, <1>2, <1>3, ReadsAreTrue, FaultsBounded DEF Reads
<1>5. \/ /\ pc' = [pc EXCEPT ![d] = "finish"] \/ pc' = [pc EXCEPT ![d] = "finishRecovery"]
         /\ UNCHANGED row
      \/ /\ p \in Reading /\ r < Len(Roles)
         /\ pc' = [pc EXCEPT ![d] = "reserve"] /\ row' = [row EXCEPT ![d] = r + 1]
  BY <1>1, <1>2, <1>3 DEF AfterResult, Goto, At
<1> QED
  BY <1>1, <1>3, <1>4, <1>5, ResultMoves

(* status: one read. *)
LEMMA RecoverReadKeeps ==
  ASSUME SandboxAssumption, SandboxInv, NEW d \in Directories, NEW p, NEW r, NEW R, NEW l, NEW a, NEW o,
         Now(d, p, r, R, l, a, o), RecoverRead(d)
  PROVE  SandboxInv'
<1>1. /\ p = "recover" /\ p \in Reading \cup Recovering
      /\ UNCHANGED <<row, started, latest, image, answer, ledger, ops>>
      /\ pc' = [pc EXCEPT ![d] = "finishRecovery"]
  BY DEF RecoverRead, At, Now, Reading, Recovering, Goto
<1>2. Op(d) = o[r] /\ Op(d) \in Operation /\ Op(d).st \in Live
  BY <1>1, ReadingOf
<1>3. PICK seen \in Reads(d) : ReadYields(d, seen) /\ acceptResult(d, seen)
  BY Zenon DEF RecoverRead
<1>4. SeenOk(seen, o[r]) /\ faults' \in 0 .. MaxFaults
  BY <1>2, <1>3, ReadsAreTrue, ReadFaults
<1> QED
  BY <1>1, <1>3, <1>4, ResultMoves

(* The readback a cancellation by hand begins with. *)
LEMMA CheckOwnershipKeeps ==
  ASSUME SandboxAssumption, SandboxInv, NEW d \in Directories, NEW p, NEW r, NEW R, NEW l, NEW a, NEW o,
         Now(d, p, r, R, l, a, o), CheckOwnership(d)
  PROVE  SandboxInv'
<1>1. p = "ownership" /\ p # "idle" /\ UNCHANGED <<row, started, rows, latest, image, ledger, ops>>
  BY DEF CheckOwnership, At, Now, journal
<1>2. CASE pc' = [pc EXCEPT ![d] = "recoverCancel"] /\ UNCHANGED <<answer, faults>>
  <2>1. "recoverCancel" \in Stages /\ "recoverCancel" \notin Claiming
    BY DEF Stages, Claiming
  <2>2. PhaseOk("recoverCancel", r, R, l, a, o)
    <3>1. PhaseOk(p, r, R, l, a, o)
      BY NowHolds
    <3> QED
      BY <1>1, <3>1 DEF PhaseOk, Reading, Recovering, Claiming
  <2>3. image' \in [Directories -> BOOLEAN] /\ faults' \in 0 .. MaxFaults
    BY <1>1, <1>2, FaultsBounded
  <2> QED
    BY <1>1, <1>2, <2>1, <2>2, <2>3, PhaseMoves
<1>3. CASE /\ Fault("read") /\ answer' = [answer EXCEPT ![d] = "rejected"]
           /\ pc' = [pc EXCEPT ![d] = "idle"]
  <2>1. faults' \in 0 .. MaxFaults /\ "rejected" \in Verdicts \cup {"rejected"} /\ "rejected" \notin Definite
    BY <1>3, FaultsBounded DEF Definite
  <2> QED
    BY <1>1, <1>3, <2>1, AnswerMoves
<1> QED
  BY <1>2, <1>3, Zenon DEF CheckOwnership, Goto

(* The process dies; what is on disk stays. *)
LEMMA CrashKeeps ==
  ASSUME SandboxAssumption, SandboxInv, NEW d \in Directories, NEW p, NEW r, NEW R, NEW l, NEW a, NEW o,
         Now(d, p, r, R, l, a, o), Crash(d)
  PROVE  SandboxInv'
<1>1. /\ p # "idle" /\ pc' = [pc EXCEPT ![d] = "idle"]
      /\ UNCHANGED <<row, started, rows, latest, image, answer, ledger, ops>>
  BY DEF Crash, At, Now, Goto, journal
<1>2. image' \in [Directories -> BOOLEAN] /\ faults' \in 0 .. MaxFaults
  BY <1>1, FaultsBounded DEF Crash
<1>3. PhaseOk("idle", r, R, l, a, o) /\ "idle" \in Stages /\ "idle" \notin Claiming
  BY EndPhase
<1> QED
  BY <1>1, <1>2, <1>3, PhaseMoves

(* recover takes up the outstanding row, or none. *)
LEMMA RecoverKeeps ==
  ASSUME SandboxAssumption, SandboxInv, NEW d \in Directories, NEW p, NEW r, NEW R, NEW l, NEW a, NEW o,
         Now(d, p, r, R, l, a, o), NEW cancel, Recover(d, cancel)
  PROVE  SandboxInv'
<1>1. /\ p = "idle" /\ UNCHANGED <<started, rows, latest, image, ledger, ops, faults>>
      /\ pc[d] = p /\ row[d] = r /\ rows[d] = R /\ latest[d] = l
  BY DEF Recover, At, Now, journal
<1>2. /\ R \in Seq(Row) /\ Len(R) \in Nat /\ RowsOk(R, o) /\ VerdictOk(l, a, o) /\ r \in RoleIndex
      /\ l \in Verdicts /\ a \in Verdicts \cup {"rejected"} /\ o \in [RoleIndex -> Operation]
      /\ pc = [pc EXCEPT ![d] = p] /\ rows = [rows EXCEPT ![d] = R] /\ latest = [latest EXCEPT ![d] = l]
      /\ row = [row EXCEPT ![d] = r] /\ answer = [answer EXCEPT ![d] = a] /\ ops = [ops EXCEPT ![d] = o]
  BY NowHolds
<1>3. faults' \in 0 .. MaxFaults /\ image' \in [Directories -> BOOLEAN]
  BY <1>1, FaultsBounded
<1>4. CASE answer' = [answer EXCEPT ![d] = "rejected"] /\ UNCHANGED <<pc, row>>
  <2>1. "rejected" \in Verdicts \cup {"rejected"} /\ "rejected" \notin Definite
    BY DEF Definite
  <2>2. pc' = [pc EXCEPT ![d] = "idle"]
    BY <1>1, <1>2, <1>4
  <2> QED
    BY <1>1, <1>3, <1>4, <2>1, <2>2, AnswerMoves
<1>5. CASE /\ started[d] /\ l = "sandbox-verified"
           /\ answer' = [answer EXCEPT ![d] = "sandbox-verified"] /\ UNCHANGED <<pc, row>>
  <2>1. "sandbox-verified" \in Verdicts \cup {"rejected"}
    BY DEF Verdicts
  <2>2. pc' = [pc EXCEPT ![d] = "idle"]
    BY <1>1, <1>2, <1>5
  <2>3. \A i \in RoleIndex : o[i].st \notin {"sent", "running"}
    BY <1>2, <1>5 DEF VerdictOk, Definite
  <2> QED
    BY <1>1, <1>3, <1>5, <2>1, <2>2, <2>3, AnswerMoves
<1>6. ASSUME started[d], UNCHANGED answer, NEW t \in {"finishRecovery", "ownership", "recover"},
             NEW s \in RoleIndex, t # "finishRecovery" => s \in Outstanding(d),
             pc' = [pc EXCEPT ![d] = t], row' = [row EXCEPT ![d] = s]
      PROVE  SandboxInv'
  <2>1. Becomes(d, t, s, R, l, a, o)
    BY <1>1, <1>2, <1>6, Zenon DEF Becomes
  <2>2. PhaseOk(t, s, R, l, a, o)
    <3>1. CASE t = "finishRecovery"
      BY <3>1, EndPhase
    <3>2. CASE t # "finishRecovery"
      <4>1. s \in 1 .. Len(R) /\ R[s].record
        BY <1>1, <1>6, <3>2 DEF Outstanding
      <4> QED
        BY <1>2, <1>6, <3>2, <4>1 DEF PhaseOk, Reading, Recovering, Claiming
    <3> QED
      BY <3>1, <3>2
  <2>3. DirInv(t, s, R, l, a, o)
    BY <1>2, <2>2, Zenon DEF DirInv
  <2>4. t \in Stages /\ t \notin Claiming
    BY <1>6 DEF Stages, Claiming
  <2>5. \A i \in RoleIndex : HeldBy(t, s, o, i) => HeldBy(pc[d], row[d], ops[d], i)
    BY <2>4 DEF HeldBy, Now
  <2>6. Reservations' /\ ledger' \subseteq RoleIndex
    <3>1. /\ pc' = [pc EXCEPT ![d] = t] /\ row' = [row EXCEPT ![d] = s]
          /\ ops' = [ops EXCEPT ![d] = o] /\ ledger' = ledger
      BY <1>1, <2>1 DEF Becomes
    <3> QED
      BY <2>5, <3>1, ReservationsStay
  <2>7. /\ started' \in [Directories -> BOOLEAN] /\ \A e \in Directories : e # d => started'[e] = started[e]
    BY <1>1, FaultsBounded, Zenon
  <2>8. started'[d] \/ FreshDir(t, R, l, a, o)
    BY <1>1, <1>6, Zenon
  <2> QED
    BY <1>2, <1>3, <1>6, <2>1, <2>3, <2>4, <2>6, <2>7, <2>8, DirMoves
<1>7. CASE /\ started[d] /\ UNCHANGED answer
           /\ IF Outstanding(d) = {}
              THEN pc' = [pc EXCEPT ![d] = "finishRecovery"] /\ UNCHANGED row
              ELSE /\ row' = [row EXCEPT ![d] = CHOOSE i \in Outstanding(d) : TRUE]
                   /\ pc' = [pc EXCEPT ![d] = IF cancel THEN "ownership" ELSE "recover"]
  <2>1. CASE Outstanding(d) = {}
    <3>1. pc' = [pc EXCEPT ![d] = "finishRecovery"] /\ row' = [row EXCEPT ![d] = r]
      BY <1>2, <1>7, <2>1
    <3> QED
      BY <1>2, <1>6, <1>7, <3>1
  <2>2. CASE Outstanding(d) # {}
    <3>1. PICK s \in Outstanding(d) : row' = [row EXCEPT ![d] = s]
      <4>1. (CHOOSE i \in Outstanding(d) : TRUE) \in Outstanding(d)
        BY <2>2, Zenon
      <4> QED
        BY <1>7, <2>2, <4>1, Zenon
    <3>2. PICK t \in {"ownership", "recover"} : pc' = [pc EXCEPT ![d] = t]
      BY <1>7, <2>2
    <3>3. s \in RoleIndex
      BY <1>1, <1>2, RolesAreThere DEF Outstanding, RowsOk, RoleIndex
    <3>4. t \in {"finishRecovery", "ownership", "recover"} /\ started[d] /\ UNCHANGED answer
      BY <1>7, <3>2
    <3> QED
      BY <1>6, <3>1, <3>2, <3>3, <3>4
  <2> QED
    BY <2>1, <2>2
<1> QED
  <2>1. Recover(d, cancel)
    OBVIOUS
  <2> QED
    BY <1>1, <1>4, <1>5, <1>7, <2>1, Zenon DEF Recover, Goto

(* A verdict says of the instances what it means. *)
LEMMA ArtifactIsTrue ==
  ASSUME SandboxAssumption, NEW R \in Seq(Row), NEW o \in [RoleIndex -> Operation], RowsOk(R, o)
  PROVE  /\ artifactFor(R) \in Verdicts
         /\ artifactFor(R) \in Definite => \A i \in RoleIndex : o[i].st \notin {"sent", "running"}
         /\ artifactFor(R) = "sandbox-verified" => Clean(R)
         /\ Clean(R) => \A i \in RoleIndex : o[i].st = "SUCCESS" /\ o[i].q # 0 /\ R[i].envelope = o[i].q
<1>1. Len(R) \in Nat /\ Len(R) <= Len(Roles)
  BY LenProperties DEF RowsOk
<1>2. artifactFor(R) \in Verdicts /\ (artifactFor(R) = "sandbox-verified" => Clean(R))
  BY DEF artifactFor, Verdicts
<1>3. ASSUME Clean(R), NEW i \in RoleIndex
      PROVE  o[i].st = "SUCCESS" /\ o[i].q # 0 /\ R[i].envelope = o[i].q
  <2>1. i \in 1 .. Len(R) /\ R[i].envelope # 0 /\ R[i].receipt = "SUCCESS"
    BY <1>3 DEF Clean, RoleIndex
  <2>2. RowOk(R[i], o[i])
    BY <2>1 DEF RowsOk
  <2> QED
    BY <2>1, <2>2 DEF RowOk, Terminal
<1>4. ASSUME artifactFor(R) \in Definite, NEW i \in RoleIndex, o[i].st \in {"sent", "running"}
      PROVE  FALSE
  <2>1. ~Clean(R)
    BY <1>3, <1>4
  <2>2. i \in 1 .. Len(R) /\ R[i].intent /\ RowOk(R[i], o[i])
    BY <1>1, <1>4, RolesAreThere DEF RowsOk, RoleIndex
  <2>3. R[i].create # "failed" /\ R[i].receipt \notin Terminal
    BY <1>4, <2>2 DEF RowOk, Terminal
  <2>4. ~Known(R)
    BY <2>2, <2>3, Zenon DEF Known
  <2>5. artifactFor(R) = "outcome-unknown"
    BY <2>1, <2>2, <2>3, <2>4, Zenon DEF artifactFor
  <2> QED
    BY <1>4, <2>5 DEF Definite
<1> QED
  BY <1>2, <1>3, <1>4

(* finish: the verdict of the journal. *)
LEMMA FinishKeeps ==
  ASSUME SandboxAssumption, SandboxInv, NEW d \in Directories, NEW p, NEW r, NEW R, NEW l, NEW a, NEW o,
         Now(d, p, r, R, l, a, o), Finish(d)
  PROVE  SandboxInv'
<1>1. /\ p \in {"finish", "finishRecovery"} /\ p # "idle" /\ pc' = [pc EXCEPT ![d] = "idle"]
      /\ UNCHANGED <<row, started, rows, image, ledger, ops, faults>>
      /\ pc[d] = p /\ rows[d] = R /\ ops[d] = o
  BY DEF Finish, Now, Goto
<1>2. /\ R \in Seq(Row) /\ Len(R) \in Nat /\ RowsOk(R, o) /\ r \in RoleIndex
      /\ o \in [RoleIndex -> Operation] /\ (started[d] \/ FreshDir(p, R, l, a, o))
      /\ rows = [rows EXCEPT ![d] = R]
      /\ row = [row EXCEPT ![d] = r] /\ ops = [ops EXCEPT ![d] = o]
  BY NowHolds
<1>3. started[d]
  BY <1>1, <1>2, Zenon DEF FreshDir
<1>4. faults' \in 0 .. MaxFaults /\ image' \in [Directories -> BOOLEAN]
  BY <1>1, FaultsBounded
<1>5. CASE QualityRegressed(R)
  <2>1. PICK b \in {"failed", "rejected"} : answer' = [answer EXCEPT ![d] = b] /\ UNCHANGED latest
    <3>1. answer' = [answer EXCEPT ![d] = IF At(d, "finish") THEN "failed" ELSE "rejected"]
          /\ UNCHANGED latest
      BY <1>1, <1>5, Zenon DEF Finish
    <3> QED
      BY <3>1
  <2>2. \A i \in RoleIndex : o[i].st \notin {"sent", "running"}
    <3>1. Clean(R)
      BY <1>5 DEF QualityRegressed
    <3> QED
      BY <1>2, <3>1, ArtifactIsTrue
  <2>3. b \in Verdicts \cup {"rejected"}
    BY <2>1 DEF Verdicts
  <2> QED
    BY <1>1, <1>3, <1>4, <2>1, <2>2, <2>3, AnswerMoves
<1>6. CASE ~QualityRegressed(R)
  <2>1. PICK b : /\ b = artifactFor(R) /\ latest' = [latest EXCEPT ![d] = b]
                 /\ answer' = [answer EXCEPT ![d] = b]
    BY <1>1, <1>6, Zenon DEF Finish
  <2>2. Becomes(d, "idle", r, R, b, b, o)
    BY <1>1, <1>2, <2>1, Zenon DEF Becomes
  <2>3. b \in Verdicts /\ b \in Verdicts \cup {"rejected"}
    BY <1>2, <2>1, ArtifactIsTrue
  <2>4. VerdictOk(b, b, o)
    <3>1. b \in Definite => \A i \in RoleIndex : o[i].st \notin {"sent", "running"}
      BY <1>2, <2>1, ArtifactIsTrue
    <3>2. ASSUME b = "sandbox-verified"
          PROVE  /\ \A i \in RoleIndex : o[i].st = "SUCCESS" /\ o[i].q # 0
                 /\ o[1].q <= o[Len(Roles)].q
      <4>1. Clean(R)
        BY <1>2, <2>1, <3>2, ArtifactIsTrue
      <4>2. \A i \in RoleIndex : o[i].st = "SUCCESS" /\ o[i].q # 0 /\ R[i].envelope = o[i].q
        BY <1>2, <4>1, ArtifactIsTrue
      <4>3. ~(R[Len(R)].envelope < R[1].envelope) /\ Len(R) = Len(Roles)
        BY <1>6, <4>1 DEF QualityRegressed, Clean
      <4>4. o[1].q \in Nat /\ o[Len(Roles)].q \in Nat
        <5>1. Qualities \cup {0} \subseteq Nat
          BY DEF SandboxAssumption
        <5>2. o[1] \in Operation /\ o[Len(Roles)] \in Operation
          BY <1>2, RolesAreThere
        <5> QED
          BY <5>1, <5>2 DEF Operation
      <4> QED
        BY <4>2, <4>3, <4>4, RolesAreThere
    <3> QED
      BY <3>1, <3>2 DEF VerdictOk
  <2>5. DirInv("idle", r, R, b, b, o) /\ "idle" \in Stages /\ "idle" \notin Claiming
    BY <1>2, <2>4, EndPhase DEF DirInv
  <2>6. \A i \in RoleIndex : HeldBy("idle", r, o, i) => HeldBy(pc[d], row[d], ops[d], i)
    BY <1>1, <2>5 DEF HeldBy
  <2>7. started' = started /\ ledger' = ledger /\ pc[d] # "idle"
    BY <1>1
  <2> QED
    BY <1>2, <1>4, <2>2, <2>3, <2>5, <2>6, <2>7, StepMoves
<1> QED
  BY <1>5, <1>6

(* The provider decides, and instances end. *)
LEMMA ProviderKeeps ==
  ASSUME SandboxAssumption, SandboxInv, NEW d \in Directories, NEW p, NEW r, NEW R, NEW l, NEW a, NEW o,
         Now(d, p, r, R, l, a, o), Provider(d)
  PROVE  SandboxInv'
<1>1. pc[d] = p /\ ops[d] = o /\ ops \in [Directories -> [RoleIndex -> Operation]] /\ o \in [RoleIndex -> Operation]
  BY DEF Now, SandboxInv, TypeOK
<1>2. p \in Stages /\ pc = [pc EXCEPT ![d] = p]
  BY NowHolds
<1>3. PICK k \in RoleIndex : ProviderDecides(d, k) \/ InstanceEnds(d, k)
  BY Zenon DEF Provider
<1>4. UNCHANGED <<row, started, rows, latest, image, answer, ledger, faults>> /\ pc' = [pc EXCEPT ![d] = p]
  BY <1>2, <1>3 DEF ProviderDecides, InstanceEnds, journal
<1>5. PICK x \in Operation : /\ ops' = [ops EXCEPT ![d] = [o EXCEPT ![k] = x]]
                             /\ \/ o[k].st = "sent" /\ x.st \in {"running", "refused"}
                                \/ o[k].st = "running" /\ x.st \in Terminal
  <2>0. o[k] \in Operation
    BY <1>1
  <2>1. CASE ProviderDecides(d, k)
    <3>1. PICK st \in {"running", "refused"} : ops' = [ops EXCEPT ![d][k].st = st]
      BY <2>1 DEF ProviderDecides
    <3> DEFINE x == [o[k] EXCEPT !.st = st]
    <3>2. x \in Operation /\ x.st = st
      BY <2>0, <3>1 DEF Operation
    <3>3. ops' = [ops EXCEPT ![d] = [o EXCEPT ![k] = x]] /\ o[k].st = "sent"
      BY <1>1, <2>1, <3>1 DEF ProviderDecides
    <3> HIDE DEF x
    <3> QED
      BY <3>1, <3>2, <3>3
  <2>2. CASE InstanceEnds(d, k)
    <3>1. CASE ops' = [ops EXCEPT ![d][k].st = "FAILED"]
      <4> DEFINE x == [o[k] EXCEPT !.st = "FAILED"]
      <4>1. x \in Operation /\ x.st \in Terminal
        BY <2>0 DEF Operation, Terminal
      <4>2. ops' = [ops EXCEPT ![d] = [o EXCEPT ![k] = x]] /\ o[k].st = "running"
        BY <1>1, <2>2, <3>1 DEF InstanceEnds
      <4> HIDE DEF x
      <4> QED
        BY <4>1, <4>2
    <3>2. CASE \E q \in Qualities \cup {0} : ops' = [ops EXCEPT ![d][k] = [st |-> "SUCCESS", q |-> q]]
      <4>1. PICK q \in Qualities \cup {0} : ops' = [ops EXCEPT ![d][k] = [st |-> "SUCCESS", q |-> q]]
        BY <3>2
      <4> DEFINE x == [st |-> "SUCCESS", q |-> q]
      <4>2. x \in Operation /\ x.st \in Terminal
        BY DEF Operation, Terminal
      <4>3. ops' = [ops EXCEPT ![d] = [o EXCEPT ![k] = x]] /\ o[k].st = "running"
        BY <1>1, <2>2, <4>1 DEF InstanceEnds
      <4> HIDE DEF x
      <4> QED
        BY <4>2, <4>3
    <3> QED
      BY <2>2, <3>1, <3>2, Zenon DEF InstanceEnds
  <2> QED
    BY <1>3, <2>1, <2>2
<1> QED
  BY <1>2, <1>4, <1>5, Zenon, InstanceMoves

(* Nothing is journaled and nothing runs. *)
LEMMA SandboxInitially == ASSUME SandboxAssumption, Init PROVE SandboxInv
<1>1. TypeOK
  <2>1. pc \in [Directories -> Stages] /\ row \in [Directories -> RoleIndex]
    BY RolesAreThere DEF Init, Stages
  <2>2. started \in [Directories -> BOOLEAN] /\ image \in [Directories -> BOOLEAN]
    BY DEF Init
  <2>3. /\ rows \in [Directories -> Seq(Row)]
        /\ \A d \in Directories : Len(rows[d]) <= Len(Roles)
    BY RolesAreThere, EmptySeq DEF Init
  <2>4. latest \in [Directories -> Verdicts] /\ answer \in [Directories -> Verdicts \cup {"rejected"}]
    BY DEF Init, Verdicts
  <2>5. ops \in [Directories -> [RoleIndex -> Operation]]
    BY DEF Init, Operation
  <2>6. faults \in 0 .. MaxFaults /\ ledger \subseteq RoleIndex
    BY DEF Init, SandboxAssumption
  <2> QED
    BY <2>1, <2>2, <2>3, <2>4, <2>5, <2>6 DEF TypeOK, Stages
<1>2. ASSUME NEW d \in Directories
      PROVE  /\ DirInv(pc[d], row[d], rows[d], latest[d], answer[d], ops[d])
             /\ FreshDir(pc[d], rows[d], latest[d], answer[d], ops[d])
  <2>1. /\ pc[d] = "idle" /\ rows[d] = <<>> /\ latest[d] = "none" /\ answer[d] = "none"
        /\ \A i \in RoleIndex : ops[d][i].st = "none"
    BY DEF Init
  <2>2. Len(rows[d]) = 0 /\ 0 <= Len(Roles)
    BY <2>1, EmptySeq, RolesAreThere
  <2>3. RowsOk(rows[d], ops[d])
    BY <2>1, <2>2 DEF RowsOk
  <2>4. VerdictOk(latest[d], answer[d], ops[d])
    BY <2>1 DEF VerdictOk, Definite
  <2>5. PhaseOk(pc[d], row[d], rows[d], latest[d], answer[d], ops[d])
    BY <2>1 DEF PhaseOk, Reading, Recovering, Claiming
  <2> QED
    BY <2>1, <2>3, <2>4, <2>5 DEF DirInv, FreshDir
<1>3. Reservations
  <2>1. ledger = {} /\ \A d \in Directories, i \in RoleIndex : pc[d] = "idle" /\ ops[d][i].st = "none"
    BY DEF Init
  <2>2. Cardinality(ledger) <= MaxOperations
    BY <2>1, FS_EmptySet DEF SandboxAssumption
  <2> QED
    BY <2>1, <2>2 DEF Reservations, Holds, HeldBy, Claiming
<1> QED
  BY <1>1, <1>2, <1>3 DEF SandboxInv

(* Every step of a command, a crash or the provider keeps the invariant. *)
LEMMA SandboxSteps ==
  ASSUME SandboxAssumption, SandboxInv, [Next]_vars
  PROVE  SandboxInv'
<1>1. CASE UNCHANGED vars
  <2>1. /\ pc' = pc /\ row' = row /\ started' = started /\ rows' = rows /\ latest' = latest
        /\ image' = image /\ answer' = answer /\ ledger' = ledger /\ ops' = ops /\ faults' = faults
    BY <1>1 DEF vars, journal
  <2> QED
    BY <2>1 DEF SandboxInv, TypeOK, Reservations, Holds
<1>2. CASE Next
  <2>1. PICK d \in Directories : \/ Verify(d) \/ Recover(d, FALSE) \/ Recover(d, TRUE)
                                 \/ Step(d) \/ Crash(d) \/ Provider(d)
    BY <1>2, Zenon DEF Next
  <2>2. PICK p, r, R, l, a, o : Now(d, p, r, R, l, a, o)
    <3>1. Now(d, pc[d], row[d], rows[d], latest[d], answer[d], ops[d])
      BY DEF Now
    <3> QED
      BY <3>1, Zenon
  <2>3. CASE Verify(d)
    BY <2>2, <2>3, VerifyKeeps
  <2>4. CASE Recover(d, FALSE) \/ Recover(d, TRUE)
    <3>1. PICK cancel : Recover(d, cancel)
      BY <2>4, Zenon
    <3> QED
      BY <2>2, <3>1, RecoverKeeps
  <2>5. CASE Crash(d)
    BY <2>2, <2>5, CrashKeeps
  <2>6. CASE Provider(d)
    BY <2>2, <2>6, ProviderKeeps
  <2>7. CASE Step(d)
    <3>1. CASE InspectImage(d)
      BY <2>2, <3>1, InspectImageKeeps
    <3>2. CASE Reserve(d)
      BY <2>2, <3>2, ReserveKeeps
    <3>3. CASE Upload(d)
      BY <2>2, <3>3, UploadKeeps
    <3>4. CASE JournalIntent(d)
      BY <2>2, <3>4, JournalIntentKeeps
    <3>5. CASE PostInstance(d)
      BY <2>2, <3>5, PostKeeps
    <3>6. CASE AwaitCreated(d)
      BY <2>2, <3>6, AwaitKeeps
    <3>7. CASE Poll(d)
      BY <2>2, <3>7, PollKeeps
    <3>8. CASE CancelRead(d)
      BY <2>2, <3>8, CancelReadKeeps
    <3>9. CASE DeleteInstance(d)
      BY <2>2, <3>9, DeleteKeeps
    <3>10. CASE AfterDelete(d)
      BY <2>2, <3>10, AfterDeleteKeeps
    <3>11. CASE CheckOwnership(d)
      BY <2>2, <3>11, CheckOwnershipKeeps
    <3>12. CASE RecoverRead(d)
      BY <2>2, <3>12, RecoverReadKeeps
    <3>13. CASE Finish(d)
      BY <2>2, <3>13, FinishKeeps
    <3> QED
      BY <2>7, <3>1, <3>2, <3>3, <3>4, <3>5, <3>6, <3>7, <3>8, <3>9, <3>10, <3>11, <3>12,
         <3>13, Zenon DEF Step
  <2> QED
    BY <2>1, <2>3, <2>4, <2>5, <2>6, <2>7
<1> QED
  BY <1>1, <1>2

(* The journal of every directory is true of its instances, at every step    *)
(* and after every crash: an instance has a row with its intent, a row knows *)
(* an id or a receipt only of an instance that has it, and a reservation     *)
(* belongs to one directory (verify.ts, push-verify.ts, consumePermit).      *)
THEOREM SandboxInvariant == SandboxAssumption /\ Spec => []SandboxInv
<1> SUFFICES ASSUME SandboxAssumption
             PROVE  Spec => []SandboxInv
  OBVIOUS
<1>1. Init => SandboxInv
  BY SandboxInitially
<1>2. SandboxInv /\ [Next]_vars => SandboxInv'
  BY SandboxSteps
<1> QED
  BY <1>1, <1>2, PTL DEF Spec

(* A reservation belongs to one directory, and each instance to a reservation. *)
LEMMA AuthorityFollows == ASSUME SandboxAssumption, SandboxInv PROVE AuthorityIsKept
<1>1. \A d \in Directories, i \in RoleIndex : Posted(d, i) =>
         i \in ledger /\ \A e \in Directories : Posted(e, i) => e = d
  BY DEF SandboxInv, Reservations, Holds, HeldBy, Posted
<1>2. ASSUME NEW i \in RoleIndex PROVE Cardinality({d \in Directories : Posted(d, i)}) <= 1
  <2> DEFINE S == {d \in Directories : Posted(d, i)}
  <2>1. CASE S = {}
    BY <2>1, FS_EmptySet
  <2>2. CASE S # {}
    <3>1. PICK d \in S : TRUE
      BY <2>2
    <3>2. S = {d}
      BY <1>1, <3>1
    <3> HIDE DEF S
    <3>3. Cardinality(S) = 1
      BY <3>2, FS_Singleton
    <3> QED
      BY <3>3 DEF S
  <2> QED
    BY <2>1, <2>2
<1>3. Cardinality({x \in Directories \X RoleIndex : Posted(x[1], x[2])}) <= MaxOperations
  <2> DEFINE X == {x \in Directories \X RoleIndex : Posted(x[1], x[2])}
             f == [x \in X |-> x[2]]
  <2>1. ledger \subseteq RoleIndex /\ Cardinality(ledger) <= MaxOperations
    BY DEF SandboxInv, TypeOK, Reservations
  <2>2. IsFiniteSet(RoleIndex)
    <3>1. 1 \in Int /\ Len(Roles) \in Int
      BY RolesAreThere
    <3> QED
      BY <3>1, FS_Interval DEF RoleIndex
  <2>3. IsFiniteSet(ledger) /\ Cardinality(ledger) \in Nat
    BY <2>1, <2>2, FS_Subset, FS_CardinalityType
  <2>4. f \in Injection(X, ledger)
    <3>1. f \in [X -> ledger]
      BY <1>1
    <3>2. ASSUME NEW x \in X, NEW y \in X, f[x] = f[y] PROVE x = y
      <4>1. x[2] = y[2] /\ x[1] \in Directories /\ y[1] \in Directories /\ x[2] \in RoleIndex
            /\ Posted(x[1], x[2]) /\ Posted(y[1], x[2])
        BY <3>2
      <4>2. x[1] = y[1]
        BY <1>1, <4>1
      <4> QED
        BY <3>2, <4>1, <4>2
    <3> QED
      BY <3>1, <3>2 DEF Injection, IsInjective
  <2> HIDE DEF X, f
  <2>5. IsFiniteSet(X) /\ Cardinality(X) <= Cardinality(ledger)
    BY <2>3, <2>4, FS_Injection
  <2>6. Cardinality(X) \in Nat
    BY <2>5, FS_CardinalityType
  <2>7. Cardinality(X) <= MaxOperations
    BY <2>1, <2>3, <2>5, <2>6 DEF SandboxAssumption
  <2> QED
    BY <2>7 DEF X
<1> QED
  BY <1>2, <1>3 DEF AuthorityIsKept

(* Any number of directories that use one permit: consumePermit starts each  *)
(* role once, and no more instances than maxOperations, whatever crashes     *)
(* between reservation, intent and request.                                  *)
THEOREM AuthorityAlwaysKept == SandboxAssumption /\ Spec => []AuthorityIsKept
<1> SUFFICES ASSUME SandboxAssumption
             PROVE  Spec => []AuthorityIsKept
  OBVIOUS
<1>1. SandboxInv => AuthorityIsKept
  BY AuthorityFollows
<1> QED
  BY <1>1, SandboxInvariant, PTL

(* An instance that may exist has a journaled row, so `optimize verify       *)
(* --status` finds it after any crash (beforePost).                          *)
THEOREM InstanceAlwaysJournaled == SandboxAssumption /\ Spec => []InstanceIsJournaled
<1> SUFFICES ASSUME SandboxAssumption
             PROVE  Spec => []InstanceIsJournaled
  OBVIOUS
<1>1. SandboxInv => InstanceIsJournaled
  BY DEF SandboxInv, DirInv, RowsOk, InstanceIsJournaled, Posted
<1> QED
  BY <1>1, SandboxInvariant, PTL

(* A definite verdict is only given when no instance of the run can still be *)
(* running, and sandbox-verified only of instances that all succeeded with a *)
(* candidate no worse than the base, whatever reads and answers were lost    *)
(* (artifactFor, compareQuality, cancel).                                    *)
THEOREM VerdictsAreTrue == SandboxAssumption /\ Spec => [](DefiniteMeansOver /\ VerifiedIsEarned)
<1> SUFFICES ASSUME SandboxAssumption
             PROVE  Spec => [](DefiniteMeansOver /\ VerifiedIsEarned)
  OBVIOUS
<1>1. SandboxInv => DefiniteMeansOver /\ VerifiedIsEarned
  <2> SUFFICES ASSUME SandboxInv
               PROVE  DefiniteMeansOver /\ VerifiedIsEarned
    OBVIOUS
  <2>1. \A d \in Directories : VerdictOk(latest[d], answer[d], ops[d])
    BY DEF SandboxInv, DirInv
  <2> QED
    BY <2>1 DEF VerdictOk, Definite, DefiniteMeansOver, VerifiedIsEarned
<1> QED
  BY <1>1, SandboxInvariant, PTL
=============================================================================
