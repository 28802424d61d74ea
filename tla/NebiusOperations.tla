-------------------------- MODULE NebiusOperations --------------------------
(***************************************************************************)
(* What the controller makes of the provider's operations: the id in the    *)
(* reply to a mutation (parseMutationOperationId), the listed operations    *)
(* (parseOperationPage, operationState, operationCapacityRefusal of         *)
(* packages/runner/src/adapters/nebius.ts), and the verdict reconcileEffect *)
(* of packages/cli/src/runner-service.ts draws from them for a pending      *)
(* start of a VM that is stopped or a pending create of one that is absent. *)
(*                                                                          *)
(* An operation has a truth (what became of it) and an encoding: the CLI    *)
(* prints protobuf JSON, with a state name or with a gRPC code that is a    *)
(* number, a string or, being zero, left out.                               *)
(***************************************************************************)
EXTENDS Naturals, FiniteSets

VARIABLES pending,  \* start | create: the pending effect
          reply,    \* the form of the reply to its mutation
          opId,     \* the operation id the journal holds, or "none"
          mine,     \* the operation of the pending effect: truth and encoding
          other,    \* another listed operation, or NoOp
          phase,    \* replied | listing | done
          verdict   \* what reconcileEffect returns

vars == <<pending, reply, opId, mine, other, phase, verdict>>

Phases == {"PENDING", "RUNNING", "SUCCEEDED", "FAILED", "CANCELLED"}
Over == {"SUCCEEDED", "FAILED", "CANCELLED"}

\* The gRPC code of an operation: 0 unless it ended badly.
Truths == {t \in [phase : Phases, code : {0, 1, 3, 8}, target : {"vm", "other", "unset"},
                  quota : BOOLEAN, text : BOOLEAN] :
             /\ (t.phase = "CANCELLED") = (t.code = 1)
             /\ (t.phase = "FAILED") = (t.code \in {3, 8})
             /\ (t.quota \/ t.text) => t.phase = "FAILED"
             /\ t.quota => t.code = 8}
\* Encodings: a state name with no code, a code as a number, as a string, or
\* omitted; and a status the parser cannot read.
Forms == {"state", "number", "string", "omitted", "malformed"}
Operations == {o \in [truth : Truths, form : Forms] :
                 o.form = "omitted" => o.truth.code = 0}
NoOp == [truth |-> [phase |-> "NONE"], form |-> "state"]

Replies == {"id", "json", "noMetadata", "noId", "garbage", "timeout"}

-----------------------------------------------------------------------------
(* Parsing *)

\* operationState: a state name is taken; else a nonzero code is a failure, and
\* an operation without finished_at is running.
OperationState(o) ==
  CASE o.form = "state" -> o.truth.phase
    [] o.form # "state" /\ o.truth.code # 0 -> "FAILED"
    [] OTHER -> IF o.truth.phase \in Over THEN "SUCCEEDED" ELSE "RUNNING"
\* The code operationCapacityRefusal sees: none with a state name, and a string
\* is converted.
CodeSeen(o) == IF o.form = "state" THEN 0 ELSE o.truth.code

\* A failed operation is a refusal by its code or by a quota detail; the text of
\* its message alone never is.
OperationCapacityRefusal(o) ==
  /\ OperationState(o) = "FAILED"
  /\ CodeSeen(o) = 8 \/ o.truth.quota

ParsedOperation(o, id) ==
  [id |-> id, resource |-> o.truth.target, state |-> OperationState(o),
   refusal |-> OperationCapacityRefusal(o)]

\* One operation that cannot be read fails the whole page.
Listed == IF other = NoOp THEN {<<mine, "op1">>} ELSE {<<mine, "op1">>, <<other, "op2">>}
ParseFails == \E l \in Listed : l[1].form = "malformed"
ParseOperationPage == {ParsedOperation(l[1], l[2]) : l \in Listed}

-----------------------------------------------------------------------------
(* Reconciliation *)

Keep == [retire |-> FALSE, refusal |-> FALSE]

Init == /\ pending \in {"start", "create"} /\ reply \in Replies
        /\ mine \in Operations /\ other \in Operations \cup {NoOp}
        /\ mine.truth.target # "other"
        /\ other # NoOp => ~other.truth.quota /\ ~other.truth.text /\ other.truth.code # 3
                           /\ other.form \in {"state", "omitted", "malformed"}
        /\ opId = "none" /\ phase = "replied" /\ verdict = Keep

\* parseMutationOperationId: a bare id or metadata.id; a reply without one is
\* accepted with no id, one that cannot be read throws, and the intent stays
\* pending without an id as after a time-out.
ParseMutationOperationId == /\ phase = "replied"
                            /\ opId' = IF reply \in {"id", "json"} THEN "op1" ELSE "none"
                            /\ phase' = "listing"
                            /\ UNCHANGED <<pending, reply, mine, other, verdict>>

\* The operation of a pending start: its id, on this VM or on no named one.
StartOperation(ops) == {o \in ops : o.id = opId /\ o.resource \in {"vm", "unset"}}
InFlightOwn(ops) == {o \in ops : o.resource = "vm" /\ o.state \in {"PENDING", "RUNNING"}}
InFlight(ops) == {o \in ops : o.resource \in {"vm", "unset"}
                                /\ o.state \in {"PENDING", "RUNNING"}}

ReconcileStart ==
  /\ phase = "listing" /\ pending = "start" /\ opId # "none" /\ ~ParseFails
  /\ LET ops == ParseOperationPage
         start == StartOperation(ops)
     IN verdict' = [retire |-> start # {} /\ InFlight(ops) = {}
                                 /\ \A o \in start : o.state \in Over,
                    refusal |-> \E o \in start : o.refusal]
  /\ phase' = "done" /\ UNCHANGED <<pending, reply, opId, mine, other>>

ReconcileCreate ==
  /\ phase = "listing" /\ pending = "create" /\ opId # "none" /\ ~ParseFails
  /\ verdict' = [retire |-> FALSE,
                 refusal |-> \E o \in ParseOperationPage :
                               o.id = opId /\ o.state = "FAILED" /\ o.refusal]
  /\ phase' = "done" /\ UNCHANGED <<pending, reply, opId, mine, other>>

\* Without an id, or with an unreadable list, the intent stays as it is.
StayPending == /\ phase = "listing" /\ (opId = "none" \/ ParseFails)
               /\ phase' = "done"
               /\ UNCHANGED <<pending, reply, opId, mine, other, verdict>>

Again == /\ phase = "done" /\ phase' = "listing" /\ verdict' = Keep
         /\ \E f \in Forms : \/ mine' = mine /\ other' = other
                             \/ mine.form = "malformed" /\ mine' = [mine EXCEPT !.form = f]
                                /\ mine' \in Operations /\ other' = other
         /\ UNCHANGED <<pending, reply, opId>>

Next == ParseMutationOperationId \/ ReconcileStart \/ ReconcileCreate \/ StayPending \/ Again
Spec == Init /\ [][Next]_vars

-----------------------------------------------------------------------------
(* A pending start is retired, so that another may be sent, only when its own
   operation is over and no operation that may concern the VM is under way:
   the one listed without a resource counts (reconcileEffect, inFlight). *)
RetiresOnlyOver ==
  verdict.retire => /\ mine.truth.phase \in Over
                    /\ other # NoOp /\ other.truth.target # "other"
                         => other.truth.phase \in Over

(* The controller waits for capacity only for an operation the provider failed
   with RESOURCE_EXHAUSTED or a quota detail: a cancelled start, another
   failure, or a message that merely mentions a quota is an ordinary failure
   (operationCapacityRefusal, doc comment of classifyCapacityRefusal). *)
RefusalOnlyForQuota ==
  verdict.refusal => mine.truth.phase = "FAILED" /\ mine.truth.code = 8

(* A refusal is not overlooked because of how the CLI printed it: once the
   operation list is read, an operation known by its id that failed with the
   code 8, given as a number or as a string, or carrying a quota detail, is
   reported as one (Number(status.code) in operationCapacityRefusal). *)
RefusalNoticed ==
  /\ phase = "done" /\ opId # "none" /\ ~ParseFails
  /\ mine.truth.phase = "FAILED" /\ mine.truth.code = 8
  /\ mine.form # "state" \/ mine.truth.quota
  => verdict.refusal
=============================================================================
