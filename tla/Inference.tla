----------------------------- MODULE Inference ------------------------------
(* `cirujano optimize diagnose`: one authorised request to the model per     *)
(* permit.  Each operation directory has a lock and a journal of files; the  *)
(* permits of all directories share one ledger.  The intent is written and   *)
(* the permit consumed in beforePost, which races the deadline and goes on   *)
(* in the background when it loses.  Any step may be the last one before a   *)
(* crash.                                                                    *)
EXTENDS Naturals, FiniteSets

CONSTANTS Dirs,       \* operation directories
          Permits,    \* inference permits the owner granted
          WithoutPermit    \* a diagnose without --permit

VARIABLES files,      \* files[d]: what the directory holds
          cmd,        \* cmd[d]: the diagnose command running in d
          before,     \* before[d]: how far beforePost is
          ledger,     \* permits consumed
          expired     \* permits past expiresAt

vars == <<files, cmd, before, ledger, expired>>

Decisions == {"proposal", "abstain"}

NoFiles == [input |-> FALSE, intent |-> "none", inference |-> "none",
            diagnosis |-> "none", operation |-> "none"]

Idle == [at |-> "idle", permit |-> WithoutPermit, recorded |-> FALSE,
         post |-> "none", result |-> "none", receipt |-> "none"]

Init == /\ files = [d \in Dirs |-> NoFiles]
        /\ cmd = [d \in Dirs |-> Idle]
        /\ before = [d \in Dirs |-> "off"]
        /\ ledger = {} /\ expired = {}

Expire(p) == /\ expired' = expired \cup {p}
             /\ UNCHANGED <<files, cmd, before, ledger>>

\* A command reaches its verdict; a receipt exists once the transport started.
Conclude(d, result, receipt) ==
  cmd' = [cmd EXCEPT ![d].at = "inference", ![d].result = result,
                     ![d].receipt = receipt]

Fail(d) == Conclude(d, "failed", "failed")

Move(d, at) == cmd' = [cmd EXCEPT ![d].at = at]

\* The command takes the directory's lock and a directory without a journal;
\* without a permit it only previews, an expired one is refused at once.
Start(d, p) ==
  /\ cmd[d].at = "idle" /\ files[d] = NoFiles /\ before[d] = "off"
  /\ files' = [files EXCEPT ![d].input = TRUE]
  /\ cmd' = [cmd EXCEPT ![d] =
       [Idle EXCEPT !.permit = p,
          !.at = IF p = WithoutPermit \/ p \in expired THEN "inference" ELSE "models",
          !.result = IF p = WithoutPermit THEN "not-run"
                     ELSE IF p \in expired THEN "failed" ELSE "none"]]
  /\ UNCHANGED <<before, ledger, expired>>

\* Mutant: the request goes out with its permit consumed and no intent written.
ModelsWithoutIntent(d) ==
  /\ cmd[d].at = "models"
  /\ \/ /\ cmd[d].permit \notin expired
        /\ Move(d, "before") /\ before' = [before EXCEPT ![d] = "consume"]
     \/ Fail(d) /\ UNCHANGED before
  /\ UNCHANGED <<files, ledger, expired>>

\* GET /v1/models answered, and the permit's authority asserted.
Models(d) ==
  /\ cmd[d].at = "models"
  /\ \/ /\ cmd[d].permit \notin expired
        /\ Move(d, "before") /\ before' = [before EXCEPT ![d] = "write"]
     \/ Fail(d) /\ UNCHANGED before
  /\ UNCHANGED <<files, ledger, expired>>

\* beforePost writes the intent ...
BeforeWrite(d) ==
  /\ before[d] = "write"
  /\ files' = [files EXCEPT ![d].intent = "intent"]
  /\ cmd' = [cmd EXCEPT ![d].recorded = @ \/ cmd[d].at # "idle"]
  /\ before' = [before EXCEPT ![d] = "consume"]
  /\ UNCHANGED <<ledger, expired>>

\* Mutant: the ledger is written without looking at what it holds.
BeforeConsumeBlindly(d) ==
  /\ before[d] = "consume"
  /\ ledger' = ledger \cup {cmd[d].permit}
  /\ before' = [before EXCEPT ![d] = "done"]
  /\ UNCHANGED <<files, cmd, expired>>

\* ... and consumes the permit, which another directory may have done before,
\* or whose ledger may be locked.
BeforeConsume(d) ==
  /\ before[d] = "consume"
  /\ \/ /\ cmd[d].permit \notin ledger
        /\ ledger' = ledger \cup {cmd[d].permit}
        /\ before' = [before EXCEPT ![d] = "done"]
     \/ before' = [before EXCEPT ![d] = "refused"] /\ UNCHANGED ledger
  /\ UNCHANGED <<files, cmd, expired>>

\* The authority is asserted again, then the request goes out.
Post(d) ==
  /\ cmd[d].at = "before" /\ before[d] = "done" /\ cmd[d].permit \notin expired
  /\ cmd' = [cmd EXCEPT ![d].at = "sent", ![d].post = "posted"]
  /\ before' = [before EXCEPT ![d] = "off"]
  /\ UNCHANGED <<files, ledger, expired>>

\* A refused consumption, or a permit that expired while it was consumed.
PreflightFails(d) ==
  /\ cmd[d].at = "before"
  /\ \/ before[d] = "refused"
     \/ before[d] = "done" /\ cmd[d].permit \in expired
  /\ Fail(d) /\ before' = [before EXCEPT ![d] = "off"]
  /\ UNCHANGED <<files, ledger, expired>>

\* The deadline: nothing was sent, or the answer to what was is unknown.
\* beforePost goes on when the deadline finds it at work.
Deadline(d) ==
  /\ \/ cmd[d].at \in {"models", "before"} /\ Fail(d)
     \/ cmd[d].at = "sent" /\ Conclude(d, "outcome-unknown", "outcome-unknown")
  /\ UNCHANGED <<files, before, ledger, expired>>

\* The answer: an HTTP error or invalid content, or a decision.
Answer(d) ==
  /\ cmd[d].at = "sent"
  /\ \E s \in Decisions \cup {"failed"} :
       cmd' = [cmd EXCEPT ![d].at = "inference", ![d].post = "answered", ![d].result = s,
                 ![d].receipt = IF s = "failed" THEN "failed" ELSE "completed"]
  /\ UNCHANGED <<files, before, ledger, expired>>

\* The command writes its artifacts in this order, each only once, and the
\* final intent only if beforePost recorded one.
Write(d) ==
  /\ \/ /\ cmd[d].at = "inference" /\ Move(d, "diagnosis")
        /\ files' = [files EXCEPT ![d].inference = cmd[d].receipt]
     \/ /\ cmd[d].at = "diagnosis" /\ Move(d, "intent")
        /\ files' = [files EXCEPT ![d].diagnosis =
                       IF cmd[d].result \in Decisions THEN cmd[d].result ELSE "none"]
     \/ /\ cmd[d].at = "intent" /\ Move(d, "operation")
        /\ files' = [files EXCEPT ![d].intent =
                       IF cmd[d].recorded THEN cmd[d].result ELSE @]
     \/ /\ cmd[d].at = "operation" /\ Move(d, "idle")
        /\ files' = [files EXCEPT ![d].operation = cmd[d].result]
  /\ UNCHANGED <<before, ledger, expired>>

\* A write that fails ends the command where it is; so does a crash, which
\* takes beforePost with it.
WriteFails(d) ==
  /\ cmd[d].at \in {"inference", "diagnosis", "intent", "operation"}
  /\ Move(d, "idle") /\ UNCHANGED <<files, before, ledger, expired>>

Crash(d) ==
  /\ cmd[d].at # "idle" \/ before[d] # "off"
  /\ Move(d, "idle") /\ before' = [before EXCEPT ![d] = "off"]
  /\ UNCHANGED <<files, ledger, expired>>

Next == \/ \E p \in Permits : Expire(p)
        \/ \E d \in Dirs : \/ \E p \in Permits \cup {WithoutPermit} : Start(d, p)
                           \/ Models(d) \/ BeforeWrite(d) \/ BeforeConsume(d)
                           \/ Post(d) \/ PreflightFails(d) \/ Answer(d) \/ Deadline(d)
                           \/ Write(d) \/ WriteFails(d) \/ Crash(d)

Spec == Init /\ [][Next]_vars

\* The timer of the request runs and the file system answers.
Fairness == \A d \in Dirs : WF_vars(Deadline(d)) /\ WF_vars(Write(d))

\* The artifacts of a decision bind each other (readBoundDiagnosis).
Bound(f) == /\ f.inference = "completed" /\ f.diagnosis = f.operation
            /\ f.intent = f.operation

\* What `cirujano optimize status` answers about a directory.
Status(d) ==
  IF files[d].operation = "none"
  THEN IF files[d].intent = "none" THEN "failed" ELSE "outcome-unknown"
  ELSE IF files[d].operation \in Decisions /\ ~Bound(files[d]) THEN "error"
  ELSE files[d].operation

-----------------------------------------------------------------------------
(* Several directories holding the same permit, crashes and a beforePost     *)
(* left behind by the deadline: consumePermit (store.ts:140) and its place   *)
(* in requestInference still give every permit one request at most, after    *)
(* its reservation.                                                          *)
Posts(p) == {d \in Dirs : cmd[d].permit = p /\ cmd[d].post # "none"}
UseOf(p) == IF Cardinality(Posts(p)) > 1 THEN "overdrawn"
            ELSE IF Posts(p) # {} THEN cmd[CHOOSE d \in Posts(p) : TRUE].post
            ELSE IF p \in ledger THEN "reserved" ELSE "held"
Permit == INSTANCE SinglePost WITH use <- [p \in Permits |-> UseOf(p)]
OnePostPerPermit == Permit!Spec

(* A request whose answer was never seen is reported as unknown: whatever    *)
(* crash or failed write ended the command, `status` never calls it failed   *)
(* (service.ts:139-166).                                                     *)
UnknownIsReported ==
  \A d \in Dirs : cmd[d].at = "idle" /\ cmd[d].post = "posted"
                  => Status(d) = "outcome-unknown"

(* Before a request leaves, its intent is on disk and its permit consumed.   *)
SentIsJournaled ==
  \A d \in Dirs : cmd[d].at = "sent" =>
     files[d].intent = "intent" /\ cmd[d].permit \in ledger

(* A decision that operation.json names reads back with its receipt,         *)
(* diagnosis and final intent: a crash between the writes never leaves a     *)
(* proposal that `propose` and `status` refuse.                              *)
DecisionReadsBack == \A d \in Dirs : Status(d) # "error"

(* A refused or late beforePost never holds the command: the deadline ends   *)
(* every diagnose that started.                                              *)
CommandEnds == \A d \in Dirs : cmd[d].at # "idle" ~> cmd[d].at = "idle"
=============================================================================
