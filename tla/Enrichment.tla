----------------------------- MODULE Enrichment -----------------------------
(* `cirujano advisory enrich`: one reviewed request to the advisory provider *)
(* per permit id.  The command works in a fresh directory under its lock and *)
(* writes its journal strictly forward: the prepared request, operation.json,*)
(* the reservation in the ledger all directories share, intent.json, the one *)
(* POST, response.json, receipt.json and result.json.  It may die anywhere.  *)
EXTENDS Naturals

CONSTANTS Dirs,      \* operation directories
          Requests,  \* prepared requests
          PermitIds  \* ids of the permits the owner wrote

VARIABLES files,     \* files[d]: the files the directory holds
          receipt,   \* receipt[d]: the status in receipt.json
          at,        \* at[d]: the step of the command at work in d, "idle" if none
          authority, \* authority[d]: the permit id and the request it was decoded for
          ledger,    \* permit ids consumed
          expired,   \* permit ids past expiresAt
          post       \* post[d]: what an observer of the provider saw of d

vars == <<files, receipt, at, authority, ledger, expired, post>>

None == [id |-> "none", request |-> "none"]
Authorities == [id : PermitIds, request : Requests]

Init == /\ files = [d \in Dirs |-> {}]
        /\ receipt = [d \in Dirs |-> "none"]
        /\ at = [d \in Dirs |-> "idle"]
        /\ authority = [d \in Dirs |-> None]
        /\ ledger = {} /\ expired = {}
        /\ post = [d \in Dirs |-> "none"]

Expire(id) == /\ expired' = expired \cup {id}
              /\ UNCHANGED <<files, receipt, at, authority, ledger, post>>

\* The permit must match the request and not have expired; the directory must
\* hold nothing but its lock.
Start(d, a) ==
  /\ at[d] = "idle" /\ files[d] = {} /\ a.id \notin expired
  /\ at' = [at EXCEPT ![d] = "prepare"] /\ authority' = [authority EXCEPT ![d] = a]
  /\ UNCHANGED <<files, receipt, ledger, expired, post>>

\* One durable file of the journal, and the step that follows it.
WriteFile(d, step, file, next) ==
  /\ at[d] = step /\ at' = [at EXCEPT ![d] = next]
  /\ files' = [files EXCEPT ![d] = @ \cup {file}]

Journal(d) ==
  /\ \/ WriteFile(d, "prepare", "prepared", "operation")
     \/ WriteFile(d, "operation", "operation", "reserve")
     \/ WriteFile(d, "intent", "intent", "send")
     \/ WriteFile(d, "response", "response", "receipt")
     \/ WriteFile(d, "result", "result", "idle")
  /\ UNCHANGED <<receipt, authority, ledger, expired, post>>

\* Mutant: the ledger is keyed by the whole permit.
LedgerKeyOfPermit(a) == <<a.id, a.request>>

\* A permit id is one authority, whatever request its metadata now names.
LedgerKey(a) == a.id

Reserve(d) ==
  /\ at[d] = "reserve"
  /\ \/ /\ LedgerKey(authority[d]) \notin ledger
        /\ ledger' = ledger \cup {LedgerKey(authority[d])}
        /\ at' = [at EXCEPT ![d] = "intent"]
     \/ at' = [at EXCEPT ![d] = "idle"] /\ UNCHANGED ledger
  /\ UNCHANGED <<files, receipt, authority, expired, post>>

Send(d) ==
  /\ at[d] = "send" /\ at' = [at EXCEPT ![d] = "sent"]
  /\ post' = [post EXCEPT ![d] = "posted"]
  /\ UNCHANGED <<files, receipt, authority, ledger, expired>>

\* A valid answer before the deadline goes to response.json first; an HTTP
\* error, a redirect or an invalid body is unavailable.
Respond(d) ==
  /\ at[d] = "sent" /\ post' = [post EXCEPT ![d] = "answered"]
  /\ \/ /\ at' = [at EXCEPT ![d] = "response"]
        /\ receipt' = [receipt EXCEPT ![d] = "completed"]
     \/ /\ at' = [at EXCEPT ![d] = "receipt"]
        /\ receipt' = [receipt EXCEPT ![d] = "unavailable"]
  /\ UNCHANGED <<files, authority, ledger, expired>>

\* The deadline, or a transport error after the request was handed over.
Lose(d) ==
  /\ at[d] = "sent" /\ at' = [at EXCEPT ![d] = "receipt"]
  /\ receipt' = [receipt EXCEPT ![d] = "outcome-unknown"]
  /\ UNCHANGED <<files, authority, ledger, expired, post>>

Receipt(d) ==
  /\ WriteFile(d, "receipt", "receipt",
               IF receipt[d] = "completed" THEN "result" ELSE "idle")
  /\ UNCHANGED <<receipt, authority, ledger, expired, post>>

\* The process dies, or a write fails: what is on disk stays.
Die(d) ==
  /\ at[d] # "idle" /\ at' = [at EXCEPT ![d] = "idle"]
  /\ UNCHANGED <<files, receipt, authority, ledger, expired, post>>

Next == \/ \E id \in PermitIds : Expire(id)
        \/ \E d \in Dirs : \/ \E a \in Authorities : Start(d, a)
                           \/ Journal(d) \/ Reserve(d) \/ Send(d) \/ Respond(d)
                           \/ Lose(d) \/ Receipt(d) \/ Die(d)

Spec == Init /\ [][Next]_vars

\* The command runs, and its deadline fires whatever the provider does.
Fairness == \A d \in Dirs : WF_vars(Journal(d) \/ Reserve(d) \/ Send(d) \/ Lose(d) \/ Receipt(d))

\* What `cirujano advisory status` says of a directory.
Inspect(d) ==
  IF "operation" \notin files[d]
  THEN IF "prepared" \in files[d] THEN "not-sent" ELSE "error"
  ELSE IF {"intent", "receipt"} \subseteq files[d] /\ receipt[d] # "completed"
       THEN receipt[d]
  ELSE IF {"intent", "receipt", "response", "result"} \subseteq files[d]
       THEN "complete" ELSE "outcome-unknown"

-----------------------------------------------------------------------------
(* Any number of directories, edited permits and crashes: a permit id is     *)
(* reserved once, pays for one POST after its reservation, and a lost answer *)
(* is never asked for again (enrich.ts:35, permit.ts:22).                    *)
Sent(id) == {d \in Dirs : authority[d].id = id /\ post[d] # "none"}
UseOf(id) == IF \E d, e \in Sent(id) : d # e THEN "overdrawn"
             ELSE IF Sent(id) # {} THEN post[CHOOSE d \in Sent(id) : TRUE]
             ELSE IF \E a \in Authorities : a.id = id /\ LedgerKey(a) \in ledger
             THEN "reserved" ELSE "held"
Permit == INSTANCE SinglePost WITH Permits <- PermitIds,
                                   use <- [id \in PermitIds |-> UseOf(id)]
OnePostPerPermit == Permit!Spec

(* The inspection of a directory nobody works in is never more certain than  *)
(* the truth: not sent, unavailable and complete each only of a request that *)
(* was not sent, or was answered (enrich.ts:82-92).                          *)
InspectionIsTrue ==
  \A d \in Dirs : at[d] = "idle" =>
     /\ Inspect(d) \in {"not-sent", "error"} => post[d] = "none"
     /\ Inspect(d) \in {"unavailable", "complete"} => post[d] = "answered"

(* An enrichment that started comes to an end, with the provider silent.     *)
EnrichEnds == \A d \in Dirs : at[d] # "idle" ~> at[d] = "idle"

=============================================================================
