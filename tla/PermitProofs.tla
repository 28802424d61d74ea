---------------------------- MODULE PermitProofs ----------------------------
(***************************************************************************)
(* For any number of directories and permits: what the services that spend *)
(* single-use permits promise.  One invariant per service, each found by   *)
(* following a permit from its reservation to what it paid for:            *)
(*                                                                         *)
(*   SpendInv        `optimize diagnose`: the directory that consumed a    *)
(*                   permit is the only one that ever posts with it;       *)
(*   ReportInv       what it has sent and recorded, as `status` reads it;  *)
(*   EnrichInv       `advisory enrich`: one live reservation per permit;   *)
(*   EvaluationInv   `advisory evaluate`: what was or may be sent has its  *)
(*                   permit in the ledger;                                 *)
(*   PublicationInv  `optimize publish`: one create request per permit,    *)
(*                   each with its permit and intent on disk, and numbers  *)
(*                   of pull requests that exist;                          *)
(*   ProposalInv     a permit is used within the limits it was granted.    *)
(*                                                                         *)
(* The sandbox runs are proved in their own module.                        *)
(* The last section carries all of it to the composition that is checked.  *)
(***************************************************************************)
EXTENDS MCPermits, SequenceTheorems, FiniteSetTheorems, TLAPS

Stages == {"idle", "models", "before", "sent", "inference", "diagnosis", "intent", "operation"}

Outcomes == Decisions \cup {"none", "not-run", "failed", "outcome-unknown"}
Receipts == {"none", "failed", "completed", "outcome-unknown"}

Commands == [at : Stages, permit : Permits \cup {WithoutPermit}, recorded : BOOLEAN,
             post : {"none", "posted", "answered"}, result : Outcomes, receipt : Receipts]

(* The part of the state the argument is about. *)
CommandsTyped ==
  /\ cmd \in [Dirs -> Commands]
  /\ before \in [Dirs -> {"off", "write", "consume", "done", "refused"}]
  /\ files \in [Dirs -> [input : BOOLEAN, intent : Outcomes \cup {"intent"}, inference : Receipts,
                         diagnosis : Outcomes, operation : Outcomes]]

(* The command of d consumed its permit, and may post or has posted. *)
Holds(d) == before[d] = "done" \/ cmd[d].post # "none"

(* A command that may still consume or post was started with a permit. *)
Permitted == \A d \in Dirs : cmd[d].at = "models" \/ before[d] # "off" \/ Holds(d)
                               => cmd[d].permit \in Permits

HoldersReserved == \A d \in Dirs : Holds(d) => cmd[d].permit \in ledger

OneHolder == \A d, e \in Dirs : Holds(d) /\ Holds(e) /\ cmd[d].permit = cmd[e].permit => d = e

(* A directory is used once; a command posts once, and waits for its answer *)
(* only after that.                                                         *)
PostsOnce ==
  \A d \in Dirs : /\ ~files[d].input => cmd[d].at = "idle" /\ before[d] = "off" /\ ~Holds(d)
                  /\ cmd[d].at \in {"models", "before"} => cmd[d].post = "none"
                  /\ cmd[d].at = "sent" => cmd[d].post = "posted"

(* The intent is on disk from the moment the permit may be consumed. *)
IntentFirst ==
  \A d \in Dirs : \/ before[d] \in {"consume", "done"} /\ cmd[d].at = "before"
                  \/ cmd[d].at = "sent"
                  => files[d].intent = "intent"

SpendInv == /\ CommandsTyped /\ Permitted /\ HoldersReserved /\ OneHolder
            /\ PostsOnce /\ IntentFirst

(* The commands' own updates keep their shape. *)
LEMMA CommandMoves ==
  ASSUME NEW c \in Commands, NEW a \in Stages
  PROVE  [c EXCEPT !.at = a] \in Commands
BY DEF Commands

LEMMA CommandPosts ==
  ASSUME NEW c \in Commands, NEW a \in Stages, NEW q \in {"none", "posted", "answered"}
  PROVE  [c EXCEPT !.at = a, !.post = q] \in Commands
BY DEF Commands

LEMMA CommandConcludes ==
  ASSUME NEW c \in Commands, NEW r \in Outcomes, NEW k \in Receipts
  PROVE  [c EXCEPT !.at = "inference", !.result = r, !.receipt = k] \in Commands
BY DEF Commands, Stages

(* No directory has been used yet. *)
LEMMA SpendInitially == Init => SpendInv
BY DEF Init, Idle, NoFiles, SpendInv, CommandsTyped, Commands, Stages, Outcomes, Receipts,
       Permitted, HoldersReserved, OneHolder, PostsOnce, IntentFirst, Holds

(* A start uses a directory that was never used. *)
LEMMA StartKeeps ==
  ASSUME SpendInv, NEW d \in Dirs, NEW p \in Permits \cup {WithoutPermit}, Start(d, p)
  PROVE  SpendInv'
<1>1. /\ before[d] = "off" /\ UNCHANGED <<before, ledger>>
      /\ cmd' = [cmd EXCEPT ![d] = cmd'[d]]
      /\ files' = [files EXCEPT ![d].input = TRUE]
      /\ cmd'[d].permit = p /\ cmd'[d].post = "none" /\ cmd'[d].recorded = FALSE
      /\ cmd'[d].receipt = "none"
      /\ cmd'[d].at \in {"models", "inference"} /\ (cmd'[d].at = "models" => p \in Permits)
      /\ cmd'[d].result \in {"none", "not-run", "failed"}
      /\ cmd'[d] = [at |-> cmd'[d].at, permit |-> p, recorded |-> FALSE, post |-> "none",
                    result |-> cmd'[d].result, receipt |-> "none"]
  BY DEF Start, Idle, SpendInv, CommandsTyped
<1>2. CommandsTyped'
  <2>1. cmd'[d] \in Commands
    BY <1>1 DEF Commands, Stages, Outcomes, Receipts
  <2>2. files'[d] = [files[d] EXCEPT !.input = TRUE]
    BY <1>1 DEF SpendInv, CommandsTyped
  <2>3. cmd' \in [Dirs -> Commands]
    BY <1>1, <2>1 DEF SpendInv, CommandsTyped
  <2> DEFINE Entry == [input : BOOLEAN, intent : Outcomes \cup {"intent"}, inference : Receipts,
                       diagnosis : Outcomes, operation : Outcomes]
  <2>4. files \in [Dirs -> Entry] /\ files[d] \in Entry
    BY DEF SpendInv, CommandsTyped
  <2>5. [files[d] EXCEPT !.input = TRUE] \in Entry
    BY <2>4
  <2>6. files' = [files EXCEPT ![d] = files'[d]] /\ files'[d] \in Entry
    BY <1>1, <2>2, <2>4, <2>5
  <2> HIDE DEF Entry
  <2>7. files' \in [Dirs -> Entry]
    BY <2>4, <2>6
  <2>8. before' \in [Dirs -> {"off", "write", "consume", "done", "refused"}]
    BY <1>1 DEF SpendInv, CommandsTyped
  <2> QED
    BY <2>3, <2>7, <2>8 DEF CommandsTyped, Entry
<1>3. \A e \in Dirs \ {d} : cmd'[e] = cmd[e] /\ files'[e] = files[e]
  BY <1>1 DEF SpendInv, CommandsTyped
<1>4. ~Holds(d)'
  BY <1>1 DEF Holds
<1>5. \A e \in Dirs \ {d} : Holds(e)' <=> Holds(e)
  BY <1>1, <1>3 DEF Holds
<1>6. Permitted' /\ HoldersReserved' /\ OneHolder'
  BY <1>1, <1>3, <1>4, <1>5 DEF SpendInv, Permitted, HoldersReserved, OneHolder
<1>7. PostsOnce' /\ IntentFirst'
  BY <1>1, <1>3, <1>2, <1>5 DEF SpendInv, PostsOnce, IntentFirst, CommandsTyped
<1> QED
  BY <1>2, <1>6, <1>7 DEF SpendInv

(* A step of d that keeps its permit, its posts and the ledger, and lets *)
(* beforePost hold the permit no longer than before.                     *)
LEMMA QuietKeeps ==
  ASSUME SpendInv, NEW d \in Dirs, CommandsTyped',
         ledger' = ledger,
         \A e \in Dirs \ {d} : cmd'[e] = cmd[e] /\ files'[e] = files[e] /\ before'[e] = before[e],
         cmd'[d].permit = cmd[d].permit, cmd'[d].post = cmd[d].post,
         before'[d] = "done" => before[d] = "done",
         cmd'[d].at = "models" => cmd[d].at = "models",
         before'[d] # "off" => before[d] # "off" \/ cmd[d].at = "models",
         files[d].input, files'[d].input,
         cmd'[d].at \in {"models", "before"} => cmd[d].at \in {"models", "before"},
         cmd'[d].at = "sent" => cmd[d].at = "sent",
         \/ before'[d] \in {"consume", "done"} /\ cmd'[d].at = "before"
         \/ cmd'[d].at = "sent"
         => files'[d].intent = "intent"
  PROVE  SpendInv'
<1>1. \A e \in Dirs : Holds(e)' => Holds(e)
  BY DEF Holds
<1>2. \A e \in Dirs : cmd'[e].permit = cmd[e].permit
  OBVIOUS
<1>3. Permitted' /\ HoldersReserved' /\ OneHolder'
  BY <1>1, <1>2 DEF SpendInv, Permitted, HoldersReserved, OneHolder, Holds
<1>4. PostsOnce' /\ IntentFirst'
  BY <1>1 DEF SpendInv, PostsOnce, IntentFirst
<1> QED
  BY <1>3, <1>4 DEF SpendInv

(* beforePost consumes the permit only when nobody did: no other command *)
(* holds it.                                                             *)
LEMMA ConsumeKeeps ==
  ASSUME SpendInv, NEW d \in Dirs, BeforeConsume(d)
  PROVE  SpendInv'
<1>1. CommandsTyped'
  BY DEF BeforeConsume, SpendInv, CommandsTyped
<1>2. before[d] = "consume" /\ UNCHANGED <<files, cmd>>
      /\ \A e \in Dirs \ {d} : before'[e] = before[e]
  BY DEF BeforeConsume, SpendInv, CommandsTyped
<1>3. CASE before'[d] = "done" /\ cmd[d].permit \notin ledger
             /\ ledger' = ledger \cup {cmd[d].permit}
  <2>1. \A e \in Dirs \ {d} : Holds(e)' <=> Holds(e)
    BY <1>2 DEF Holds
  <2>2. \A e \in Dirs : Holds(e) => cmd[e].permit # cmd[d].permit
    BY <1>3 DEF SpendInv, HoldersReserved
  <2>3. Permitted' /\ HoldersReserved'
    BY <1>2, <1>3, <2>1 DEF SpendInv, Permitted, HoldersReserved
  <2>4. OneHolder'
    BY <1>2, <2>1, <2>2 DEF SpendInv, OneHolder
  <2>5. PostsOnce' /\ IntentFirst'
    BY <1>2, <1>3, <2>1 DEF SpendInv, PostsOnce, IntentFirst
  <2> QED
    BY <1>1, <2>3, <2>4, <2>5 DEF SpendInv
<1>4. CASE before'[d] = "refused" /\ ledger' = ledger
  BY <1>1, <1>2, <1>4, QuietKeeps DEF SpendInv, IntentFirst, PostsOnce
<1> QED
  BY <1>3, <1>4 DEF BeforeConsume, SpendInv, CommandsTyped

(* The request leaves with the permit its own beforePost consumed. *)
LEMMA PostKeeps ==
  ASSUME SpendInv, NEW d \in Dirs, Post(d)
  PROVE  SpendInv'
<1>1. CommandsTyped'
  <2>1. [cmd[d] EXCEPT !.at = "sent", !.post = "posted"] \in Commands
    BY CommandPosts DEF SpendInv, CommandsTyped, Stages
  <2>2. cmd' = [cmd EXCEPT ![d] = [cmd[d] EXCEPT !.at = "sent", !.post = "posted"]]
    BY DEF Post, SpendInv, CommandsTyped, Commands
  <2> QED
    BY <2>1, <2>2 DEF Post, SpendInv, CommandsTyped
<1>2. /\ cmd[d].at = "before" /\ before[d] = "done" /\ before'[d] = "off"
      /\ cmd'[d].at = "sent" /\ cmd'[d].post = "posted" /\ cmd'[d].permit = cmd[d].permit
      /\ UNCHANGED <<files, ledger>>
      /\ \A e \in Dirs \ {d} : cmd'[e] = cmd[e] /\ before'[e] = before[e]
  BY DEF Post, SpendInv, CommandsTyped
<1>3. \A e \in Dirs : (Holds(e)' <=> Holds(e)) /\ cmd'[e].permit = cmd[e].permit
  BY <1>2 DEF Holds
<1>4. Permitted' /\ HoldersReserved' /\ OneHolder'
  BY <1>2, <1>3 DEF SpendInv, Permitted, HoldersReserved, OneHolder
<1>5. files[d].input
  BY <1>2 DEF SpendInv, PostsOnce
<1>6. PostsOnce' /\ IntentFirst'
  BY <1>2, <1>3, <1>5 DEF SpendInv, PostsOnce, IntentFirst
<1> QED
  BY <1>1, <1>4, <1>6 DEF SpendInv

(* A command that reaches its verdict sends nothing more. *)
LEMMA ConcludeKeeps ==
  ASSUME SpendInv, NEW d \in Dirs, NEW r \in Outcomes, NEW k \in Receipts,
         Conclude(d, r, k), cmd[d].at # "idle", UNCHANGED <<files, ledger>>,
         before' = before \/ before' = [before EXCEPT ![d] = "off"]
  PROVE  SpendInv'
<1>1. cmd' = [cmd EXCEPT ![d] = [cmd[d] EXCEPT !.at = "inference", !.result = r, !.receipt = k]]
  BY DEF Conclude, SpendInv, CommandsTyped, Commands
<1>2. cmd'[d] \in Commands
  BY <1>1, CommandConcludes DEF SpendInv, CommandsTyped
<1>3. CommandsTyped'
  BY <1>1, <1>2 DEF SpendInv, CommandsTyped
<1>4. cmd'[d].at = "inference" /\ cmd'[d].permit = cmd[d].permit /\ cmd'[d].post = cmd[d].post
  BY <1>1 DEF SpendInv, CommandsTyped, Commands
<1>5. \A e \in Dirs \ {d} : cmd'[e] = cmd[e] /\ before'[e] = before[e]
  BY <1>1 DEF SpendInv, CommandsTyped
<1>6. before'[d] \in {before[d], "off"} /\ files[d].input
  BY DEF SpendInv, CommandsTyped, PostsOnce
<1> QED
  BY <1>3, <1>4, <1>5, <1>6, QuietKeeps

(* What a command does while it only moves on, and what it writes by then. *)
LEMMA MoveKeeps ==
  ASSUME SpendInv, NEW d \in Dirs, NEW a \in Stages \ {"models", "before", "sent"},
         Move(d, a), CommandsTyped', ledger' = ledger, files[d].input, files'[d].input,
         \A e \in Dirs \ {d} : files'[e] = files[e] /\ before'[e] = before[e],
         before'[d] \in {before[d], "off"}
  PROVE  SpendInv'
<1>1. cmd'[d] = [cmd[d] EXCEPT !.at = a] /\ \A e \in Dirs \ {d} : cmd'[e] = cmd[e]
  BY DEF Move, SpendInv, CommandsTyped
<1>2. cmd'[d].at = a /\ cmd'[d].permit = cmd[d].permit /\ cmd'[d].post = cmd[d].post
  BY <1>1 DEF SpendInv, CommandsTyped, Commands
<1> QED
  BY <1>1, <1>2, QuietKeeps

LEMMA MoveTyped ==
  ASSUME SpendInv, NEW d \in Dirs, NEW a \in Stages, Move(d, a)
  PROVE  cmd' \in [Dirs -> Commands]
<1>1. cmd' = [cmd EXCEPT ![d] = [cmd[d] EXCEPT !.at = a]]
  BY DEF Move, SpendInv, CommandsTyped
<1>2. [cmd[d] EXCEPT !.at = a] \in Commands
  BY CommandMoves DEF SpendInv, CommandsTyped
<1> QED
  BY <1>1, <1>2 DEF SpendInv, CommandsTyped

(* The model list is read, and beforePost starts. *)
LEMMA ModelsKeeps ==
  ASSUME SpendInv, NEW d \in Dirs, Models(d)
  PROVE  SpendInv'
<1>1. CASE Move(d, "before") /\ before' = [before EXCEPT ![d] = "write"]
  <2>1. CommandsTyped'
    BY <1>1, MoveTyped DEF Models, Stages, SpendInv, CommandsTyped
  <2>2. cmd'[d] = [cmd[d] EXCEPT !.at = "before"] /\ \A e \in Dirs \ {d} : cmd'[e] = cmd[e]
    BY <1>1 DEF Move, SpendInv, CommandsTyped
  <2>3. /\ cmd'[d].at = "before" /\ cmd'[d].permit = cmd[d].permit
        /\ cmd'[d].post = cmd[d].post
    BY <2>2 DEF SpendInv, CommandsTyped, Commands
  <2>4. before'[d] = "write" /\ \A e \in Dirs \ {d} : before'[e] = before[e]
    BY <1>1 DEF SpendInv, CommandsTyped
  <2>5. cmd[d].at = "models" /\ UNCHANGED <<files, ledger>> /\ files[d].input
    BY DEF Models, SpendInv, PostsOnce
  <2> QED
    BY <2>1, <2>2, <2>3, <2>4, <2>5, QuietKeeps
<1>2. CASE Fail(d) /\ UNCHANGED before
  BY <1>2, ConcludeKeeps DEF Models, Fail, Outcomes, Receipts
<1> QED
  BY <1>1, <1>2 DEF Models

(* The intent is written, by a beforePost that may be late. *)
LEMMA BeforeWriteKeeps ==
  ASSUME SpendInv, NEW d \in Dirs, BeforeWrite(d)
  PROVE  SpendInv'
<1>1. /\ before[d] = "write" /\ before'[d] = "consume" /\ ledger' = ledger
      /\ files'[d] = [files[d] EXCEPT !.intent = "intent"]
      /\ cmd'[d] = [cmd[d] EXCEPT !.recorded = cmd[d].recorded \/ cmd[d].at # "idle"]
      /\ \A e \in Dirs \ {d} : cmd'[e] = cmd[e] /\ files'[e] = files[e] /\ before'[e] = before[e]
  BY DEF BeforeWrite, SpendInv, CommandsTyped
<1>2. cmd'[d] \in Commands
  <2>1. cmd[d] \in Commands /\ (cmd[d].recorded \/ cmd[d].at # "idle") \in BOOLEAN
    BY DEF SpendInv, CommandsTyped
  <2>2. \A c \in Commands, b \in BOOLEAN : [c EXCEPT !.recorded = b] \in Commands
    BY DEF Commands
  <2> QED
    BY <1>1, <2>1, <2>2
<1>3. CommandsTyped'
  BY <1>2 DEF BeforeWrite, SpendInv, CommandsTyped
<1>4. /\ cmd'[d].at = cmd[d].at /\ cmd'[d].permit = cmd[d].permit
      /\ cmd'[d].post = cmd[d].post
  BY <1>1 DEF SpendInv, CommandsTyped, Commands
<1>5. files'[d].intent = "intent" /\ files'[d].input = files[d].input /\ files[d].input
  BY <1>1 DEF SpendInv, CommandsTyped, PostsOnce
<1> QED
  BY <1>1, <1>3, <1>4, <1>5, QuietKeeps

(* An answer changes what the request came to, not whose it is. *)
LEMMA AnswerKeeps ==
  ASSUME SpendInv, NEW d \in Dirs, Answer(d)
  PROVE  SpendInv'
<1>1. PICK s \in Decisions \cup {"failed"} :
        cmd' = [cmd EXCEPT ![d].at = "inference", ![d].post = "answered", ![d].result = s,
                 ![d].receipt = IF s = "failed" THEN "failed" ELSE "completed"]
  BY DEF Answer
<1>2. /\ cmd[d].at = "sent" /\ cmd[d].post = "posted" /\ UNCHANGED <<files, before, ledger>>
      /\ files[d].input
  BY DEF Answer, SpendInv, PostsOnce
<1>3. cmd'[d] \in Commands
  <2>1. [[cmd[d] EXCEPT !.at = "inference", !.post = "answered"]
           EXCEPT !.at = "inference", !.result = s,
                  !.receipt = IF s = "failed" THEN "failed" ELSE "completed"] \in Commands
    BY CommandPosts, CommandConcludes DEF SpendInv, CommandsTyped, Stages, Outcomes, Receipts
  <2> QED
    BY <1>1, <2>1 DEF SpendInv, CommandsTyped, Commands
<1>4. CommandsTyped'
  BY <1>1, <1>2, <1>3 DEF SpendInv, CommandsTyped
<1>5. /\ cmd'[d].at = "inference" /\ cmd'[d].post = "answered"
      /\ cmd'[d].permit = cmd[d].permit /\ \A e \in Dirs \ {d} : cmd'[e] = cmd[e]
  BY <1>1 DEF SpendInv, CommandsTyped, Commands
<1>6. \A e \in Dirs : (Holds(e)' <=> Holds(e)) /\ cmd'[e].permit = cmd[e].permit
  BY <1>2, <1>5 DEF Holds
<1>7. Permitted' /\ HoldersReserved' /\ OneHolder'
  BY <1>2, <1>5, <1>6 DEF SpendInv, Permitted, HoldersReserved, OneHolder
<1>8. PostsOnce' /\ IntentFirst'
  BY <1>2, <1>5, <1>6 DEF SpendInv, PostsOnce, IntentFirst
<1> QED
  BY <1>4, <1>7, <1>8 DEF SpendInv

(* The command writes its artifacts; the intent it replaces is its own, and *)
(* nothing is sent any more.                                                *)
LEMMA WriteKeeps ==
  ASSUME SpendInv, NEW d \in Dirs, Write(d)
  PROVE  SpendInv'
<1> DEFINE Entry == [input : BOOLEAN, intent : Outcomes \cup {"intent"}, inference : Receipts,
                     diagnosis : Outcomes, operation : Outcomes]
<1>1. PICK a \in {"diagnosis", "intent", "operation", "idle"} : Move(d, a)
  BY DEF Write
<1>2. cmd' \in [Dirs -> Commands] /\ a \in Stages \ {"models", "before", "sent"}
  BY <1>1, MoveTyped DEF Stages
<1>3. /\ cmd[d].at # "idle" /\ files[d].input /\ UNCHANGED <<before, ledger>>
      /\ cmd[d] \in Commands /\ files[d] \in Entry
  BY DEF Write, SpendInv, PostsOnce, CommandsTyped
<1>4. /\ files'[d] \in Entry /\ files'[d].input
      /\ files' = [files EXCEPT ![d] = files'[d]]
  BY <1>3 DEF Write, SpendInv, CommandsTyped, Commands, Outcomes, Receipts
<1>5. CommandsTyped'
  BY <1>2, <1>3, <1>4 DEF SpendInv, CommandsTyped
<1>6. \A e \in Dirs \ {d} : files'[e] = files[e] /\ before'[e] = before[e]
  BY <1>3, <1>4 DEF SpendInv, CommandsTyped
<1> QED
  BY <1>1, <1>2, <1>3, <1>4, <1>5, <1>6, MoveKeeps

(* A command that stops, and a crash that takes beforePost with it. *)
LEMMA StopKeeps ==
  ASSUME SpendInv, NEW d \in Dirs, Move(d, "idle"), UNCHANGED <<files, ledger>>,
         cmd[d].at # "idle" \/ before[d] # "off",
         before' = before \/ before' = [before EXCEPT ![d] = "off"]
  PROVE  SpendInv'
<1>1. "idle" \in Stages \ {"models", "before", "sent"}
  BY DEF Stages
<1>2. CommandsTyped'
  BY <1>1, MoveTyped DEF SpendInv, CommandsTyped
<1>3. files[d].input
  BY DEF SpendInv, PostsOnce
<1> QED
  BY <1>1, <1>2, <1>3, MoveKeeps DEF SpendInv, CommandsTyped

LEMMA SpendStep ==
  ASSUME SpendInv, [Next]_vars
  PROVE  SpendInv'
<1>1. ASSUME NEW d \in Dirs, Deadline(d)
      PROVE  SpendInv'
  BY <1>1, ConcludeKeeps DEF Deadline, Fail, Outcomes, Receipts
<1>2. ASSUME NEW d \in Dirs, PreflightFails(d)
      PROVE  SpendInv'
  BY <1>2, ConcludeKeeps DEF PreflightFails, Fail, Outcomes, Receipts
<1>3. ASSUME NEW d \in Dirs, WriteFails(d) \/ Crash(d)
      PROVE  SpendInv'
  BY <1>3, StopKeeps DEF WriteFails, Crash
<1>4. CASE (\E p \in Permits : Expire(p)) \/ UNCHANGED vars
  BY <1>4 DEF Expire, vars, SpendInv, CommandsTyped, Permitted, HoldersReserved, OneHolder,
              PostsOnce, IntentFirst, Holds
<1> QED
  BY <1>1, <1>2, <1>3, <1>4, StartKeeps, ModelsKeeps, BeforeWriteKeeps, ConsumeKeeps, PostKeeps,
     AnswerKeeps, WriteKeeps DEF Next

LEMMA SpendInvariant == Spec => []SpendInv
BY SpendInitially, SpendStep, PTL DEF Spec

(* A request is on its way only with its intent on disk and its permit in   *)
(* the ledger (Post, inference.ts beforePost), whatever beforePost of other *)
(* directories, deadlines and crashes do.                                   *)
THEOREM RequestIsJournaled == Spec => []SentIsJournaled
<1>1. SpendInv => SentIsJournaled
  BY DEF SpendInv, SentIsJournaled, IntentFirst, PostsOnce, HoldersReserved, Holds
<1> QED
  BY <1>1, SpendInvariant, PTL

-----------------------------------------------------------------------------
(* What became of a permit: the state of the one request made with it, or,  *)
(* without one, whether the ledger has it.                                  *)
UseRule ==
  \A p \in Permits :
    /\ \A d \in Dirs : cmd[d].permit = p /\ cmd[d].post # "none" => UseOf(p) = cmd[d].post
    /\ (\A d \in Dirs : ~(cmd[d].permit = p /\ cmd[d].post # "none"))
         => UseOf(p) = IF p \in ledger THEN "reserved" ELSE "held"

(* What the permits are mapped to. *)
Uses == [p \in Permits |-> UseOf(p)]

LEMMA UseIs == SpendInv => UseRule
<1> SUFFICES ASSUME SpendInv, NEW p \in Permits
             PROVE  /\ \A d \in Dirs : cmd[d].permit = p /\ cmd[d].post # "none"
                                         => UseOf(p) = cmd[d].post
                    /\ (\A d \in Dirs : ~(cmd[d].permit = p /\ cmd[d].post # "none"))
                         => UseOf(p) = IF p \in ledger THEN "reserved" ELSE "held"
  BY DEF UseRule
<1>1. ASSUME NEW d \in Dirs, cmd[d].permit = p, cmd[d].post # "none"
      PROVE  UseOf(p) = cmd[d].post
  <2>1. Posts(p) = {d}
    BY <1>1 DEF Posts, SpendInv, OneHolder, Holds
  <2>2. Cardinality(Posts(p)) = 1
    BY <2>1, FS_Singleton
  <2>3. (CHOOSE e \in Posts(p) : TRUE) = d
    BY <2>1
  <2> QED
    BY <2>1, <2>2, <2>3 DEF UseOf
<1>2. ASSUME \A d \in Dirs : ~(cmd[d].permit = p /\ cmd[d].post # "none")
      PROVE  UseOf(p) = IF p \in ledger THEN "reserved" ELSE "held"
  <2>1. Posts(p) = {}
    BY <1>2 DEF Posts
  <2>2. Cardinality(Posts(p)) = 0
    BY <2>1, FS_EmptySet
  <2> QED
    BY <2>1, <2>2 DEF UseOf
<1> QED
  BY <1>1, <1>2

LEMMA UseIsNext == SpendInv' => UseRule'
BY UseIs, PTL

(* A step that sends, answers and reserves nothing is a stutter. *)
LEMMA UseStays ==
  ASSUME SpendInv, SpendInv', ledger' = ledger,
         \A d \in Dirs : /\ cmd'[d].post = cmd[d].post
                         /\ cmd[d].post # "none" => cmd'[d].permit = cmd[d].permit
  PROVE  UNCHANGED Uses
<1> USE DEF Uses
<1>1. ASSUME NEW p \in Permits
      PROVE  UseOf(p)' = UseOf(p)
  BY UseIs, UseIsNext DEF UseRule
<1> QED
  BY <1>1

(* A reservation takes a permit nothing was sent with. *)
LEMMA ConsumeReserves ==
  ASSUME SpendInv, SpendInv', NEW d \in Dirs, BeforeConsume(d), ledger' # ledger
  PROVE  Permit!Next
<1> DEFINE p == cmd[d].permit
<1>1. /\ p \in Permits /\ p \notin ledger /\ ledger' = ledger \cup {p} /\ cmd' = cmd
  BY DEF BeforeConsume, SpendInv, Permitted
<1>2. \A e \in Dirs : ~(cmd[e].permit = p /\ cmd[e].post # "none")
  BY <1>1 DEF SpendInv, HoldersReserved, Holds
<1>3. UseOf(p) = "held" /\ UseOf(p)' = "reserved"
  BY <1>1, <1>2, UseIs, UseIsNext DEF UseRule
<1>4. \A q \in Permits \ {p} : UseOf(q)' = UseOf(q)
  BY <1>1, UseIs, UseIsNext DEF UseRule
<1>5. Permit!Reserve(p)
  BY <1>1, <1>3, <1>4 DEF Permit!Reserve, Uses
<1> QED
  BY <1>1, <1>5 DEF Permit!Next

(* A request leaves with a permit reserved and not used. *)
LEMMA PostSends ==
  ASSUME SpendInv, SpendInv', NEW d \in Dirs, Post(d)
  PROVE  Permit!Next
<1> DEFINE p == cmd[d].permit
<1>1. /\ before[d] = "done" /\ cmd[d].at = "before" /\ cmd'[d].post = "posted"
      /\ cmd'[d].permit = p /\ ledger' = ledger /\ \A e \in Dirs \ {d} : cmd'[e] = cmd[e]
  BY DEF Post, SpendInv, CommandsTyped, Commands
<1>2. p \in Permits /\ p \in ledger
  BY <1>1 DEF SpendInv, Permitted, HoldersReserved, Holds
<1>3. \A e \in Dirs : ~(cmd[e].permit = p /\ cmd[e].post # "none")
  BY <1>1 DEF SpendInv, OneHolder, PostsOnce, Holds
<1>4. UseOf(p) = "reserved" /\ UseOf(p)' = "posted"
  BY <1>1, <1>2, <1>3, UseIs, UseIsNext DEF UseRule
<1>5. \A q \in Permits \ {p} : UseOf(q)' = UseOf(q)
  <2>1. cmd[d].post = "none"
    BY <1>1 DEF SpendInv, PostsOnce
  <2> QED
    BY <1>1, <2>1, UseIs, UseIsNext DEF UseRule
<1>6. Permit!Send(p)
  BY <1>1, <1>2, <1>4, <1>5 DEF Permit!Send, Uses
<1> QED
  BY <1>2, <1>6 DEF Permit!Next

(* The answer is the one to the permit's request. *)
LEMMA AnswerAnswers ==
  ASSUME SpendInv, SpendInv', NEW d \in Dirs, Answer(d)
  PROVE  Permit!Next
<1> DEFINE p == cmd[d].permit
<1>1. /\ cmd[d].post = "posted" /\ cmd'[d].post = "answered" /\ cmd'[d].permit = p
      /\ ledger' = ledger /\ \A e \in Dirs \ {d} : cmd'[e] = cmd[e]
  BY DEF Answer, SpendInv, CommandsTyped, Commands, PostsOnce
<1>2. p \in Permits
  BY <1>1 DEF SpendInv, Permitted, Holds
<1>3. UseOf(p) = "posted" /\ UseOf(p)' = "answered"
  BY <1>1, <1>2, UseIs, UseIsNext DEF UseRule
<1>4. \A q \in Permits \ {p} : UseOf(q)' = UseOf(q)
  BY <1>1, UseIs, UseIsNext DEF UseRule
<1>5. Permit!Answer(p)
  BY <1>1, <1>2, <1>3, <1>4 DEF Permit!Answer, Uses
<1> QED
  BY <1>2, <1>5 DEF Permit!Next

LEMMA SpendStepMaps ==
  ASSUME SpendInv, SpendInv', [Next]_vars
  PROVE  [Permit!Next]_Uses
<1>1. ASSUME NEW d \in Dirs, BeforeConsume(d)
      PROVE  Permit!Next \/ UNCHANGED Uses
  BY <1>1, ConsumeReserves, UseStays DEF BeforeConsume
<1>2. ASSUME NEW d \in Dirs, NEW p \in Permits \cup {WithoutPermit}, Start(d, p)
      PROVE  UNCHANGED Uses
  <2>1. cmd[d].post = "none" /\ ledger' = ledger
    BY <1>2 DEF Start, NoFiles, SpendInv, PostsOnce, Holds
  <2>2. cmd'[d].post = "none" /\ \A e \in Dirs \ {d} : cmd'[e] = cmd[e]
    BY <1>2 DEF Start, Idle, SpendInv, CommandsTyped
  <2> QED
    BY <2>1, <2>2, UseStays
<1>3. ASSUME NEW d \in Dirs,
             Models(d) \/ BeforeWrite(d) \/ PreflightFails(d) \/ Deadline(d)
               \/ Write(d) \/ WriteFails(d) \/ Crash(d)
      PROVE  UNCHANGED Uses
  <2>1. ledger' = ledger
    BY <1>3 DEF Models, BeforeWrite, PreflightFails, Deadline, Write, WriteFails, Crash
  <2>2. \A e \in Dirs : cmd'[e].post = cmd[e].post /\ cmd'[e].permit = cmd[e].permit
    BY <1>3 DEF Models, BeforeWrite, PreflightFails, Deadline, Write, WriteFails, Crash, Fail,
                Conclude, Move, SpendInv, CommandsTyped, Commands
  <2> QED
    BY <2>1, <2>2, UseStays
<1>4. CASE (\E p \in Permits : Expire(p)) \/ UNCHANGED vars
  BY <1>4, UseStays DEF Expire, vars
<1> QED
  BY <1>1, <1>2, <1>3, <1>4, PostSends, AnswerAnswers DEF Next

(* However many directories hold a permit, and whatever is left behind by   *)
(* deadlines and crashes, consumePermit and its place before the request    *)
(* give each permit one request at most: diagnose implements SinglePost.    *)
THEOREM PermitPaysOnce == Spec => OnePostPerPermit
<1>1. Init => Permit!Init
  <2> SUFFICES ASSUME Init
               PROVE  \A p \in Permits : UseOf(p) = "held"
    BY DEF Permit!Init
  <2> QED
    BY SpendInitially, UseIs DEF UseRule, Init, Idle
<1> QED
  BY <1>1, SpendInvariant, SpendStepMaps, PTL DEF Spec, OnePostPerPermit, Permit!Spec, Uses

(* What a command c has recorded in its journal f while beforePost is at b:   *)
(* a request that left has its intent recorded, stays unknown until answered, *)
(* and a decision is written receipt first and operation last.                *)
ReportOk(c, f, b) ==
  /\ c.post # "none" => b = "off" /\ c.recorded = TRUE
  /\ c.at = "before" /\ b \in {"consume", "done", "refused"} => c.recorded = TRUE
  /\ c.at \in {"models", "before", "sent"} => c.result = "none"
  /\ c.at # "idle" => f.operation = "none"
  /\ c.post = "posted" =>
        /\ f.intent \in {"intent", "outcome-unknown"}
        /\ f.operation \in {"none", "outcome-unknown"}
        /\ c.at \notin {"sent", "idle"} => c.result = "outcome-unknown"
  /\ c.result \in Decisions => c.post = "answered" /\ c.receipt = "completed"
  /\ c.at \in {"diagnosis", "intent", "operation"} /\ c.result \in Decisions => f.inference = "completed"
  /\ c.at \in {"intent", "operation"} /\ c.result \in Decisions => f.diagnosis = c.result
  /\ c.at = "operation" /\ c.result \in Decisions => f.intent = c.result
  /\ f.operation \in Decisions => Bound(f) /\ b = "off" /\ c.at = "idle"

ReportInv == SpendInv /\ \A d \in Dirs : ReportOk(cmd[d], files[d], before[d])

Journals == [input : BOOLEAN, intent : Outcomes \cup {"intent"}, inference : Receipts,
             diagnosis : Outcomes, operation : Outcomes]

(* Nothing has been sent. *)
LEMMA ReportInitially == Init => ReportInv
BY SpendInitially DEF Init, Idle, NoFiles, ReportInv, ReportOk, Decisions

(* The parts of the state a directory owns. *)
LEMMA ReportTyped ==
  ASSUME SpendInv, NEW d \in Dirs
  PROVE  /\ cmd[d] \in Commands /\ files[d] \in Journals
         /\ before[d] \in {"off", "write", "consume", "done", "refused"}
BY DEF SpendInv, CommandsTyped, Journals

(* beforePost and the command of a directory, between a start and an answer. *)
LEMMA ReportBefore ==
  ASSUME ReportInv, NEW d \in Dirs,
         Models(d) \/ BeforeWrite(d) \/ BeforeConsume(d) \/ Post(d) \/ PreflightFails(d)
  PROVE  ReportOk(cmd[d], files[d], before[d])'
<1>1. cmd[d] \in Commands /\ files[d] \in Journals /\ ReportOk(cmd[d], files[d], before[d])
  BY ReportTyped DEF ReportInv
<1>2. cmd \in [Dirs -> Commands] /\ files \in [Dirs -> Journals] /\ before[d] = before[d]
      /\ DOMAIN before = Dirs
  BY DEF ReportInv, SpendInv, CommandsTyped, Journals
<1>3. /\ cmd[d].at \in {"models", "before"} => cmd[d].post = "none"
      /\ before[d] \in {"consume", "done"} /\ cmd[d].at = "before" => files[d].intent = "intent"
  BY DEF ReportInv, SpendInv, PostsOnce, IntentFirst
<1>4. CASE Models(d)
  <2>1. /\ cmd[d].at = "models" /\ files' = files
        /\ \/ cmd' = [cmd EXCEPT ![d].at = "before"] /\ before' = [before EXCEPT ![d] = "write"]
           \/ /\ cmd' = [cmd EXCEPT ![d].at = "inference", ![d].result = "failed", ![d].receipt = "failed"]
              /\ before' = before
    BY <1>4, Zenon DEF Models, Move, Fail, Conclude
  <2> QED
    BY <1>1, <1>2, <1>3, <2>1 DEF ReportOk, Commands, Decisions
<1>5. CASE BeforeWrite(d)
  <2>1. /\ before[d] = "write" /\ before' = [before EXCEPT ![d] = "consume"]
        /\ files' = [files EXCEPT ![d].intent = "intent"]
        /\ cmd' = [cmd EXCEPT ![d].recorded = cmd'[d].recorded]
        /\ cmd[d].at # "idle" => cmd'[d].recorded = TRUE
    <3>1. /\ before[d] = "write" /\ before' = [before EXCEPT ![d] = "consume"]
          /\ files' = [files EXCEPT ![d].intent = "intent"]
          /\ cmd' = [cmd EXCEPT ![d].recorded = @ \/ cmd[d].at # "idle"]
      BY <1>5, Zenon DEF BeforeWrite
    <3>2. PICK r : r = (cmd[d].recorded \/ cmd[d].at # "idle") /\ (cmd[d].at # "idle" => r = TRUE)
      BY Zenon
    <3>3. cmd' = [cmd EXCEPT ![d].recorded = r]
      BY <3>1, <3>2, Zenon
    <3> QED
      BY <1>1, <1>2, <3>1, <3>2, <3>3 DEF Commands
  <2> QED
    BY <1>1, <1>2, <1>3, <2>1 DEF ReportOk, Commands, Journals, Decisions
<1>6. CASE BeforeConsume(d)
  BY <1>1, <1>2, <1>3, <1>6 DEF BeforeConsume, ReportOk
<1>7. CASE Post(d)
  <2>1. /\ cmd[d].at = "before" /\ before[d] = "done" /\ files' = files
        /\ cmd' = [cmd EXCEPT ![d].at = "sent", ![d].post = "posted"]
        /\ before' = [before EXCEPT ![d] = "off"]
    BY <1>7, Zenon DEF Post
  <2> QED
    BY <1>1, <1>2, <1>3, <2>1 DEF ReportOk, Commands, Journals, Decisions
<1>8. CASE PreflightFails(d)
  <2>1. /\ cmd[d].at = "before" /\ files' = files
        /\ cmd' = [cmd EXCEPT ![d].at = "inference", ![d].result = "failed", ![d].receipt = "failed"]
        /\ before' = [before EXCEPT ![d] = "off"]
    BY <1>8, Zenon DEF PreflightFails, Fail, Conclude
  <2> QED
    BY <1>1, <1>2, <1>3, <2>1 DEF ReportOk, Commands, Journals, Decisions
<1> QED
  BY <1>4, <1>5, <1>6, <1>7, <1>8

(* The answer, the deadline and the end of a command. *)
LEMMA ReportAnswers ==
  ASSUME ReportInv, NEW d \in Dirs, Answer(d) \/ Deadline(d) \/ WriteFails(d) \/ Crash(d)
  PROVE  ReportOk(cmd[d], files[d], before[d])'
<1>1. cmd[d] \in Commands /\ files[d] \in Journals /\ ReportOk(cmd[d], files[d], before[d])
  BY ReportTyped DEF ReportInv
<1>2. cmd \in [Dirs -> Commands] /\ DOMAIN before = Dirs
  BY DEF ReportInv, SpendInv, CommandsTyped
<1>3. /\ cmd[d].at \in {"models", "before"} => cmd[d].post = "none"
      /\ cmd[d].at = "sent" => cmd[d].post = "posted"
  BY DEF ReportInv, SpendInv, PostsOnce
<1>4. CASE Answer(d)
  <2>1. PICK s \in Decisions \cup {"failed"} : \E k \in {"failed", "completed"} :
          /\ cmd[d].at = "sent" /\ UNCHANGED <<files, before>>
          /\ s \in Decisions => k = "completed"
          /\ cmd' = [cmd EXCEPT ![d].at = "inference", ![d].post = "answered", ![d].result = s,
                                ![d].receipt = k]
    BY <1>4 DEF Answer, Decisions
  <2> QED
    BY <1>1, <1>2, <1>3, <2>1 DEF ReportOk, Commands, Decisions
<1>5. CASE Deadline(d)
  <2>1. PICK r \in {"failed", "outcome-unknown"} :
          /\ UNCHANGED <<files, before>>
          /\ cmd[d].at \in {"models", "before", "sent"} /\ (cmd[d].at = "sent" => r = "outcome-unknown")
          /\ cmd' = [cmd EXCEPT ![d].at = "inference", ![d].result = r, ![d].receipt = r]
    BY <1>5, Zenon DEF Deadline, Fail, Conclude
  <2> QED
    BY <1>1, <1>2, <1>3, <2>1 DEF ReportOk, Commands, Decisions
<1>6. CASE WriteFails(d) \/ Crash(d)
  <2>1. /\ files' = files /\ cmd' = [cmd EXCEPT ![d].at = "idle"]
        /\ before' \in {before, [before EXCEPT ![d] = "off"]}
    BY <1>6 DEF WriteFails, Crash, Move
  <2> QED
    BY <1>1, <1>2, <2>1 DEF ReportOk, Commands
<1> QED
  BY <1>4, <1>5, <1>6

(* The artifacts, each written from the verdict of its command. *)
LEMMA ReportWrites ==
  ASSUME ReportInv, NEW d \in Dirs, Write(d)
  PROVE  ReportOk(cmd[d], files[d], before[d])'
<1>1. cmd[d] \in Commands /\ files[d] \in Journals /\ ReportOk(cmd[d], files[d], before[d])
  BY ReportTyped DEF ReportInv
<1>2. cmd \in [Dirs -> Commands] /\ files \in [Dirs -> Journals] /\ before' = before
  BY DEF ReportInv, SpendInv, CommandsTyped, Journals, Write
<1>3. CASE cmd[d].at = "inference"
  <2>1. cmd' = [cmd EXCEPT ![d].at = "diagnosis"] /\ files' = [files EXCEPT ![d].inference = cmd[d].receipt]
    BY <1>3 DEF Write, Move
  <2> QED
    BY <1>1, <1>2, <1>3, <2>1 DEF ReportOk, Commands, Journals, Bound
<1>4. CASE cmd[d].at = "diagnosis"
  <2>1. PICK g : /\ cmd[d].result \in Decisions => g = cmd[d].result
                 /\ cmd' = [cmd EXCEPT ![d].at = "intent"] /\ files' = [files EXCEPT ![d].diagnosis = g]
    BY <1>4 DEF Write, Move
  <2> QED
    BY <1>1, <1>2, <1>4, <2>1 DEF ReportOk, Commands, Journals, Bound, Decisions
<1>5. CASE cmd[d].at = "intent"
  <2>1. PICK g : /\ cmd[d].recorded = TRUE => g = cmd[d].result
                 /\ cmd' = [cmd EXCEPT ![d].at = "operation"] /\ files' = [files EXCEPT ![d].intent = g]
    <3>1. /\ cmd' = [cmd EXCEPT ![d].at = "operation"]
          /\ files' = [files EXCEPT ![d].intent = IF cmd[d].recorded THEN cmd[d].result ELSE @]
      BY <1>5 DEF Write, Move
    <3>2. PICK g : /\ g = (IF cmd[d].recorded THEN cmd[d].result ELSE files[d].intent)
                   /\ cmd[d].recorded = TRUE => g = cmd[d].result
      BY Zenon
    <3> QED
      BY <3>1, <3>2, Zenon
  <2> QED
    BY <1>1, <1>2, <1>5, <2>1 DEF ReportOk, Commands, Journals, Bound, Decisions
<1>6. CASE cmd[d].at = "operation"
  <2>1. cmd' = [cmd EXCEPT ![d].at = "idle"] /\ files' = [files EXCEPT ![d].operation = cmd[d].result]
    BY <1>6 DEF Write, Move
  <2> QED
    BY <1>1, <1>2, <1>6, <2>1 DEF ReportOk, Commands, Journals, Bound, Decisions
<1> QED
  BY <1>3, <1>4, <1>5, <1>6 DEF Write

(* A start finds a directory without a journal. *)
LEMMA ReportStarts ==
  ASSUME ReportInv, NEW d \in Dirs, NEW p \in Permits \cup {WithoutPermit}, Start(d, p)
  PROVE  ReportOk(cmd[d], files[d], before[d])'
<1>1. files[d] = NoFiles /\ files' = [files EXCEPT ![d].input = TRUE] /\ before' = before /\ before[d] = "off"
  BY DEF Start
<1>2. cmd'[d].at \in {"models", "inference"} /\ cmd'[d].post = "none"
      /\ (cmd'[d].at = "models" => cmd'[d].result = "none")
      /\ cmd'[d].result \in {"none", "not-run", "failed"}
  BY DEF Start, Idle, ReportInv, SpendInv, CommandsTyped
<1>3. files'[d].operation = "none"
  BY <1>1 DEF NoFiles, ReportInv, SpendInv, CommandsTyped
<1> QED
  BY <1>1, <1>2, <1>3 DEF ReportOk, Decisions

(* A step of one directory leaves the others alone. *)
LEMMA ReportSteps == ASSUME ReportInv, [Next]_vars PROVE ReportInv'
<1>1. SpendInv'
  BY SpendStep DEF ReportInv
<1>2. CASE UNCHANGED <<files, cmd, before>>
  BY <1>1, <1>2 DEF ReportInv
<1>3. ASSUME NEW d \in Dirs,
             \/ \E p \in Permits \cup {WithoutPermit} : Start(d, p)
             \/ Models(d) \/ BeforeWrite(d) \/ BeforeConsume(d)
             \/ Post(d) \/ PreflightFails(d) \/ Answer(d) \/ Deadline(d)
             \/ Write(d) \/ WriteFails(d) \/ Crash(d)
      PROVE  ReportInv'
  <2>1. ReportOk(cmd[d], files[d], before[d])'
    BY <1>3, ReportBefore, ReportAnswers, ReportWrites, ReportStarts
  <2>2. \A e \in Dirs \ {d} : cmd'[e] = cmd[e] /\ files'[e] = files[e] /\ before'[e] = before[e]
    BY <1>3 DEF ReportInv, SpendInv, CommandsTyped, Start, Models, BeforeWrite, BeforeConsume, Post,
                PreflightFails, Answer, Deadline, Write, WriteFails, Crash, Move, Fail, Conclude
  <2>3. \A e \in Dirs \ {d} : ReportOk(cmd[e], files[e], before[e])'
    BY <2>2 DEF ReportInv
  <2> QED
    BY <1>1, <2>1, <2>3 DEF ReportInv
<1> QED
  BY <1>2, <1>3 DEF Next, vars, Expire

(* What `status` answers is read off the invariant. *)
LEMMA ReportFollows == ReportInv => UnknownIsReported /\ DecisionReadsBack
<1> SUFFICES ASSUME ReportInv, NEW d \in Dirs
             PROVE  /\ cmd[d].at = "idle" /\ cmd[d].post = "posted" => Status(d) = "outcome-unknown"
                    /\ Status(d) # "error"
  BY DEF UnknownIsReported, DecisionReadsBack
<1>1. ReportOk(cmd[d], files[d], before[d]) /\ files[d] \in Journals
  BY ReportTyped DEF ReportInv
<1> QED
  BY <1>1 DEF ReportOk, Journals, Status, Decisions, Outcomes, Receipts

(* A request whose answer was never seen is reported unknown, and a recorded  *)
(* decision reads back, wherever crashes and failed writes stop the command   *)
(* (service.ts, readBoundDiagnosis).                                         *)
THEOREM OutcomeStaysReported == Spec => [](UnknownIsReported /\ DecisionReadsBack)
BY ReportInitially, ReportSteps, ReportFollows, PTL DEF Spec

-----------------------------------------------------------------------------
(* Proofs.  The invariant follows a permit id from its reservation to its    *)
(* request: the directory that reserved it is the only one that ever posts   *)
(* with it, because a directory with files in it never starts again.         *)
EnrichSteps == {"idle", "prepare", "operation", "reserve", "intent", "send", "sent", "response",
          "receipt", "result"}

EnrichTyped ==
  /\ enrichFiles \in [Dirs -> SUBSET (EnrichSteps \cup {"prepared"})]
  /\ receipt \in [Dirs -> {"none", "completed", "unavailable", "outcome-unknown"}]
  /\ at \in [Dirs -> EnrichSteps]
  /\ authority \in [Dirs -> Enrich!Authorities \cup {Enrich!None}]
  /\ post \in [Dirs -> {"none", "posted", "answered"}]

(* The command of d reserved its permit, and may send or has sent. *)
EnrichPaid(d) == at[d] \in {"intent", "send"} \/ post[d] # "none"

EnrichAuthorised == \A d \in Dirs : at[d] # "idle" \/ post[d] # "none" => authority[d] \in Enrich!Authorities

EnrichPaidIsReserved == \A d \in Dirs : EnrichPaid(d) => Enrich!LedgerKey(authority[d]) \in enrichLedger

EnrichOnePayer == \A d, e \in Dirs : EnrichPaid(d) /\ EnrichPaid(e) /\ authority[d].id = authority[e].id => d = e

(* A command posts once, after its operation.json, and a definite receipt is *)
(* the receipt of an answer.                                                 *)
EnrichStepsInOrder ==
  \A d \in Dirs :
    /\ at[d] \in {"prepare", "operation", "reserve", "intent", "send"} => post[d] = "none"
    /\ at[d] \in {"prepare", "operation", "reserve", "intent", "send", "sent"} => receipt[d] = "none"
    /\ at[d] = "sent" => post[d] = "posted"
    /\ at[d] = "operation" => enrichFiles[d] # {}
    /\ at[d] \in EnrichSteps \ {"idle", "prepare", "operation"} \/ post[d] # "none" => "operation" \in enrichFiles[d]
    /\ enrichFiles[d] = {} => receipt[d] = "none"
    /\ receipt[d] \in {"completed", "unavailable"} => post[d] = "answered"

EnrichInv == EnrichTyped /\ EnrichAuthorised /\ EnrichPaidIsReserved /\ EnrichOnePayer /\ EnrichStepsInOrder

(* What a step of d writes, spelled out: its own entries, nobody else's. *)
EnrichOthers(d) == \A e \in Dirs \ {d} : /\ enrichFiles'[e] = enrichFiles[e] /\ receipt'[e] = receipt[e]
                                   /\ at'[e] = at[e] /\ authority'[e] = authority[e]
                                   /\ post'[e] = post[e]

(* A step that neither reserves nor starts leaves its permit to whom it was. *)
LEMMA EnrichQuietKeeps ==
  ASSUME EnrichInv, NEW d \in Dirs, EnrichTyped', EnrichOthers(d), enrichLedger' = enrichLedger,
         authority'[d] = authority[d], at[d] # "idle", EnrichPaid(d)' => EnrichPaid(d)
  PROVE  EnrichAuthorised' /\ EnrichPaidIsReserved' /\ EnrichOnePayer'
<1>1. \A e \in Dirs \ {d} : EnrichPaid(e)' <=> EnrichPaid(e)
  BY DEF EnrichOthers, EnrichPaid
<1>2. \A e \in Dirs : authority'[e] = authority[e]
  BY DEF EnrichOthers
<1>3. EnrichAuthorised'
  BY <1>2 DEF EnrichInv, EnrichAuthorised, EnrichOthers
<1>4. EnrichPaidIsReserved' /\ EnrichOnePayer'
  BY <1>1, <1>2 DEF EnrichInv, EnrichPaidIsReserved, EnrichOnePayer, Enrich!LedgerKey
<1> QED
  BY <1>3, <1>4

(* Only a directory that holds nothing starts, and it has paid for nothing. *)
LEMMA EnrichStartKeeps ==
  ASSUME EnrichInv, NEW d \in Dirs, NEW a \in Enrich!Authorities, Enrich!Start(d, a)
  PROVE  EnrichInv'
<1>1. EnrichTyped'
  BY DEF Enrich!Start, EnrichInv, EnrichTyped, EnrichSteps
<1>2. /\ EnrichOthers(d) /\ at'[d] = "prepare" /\ authority'[d] = a /\ enrichLedger' = enrichLedger
      /\ post[d] = "none" /\ post'[d] = "none" /\ receipt'[d] = "none" /\ receipt[d] = "none"
  BY DEF Enrich!Start, EnrichOthers, EnrichInv, EnrichTyped, EnrichStepsInOrder
<1>3. ~EnrichPaid(d)' /\ \A e \in Dirs \ {d} : EnrichPaid(e)' <=> EnrichPaid(e)
  BY <1>2 DEF EnrichPaid, EnrichOthers
<1>4. EnrichAuthorised'
  BY <1>2 DEF EnrichInv, EnrichAuthorised, EnrichOthers
<1>5. EnrichPaidIsReserved' /\ EnrichOnePayer'
  BY <1>2, <1>3 DEF EnrichInv, EnrichPaidIsReserved, EnrichOnePayer, Enrich!LedgerKey, EnrichOthers
<1>6. EnrichStepsInOrder'
  BY <1>2 DEF Enrich!Start, EnrichInv, EnrichStepsInOrder, EnrichOthers, EnrichSteps
<1> QED
  BY <1>1, <1>4, <1>5, <1>6 DEF EnrichInv

(* The ledger takes an id that is not in it: no other directory paid with it. *)
LEMMA EnrichReserveKeeps ==
  ASSUME EnrichInv, NEW d \in Dirs, Enrich!Reserve(d)
  PROVE  EnrichInv'
<1>1. EnrichTyped' /\ EnrichOthers(d) /\ at[d] = "reserve"
  BY DEF Enrich!Reserve, EnrichInv, EnrichTyped, EnrichSteps, EnrichOthers
<1>2. CASE at'[d] = "idle" /\ enrichLedger' = enrichLedger
  <2>1. EnrichAuthorised' /\ EnrichPaidIsReserved' /\ EnrichOnePayer'
    BY <1>1, <1>2, EnrichQuietKeeps DEF Enrich!Reserve, EnrichPaid
  <2>2. EnrichStepsInOrder'
    BY <1>1, <1>2 DEF Enrich!Reserve, EnrichInv, EnrichStepsInOrder, EnrichOthers, EnrichSteps
  <2> QED
    BY <1>1, <2>1, <2>2 DEF EnrichInv
<1>3. CASE /\ at'[d] = "intent" /\ Enrich!LedgerKey(authority[d]) \notin enrichLedger
           /\ enrichLedger' = enrichLedger \cup {Enrich!LedgerKey(authority[d])}
  <2>1. \A e \in Dirs : authority'[e] = authority[e]
    BY DEF Enrich!Reserve
  <2>2. \A e \in Dirs \ {d} : EnrichPaid(e)' <=> EnrichPaid(e)
    BY <1>1 DEF EnrichOthers, EnrichPaid
  <2>3. \A e \in Dirs : EnrichPaid(e) => authority[e].id # authority[d].id
    BY <1>3 DEF EnrichInv, EnrichPaidIsReserved, Enrich!LedgerKey
  <2>4. EnrichAuthorised'
    BY <1>1, <2>1 DEF EnrichInv, EnrichAuthorised, EnrichOthers, Enrich!Reserve
  <2>5. EnrichPaidIsReserved' /\ EnrichOnePayer'
    BY <1>3, <2>1, <2>2, <2>3 DEF EnrichInv, EnrichPaidIsReserved, EnrichOnePayer, Enrich!LedgerKey
  <2>6. EnrichStepsInOrder'
    BY <1>1, <1>3 DEF Enrich!Reserve, EnrichInv, EnrichStepsInOrder, EnrichOthers, EnrichSteps
  <2> QED
    BY <1>1, <2>4, <2>5, <2>6 DEF EnrichInv
<1> QED
  BY <1>2, <1>3 DEF Enrich!Reserve, EnrichInv, EnrichTyped

(* The request leaves after the reservation, and every later step keeps the *)
(* permit of its directory.                                                 *)
LEMMA EnrichOtherStepsKeep ==
  ASSUME EnrichInv, NEW d \in Dirs,
         Enrich!Journal(d) \/ Enrich!Send(d) \/ Enrich!Respond(d) \/ Enrich!Lose(d) \/ Enrich!Receipt(d) \/ Enrich!Die(d)
  PROVE  EnrichInv'
<1>1. EnrichTyped'
  BY DEF Enrich!Journal, Enrich!Send, Enrich!Respond, Enrich!Lose, Enrich!Receipt, Enrich!Die, Enrich!WriteFile, EnrichInv, EnrichTyped, EnrichSteps
<1>2. /\ EnrichOthers(d) /\ enrichLedger' = enrichLedger /\ authority'[d] = authority[d] /\ at[d] # "idle"
  BY DEF Enrich!Journal, Enrich!Send, Enrich!Respond, Enrich!Lose, Enrich!Receipt, Enrich!Die, Enrich!WriteFile, EnrichInv, EnrichTyped, EnrichOthers
<1>3. EnrichPaid(d)' => EnrichPaid(d)
  BY DEF Enrich!Journal, Enrich!Send, Enrich!Respond, Enrich!Lose, Enrich!Receipt, Enrich!Die, Enrich!WriteFile, EnrichInv, EnrichTyped, EnrichPaid,
         EnrichStepsInOrder
<1>4. EnrichAuthorised' /\ EnrichPaidIsReserved' /\ EnrichOnePayer'
  BY <1>1, <1>2, <1>3, EnrichQuietKeeps
<1>5. EnrichStepsInOrder'
  <2>1. ASSUME Enrich!Journal(d) PROVE EnrichStepsInOrder'
    BY <1>1, <1>2, <2>1 DEF Enrich!Journal, Enrich!WriteFile, EnrichInv, EnrichTyped, EnrichStepsInOrder, EnrichOthers, EnrichSteps
  <2>2. ASSUME Enrich!Receipt(d) PROVE EnrichStepsInOrder'
    BY <1>1, <1>2, <2>2 DEF Enrich!Receipt, Enrich!WriteFile, EnrichInv, EnrichTyped, EnrichStepsInOrder, EnrichOthers, EnrichSteps
  <2>3. ASSUME Enrich!Send(d) \/ Enrich!Respond(d) \/ Enrich!Lose(d) \/ Enrich!Die(d) PROVE EnrichStepsInOrder'
    BY <1>1, <1>2, <2>3 DEF Enrich!Send, Enrich!Respond, Enrich!Lose, Enrich!Die, EnrichInv, EnrichTyped, EnrichStepsInOrder,
                            EnrichOthers, EnrichSteps
  <2> QED
    BY <2>1, <2>2, <2>3
<1> QED
  BY <1>1, <1>4, <1>5 DEF EnrichInv

LEMMA EnrichInvariant == Enrich!Spec => []EnrichInv
<1>1. Enrich!Init => EnrichInv
  BY DEF Enrich!Init, EnrichInv, EnrichTyped, EnrichSteps, EnrichAuthorised, EnrichPaidIsReserved, EnrichOnePayer, EnrichStepsInOrder,
         EnrichPaid
<1>2. EnrichInv /\ [Enrich!Next]_(Enrich!vars) => EnrichInv'
  <2> SUFFICES ASSUME EnrichInv, [Enrich!Next]_(Enrich!vars)
               PROVE  EnrichInv'
    OBVIOUS
  <2>1. CASE (\E id \in Permits : Enrich!Expire(id)) \/ UNCHANGED Enrich!vars
    BY <2>1 DEF Enrich!Expire, Enrich!vars, EnrichInv, EnrichTyped, EnrichAuthorised, EnrichPaidIsReserved, EnrichOnePayer,
                EnrichStepsInOrder, EnrichPaid
  <2> QED
    BY <2>1, EnrichStartKeeps, EnrichReserveKeeps, EnrichOtherStepsKeep DEF Enrich!Next
<1> QED
  BY <1>1, <1>2, PTL DEF Enrich!Spec

(* However a command died, the status of its directory never calls a request *)
(* not sent that was, nor one answered that was not (Inspect, enrich.ts).    *)
THEOREM InspectionAlwaysTrue == Enrich!Spec => []Enrich!InspectionIsTrue
<1>1. EnrichInv => Enrich!InspectionIsTrue
  BY DEF EnrichInv, EnrichTyped, Enrich!InspectionIsTrue, Enrich!Inspect, EnrichStepsInOrder
<1> QED
  BY <1>1, EnrichInvariant, PTL

-----------------------------------------------------------------------------
(* What became of a permit id: the state of the one request paid with it,    *)
(* or, without one, whether the ledger has it.                               *)
EnrichInLedger(id) == \E a \in Enrich!Authorities : a.id = id /\ Enrich!LedgerKey(a) \in enrichLedger

EnrichUseRule ==
  \A id \in Permits :
    /\ \A d \in Dirs : d \in Enrich!Sent(id) => Enrich!UseOf(id) = post[d]
    /\ Enrich!Sent(id) = {} => Enrich!UseOf(id) = IF EnrichInLedger(id) THEN "reserved" ELSE "held"

EnrichUses == [id \in Permits |-> Enrich!UseOf(id)]

LEMMA EnrichUseIs == EnrichInv => EnrichUseRule
<1> SUFFICES ASSUME EnrichInv, NEW id \in Permits
             PROVE  /\ \A d \in Dirs : d \in Enrich!Sent(id) => Enrich!UseOf(id) = post[d]
                    /\ Enrich!Sent(id) = {} => Enrich!UseOf(id) = IF EnrichInLedger(id) THEN "reserved" ELSE "held"
  BY DEF EnrichUseRule
<1>1. ASSUME NEW d \in Dirs, d \in Enrich!Sent(id)
      PROVE  Enrich!UseOf(id) = post[d]
  <2>1. Enrich!Sent(id) = {d}
    BY <1>1 DEF Enrich!Sent, EnrichInv, EnrichOnePayer, EnrichPaid
  <2>2. Cardinality(Enrich!Sent(id)) = 1
    BY <2>1, FS_Singleton
  <2>3. (CHOOSE e \in Enrich!Sent(id) : TRUE) = d
    BY <2>1
  <2> QED
    BY <2>1, <2>2, <2>3 DEF Enrich!UseOf
<1>2. ASSUME Enrich!Sent(id) = {}
      PROVE  Enrich!UseOf(id) = IF EnrichInLedger(id) THEN "reserved" ELSE "held"
  <2>1. Cardinality(Enrich!Sent(id)) = 0
    BY <1>2, FS_EmptySet
  <2> QED
    BY <1>2, <2>1 DEF Enrich!UseOf, EnrichInLedger
<1> QED
  BY <1>1, <1>2

LEMMA EnrichUseIsNext == EnrichInv' => EnrichUseRule'
BY EnrichUseIs, PTL

(* A step that reserves nothing, and sends and answers nothing with id,      *)
(* leaves what became of it.                                                 *)
LEMMA EnrichUseOfStays ==
  ASSUME EnrichInv, EnrichInv', NEW id \in Permits, EnrichInLedger(id)' <=> EnrichInLedger(id),
         \A d \in Dirs : /\ (d \in Enrich!Sent(id))' <=> d \in Enrich!Sent(id)
                         /\ d \in Enrich!Sent(id) => post'[d] = post[d]
  PROVE  Enrich!UseOf(id)' = Enrich!UseOf(id)
<1>1. CASE \E d \in Dirs : d \in Enrich!Sent(id)
  BY <1>1, EnrichUseIs, EnrichUseIsNext DEF EnrichUseRule
<1>2. CASE ~\E d \in Dirs : d \in Enrich!Sent(id)
  <2>1. Enrich!Sent(id) = {} /\ Enrich!Sent(id)' = {}
    BY <1>2 DEF Enrich!Sent
  <2> QED
    BY <2>1, EnrichUseIs, EnrichUseIsNext DEF EnrichUseRule
<1> QED
  BY <1>1, <1>2

LEMMA EnrichUseStays ==
  ASSUME EnrichInv, EnrichInv', enrichLedger' = enrichLedger,
         \A d \in Dirs : /\ post'[d] = post[d]
                         /\ post[d] # "none" => authority'[d] = authority[d]
  PROVE  UNCHANGED EnrichUses
<1>1. ASSUME NEW id \in Permits
      PROVE  Enrich!UseOf(id)' = Enrich!UseOf(id)
  BY EnrichUseOfStays DEF EnrichInLedger, Enrich!Sent
<1> QED
  BY <1>1 DEF EnrichUses

(* A reservation takes an id that nothing was sent with. *)
LEMMA EnrichReserveReserves ==
  ASSUME EnrichInv, EnrichInv', NEW d \in Dirs, Enrich!Reserve(d), enrichLedger' # enrichLedger
  PROVE  Enrich!Permit!Next
<1>1. authority[d] \in Enrich!Authorities
  BY DEF Enrich!Reserve, EnrichInv, EnrichAuthorised
<1>2. PICK id \in Permits : id = authority[d].id
  BY <1>1 DEF Enrich!Authorities
<1>3. /\ authority[d] \in Enrich!Authorities /\ id \notin enrichLedger /\ enrichLedger' = enrichLedger \cup {id}
      /\ UNCHANGED <<authority, post>>
  BY <1>1, <1>2 DEF Enrich!Reserve, Enrich!LedgerKey
<1>4. Enrich!Sent(id) = {} /\ Enrich!Sent(id)' = {}
  BY <1>3 DEF EnrichInv, EnrichPaidIsReserved, Enrich!LedgerKey, EnrichPaid, Enrich!Sent
<1>5. ~EnrichInLedger(id) /\ EnrichInLedger(id)'
  BY <1>3, <1>2 DEF EnrichInLedger, Enrich!LedgerKey
<1>6. Enrich!UseOf(id) = "held" /\ Enrich!UseOf(id)' = "reserved"
  BY <1>2, <1>4, <1>5, EnrichUseIs, EnrichUseIsNext DEF EnrichUseRule
<1>7. \A other \in Permits \ {id} : Enrich!UseOf(other)' = Enrich!UseOf(other)
  BY <1>3, <1>2, EnrichUseOfStays DEF EnrichInLedger, Enrich!LedgerKey, Enrich!Sent
<1>8. Enrich!Permit!Reserve(id)
  BY <1>2, <1>6, <1>7 DEF Enrich!Permit!Reserve
<1> QED
  BY <1>2, <1>8 DEF Enrich!Permit!Next

(* The request leaves with an id that is reserved and not used. *)
LEMMA EnrichSendSends ==
  ASSUME EnrichInv, EnrichInv', NEW d \in Dirs, Enrich!Send(d)
  PROVE  Enrich!Permit!Next
<1>1. authority[d] \in Enrich!Authorities
  BY DEF Enrich!Send, EnrichInv, EnrichAuthorised
<1>2. PICK id \in Permits : id = authority[d].id
  BY <1>1 DEF Enrich!Authorities
<1>3. /\ at[d] = "send" /\ post'[d] = "posted" /\ UNCHANGED <<authority, enrichLedger>>
      /\ post[d] = "none" /\ \A e \in Dirs \ {d} : post'[e] = post[e]
  BY DEF Enrich!Send, EnrichInv, EnrichTyped, EnrichStepsInOrder
<1>4. EnrichInLedger(id) /\ Enrich!Sent(id) = {}
  BY <1>1, <1>3, <1>2 DEF EnrichInv, EnrichPaidIsReserved, EnrichOnePayer, EnrichPaid, EnrichInLedger, Enrich!Sent
<1>5. (d \in Enrich!Sent(id))'
  BY <1>3, <1>2 DEF Enrich!Sent
<1>6. Enrich!UseOf(id) = "reserved" /\ Enrich!UseOf(id)' = "posted"
  BY <1>3, <1>2, <1>4, <1>5, EnrichUseIs, EnrichUseIsNext DEF EnrichUseRule
<1>7. \A other \in Permits \ {id} : Enrich!UseOf(other)' = Enrich!UseOf(other)
  BY <1>3, <1>2, EnrichUseOfStays DEF EnrichInLedger, Enrich!Sent
<1>8. Enrich!Permit!Send(id)
  BY <1>2, <1>6, <1>7 DEF Enrich!Permit!Send
<1> QED
  BY <1>2, <1>8 DEF Enrich!Permit!Next

(* The answer is the one to the id's request. *)
LEMMA EnrichRespondAnswers ==
  ASSUME EnrichInv, EnrichInv', NEW d \in Dirs, Enrich!Respond(d)
  PROVE  Enrich!Permit!Next
<1>1. authority[d] \in Enrich!Authorities
  BY DEF Enrich!Respond, EnrichInv, EnrichAuthorised
<1>2. PICK id \in Permits : id = authority[d].id
  BY <1>1 DEF Enrich!Authorities
<1>3. /\ post[d] = "posted" /\ post'[d] = "answered" /\ UNCHANGED <<authority, enrichLedger>>
      /\ \A e \in Dirs \ {d} : post'[e] = post[e]
  BY DEF Enrich!Respond, EnrichInv, EnrichTyped, EnrichStepsInOrder
<1>4. d \in Enrich!Sent(id) /\ (d \in Enrich!Sent(id))'
  BY <1>3, <1>2 DEF Enrich!Sent
<1>5. Enrich!UseOf(id) = "posted" /\ Enrich!UseOf(id)' = "answered"
  BY <1>3, <1>2, <1>4, EnrichUseIs, EnrichUseIsNext DEF EnrichUseRule
<1>6. \A other \in Permits \ {id} : Enrich!UseOf(other)' = Enrich!UseOf(other)
  BY <1>3, <1>2, EnrichUseOfStays DEF EnrichInLedger, Enrich!Sent
<1>7. Enrich!Permit!Answer(id)
  BY <1>2, <1>5, <1>6 DEF Enrich!Permit!Answer
<1> QED
  BY <1>2, <1>7 DEF Enrich!Permit!Next

LEMMA EnrichStepMaps ==
  ASSUME EnrichInv, EnrichInv', [Enrich!Next]_(Enrich!vars)
  PROVE  [Enrich!Permit!Next]_EnrichUses
<1>1. ASSUME NEW d \in Dirs, Enrich!Reserve(d)
      PROVE  Enrich!Permit!Next \/ UNCHANGED EnrichUses
  BY <1>1, EnrichReserveReserves, EnrichUseStays DEF Enrich!Reserve
<1>2. ASSUME NEW d \in Dirs, NEW a \in Enrich!Authorities, Enrich!Start(d, a)
      PROVE  UNCHANGED EnrichUses
  <2>1. enrichLedger' = enrichLedger /\ post' = post /\ post[d] = "none"
    BY <1>2 DEF Enrich!Start, EnrichInv, EnrichStepsInOrder
  <2>2. \A e \in Dirs \ {d} : authority'[e] = authority[e]
    BY <1>2 DEF Enrich!Start, EnrichInv, EnrichTyped
  <2> QED
    BY <2>1, <2>2, EnrichUseStays
<1>3. ASSUME NEW d \in Dirs, Enrich!Journal(d) \/ Enrich!Lose(d) \/ Enrich!Receipt(d) \/ Enrich!Die(d)
      PROVE  UNCHANGED EnrichUses
  BY <1>3, EnrichUseStays DEF Enrich!Journal, Enrich!Lose, Enrich!Receipt, Enrich!Die
<1>4. CASE (\E id \in Permits : Enrich!Expire(id)) \/ UNCHANGED Enrich!vars
  BY <1>4, EnrichUseStays DEF Enrich!Expire, Enrich!vars
<1> QED
  BY <1>1, <1>2, <1>3, <1>4, EnrichSendSends, EnrichRespondAnswers DEF Enrich!Next

(* Whatever request an edited permit names, and wherever the command died,   *)
(* the shared ledger gives each permit id one request: `advisory enrich`     *)
(* implements SinglePost as `diagnose` does (reservePermit, permit.ts).      *)
THEOREM PermitIdPaysOnce == Enrich!Spec => Enrich!OnePostPerPermit
<1>1. Enrich!Init => Enrich!Permit!Init
  <2> SUFFICES ASSUME Enrich!Init
               PROVE  \A id \in Permits : Enrich!UseOf(id) = "held"
    BY DEF Enrich!Permit!Init
  <2>1. EnrichInv
    BY DEF Enrich!Init, EnrichInv, EnrichTyped, EnrichSteps, EnrichAuthorised, EnrichPaidIsReserved, EnrichOnePayer,
           EnrichStepsInOrder, EnrichPaid
  <2>2. \A id \in Permits : Enrich!Sent(id) = {} /\ ~EnrichInLedger(id)
    BY DEF Enrich!Init, Enrich!Sent, EnrichInLedger
  <2> QED
    BY <2>1, <2>2, EnrichUseIs DEF EnrichUseRule
<1> QED
  BY <1>1, EnrichInvariant, EnrichStepMaps, PTL DEF Enrich!Spec, Enrich!OnePostPerPermit, Enrich!Permit!Spec, EnrichUses

-----------------------------------------------------------------------------
(* Publication (publish.ts).                                                 *)

PublishCommand == [pc : Publish!Steps, permit : Permits \cup {Publish!NoPermit}, could : BOOLEAN,
            found : 0 .. MaxPosts, status : BOOLEAN]
PublishIntent == [permit : Permits \cup {Publish!NoPermit}, status : Publish!IntentStatus, number : 0 .. MaxPosts]

Sending == {"authorize", "post"}
PublishJournaled == {"recheck", "consume", "authorize", "post"}

(* A permit whose reservation is in use is in the ledger, belongs to one command and has paid for nothing. *)
PublishReserved ==
  /\ \A p \in Permits : publishPosts[p] > 0 => p \in publishLedger
  /\ \A d \in Dirs : proc[d].pc \in Sending =>
        /\ proc[d].permit \in publishLedger /\ publishPosts[proc[d].permit] = 0
        /\ \A e \in Dirs : proc[e].pc \in Sending /\ proc[e].permit = proc[d].permit => d = e

Filed ==
  \A d \in Dirs :
    /\ proc[d].pc \notin {"idle", "refs", "lookup", "artifact", "intent"} => proc[d].permit \in Permits
    /\ intent[d].permit # Publish!NoPermit => permitFile[d] = intent[d].permit
    /\ proc[d].pc = "writeIntent" => permitFile[d] = proc[d].permit
    /\ proc[d].pc \in PublishJournaled =>
          permitFile[d] = proc[d].permit /\ intent[d].permit = proc[d].permit

Numbered ==
  \A d \in Dirs :
    /\ proc[d].found <= Len(pulls)
    /\ intent[d].number <= Len(pulls)
    /\ intent[d].status = "published" => intent[d].number # 0
    /\ answer[d] = "published" => Len(pulls) > 0
    /\ intent[d].number # 0 => readback[d] = intent[d].number
    /\ proc[d].pc = "intent" /\ proc[d].found # 0 => readback[d] = proc[d].found

PublicationInv ==
  Publish!TypeOK /\ PublishReserved /\ Publish!OnePostPerPermit /\ Filed /\ Publish!PostIsJournaled /\ Numbered

(* The fields of a command and of an intent have their ranges. *)
LEMMA CommandFields ==
  ASSUME Publish!TypeOK, NEW d \in Dirs
  PROVE  /\ proc[d] \in PublishCommand /\ intent[d] \in PublishIntent
         /\ proc[d].pc \in Publish!Steps /\ proc[d].permit \in Permits \cup {Publish!NoPermit}
         /\ proc[d].found \in 0 .. MaxPosts
         /\ permitFile[d] \in Permits \cup {Publish!NoPermit} /\ readback[d] \in 0 .. MaxPosts
         /\ intent[d].permit \in Permits \cup {Publish!NoPermit} /\ intent[d].status \in Publish!IntentStatus
         /\ intent[d].number \in 0 .. MaxPosts
BY DEF Publish!TypeOK, PublishCommand, PublishIntent

(* Nothing has been published. *)
LEMMA PublicationInitially == Publish!Init => PublicationInv
<1> SUFFICES ASSUME Publish!Init PROVE PublicationInv
  OBVIOUS
<1>1. Publish!TypeOK
  <2> MaxFaults \in Nat /\ MaxPosts \in Nat
    BY PublishConstants DEF Publish!PublicationAssumption
  <2>1. Publish!Idle \in PublishCommand /\ Publish!NoIntent \in PublishIntent
    BY DEF PublishCommand, PublishIntent, Publish!Idle, Publish!NoIntent, Publish!Steps, Publish!IntentStatus
  <2>2. pulls \in Seq(Publish!PullStates) /\ Len(pulls) <= MaxPosts
    <3>1. pulls = <<>>
      BY DEF Publish!Init
    <3> QED
      BY <3>1, EmptySeq
  <2>3. proc \in [Dirs -> PublishCommand] /\ intent \in [Dirs -> PublishIntent]
    BY <2>1 DEF Publish!Init
  <2>4. /\ permitFile \in [Dirs -> Permits \cup {Publish!NoPermit}]
        /\ readback \in [Dirs -> 0 .. MaxPosts]
        /\ answer \in [Dirs -> {"none", "published", "outcome-unknown", "rejected"}]
    BY DEF Publish!Init
  <2>5. /\ publishLedger \subseteq Permits /\ publishExpired \subseteq Permits
        /\ inflight \subseteq Dirs
    BY DEF Publish!Init
  <2>6. publishPosts \in [Permits -> 0 .. MaxPosts]
    BY DEF Publish!Init
  <2>7. refsMoved \in BOOLEAN
    BY Zenon DEF Publish!Init
  <2>8. faults \in 0 .. MaxFaults
    BY DEF Publish!Init
  <2> QED
    BY <2>2, <2>3, <2>4, <2>5, <2>6, <2>7, <2>8 DEF Publish!TypeOK, PublishCommand, PublishIntent
<1>2. \A d \in Dirs : /\ proc[d] = Publish!Idle /\ Publish!Idle.pc = "idle" /\ Publish!Idle.found = 0
                             /\ intent[d] = Publish!NoIntent /\ Publish!NoIntent.permit = Publish!NoPermit
                             /\ Publish!NoIntent.status = "none" /\ Publish!NoIntent.number = 0
                             /\ answer[d] = "none"
  BY DEF Publish!Init, Publish!Idle, Publish!NoIntent
<1>3. \A p \in Permits : publishPosts[p] = 0
  BY DEF Publish!Init
<1>4. Len(pulls) = 0
  BY DEF Publish!Init
<1>5. PublishReserved
  BY <1>2, <1>3 DEF PublishReserved, Sending
<1>6. Filed
  BY <1>2 DEF Filed, PublishJournaled
<1>7. Numbered
  BY <1>2, <1>4 DEF Numbered
<1> QED
  BY <1>1, <1>3, <1>5, <1>6, <1>7 DEF PublicationInv, Publish!OnePostPerPermit, Publish!PostIsJournaled

Allowed(d, c) ==
  /\ c \in PublishCommand
  /\ c.found <= Len(pulls)
  /\ c.pc \notin {"idle", "refs", "lookup", "artifact", "intent"} => c.permit \in Permits
  /\ c.pc = "writeIntent" => permitFile[d] = c.permit
  /\ c.pc \in PublishJournaled => permitFile[d] = c.permit /\ intent[d].permit = c.permit
  /\ c.pc \in Sending =>
        /\ c.permit \in publishLedger /\ publishPosts[c.permit] = 0
        /\ \A e \in Dirs : proc[e].pc \in Sending /\ proc[e].permit = c.permit => d = e
  /\ c.pc = "intent" /\ c.found # 0 => readback[d] = c.found

(* A command that moves on to c, with disk, ledger and requests as they were. *)
LEMMA PublishMoveKeeps ==
  ASSUME PublicationInv, NEW d \in Dirs, NEW c, Allowed(d, c),
         proc' = [proc EXCEPT ![d] = c],
         answer' = answer \/ \E a \in {"outcome-unknown", "rejected"} : answer' = [answer EXCEPT ![d] = a],
         UNCHANGED <<Publish!disk, publishLedger, publishPosts, inflight, Publish!github, publishExpired>>,
         faults' \in 0 .. MaxFaults
  PROVE  PublicationInv'
<1>1. /\ UNCHANGED <<permitFile, intent, readback, publishLedger, publishPosts, inflight, pulls, publishExpired>>
      /\ refsMoved' = refsMoved
  BY DEF Publish!disk, Publish!github
<1>2. Publish!TypeOK /\ c \in PublishCommand
  BY DEF PublicationInv, Allowed
<1>3. \A e \in Dirs : proc'[e] = IF e = d THEN c ELSE proc[e]
  BY <1>2 DEF Publish!TypeOK
<1>4. \A e \in Dirs : answer'[e] = "published" => answer[e] = "published"
  BY <1>2 DEF Publish!TypeOK
<1>5. Publish!TypeOK'
  <2>1. proc' \in [Dirs -> PublishCommand]
    BY <1>2 DEF Publish!TypeOK, PublishCommand
  <2>2. answer' \in [Dirs -> {"none", "published", "outcome-unknown", "rejected"}]
    BY <1>2 DEF Publish!TypeOK
  <2>3. refsMoved' \in BOOLEAN
    BY <1>1, <1>2, Zenon DEF Publish!TypeOK
  <2> QED
    BY <1>1, <1>2, <2>1, <2>2, <2>3 DEF Publish!TypeOK, PublishCommand
<1>6. PublishReserved'
  BY <1>1, <1>3 DEF PublicationInv, PublishReserved, Allowed
<1>7. Filed'
  BY <1>1, <1>3 DEF PublicationInv, Filed, Allowed
<1>8. Numbered'
  BY <1>1, <1>3, <1>4 DEF PublicationInv, Numbered, Allowed
<1>9. Publish!OnePostPerPermit' /\ Publish!PostIsJournaled'
  BY <1>1 DEF PublicationInv, Publish!OnePostPerPermit, Publish!PostIsJournaled
<1> QED
  BY <1>5, <1>6, <1>7, <1>8, <1>9 DEF PublicationInv

(* A command may always end. *)
LEMMA IdleAllowed == ASSUME PublicationInv, NEW d PROVE Allowed(d, Publish!Idle)
<1>1. Len(pulls) \in Nat
  BY LenProperties DEF PublicationInv, Publish!TypeOK
<1>2. Publish!Idle \in PublishCommand /\ Publish!Idle.pc = "idle" /\ Publish!Idle.found = 0
  BY PublishConstants DEF Publish!PublicationAssumption, Publish!Idle, PublishCommand, Publish!Steps
<1> QED
  BY <1>1, <1>2 DEF Allowed, PublishJournaled, Sending

(* A refused or failed command ends (runPublish's catch). *)
LEMMA FailedKeeps ==
  ASSUME PublicationInv, NEW d \in Dirs, NEW k, Publish!Failed(d, k),
         UNCHANGED <<Publish!disk, publishLedger, publishPosts, inflight, Publish!github, publishExpired>>,
         faults' \in 0 .. MaxFaults
  PROVE  PublicationInv'
<1>1. \E a \in {"outcome-unknown", "rejected"} : answer' = [answer EXCEPT ![d] = a]
  BY DEF Publish!Failed, Publish!Answer
<1>2. proc' = [proc EXCEPT ![d] = Publish!Idle]
  BY DEF Publish!Failed, Publish!Answer
<1> QED
  BY <1>1, <1>2, IdleAllowed, PublishMoveKeeps

(* The commands' own updates keep their shape. *)
LEMMA PublishCommandMoves ==
  ASSUME NEW c \in PublishCommand, NEW s \in Publish!Steps
  PROVE  LET n == [c EXCEPT !.pc = s]
         IN  n \in PublishCommand /\ n.pc = s /\ n.permit = c.permit /\ n.found = c.found
BY DEF PublishCommand

LEMMA CommandCould ==
  ASSUME NEW c \in PublishCommand, NEW s \in Publish!Steps, NEW b \in BOOLEAN
  PROVE  LET n == [c EXCEPT !.pc = s, !.could = b]
         IN  n \in PublishCommand /\ n.pc = s /\ n.permit = c.permit /\ n.found = c.found
BY DEF PublishCommand

LEMMA CommandFound ==
  ASSUME NEW c \in PublishCommand, NEW s \in Publish!Steps, NEW m \in 0 .. MaxPosts
  PROVE  LET n == [c EXCEPT !.pc = s, !.found = m]
         IN  n \in PublishCommand /\ n.pc = s /\ n.permit = c.permit /\ n.found = m
BY DEF PublishCommand

LEMMA IdleFields == Publish!Idle \in PublishCommand /\ Publish!Idle.pc = "idle" /\ Publish!Idle.found = 0
BY PublishConstants DEF Publish!PublicationAssumption, Publish!Idle, PublishCommand, Publish!Steps

(* A lookup answers with the number of a pull request that exists. *)
LEMMA FoundIsThere ==
  ASSUME Publish!TypeOK
  PROVE  Publish!LookupFound \in 0 .. Len(pulls) /\ Publish!LookupFound \in 0 .. MaxPosts
<1>1. Len(pulls) \in Nat /\ Len(pulls) <= MaxPosts /\ MaxPosts \in Nat
  BY LenProperties, PublishConstants DEF Publish!TypeOK, Publish!PublicationAssumption
<1>2. Publish!Marked \subseteq 1 .. Len(pulls)
  BY DEF Publish!Marked
<1>3. CASE Publish!Marked = {}
  BY <1>1, <1>3 DEF Publish!LookupFound
<1>4. CASE Publish!Marked # {}
  <2>1. Publish!LookupFound \in Publish!Marked
    <3>1. \E n \in Publish!Marked : TRUE
      BY <1>4
    <3> QED
      BY <1>4, <3>1, Zenon DEF Publish!LookupFound
  <2>2. Publish!LookupFound \in 1 .. Len(pulls)
    BY <1>2, <2>1
  <2> QED
    BY <1>1, <2>2
<1> QED
  BY <1>3, <1>4

(* The bound of the faults. *)
LEMMA FaultBound ==
  ASSUME PublicationInv
  PROVE  faults \in 0 .. MaxFaults /\ (faults < MaxFaults => faults + 1 \in 0 .. MaxFaults)
<1>1. MaxFaults \in Nat
  BY PublishConstants DEF Publish!PublicationAssumption
<1> QED
  BY <1>1 DEF PublicationInv, Publish!TypeOK

(* Steps that only move the command. *)
LEMMA CommandStep ==
  ASSUME PublicationInv, NEW d \in Dirs,
         \/ Publish!Status(d) \/ Publish!OpenDirectory(d) \/ Publish!Lookup(d) \/ Publish!LookupExisting(d) \/ Publish!Authorize(d) \/ Publish!Confirm(d)
         \/ Publish!ReadRefs(d, "refs", "lookup") \/ Publish!ReadRefs(d, "source", "existing")
         \/ Publish!ReadRefs(d, "recheck", "consume") \/ Publish!ReadFails(d) \/ Publish!Crash(d)
         \/ \E p \in Permits : Publish!Publish(d, p)
  PROVE  PublicationInv'
<1> USE FaultBound
<1> DEFINE c == proc[d]
<1>0. /\ Publish!TypeOK /\ c \in PublishCommand /\ c.permit \in Permits \cup {Publish!NoPermit} /\ c.found <= Len(pulls)
      /\ Len(pulls) \in Nat
  <2>1. Publish!TypeOK /\ c.found <= Len(pulls)
    BY DEF PublicationInv, Numbered
  <2> QED
    BY <2>1, CommandFields, LenProperties DEF Publish!TypeOK
<1>00. /\ c.pc \notin {"idle", "refs", "lookup", "artifact", "intent"} => c.permit \in Permits
       /\ c.pc \in PublishJournaled => permitFile[d] = c.permit /\ intent[d].permit = c.permit
  BY DEF PublicationInv, Filed
<1>1. ASSUME NEW p \in Permits, Publish!Publish(d, p) PROVE PublicationInv'
  <2>0. UNCHANGED <<Publish!disk, publishLedger, publishPosts, inflight, Publish!github, publishExpired>> /\ faults' = faults
    BY <1>1 DEF Publish!Publish, Publish!UNCHANGEDButAnswer
  <2>1. CASE p \in publishExpired
    <3>1. proc' = [proc EXCEPT ![d] = Publish!Idle] /\ answer' = [answer EXCEPT ![d] = "rejected"]
      BY <1>1, <2>1 DEF Publish!Publish, Publish!Answer
    <3> QED
      BY <2>0, <3>1, IdleAllowed, PublishMoveKeeps
  <2>2. CASE p \notin publishExpired
    <3> DEFINE n == [Publish!Idle EXCEPT !.pc = "open", !.permit = p]
    <3>1. proc' = [proc EXCEPT ![d] = n] /\ answer' = answer
      BY <1>1, <2>2 DEF Publish!Publish
    <3>2. n \in PublishCommand /\ n.pc = "open" /\ n.permit = p /\ n.found = 0
      <4>1. "open" \in Publish!Steps /\ p \in Permits \cup {Publish!NoPermit} /\ TRUE \in BOOLEAN
        BY DEF Publish!Steps
      <4> QED
        BY <4>1, IdleFields DEF PublishCommand
    <3>3. Allowed(d, n)
      BY <1>0, <3>2 DEF Allowed, PublishJournaled, Sending
    <3> HIDE DEF n
    <3> QED
      BY <2>0, <3>1, <3>3, PublishMoveKeeps
  <2> QED
    BY <2>1, <2>2
<1>2. ASSUME Publish!Status(d) PROVE PublicationInv'
  <2>0. UNCHANGED <<Publish!disk, publishLedger, publishPosts, inflight, Publish!github, publishExpired>> /\ faults' = faults
    BY <1>2 DEF Publish!Status, Publish!UNCHANGEDButAnswer
  <2>1. CASE intent[d] = Publish!NoIntent
    <3>1. proc' = [proc EXCEPT ![d] = Publish!Idle] /\ answer' = [answer EXCEPT ![d] = "rejected"]
      BY <1>2, <2>1 DEF Publish!Status, Publish!Answer
    <3> QED
      BY <2>0, <3>1, IdleAllowed, PublishMoveKeeps
  <2>2. CASE intent[d] # Publish!NoIntent
    <3>0. PICK b \in BOOLEAN : b = (intent[d].status # "published")
      OBVIOUS
    <3> DEFINE n == [Publish!Idle EXCEPT !.pc = "refs", !.permit = permitFile[d], !.status = TRUE, !.could = b]
    <3>1. proc' = [proc EXCEPT ![d] = n] /\ answer' = answer
      BY <1>2, <2>2, <3>0 DEF Publish!Status
    <3>2. n \in PublishCommand /\ n.pc = "refs" /\ n.found = 0
      <4>1. "refs" \in Publish!Steps /\ permitFile[d] \in Permits \cup {Publish!NoPermit}
        BY <1>0, CommandFields DEF Publish!Steps
      <4> QED
        BY <4>1, IdleFields DEF PublishCommand
    <3>3. Allowed(d, n)
      BY <1>0, <3>2 DEF Allowed, PublishJournaled, Sending
    <3> HIDE DEF n
    <3> QED
      BY <2>0, <3>1, <3>3, PublishMoveKeeps
  <2> QED
    BY <2>1, <2>2
<1>3. ASSUME Publish!OpenDirectory(d) PROVE PublicationInv'
  <2>0. UNCHANGED <<Publish!disk, publishLedger, publishPosts, inflight, Publish!github, publishExpired>> /\ faults' = faults
    BY <1>3 DEF Publish!OpenDirectory, Publish!UNCHANGEDButAnswer
  <2>1. ASSUME Publish!Goto(d, "source"), UNCHANGED answer PROVE PublicationInv'
    <3> DEFINE n == [c EXCEPT !.pc = "source"]
    <3>1. proc' = [proc EXCEPT ![d] = n]
      BY <1>0, <2>1 DEF Publish!Goto, Publish!TypeOK
    <3>2. n \in PublishCommand /\ n.pc = "source" /\ n.permit = c.permit /\ n.found = c.found
      BY <1>0, PublishCommandMoves DEF Publish!Steps
    <3>3. Allowed(d, n)
      BY <1>0, <1>00, <1>3, <3>2 DEF Allowed, PublishJournaled, Sending, Publish!OpenDirectory, Publish!At
    <3> HIDE DEF n
    <3> QED
      BY <2>0, <2>1, <3>1, <3>3, PublishMoveKeeps
  <2>2. ASSUME proc' = [proc EXCEPT ![d].pc = "refs", ![d].could = intent[d].status # "published"],
               UNCHANGED answer
        PROVE PublicationInv'
    <3>0. PICK b \in BOOLEAN : b = (intent[d].status # "published")
      OBVIOUS
    <3> DEFINE n == [c EXCEPT !.pc = "refs", !.could = b]
    <3>1. proc' = [proc EXCEPT ![d] = n]
      BY <1>0, <2>2, <3>0 DEF Publish!TypeOK
    <3>2. n \in PublishCommand /\ n.pc = "refs" /\ n.permit = c.permit /\ n.found = c.found
      <4>1. "refs" \in Publish!Steps
        BY DEF Publish!Steps
      <4> QED
        BY <1>0, <4>1 DEF PublishCommand
    <3>3. Allowed(d, n)
      BY <1>0, <3>2 DEF Allowed, PublishJournaled, Sending
    <3> HIDE DEF n
    <3> QED
      BY <2>0, <2>2, <3>1, <3>3, PublishMoveKeeps
  <2>3. ASSUME Publish!Failed(d, FALSE) PROVE PublicationInv'
    BY <2>0, <2>3, FailedKeeps
  <2> QED
    BY <1>3, <2>1, <2>2, <2>3, Zenon DEF Publish!OpenDirectory
<1>4. ASSUME NEW from \in {"refs", "source", "recheck"}, NEW to \in {"lookup", "existing", "consume"},
             Publish!ReadRefs(d, from, to), from = "recheck" \/ to # "consume",
             from # "refs" \/ to = "lookup"
      PROVE  PublicationInv'
  <2>0. UNCHANGED <<Publish!disk, publishLedger, publishPosts, inflight, Publish!github, publishExpired>> /\ faults' = faults /\ c.pc = from
    BY <1>4 DEF Publish!ReadRefs, Publish!UNCHANGEDButAnswer, Publish!At
  <2>1. ASSUME Publish!Failed(d, TRUE) PROVE PublicationInv'
    BY <2>0, <2>1, FailedKeeps
  <2>2. ASSUME Publish!Goto(d, to), UNCHANGED answer PROVE PublicationInv'
    <3> DEFINE n == [c EXCEPT !.pc = to]
    <3>1. proc' = [proc EXCEPT ![d] = n]
      BY <1>0, <2>2 DEF Publish!Goto, Publish!TypeOK
    <3>2. n \in PublishCommand /\ n.pc = to /\ n.permit = c.permit /\ n.found = c.found
      <4>1. to \in Publish!Steps
        BY <1>4 DEF Publish!Steps
      <4> QED
        BY <1>0, <4>1, PublishCommandMoves
    <3>3. Allowed(d, n)
      BY <1>0, <1>00, <1>4, <2>0, <3>2 DEF Allowed, PublishJournaled, Sending
    <3> HIDE DEF n
    <3> QED
      BY <2>0, <2>2, <3>1, <3>3, PublishMoveKeeps
  <2> QED
    BY <1>4, <2>1, <2>2, Zenon DEF Publish!ReadRefs
<1>5. ASSUME Publish!Lookup(d) PROVE PublicationInv'
  <2>0. UNCHANGED <<Publish!disk, publishLedger, publishPosts, inflight, Publish!github, publishExpired>> /\ faults' = faults
    BY <1>5 DEF Publish!Lookup, Publish!UNCHANGEDButAnswer
  <2>1. ASSUME Publish!Failed(d, TRUE) PROVE PublicationInv'
    BY <2>0, <2>1, FailedKeeps
  <2>2. ASSUME proc' = [proc EXCEPT ![d].pc = "artifact", ![d].found = Publish!LookupFound], UNCHANGED answer
        PROVE PublicationInv'
    <3>0. Publish!LookupFound \in 0 .. Len(pulls) /\ Publish!LookupFound \in 0 .. MaxPosts
      BY <1>0, FoundIsThere
    <3> DEFINE n == [c EXCEPT !.pc = "artifact", !.found = Publish!LookupFound]
    <3>1. proc' = [proc EXCEPT ![d] = n]
      BY <1>0, <2>2 DEF Publish!TypeOK
    <3>2. n \in PublishCommand /\ n.pc = "artifact" /\ n.permit = c.permit /\ n.found = Publish!LookupFound
      BY <1>0, <3>0, CommandFound DEF Publish!Steps
    <3>3. Allowed(d, n)
      BY <1>0, <3>0, <3>2 DEF Allowed, PublishJournaled, Sending
    <3> HIDE DEF n
    <3> QED
      BY <2>0, <2>2, <3>1, <3>3, PublishMoveKeeps
  <2> QED
    BY <1>5, <2>1, <2>2, Zenon DEF Publish!Lookup
<1>6. ASSUME Publish!LookupExisting(d) PROVE PublicationInv'
  <2>0. UNCHANGED <<Publish!disk, publishLedger, publishPosts, inflight, Publish!github, publishExpired>> /\ faults' = faults
    BY <1>6 DEF Publish!LookupExisting, Publish!UNCHANGEDButAnswer
  <2>1. ASSUME Publish!Failed(d, TRUE) PROVE PublicationInv'
    BY <2>0, <2>1, FailedKeeps
  <2>2. ASSUME proc' = [proc EXCEPT ![d].pc = "writePermit", ![d].found = Publish!LookupFound], UNCHANGED answer
        PROVE PublicationInv'
    <3>0. Publish!LookupFound \in 0 .. Len(pulls) /\ Publish!LookupFound \in 0 .. MaxPosts /\ c.pc = "existing"
      BY <1>0, <1>6, FoundIsThere DEF Publish!LookupExisting, Publish!At
    <3> DEFINE n == [c EXCEPT !.pc = "writePermit", !.found = Publish!LookupFound]
    <3>1. proc' = [proc EXCEPT ![d] = n]
      BY <1>0, <2>2 DEF Publish!TypeOK
    <3>2. n \in PublishCommand /\ n.pc = "writePermit" /\ n.permit = c.permit /\ n.found = Publish!LookupFound
      BY <1>0, <3>0, CommandFound DEF Publish!Steps
    <3>3. Allowed(d, n)
      BY <1>0, <1>00, <3>0, <3>2 DEF Allowed, PublishJournaled, Sending
    <3> HIDE DEF n
    <3> QED
      BY <2>0, <2>2, <3>1, <3>3, PublishMoveKeeps
  <2> QED
    BY <1>6, <2>1, <2>2, Zenon DEF Publish!LookupExisting
<1>7. ASSUME Publish!Authorize(d) PROVE PublicationInv'
  <2>0. /\ UNCHANGED <<Publish!disk, publishLedger, publishPosts, inflight, Publish!github, publishExpired>> /\ faults' = faults
        /\ c.pc = "authorize"
    BY <1>7 DEF Publish!Authorize, Publish!UNCHANGEDButAnswer, Publish!At
  <2>1. ASSUME Publish!Failed(d, TRUE) PROVE PublicationInv'
    BY <2>0, <2>1, FailedKeeps
  <2>2. ASSUME proc' = [proc EXCEPT ![d].pc = "post", ![d].could = TRUE], UNCHANGED answer
        PROVE PublicationInv'
    <3> DEFINE n == [c EXCEPT !.pc = "post", !.could = TRUE]
    <3>1. proc' = [proc EXCEPT ![d] = n]
      BY <1>0, <2>2 DEF Publish!TypeOK
    <3>2. n \in PublishCommand /\ n.pc = "post" /\ n.permit = c.permit /\ n.found = c.found
      BY <1>0, CommandCould DEF Publish!Steps
    <3>3. /\ c.permit \in publishLedger /\ publishPosts[c.permit] = 0
          /\ \A e \in Dirs : proc[e].pc \in Sending /\ proc[e].permit = c.permit => d = e
      BY <2>0 DEF PublicationInv, PublishReserved, Sending
    <3>4. Allowed(d, n)
      BY <1>0, <1>00, <2>0, <3>2, <3>3 DEF Allowed, PublishJournaled
    <3> HIDE DEF n
    <3> QED
      BY <2>0, <2>2, <3>1, <3>4, PublishMoveKeeps
  <2> QED
    BY <1>7, <2>1, <2>2, Zenon DEF Publish!Authorize
<1>8. ASSUME Publish!Confirm(d) PROVE PublicationInv'
  <2>0. UNCHANGED <<Publish!disk, publishLedger, publishPosts, inflight, Publish!github, publishExpired>> /\ faults' = faults /\ answer' = answer
    BY <1>8 DEF Publish!Confirm, Publish!UNCHANGEDButAnswer
  <2>1. Publish!LookupFound \in 0 .. Len(pulls) /\ Publish!LookupFound \in 0 .. MaxPosts /\ 0 \in 0 .. MaxPosts
    BY <1>0, FoundIsThere, PublishConstants DEF Publish!PublicationAssumption
  <2>2. PICK seen \in {0, IF Publish!LookupConflict THEN 0 ELSE Publish!LookupFound} :
            proc' = [proc EXCEPT ![d].pc = "artifact", ![d].found = seen]
    BY <1>8, Zenon DEF Publish!Confirm
  <2>6. seen \in 0 .. MaxPosts /\ seen <= Len(pulls)
    BY <1>0, <2>1
  <2> DEFINE n == [c EXCEPT !.pc = "artifact", !.found = seen]
  <2>3. proc' = [proc EXCEPT ![d] = n]
    BY <1>0, <2>2 DEF Publish!TypeOK
  <2>4. n \in PublishCommand /\ n.pc = "artifact" /\ n.permit = c.permit /\ n.found = seen
    BY <1>0, <2>6, CommandFound DEF Publish!Steps
  <2>5. Allowed(d, n)
    BY <1>0, <2>4, <2>6 DEF Allowed, PublishJournaled, Sending
  <2> HIDE DEF n
  <2> QED
    BY <2>0, <2>3, <2>5, PublishMoveKeeps
<1>9. ASSUME Publish!ReadFails(d) PROVE PublicationInv'
  <2>1. Publish!Failed(d, FALSE) /\ UNCHANGED <<Publish!disk, publishLedger, publishPosts, inflight, Publish!github, publishExpired>>
    BY <1>9 DEF Publish!ReadFails
  <2>2. faults' \in 0 .. MaxFaults
    BY <1>9 DEF Publish!ReadFails
  <2> QED
    BY <2>1, <2>2, FailedKeeps
<1>10. ASSUME Publish!Crash(d) PROVE PublicationInv'
  <2>1. /\ proc' = [proc EXCEPT ![d] = Publish!Idle] /\ answer' = answer
        /\ UNCHANGED <<Publish!disk, publishLedger, publishPosts, inflight, Publish!github, publishExpired>>
    BY <1>10 DEF Publish!Crash
  <2>2. faults' \in 0 .. MaxFaults
    BY <1>10 DEF Publish!Crash
  <2> QED
    BY <2>1, <2>2, IdleAllowed, PublishMoveKeeps
<1> QED
  BY <1>1, <1>2, <1>3, <1>4, <1>5, <1>6, <1>7, <1>8, <1>9, <1>10

(* The permit is copied into the directory before its intent (runPublish). *)
LEMMA WritePermitKeeps ==
  ASSUME PublicationInv, NEW d \in Dirs, Publish!WritePermit(d)
  PROVE  PublicationInv'
<1> DEFINE c == proc[d]
<1>0. /\ Publish!TypeOK /\ c \in PublishCommand /\ c.pc = "writePermit"
      /\ UNCHANGED <<intent, readback, publishLedger, publishPosts, inflight, Publish!github, publishExpired, faults>>
  <2>1. Publish!TypeOK
    BY DEF PublicationInv
  <2> QED
    BY <2>1, CommandFields DEF Publish!WritePermit, Publish!At
<1>1. ASSUME Publish!Failed(d, FALSE), UNCHANGED permitFile PROVE PublicationInv'
  <2>1. UNCHANGED Publish!disk
    BY <1>0, <1>1 DEF Publish!disk
  <2> QED
    BY <1>0, <1>1, <2>1, FaultBound, FailedKeeps
<1>2. ASSUME permitFile[d] = Publish!NoPermit, permitFile' = [permitFile EXCEPT ![d] = c.permit],
             Publish!Goto(d, "writeIntent"), UNCHANGED answer
      PROVE  PublicationInv'
  <2> DEFINE n == [c EXCEPT !.pc = "writeIntent"]
  <2>1. n \in PublishCommand /\ n.pc = "writeIntent" /\ n.permit = c.permit /\ n.found = c.found
    BY <1>0, PublishCommandMoves DEF Publish!Steps
  <2>2. \A e \in Dirs : proc'[e] = IF e = d THEN n ELSE proc[e]
    BY <1>0, <1>2 DEF Publish!Goto, Publish!TypeOK
  <2>3. proc' = [proc EXCEPT ![d] = n]
    BY <1>0, <1>2 DEF Publish!Goto, Publish!TypeOK
  <2> HIDE DEF n
  <2>4. c.permit \in Permits
    BY <1>0 DEF PublicationInv, Filed
  <2>5. intent[d].permit = Publish!NoPermit
    BY <1>2 DEF PublicationInv, Filed
  <2>6. \A e \in Dirs : permitFile'[e] = IF e = d THEN c.permit ELSE permitFile[e]
    BY <1>0, <1>2 DEF Publish!TypeOK
  <2>7. /\ UNCHANGED <<intent, readback, publishLedger, publishPosts, inflight, pulls, publishExpired, faults, answer>>
        /\ refsMoved' = refsMoved
    BY <1>0, <1>2 DEF Publish!github
  <2>8. Publish!TypeOK'
    <3>1. proc' \in [Dirs -> PublishCommand]
      BY <1>0, <2>1, <2>3 DEF Publish!TypeOK, PublishCommand
    <3>2. permitFile' \in [Dirs -> Permits \cup {Publish!NoPermit}]
      BY <1>0, <1>2, <2>4 DEF Publish!TypeOK
    <3>3. refsMoved' \in BOOLEAN
      BY <1>0, <2>7, Zenon DEF Publish!TypeOK
    <3> QED
      BY <1>0, <2>7, <3>1, <3>2, <3>3 DEF Publish!TypeOK, PublishCommand
  <2>9. PublishReserved' /\ Publish!OnePostPerPermit'
    BY <1>0, <2>1, <2>2, <2>7 DEF PublicationInv, PublishReserved, Publish!OnePostPerPermit, Sending
  <2>10. Filed'
    BY <1>0, <2>1, <2>2, <2>4, <2>5, <2>6, <2>7 DEF PublicationInv, Filed, PublishJournaled
  <2>11. Publish!PostIsJournaled'
    <3>1. Publish!NoPermit \notin Permits
      BY PublishConstants DEF Publish!PublicationAssumption
    <3> QED
      BY <1>2, <2>6, <2>7, <3>1 DEF PublicationInv, Publish!PostIsJournaled
  <2>12. Numbered'
    BY <1>0, <2>1, <2>2, <2>7 DEF PublicationInv, Numbered
  <2> QED
    BY <2>8, <2>9, <2>10, <2>11, <2>12 DEF PublicationInv
<1> QED
  BY <1>1, <1>2, Zenon DEF Publish!WritePermit

(* The intent names the permit that is in the directory. *)
LEMMA WriteIntentKeeps ==
  ASSUME PublicationInv, NEW d \in Dirs, Publish!WriteIntent(d)
  PROVE  PublicationInv'
<1> DEFINE c == proc[d]
<1>0. /\ Publish!TypeOK /\ c \in PublishCommand /\ c.pc = "writeIntent"
      /\ UNCHANGED <<permitFile, readback, answer, publishLedger, publishPosts, inflight, pulls, publishExpired, faults>>
      /\ refsMoved' = refsMoved
  <2>1. Publish!TypeOK
    BY DEF PublicationInv
  <2> QED
    BY <2>1, CommandFields DEF Publish!WriteIntent, Publish!At, Publish!github
<1>1. c.permit \in Permits /\ permitFile[d] = c.permit
  BY <1>0 DEF PublicationInv, Filed
<1>2. PICK s \in {"artifact", "recheck"} : Publish!Goto(d, s)
  <2>1. Publish!Goto(d, IF c.found # 0 THEN "artifact" ELSE "recheck")
    BY DEF Publish!WriteIntent
  <2> QED
    BY <2>1
<1> DEFINE n == [c EXCEPT !.pc = s]
           w == [permit |-> c.permit, status |-> "intent", number |-> 0]
<1>3. n \in PublishCommand /\ n.pc = s /\ n.permit = c.permit /\ n.found = c.found
  <2>1. s \in Publish!Steps
    BY <1>2 DEF Publish!Steps
  <2> QED
    BY <1>0, <2>1, PublishCommandMoves
<1>4. proc' = [proc EXCEPT ![d] = n] /\ \A e \in Dirs : proc'[e] = IF e = d THEN n ELSE proc[e]
  BY <1>0, <1>2 DEF Publish!Goto, Publish!TypeOK
<1>5. w \in PublishIntent /\ w.permit = c.permit /\ w.status = "intent" /\ w.number = 0
  <2>1. MaxPosts \in Nat
    BY PublishConstants DEF Publish!PublicationAssumption
  <2> QED
    BY <1>1, <2>1 DEF PublishIntent, Publish!IntentStatus
<1>6. intent' = [intent EXCEPT ![d] = w] /\ \A e \in Dirs : intent'[e] = IF e = d THEN w ELSE intent[e]
  BY <1>0 DEF Publish!WriteIntent, Publish!TypeOK
<1> HIDE DEF n, w
<1>7. Publish!TypeOK'
  <2>1. proc' \in [Dirs -> PublishCommand]
    BY <1>0, <1>3, <1>4 DEF Publish!TypeOK, PublishCommand
  <2>2. intent' \in [Dirs -> PublishIntent]
    BY <1>0, <1>5, <1>6 DEF Publish!TypeOK, PublishIntent
  <2>3. refsMoved' \in BOOLEAN
    BY <1>0, Zenon DEF Publish!TypeOK
  <2> QED
    BY <1>0, <2>1, <2>2, <2>3 DEF Publish!TypeOK, PublishCommand, PublishIntent
<1>8. PublishReserved' /\ Publish!OnePostPerPermit'
  BY <1>0, <1>2, <1>3, <1>4 DEF PublicationInv, PublishReserved, Publish!OnePostPerPermit, Sending
<1>9. Filed'
  BY <1>0, <1>1, <1>2, <1>3, <1>4, <1>5, <1>6 DEF PublicationInv, Filed, PublishJournaled
<1>10. Publish!PostIsJournaled'
  BY <1>0, <1>1, <1>5, <1>6 DEF PublicationInv, Publish!PostIsJournaled
<1>11. Numbered'
  BY <1>0, <1>2, <1>3, <1>4, <1>5, <1>6 DEF PublicationInv, Numbered
<1> QED
  BY <1>7, <1>8, <1>9, <1>10, <1>11 DEF PublicationInv

(* The ledger admits one reservation of a permit (consumePermit). *)
LEMMA ConsumePermitKeeps ==
  ASSUME PublicationInv, NEW d \in Dirs, Publish!ConsumePermit(d)
  PROVE  PublicationInv'
<1> DEFINE c == proc[d]
<1>0. /\ Publish!TypeOK /\ c \in PublishCommand /\ c.pc = "consume"
      /\ UNCHANGED <<Publish!disk, publishPosts, inflight, Publish!github, publishExpired, faults>>
  <2>1. Publish!TypeOK
    BY DEF PublicationInv
  <2> QED
    BY <2>1, CommandFields DEF Publish!ConsumePermit, Publish!At
<1>1. ASSUME Publish!Failed(d, TRUE), UNCHANGED publishLedger PROVE PublicationInv'
  BY <1>0, <1>1, FaultBound, FailedKeeps
<1>2. ASSUME c.permit \notin publishExpired \cup publishLedger, publishLedger' = publishLedger \cup {c.permit},
             Publish!Goto(d, "authorize"), UNCHANGED answer
      PROVE  PublicationInv'
  <2> DEFINE n == [c EXCEPT !.pc = "authorize"]
  <2>1. n \in PublishCommand /\ n.pc = "authorize" /\ n.permit = c.permit /\ n.found = c.found
    BY <1>0, PublishCommandMoves DEF Publish!Steps
  <2>2. proc' = [proc EXCEPT ![d] = n] /\ \A e \in Dirs : proc'[e] = IF e = d THEN n ELSE proc[e]
    BY <1>0, <1>2 DEF Publish!Goto, Publish!TypeOK
  <2> HIDE DEF n
  <2>3. /\ c.permit \in Permits /\ permitFile[d] = c.permit /\ intent[d].permit = c.permit
        /\ publishPosts[c.permit] \in Nat
    <3>1. MaxPosts \in Nat
      BY PublishConstants DEF Publish!PublicationAssumption
    <3>2. /\ c.permit \in Permits /\ permitFile[d] = c.permit /\ intent[d].permit = c.permit
      BY <1>0 DEF PublicationInv, Filed, PublishJournaled
    <3> QED
      BY <1>0, <3>1, <3>2 DEF Publish!TypeOK
  <2>4. /\ UNCHANGED <<permitFile, intent, readback, publishPosts, inflight, pulls, publishExpired, faults, answer>>
        /\ refsMoved' = refsMoved
    BY <1>0, <1>2 DEF Publish!github, Publish!disk
  <2>5. Publish!TypeOK'
    <3>1. proc' \in [Dirs -> PublishCommand]
      BY <1>0, <2>1, <2>2 DEF Publish!TypeOK, PublishCommand
    <3>2. publishLedger' \subseteq Permits
      BY <1>0, <1>2, <2>3 DEF Publish!TypeOK
    <3>3. refsMoved' \in BOOLEAN
      BY <1>0, <2>4, Zenon DEF Publish!TypeOK
    <3> QED
      BY <1>0, <2>4, <3>1, <3>2, <3>3 DEF Publish!TypeOK, PublishCommand
  <2>6. PublishReserved'
    <3>1. publishPosts[c.permit] = 0
      BY <1>2, <2>3 DEF PublicationInv, PublishReserved
    <3>2. \A e \in Dirs : proc[e].pc \in Sending => proc[e].permit # c.permit
      BY <1>2 DEF PublicationInv, PublishReserved
    <3>3. \A p \in Permits : publishPosts'[p] > 0 => p \in publishLedger'
      BY <1>2, <2>4 DEF PublicationInv, PublishReserved
    <3> QED
      BY <1>2, <2>1, <2>2, <2>4, <3>1, <3>2, <3>3 DEF PublicationInv, PublishReserved, Sending
  <2>7. Publish!OnePostPerPermit' /\ Publish!PostIsJournaled'
    BY <2>4 DEF PublicationInv, Publish!OnePostPerPermit, Publish!PostIsJournaled
  <2>8. Filed'
    BY <1>0, <2>1, <2>2, <2>3, <2>4 DEF PublicationInv, Filed, PublishJournaled
  <2>9. Numbered'
    BY <1>0, <2>1, <2>2, <2>4 DEF PublicationInv, Numbered
  <2> QED
    BY <2>5, <2>6, <2>7, <2>8, <2>9 DEF PublicationInv
<1> QED
  BY <1>1, <1>2, Zenon DEF Publish!ConsumePermit

(* The create request leaves with a reserved permit that has paid for nothing. *)
LEMMA CreatePullKeeps ==
  ASSUME PublicationInv, NEW d \in Dirs, Publish!CreatePull(d)
  PROVE  PublicationInv'
<1> DEFINE c == proc[d]
           n == [c EXCEPT !.pc = "confirm"]
<1>0. /\ Publish!TypeOK /\ c \in PublishCommand /\ c.pc = "post"
      /\ UNCHANGED <<Publish!disk, answer, publishLedger, Publish!github, publishExpired, faults>> /\ Publish!Goto(d, "confirm")
  <2>1. Publish!TypeOK
    BY DEF PublicationInv
  <2> QED
    BY <2>1, CommandFields DEF Publish!CreatePull, Publish!At
<1>1. n \in PublishCommand /\ n.pc = "confirm" /\ n.permit = c.permit /\ n.found = c.found
  BY <1>0, PublishCommandMoves DEF Publish!Steps
<1>2. proc' = [proc EXCEPT ![d] = n] /\ \A e \in Dirs : proc'[e] = IF e = d THEN n ELSE proc[e]
  BY <1>0 DEF Publish!Goto, Publish!TypeOK
<1> HIDE DEF n
<1>3. c.permit \in Permits /\ permitFile[d] = c.permit /\ intent[d].permit = c.permit
  BY <1>0 DEF PublicationInv, Filed, PublishJournaled
<1>4. /\ c.permit \in publishLedger /\ publishPosts[c.permit] = 0
      /\ \A e \in Dirs : proc[e].pc \in Sending /\ proc[e].permit = c.permit => d = e
  BY <1>0 DEF PublicationInv, PublishReserved, Sending
<1>5. CASE c.permit \in publishExpired
  <2>1. UNCHANGED <<publishPosts, inflight>>
    BY <1>5 DEF Publish!CreatePull
  <2>2. Allowed(d, n)
    BY <1>0, <1>1, <1>3, Zenon DEF Allowed, PublishJournaled, Sending, PublicationInv, Numbered
  <2> QED
    BY <1>0, <1>2, <2>1, <2>2, FaultBound, PublishMoveKeeps
<1>6. CASE c.permit \notin publishExpired
  <2>1. /\ publishPosts[c.permit] < MaxPosts /\ publishPosts' = [publishPosts EXCEPT ![c.permit] = @ + 1]
        /\ inflight' = inflight \cup {d}
    BY <1>6 DEF Publish!CreatePull
  <2>2. \A p \in Permits : publishPosts'[p] = IF p = c.permit THEN 1 ELSE publishPosts[p]
    BY <1>0, <1>3, <1>4, <2>1 DEF Publish!TypeOK
  <2>4. /\ UNCHANGED <<permitFile, intent, readback, publishLedger, pulls, publishExpired, faults, answer>>
        /\ refsMoved' = refsMoved
    BY <1>0 DEF Publish!github, Publish!disk
  <2>5. Publish!TypeOK'
    <3>1. proc' \in [Dirs -> PublishCommand]
      BY <1>0, <1>1, <1>2 DEF Publish!TypeOK, PublishCommand
    <3>2. publishPosts' \in [Permits -> 0 .. MaxPosts] /\ inflight' \subseteq Dirs
      <4>1. MaxPosts \in Nat
        BY PublishConstants DEF Publish!PublicationAssumption
      <4> QED
        BY <1>0, <1>3, <1>4, <2>1, <4>1 DEF Publish!TypeOK
    <3>3. refsMoved' \in BOOLEAN
      BY <1>0, <2>4, Zenon DEF Publish!TypeOK
    <3> QED
      BY <1>0, <2>4, <3>1, <3>2, <3>3 DEF Publish!TypeOK, PublishCommand
  <2>6. PublishReserved'
    <3>1. \A p \in Permits : publishPosts'[p] > 0 => p \in publishLedger'
      BY <1>3, <1>4, <2>2, <2>4 DEF PublicationInv, PublishReserved
    <3>2. \A e \in Dirs : proc'[e].pc \in Sending =>
              proc[e].pc \in Sending /\ proc'[e] = proc[e] /\ proc[e].permit # c.permit
      BY <1>0, <1>1, <1>2, <1>4 DEF Sending
    <3>3. \A e \in Dirs : proc'[e].pc \in Sending => publishPosts'[proc[e].permit] = 0
      <4>1. \A e \in Dirs : proc'[e].pc \in Sending => proc[e].permit \in Permits
        BY <3>2 DEF PublicationInv, Filed, Sending
      <4> QED
        BY <2>2, <3>2, <4>1 DEF PublicationInv, PublishReserved
    <3> QED
      BY <2>4, <3>1, <3>2, <3>3 DEF PublicationInv, PublishReserved
  <2>7. Publish!OnePostPerPermit'
    BY <2>2 DEF PublicationInv, Publish!OnePostPerPermit
  <2>8. Publish!PostIsJournaled'
    BY <1>3, <2>2, <2>4 DEF PublicationInv, Publish!PostIsJournaled
  <2>9. Filed'
    BY <1>0, <1>1, <1>2, <1>3, <2>4 DEF PublicationInv, Filed, PublishJournaled
  <2>10. Numbered'
    BY <1>0, <1>1, <1>2, <2>4 DEF PublicationInv, Numbered
  <2> QED
    BY <2>5, <2>6, <2>7, <2>8, <2>9, <2>10 DEF PublicationInv
<1> QED
  BY <1>5, <1>6

(* readback.json names a pull request that was found. *)
LEMMA WriteArtifactKeeps ==
  ASSUME PublicationInv, NEW d \in Dirs, Publish!WriteArtifact(d)
  PROVE  PublicationInv'
<1> DEFINE c == proc[d]
           f == c.found
<1>0. /\ Publish!TypeOK /\ c \in PublishCommand /\ c.pc = "artifact" /\ f \in 0 .. MaxPosts
      /\ UNCHANGED <<permitFile, intent, publishLedger, publishPosts, inflight, Publish!github, publishExpired, faults>>
  <2>1. Publish!TypeOK
    BY DEF PublicationInv
  <2> QED
    BY <2>1, CommandFields DEF Publish!WriteArtifact, Publish!At
<1>1. ASSUME Publish!Failed(d, FALSE), UNCHANGED readback PROVE PublicationInv'
  <2>1. UNCHANGED Publish!disk
    BY <1>0, <1>1 DEF Publish!disk
  <2> QED
    BY <1>0, <1>1, <2>1, FaultBound, FailedKeeps
<1>2. ASSUME f = 0 \/ readback[d] \in {0, f},
             readback' = IF f = 0 THEN readback ELSE [readback EXCEPT ![d] = f],
             Publish!Goto(d, "intent"), UNCHANGED answer
      PROVE  PublicationInv'
  <2> DEFINE n == [c EXCEPT !.pc = "intent"]
  <2>1. n \in PublishCommand /\ n.pc = "intent" /\ n.permit = c.permit /\ n.found = f
    BY <1>0, PublishCommandMoves DEF Publish!Steps
  <2>2. proc' = [proc EXCEPT ![d] = n] /\ \A e \in Dirs : proc'[e] = IF e = d THEN n ELSE proc[e]
    BY <1>0, <1>2 DEF Publish!Goto, Publish!TypeOK
  <2> HIDE DEF n
  <2>3. \A e \in Dirs : readback'[e] = IF e = d /\ f # 0 THEN f ELSE readback[e]
    BY <1>0, <1>2 DEF Publish!TypeOK
  <2>4. /\ UNCHANGED <<permitFile, intent, publishLedger, publishPosts, inflight, pulls, publishExpired, faults, answer>>
        /\ refsMoved' = refsMoved
    BY <1>0, <1>2 DEF Publish!github
  <2>5. Publish!TypeOK'
    <3>1. proc' \in [Dirs -> PublishCommand]
      BY <1>0, <2>1, <2>2 DEF Publish!TypeOK, PublishCommand
    <3>2. readback' \in [Dirs -> 0 .. MaxPosts]
      BY <1>0, <1>2 DEF Publish!TypeOK
    <3>3. refsMoved' \in BOOLEAN
      BY <1>0, <2>4, Zenon DEF Publish!TypeOK
    <3> QED
      BY <1>0, <2>4, <3>1, <3>2, <3>3 DEF Publish!TypeOK, PublishCommand
  <2>6. PublishReserved'
    BY <1>0, <2>1, <2>2, <2>4 DEF PublicationInv, PublishReserved, Sending
  <2>9. Publish!OnePostPerPermit' /\ Publish!PostIsJournaled'
    BY <2>4 DEF PublicationInv, Publish!OnePostPerPermit, Publish!PostIsJournaled
  <2>7. Filed'
    BY <1>0, <2>1, <2>2, <2>4 DEF PublicationInv, Filed, PublishJournaled
  <2>8. Numbered'
    BY <1>0, <1>2, <2>1, <2>2, <2>3, <2>4 DEF PublicationInv, Numbered
  <2> QED
    BY <2>5, <2>6, <2>7, <2>8, <2>9 DEF PublicationInv
<1> QED
  BY <1>1, <1>2, Zenon DEF Publish!WriteArtifact

(* The final intent names what readback.json names (finish). *)
LEMMA FinishIntentKeeps ==
  ASSUME PublicationInv, NEW d \in Dirs, Publish!FinishIntent(d)
  PROVE  PublicationInv'
<1> DEFINE c == proc[d]
           f == c.found
<1>0. /\ Publish!TypeOK /\ c \in PublishCommand /\ c.pc = "intent" /\ f \in 0 .. MaxPosts
      /\ intent[d] \in PublishIntent
      /\ UNCHANGED <<permitFile, readback, publishLedger, publishPosts, inflight, pulls, publishExpired, faults>>
      /\ refsMoved' = refsMoved
  <2>1. Publish!TypeOK
    BY DEF PublicationInv
  <2> QED
    BY <2>1, CommandFields DEF Publish!FinishIntent, Publish!At, Publish!github
<1>1. PICK status \in {"published", "outcome-unknown"} :
          /\ status = "published" => f # 0
          /\ intent' = [intent EXCEPT ![d].status = status, ![d].number = f]
          /\ Publish!Answer(d, status)
  BY Zenon DEF Publish!FinishIntent
<1> DEFINE w == [intent[d] EXCEPT !.status = status, !.number = f]
<1>2. w \in PublishIntent /\ w.permit = intent[d].permit /\ w.status = status /\ w.number = f
  BY <1>0, <1>1 DEF PublishIntent, Publish!IntentStatus
<1>3. intent' = [intent EXCEPT ![d] = w] /\ \A e \in Dirs : intent'[e] = IF e = d THEN w ELSE intent[e]
  BY <1>0, <1>1 DEF Publish!TypeOK
<1> HIDE DEF w
<1>4. proc' = [proc EXCEPT ![d] = Publish!Idle] /\ \A e \in Dirs : proc'[e] = IF e = d THEN Publish!Idle ELSE proc[e]
  BY <1>0, <1>1 DEF Publish!Answer, Publish!TypeOK
<1>5. /\ answer' = [answer EXCEPT ![d] = status]
      /\ \A e \in Dirs : answer'[e] = IF e = d THEN status ELSE answer[e]
  BY <1>0, <1>1 DEF Publish!Answer, Publish!TypeOK
<1>6. f <= Len(pulls) /\ Len(pulls) \in Nat /\ (f # 0 => readback[d] = f)
  BY <1>0, LenProperties DEF PublicationInv, Numbered, Publish!TypeOK
<1>7. Publish!TypeOK'
  <2>1. proc' \in [Dirs -> PublishCommand]
    BY <1>0, <1>4, IdleFields DEF Publish!TypeOK, PublishCommand
  <2>2. intent' \in [Dirs -> PublishIntent]
    BY <1>0, <1>2, <1>3 DEF Publish!TypeOK, PublishIntent
  <2>3. answer' \in [Dirs -> {"none", "published", "outcome-unknown", "rejected"}]
    BY <1>0, <1>5 DEF Publish!TypeOK
  <2>4. refsMoved' \in BOOLEAN
    BY <1>0, Zenon DEF Publish!TypeOK
  <2> QED
    BY <1>0, <2>1, <2>2, <2>3, <2>4 DEF Publish!TypeOK, PublishCommand, PublishIntent
<1>8. PublishReserved' /\ Publish!OnePostPerPermit'
  BY <1>0, <1>4, IdleFields DEF PublicationInv, PublishReserved, Publish!OnePostPerPermit, Sending
<1>9. Filed'
  BY <1>0, <1>2, <1>3, <1>4, IdleFields DEF PublicationInv, Filed, PublishJournaled
<1>10. Publish!PostIsJournaled'
  BY <1>0, <1>2, <1>3 DEF PublicationInv, Publish!PostIsJournaled
<1>11. Numbered'
  <2> SUFFICES ASSUME NEW e \in Dirs
               PROVE  /\ proc'[e].found <= Len(pulls) /\ intent'[e].number <= Len(pulls)
                      /\ intent'[e].status = "published" => intent'[e].number # 0
                      /\ answer'[e] = "published" => Len(pulls) > 0
                      /\ intent'[e].number # 0 => readback[e] = intent'[e].number
                      /\ proc'[e].pc = "intent" /\ proc'[e].found # 0 => readback[e] = proc'[e].found
    BY <1>0 DEF Numbered
  <2>1. CASE e = d
    <3>1. f # 0 => Len(pulls) > 0
      BY <1>0, <1>6
    <3>2. proc'[e].found = 0 /\ proc'[e].pc = "idle"
      BY <1>4, <2>1, IdleFields
    <3>3. intent'[e].number = f /\ intent'[e].status = status /\ answer'[e] = status
      BY <1>2, <1>3, <1>5, <2>1
    <3> QED
      BY <1>1, <1>6, <2>1, <3>1, <3>2, <3>3
  <2>2. CASE e # d
    BY <1>3, <1>4, <1>5, <2>2 DEF PublicationInv, Numbered
  <2> QED
    BY <2>1, <2>2
<1> QED
  BY <1>7, <1>8, <1>9, <1>10, <1>11 DEF PublicationInv

(* GitHub carries requests out and others change the pull request: none disappears. *)
LEMMA OutsideKeeps ==
  ASSUME PublicationInv,
         \/ \E d \in Dirs : Publish!GitHubCreates(d)
         \/ \E change \in {"close", "edit", "unmark"}, from \in Publish!PullStates, to \in Publish!PullStates :
               Publish!PullChanges(change, from, to)
         \/ Publish!RefsMove \/ \E p \in Permits : Publish!PermitExpires(p)
  PROVE  PublicationInv'
<1>1. /\ UNCHANGED <<proc, permitFile, intent, readback, answer, publishLedger, publishPosts, faults>>
      /\ refsMoved' = refsMoved \/ refsMoved' = TRUE
  BY Zenon DEF Publish!GitHubCreates, Publish!PullChanges, Publish!RefsMove, Publish!PermitExpires, Publish!disk, Publish!github
<1>2. Publish!TypeOK
  BY DEF PublicationInv
<1>3. pulls \in Seq(Publish!PullStates) /\ Len(pulls) \in Nat /\ Len(pulls) <= MaxPosts /\ MaxPosts \in Nat
  BY <1>2, LenProperties, PublishConstants DEF Publish!TypeOK, Publish!PublicationAssumption
<1>4. pulls' \in Seq(Publish!PullStates) /\ Len(pulls') <= MaxPosts /\ Len(pulls) <= Len(pulls')
  <2>1. CASE \E d \in Dirs : Publish!GitHubCreates(d)
    <3>1. CASE UNCHANGED pulls
      BY <1>3, <3>1
    <3>2. CASE Len(pulls) # MaxPosts /\ pulls' = Append(pulls, "open")
      <4>1. "open" \in Publish!PullStates
        BY DEF Publish!PullStates
      <4>2. Append(pulls, "open") \in Seq(Publish!PullStates) /\ Len(Append(pulls, "open")) = Len(pulls) + 1
        BY <1>3, <4>1, AppendProperties
      <4> QED
        BY <1>3, <3>2, <4>2
    <3> QED
      BY <2>1, <3>1, <3>2, Zenon DEF Publish!GitHubCreates
  <2>2. CASE \E change \in {"close", "edit", "unmark"}, from \in Publish!PullStates, to \in Publish!PullStates :
               Publish!PullChanges(change, from, to)
    <3>1. PICK to \in Publish!PullStates, n \in 1 .. Len(pulls) : pulls' = [pulls EXCEPT ![n] = to]
      BY <2>2, Zenon DEF Publish!PullChanges
    <3>2. [pulls EXCEPT ![n] = to] \in Seq(Publish!PullStates) /\ Len([pulls EXCEPT ![n] = to]) = Len(pulls)
      BY <1>3, <3>1, ExceptSeq
    <3> QED
      BY <1>3, <3>1, <3>2
  <2>3. CASE UNCHANGED pulls
    BY <1>3, <2>3
  <2> QED
    BY <2>1, <2>2, <2>3, Zenon DEF Publish!RefsMove, Publish!PermitExpires, Publish!github
<1>5. inflight' \subseteq Dirs /\ publishExpired' \subseteq Permits
  BY <1>2 DEF Publish!TypeOK, Publish!GitHubCreates, Publish!PullChanges, Publish!RefsMove, Publish!PermitExpires, Publish!github
<1>6. Publish!TypeOK'
  <2>1. refsMoved' \in BOOLEAN
    BY <1>1, <1>2, Zenon DEF Publish!TypeOK
  <2> QED
    BY <1>1, <1>2, <1>4, <1>5, <2>1 DEF Publish!TypeOK
<1>7. PublishReserved' /\ Publish!OnePostPerPermit'
  BY <1>1 DEF PublicationInv, PublishReserved, Publish!OnePostPerPermit
<1>8. Filed' /\ Publish!PostIsJournaled'
  BY <1>1 DEF PublicationInv, Filed, Publish!PostIsJournaled
<1>9. Numbered'
  <2>1. /\ Len(pulls') \in Nat
        /\ \A d \in Dirs : proc[d].found \in Nat /\ intent[d].number \in Nat
    BY <1>2, <1>3, <1>4, LenProperties, CommandFields
  <2> QED
    BY <1>1, <1>3, <1>4, <2>1 DEF PublicationInv, Numbered
<1> QED
  BY <1>6, <1>7, <1>8, <1>9 DEF PublicationInv

(* The invariant of all copies of a report, over every crash and failed read. *)
THEOREM PublicationInvariant == Publish!Spec => []PublicationInv
<1>1. ASSUME PublicationInv, [Publish!Next]_(Publish!vars) PROVE PublicationInv'
  <2>1. CASE UNCHANGED Publish!vars
    <3>1. UNCHANGED <<proc, permitFile, intent, readback, answer, publishLedger, publishPosts, inflight, pulls,
                      publishExpired, faults>> /\ refsMoved' = refsMoved
      BY <2>1 DEF Publish!vars, Publish!disk, Publish!github
    <3>2. refsMoved' \in BOOLEAN
      BY <1>1, <3>1, Zenon DEF PublicationInv, Publish!TypeOK
    <3> QED
      BY <1>1, <3>1, <3>2 DEF PublicationInv, Publish!TypeOK, PublishReserved, Publish!OnePostPerPermit, Filed,
                              Publish!PostIsJournaled, Numbered
  <2>2. ASSUME NEW d \in Dirs, Publish!Step(d) \/ Publish!Status(d) \/ Publish!ReadFails(d) \/ Publish!Crash(d)
        PROVE  PublicationInv'
    BY <1>1, <2>2, CommandStep, WritePermitKeeps, WriteIntentKeeps, ConsumePermitKeeps,
       CreatePullKeeps, WriteArtifactKeeps, FinishIntentKeeps, Zenon DEF Publish!Step
  <2>3. ASSUME NEW d \in Dirs, NEW p \in Permits, Publish!Publish(d, p) PROVE PublicationInv'
    BY <1>1, <2>3, CommandStep, Zenon
  <2>4. ASSUME \/ \E d \in Dirs : Publish!GitHubCreates(d)
               \/ Publish!PullChanges("close", "open", "closed") \/ Publish!PullChanges("close", "unmarked", "withdrawn")
               \/ Publish!PullChanges("edit", "open", "edited") \/ Publish!PullChanges("unmark", "open", "unmarked")
               \/ Publish!RefsMove \/ \E p \in Permits : Publish!PermitExpires(p)
        PROVE  PublicationInv'
    <3>1. {"open", "closed", "edited", "unmarked", "withdrawn"} = Publish!PullStates
      BY DEF Publish!PullStates
    <3> QED
      BY <1>1, <2>4, <3>1, OutsideKeeps, SMT
  <2> QED
    BY <1>1, <2>1, <2>2, <2>3, <2>4, Zenon DEF Publish!Next
<1> QED
  BY <1>1, PublicationInitially, PTL DEF Publish!Spec

(* Whoever is told that a report is published can open a pull request: a      *)
(* final intent and the answer of `optimize status` name one that exists     *)
(* (finish, reconcilePublication).                                           *)
THEOREM PublishedAlwaysExists == Publish!Spec => []Publish!PublishedExists
<1>1. PublicationInv => Publish!PublishedExists
  <2> SUFFICES ASSUME PublicationInv, NEW d \in Dirs
               PROVE  /\ intent[d].status = "published" => intent[d].number \in 1 .. Len(pulls)
                      /\ answer[d] = "published" => pulls # <<>>
    BY DEF Publish!PublishedExists
  <2>1. intent[d].number \in 0 .. MaxPosts /\ pulls \in Seq(Publish!PullStates) /\ Len(pulls) \in Nat
    BY CommandFields, LenProperties DEF PublicationInv, Publish!TypeOK
  <2>2. MaxPosts \in Nat
    BY PublishConstants DEF Publish!PublicationAssumption
  <2>3. intent[d].status = "published" => intent[d].number \in 1 .. Len(pulls)
    BY <2>1, <2>2 DEF PublicationInv, Numbered
  <2>4. answer[d] = "published" => pulls # <<>>
    BY <2>1, EmptySeq DEF PublicationInv, Numbered
  <2> QED
    BY <2>3, <2>4
<1> QED
  BY <1>1, PublicationInvariant, PTL

(* A create request is on the wire only with its permit and intent on disk,   *)
(* and a permit pays for one, however many copies of the report are published *)
(* at a time (runPublish, consumePermit).                                    *)
THEOREM PostsAlwaysJournaled == Publish!Spec => [](Publish!PostIsJournaled /\ Publish!OnePostPerPermit)
<1>1. PublicationInv => Publish!PostIsJournaled /\ Publish!OnePostPerPermit
  BY DEF PublicationInv
<1> QED
  BY <1>1, PublicationInvariant, PTL

NumberKept ==
  \A d \in Dirs : readback[d] # 0 =>
      /\ readback'[d] = readback[d]
      /\ intent'[d].number \in {0, readback[d]}

(* The pull request a directory names stays the one it names: a later status  *)
(* or retry never replaces it (readback.json is written once, finish).        *)
THEOREM NumberStaysStable == Publish!Spec => Publish!NumberIsStable
<1>1. ASSUME PublicationInv, [Publish!Next]_(Publish!vars) PROVE [NumberKept]_(Publish!vars)
  <2> SUFFICES ASSUME NEW d \in Dirs, readback[d] # 0
               PROVE  readback'[d] = readback[d] /\ intent'[d].number \in {0, readback[d]}
    BY Zenon DEF NumberKept
  <2>0. /\ Publish!TypeOK /\ intent[d].number \in {0, readback[d]}
        /\ proc[d].pc = "intent" => proc[d].found \in {0, readback[d]}
    BY <1>1 DEF PublicationInv, Numbered
  <2>1. CASE UNCHANGED <<readback, intent>>
    BY <2>0, <2>1
  <2>2. ASSUME NEW e \in Dirs, Publish!WriteIntent(e) PROVE readback'[d] = readback[d] /\ intent'[d].number \in {0, readback[d]}
    BY <2>0, <2>2 DEF Publish!WriteIntent, Publish!TypeOK
  <2>3. ASSUME NEW e \in Dirs, Publish!WriteArtifact(e) PROVE readback'[d] = readback[d] /\ intent'[d].number \in {0, readback[d]}
    BY <2>0, <2>3 DEF Publish!WriteArtifact, Publish!TypeOK
  <2>4. ASSUME NEW e \in Dirs, Publish!FinishIntent(e) PROVE readback'[d] = readback[d] /\ intent'[d].number \in {0, readback[d]}
    BY <2>0, <2>4 DEF Publish!FinishIntent, Publish!TypeOK, Publish!At
  <2>5. UNCHANGED <<readback, intent>> \/ \E e \in Dirs : Publish!WriteIntent(e) \/ Publish!WriteArtifact(e) \/ Publish!FinishIntent(e)
    BY <1>1, Zenon DEF Publish!Next, Publish!Step, Publish!vars, Publish!disk, Publish!OpenDirectory, Publish!ReadRefs, Publish!Lookup, Publish!LookupExisting, Publish!WritePermit,
       Publish!ConsumePermit, Publish!Authorize, Publish!CreatePull, Publish!Confirm, Publish!UNCHANGEDButAnswer, Publish!Status, Publish!ReadFails, Publish!Crash,
       Publish!GitHubCreates, Publish!Publish, Publish!PullChanges, Publish!RefsMove, Publish!PermitExpires
  <2> QED
    BY <2>1, <2>2, <2>3, <2>4, <2>5
<1>2. Publish!Spec => [][NumberKept]_(Publish!vars)
  BY <1>1, PublicationInvariant, PTL DEF Publish!Spec
<1> QED
  BY <1>2 DEF Publish!NumberIsStable, NumberKept

-----------------------------------------------------------------------------
\* What a quote and a request are made of.
QuoteTyped(quote) ==
  /\ quote.computeRate \in Nat /\ quote.addressRate \in Nat /\ quote.networkRate \in Nat
  /\ quote.diskRate \in Nat /\ quote.diskHours \in Nat /\ quote.addressHours \in Nat
  /\ quote.egress \in Nat

RequestTyped(req) ==
  req.life \in Nat /\ req.runtime \in Nat /\ req.ceiling \in Nat /\ QuoteTyped(req.quote)

\* The use of a permit is within its limits, and its limits are those of an accepted request.
ProposalInv ==
  /\ proposePhase \in {"proposed", "permitted"} => RequestTyped(input) /\ Propose!Accepted(input)
  /\ proposePhase \in {"request", "proposed"} => used = Propose!NoUse
  /\ proposePhase \in {"request", "proposed", "permitted"}
  /\ proposePhase = "permitted" =>
        /\ permit = Propose!renderOperatingPermit(input)
        /\ used.hours \in Nat /\ used.compute \in Nat /\ used.egress \in Nat
        /\ used.hours <= permit.life /\ used.compute <= permit.runtime
        /\ used.egress <= permit.egress

(* A product grows with its factor. *)
LEMMA ProductGrows ==
  ASSUME NEW a \in Nat, NEW b \in Nat, NEW k \in Nat, a <= b
  PROVE  a * k \in Nat /\ b * k \in Nat /\ a * k <= b * k
<1>1. b - a \in Nat /\ (b - a) * k \in Nat
  OBVIOUS
<1>2. (b - a) * k = b * k - a * k
  BY Z3
<1> QED
  BY <1>1, <1>2

(* More hours and more egress cost no less. *)
LEMMA PricedGrows ==
  ASSUME NEW quote, QuoteTyped(quote),
         NEW c \in Nat, NEW c2 \in Nat, c <= c2, NEW h \in Nat, NEW h2 \in Nat, h <= h2,
         NEW r \in Nat, NEW r2 \in Nat, r <= r2, NEW g \in Nat, NEW g2 \in Nat, g <= g2
  PROVE  Propose!Priced(quote, c, h, r, g) <= Propose!Priced(quote, c2, h2, r2, g2)
<1> DEFINE kc == quote.computeRate
           ka == quote.addressRate
           kn == quote.networkRate
           kd == quote.diskRate
<1>1. kc \in Nat /\ ka \in Nat /\ kn \in Nat /\ kd \in Nat
  BY DEF QuoteTyped
<1> HIDE DEF kc, ka, kn, kd
<1>2. c * kc \in Nat /\ c2 * kc \in Nat /\ c * kc <= c2 * kc
  BY <1>1, ProductGrows
<1>3. r * ka \in Nat /\ r2 * ka \in Nat /\ r * ka <= r2 * ka
  BY <1>1, ProductGrows
<1>4. g * kn \in Nat /\ g2 * kn \in Nat /\ g * kn <= g2 * kn
  BY <1>1, ProductGrows
<1>5. h * 80 \in Nat /\ h2 * 80 \in Nat /\ h * 80 <= h2 * 80
  OBVIOUS
<1>6. h * 80 * kd \in Nat /\ h2 * 80 * kd \in Nat /\ h * 80 * kd <= h2 * 80 * kd
  BY <1>1, <1>5, ProductGrows
<1>7. Propose!Dime \div 730 = 72 /\ Propose!Dime = 52560 /\ Propose!DiskSizeGiB = 80
  BY DEF Propose!Dime, Propose!DiskSizeGiB
<1> DEFINE P(x, y, z, w) == Propose!Dime * (x + y + z) + w * (Propose!Dime \div 730)
           x == c * kc
           y == r * ka
           z == g * kn
           w == h * 80 * kd
           x2 == c2 * kc
           y2 == r2 * ka
           z2 == g2 * kn
           w2 == h2 * 80 * kd
<1>8. /\ x \in Nat /\ y \in Nat /\ z \in Nat /\ w \in Nat
      /\ x2 \in Nat /\ y2 \in Nat /\ z2 \in Nat /\ w2 \in Nat
      /\ x <= x2 /\ y <= y2 /\ z <= z2 /\ w <= w2
  BY <1>2, <1>3, <1>4, <1>6
<1>9. /\ Propose!Priced(quote, c, h, r, g) = P(x, y, z, w)
      /\ Propose!Priced(quote, c2, h2, r2, g2) = P(x2, y2, z2, w2)
  BY Zenon DEF Propose!Priced, Propose!DiskSizeGiB, kc, ka, kn, kd
<1> HIDE DEF x, y, z, w, x2, y2, z2, w2
<1>10. P(x, y, z, w) <= P(x2, y2, z2, w2)
  BY <1>7, <1>8
<1> HIDE DEF P
<1> QED
  BY <1>9, <1>10, Zenon

(* A request is made of the quantities a proposal counts. *)
LEMMA RequestKeepsTypes == Propose!Request => RequestTyped(input')
<1> SUFFICES ASSUME Propose!Request
             PROVE  RequestTyped(input')
  OBVIOUS
<1>1. PICK life \in Lifetimes, runtime \in Runtimes, ceiling \in Ceilings :
         \E quote \in Propose!Quotes(runtime, life) :
            /\ input'.life = life /\ input'.runtime = runtime /\ input'.ceiling = ceiling
            /\ input'.quote = quote
  BY DEF Propose!Request
<1>2. PICK quote \in Propose!Quotes(runtime, life) :
            /\ input'.life = life /\ input'.runtime = runtime /\ input'.ceiling = ceiling
            /\ input'.quote = quote
  BY <1>1
<1>3. \A q \in Propose!QuoteGrid : \A t : QuoteTyped([q EXCEPT !.total = t])
  BY ProposeConstants DEF Propose!ProposalAssumption, Propose!QuoteGrid, QuoteTyped
<1>4. QuoteTyped(quote)
  <2>1. \E q \in Propose!QuoteGrid : \E t : quote = [q EXCEPT !.total = t]
    BY <1>2 DEF Propose!Quotes
  <2> QED
    BY <2>1, <1>3, Zenon
<1> QED
  BY <1>2, <1>4, ProposeConstants DEF Propose!ProposalAssumption, RequestTyped

(* Nothing has been requested. *)
LEMMA ProposalInitially == Propose!Init => ProposalInv
BY DEF Propose!Init, ProposalInv

(* Judging, confirming and using a permit keep the invariant. *)
LEMMA ProposalSteps == ASSUME ProposalInv, [Propose!Next]_(Propose!vars) PROVE ProposalInv'
<1>1. CASE Propose!Propose
  <2>1. RequestTyped(input') /\ Propose!Accepted(input') /\ proposePhase' = "proposed" /\ used' = used /\ used = Propose!NoUse
    BY <1>1, RequestKeepsTypes, Zenon DEF Propose!Propose, ProposalInv
  <2> QED
    BY <2>1 DEF ProposalInv
<1>2. CASE Propose!Confirm
  <2>1. RequestTyped(input) /\ Propose!Accepted(input) /\ used = Propose!NoUse
    BY <1>2 DEF Propose!Confirm, ProposalInv
  <2>2. permit' = Propose!renderOperatingPermit(input) /\ proposePhase' = "permitted" /\ input' = input /\ used' = Propose!NoUse
    BY <1>2, <2>1 DEF Propose!Confirm
  <2>3. /\ Propose!NoUse.hours = 0 /\ Propose!NoUse.compute = 0 /\ Propose!NoUse.egress = 0
        /\ 0 <= input.life /\ 0 <= input.runtime /\ 0 <= input.quote.egress
    BY <2>1 DEF Propose!NoUse, RequestTyped, QuoteTyped
  <2>4. /\ permit'.life = input.life /\ permit'.runtime = input.runtime
        /\ permit'.egress = input.quote.egress
    BY <2>2 DEF Propose!renderOperatingPermit
  <2>5. RequestTyped(input') /\ Propose!Accepted(input')
    BY <2>1, <2>2, Zenon
  <2> QED
    BY <2>2, <2>3, <2>4, <2>5 DEF ProposalInv
<1>3. CASE Propose!Use
  <2>1. PICK h \in Spells, running \in BOOLEAN, out \in 0 .. 1 :
          /\ used.hours + h <= permit.life
          /\ running => used.compute + h <= permit.runtime
          /\ used.egress + out <= permit.egress
          /\ used' = [hours |-> used.hours + h, compute |-> used.compute + (IF running THEN h ELSE 0),
                      egress |-> used.egress + out]
    BY <1>3, Zenon DEF Propose!Use
  <2>2. h \in Nat /\ proposePhase = "permitted" /\ UNCHANGED <<input, proposePhase, permit>>
    BY <1>3, ProposeConstants DEF Propose!ProposalAssumption, Propose!Use
  <2>3. /\ used.hours \in Nat /\ used.compute \in Nat /\ used.egress \in Nat
        /\ used.compute <= permit.runtime
        /\ permit = Propose!renderOperatingPermit(input) /\ RequestTyped(input) /\ Propose!Accepted(input)
    BY <2>2 DEF ProposalInv
  <2>4. /\ used'.hours \in Nat /\ used'.compute \in Nat /\ used'.egress \in Nat
        /\ used'.hours <= permit.life /\ used'.compute <= permit.runtime
        /\ used'.egress <= permit.egress
    BY <2>1, <2>2, <2>3
  <2>5. RequestTyped(input') /\ Propose!Accepted(input') /\ permit' = Propose!renderOperatingPermit(input')
    BY <2>2, <2>3, Zenon
  <2> QED
    BY <2>2, <2>4, <2>5 DEF ProposalInv
<1>4. CASE UNCHANGED Propose!vars
  <2>1. input' = input /\ proposePhase' = proposePhase /\ permit' = permit /\ used' = used
    BY <1>4 DEF Propose!vars
  <2>2. proposePhase \in {"proposed", "permitted"} => RequestTyped(input') /\ Propose!Accepted(input')
    BY <2>1, Zenon DEF ProposalInv
  <2>3. proposePhase = "permitted" => permit' = Propose!renderOperatingPermit(input')
    BY <2>1, Zenon DEF ProposalInv
  <2> QED
    BY <2>1, <2>2, <2>3 DEF ProposalInv
<1> QED
  BY <1>1, <1>2, <1>3, <1>4 DEF Propose!Next

(* Use within the limits costs no more than the total the proposal was judged by. *)
LEMMA SpendFollows == ProposalInv => Propose!SpendWithinCeiling
<1> SUFFICES ASSUME ProposalInv, proposePhase = "permitted"
             PROVE  Propose!Priced(input.quote, used.compute, used.hours, used.hours, used.egress)
                      <= permit.ceiling * Propose!Dime
  BY DEF Propose!SpendWithinCeiling
<1> DEFINE q == input.quote
<1>1. /\ RequestTyped(input) /\ QuoteTyped(q) /\ Propose!Accepted(input)
      /\ permit.life = input.life /\ permit.runtime = input.runtime
      /\ permit.ceiling = input.ceiling /\ permit.egress = q.egress
      /\ used.hours \in Nat /\ used.compute \in Nat /\ used.egress \in Nat
      /\ used.hours <= input.life /\ used.compute <= input.runtime /\ used.egress <= q.egress
      /\ input.life \in Nat /\ input.runtime \in Nat /\ input.ceiling \in Nat /\ q.egress \in Nat
      /\ q.diskHours \in Nat /\ q.addressHours \in Nat
  BY DEF ProposalInv, RequestTyped, QuoteTyped, Propose!renderOperatingPermit
<1>2. CASE Propose!buildPermitProposal(input)
  <2>1. /\ q.diskHours >= input.life /\ q.addressHours >= input.life
        /\ q.total = Propose!Priced(q, input.runtime, q.diskHours, q.addressHours, q.egress)
        /\ q.total <= input.ceiling * Propose!Dime
    BY <1>2, Zenon DEF Propose!buildPermitProposal, Propose!AcceptedPilot, Propose!CommonlyValid, Propose!calculatePilotQuoteMaximum
  <2>2. Propose!Priced(q, used.compute, used.hours, used.hours, used.egress)
          <= Propose!Priced(q, input.runtime, q.diskHours, q.addressHours, q.egress)
    <3>1. used.hours <= q.diskHours /\ used.hours <= q.addressHours
      BY <1>1, <2>1
    <3> HIDE DEF q
    <3> QED
      BY <1>1, <3>1, PricedGrows
  <2> HIDE DEF q
  <2>3. Propose!Priced(q, used.compute, used.hours, used.hours, used.egress) \in Int
    BY <1>1 DEF Propose!Priced, QuoteTyped, Propose!Dime, Propose!DiskSizeGiB
  <2>4. Propose!Priced(q, input.runtime, q.diskHours, q.addressHours, q.egress) \in Int
    BY <1>1 DEF Propose!Priced, QuoteTyped, Propose!Dime, Propose!DiskSizeGiB
  <2>5. input.ceiling * Propose!Dime \in Int
    BY <1>1 DEF Propose!Dime
  <2> QED
    BY <1>1, <2>1, <2>2, <2>3, <2>4, <2>5 DEF q
<1>3. CASE Propose!buildOperatingPermitProposal(input)
  <2>1. Propose!Priced(q, input.runtime, input.life, input.life, q.egress) <= input.ceiling * Propose!Dime
    BY <1>3, Zenon DEF Propose!buildOperatingPermitProposal, Propose!calculateOperatingQuoteMaximum
  <2>2. Propose!Priced(q, used.compute, used.hours, used.hours, used.egress)
          <= Propose!Priced(q, input.runtime, input.life, input.life, q.egress)
    BY <1>1, PricedGrows
  <2> HIDE DEF q
  <2>3. Propose!Priced(q, used.compute, used.hours, used.hours, used.egress) \in Int
    BY <1>1 DEF Propose!Priced, QuoteTyped, Propose!Dime, Propose!DiskSizeGiB
  <2>4. Propose!Priced(q, input.runtime, input.life, input.life, q.egress) \in Int
    BY <1>1 DEF Propose!Priced, QuoteTyped, Propose!Dime, Propose!DiskSizeGiB
  <2>5. input.ceiling * Propose!Dime \in Int
    BY <1>1 DEF Propose!Dime
  <2> QED
    BY <1>1, <2>1, <2>2, <2>3, <2>4, <2>5 DEF q
<1> QED
  BY <1>1, <1>2, <1>3 DEF Propose!Accepted

(* Whatever a runner uses inside an accepted permit costs no more than its    *)
(* ceiling, at any rates, hours and allowances (buildPermitProposal,          *)
(* buildOperatingPermitProposal).                                            *)
THEOREM SpendStaysWithinCeiling == Propose!Spec => []Propose!SpendWithinCeiling
BY ProposalInitially, ProposalSteps, SpendFollows, PTL DEF Propose!Spec

-----------------------------------------------------------------------------
(* `advisory evaluate`, for a batch of any size and any number of runs. A    *)
(* request that was sent, or that an orphaned worker may still send, has its *)
(* permit in the ledger, so no later run consumes it; the rows of a run are  *)
(* written in order, each with what was sent for it (EvaluationInv).         *)

(* One row of the report: the loop goes on to the next only if it is known. *)
LEMMA RecordKeeps ==
  ASSUME Evaluate!BatchAssumption, Evaluate!EvaluationInv, phase = "run",
         NEW status \in {"outcome-unknown", "completed", "unavailable"},
         NEW n \in {0, 1, Evaluate!Unread},
         Evaluate!Record([status |-> status, posts |-> n]),
         UNCHANGED <<sent, evalLedger, posts>>,
         n = 1 /\ mode = "native" => i \in sent, status = "completed" => n = 1,
         i \in sent => n # 0
  PROVE  Evaluate!EvaluationInv'
<1> DEFINE entry == [status |-> status, posts |-> n]
<1>1. /\ i \in 1..Batch /\ results'[i] = entry
      /\ \A r \in Evaluate!Requests \ {i} : results'[r] = results[r]
      /\ UNCHANGED <<mode, sent, evalLedger, orphans, posts>>
  BY DEF Evaluate!Record, Evaluate!EvaluationInv, Evaluate!EvaluationTyped, Evaluate!Requests
<1>2. \/ /\ status # "outcome-unknown" /\ i < Batch /\ i' = i + 1
         /\ worker' = "start" /\ phase' = "run"
      \/ phase' = "done" /\ worker' = "none" /\ i' = i
  BY DEF Evaluate!Record, Evaluate!Continues
<1>3. Evaluate!EvaluationTyped'
  <2>1. results' = [results EXCEPT ![i] = entry]
    BY DEF Evaluate!Record
  <2>2. i' \in Evaluate!Requests
    BY <1>1, <1>2 DEF Evaluate!BatchAssumption, Evaluate!Requests
  <2> QED
    BY <1>1, <1>2, <2>1, <2>2 DEF Evaluate!EvaluationInv, Evaluate!EvaluationTyped
<1>4. Evaluate!ConsumedFirst'
  BY <1>1, <1>2 DEF Evaluate!EvaluationInv, Evaluate!ConsumedFirst
<1>5. Evaluate!RowsInOrder'
  <2>1. CASE i' = i
    BY <1>1, <1>2, <2>1 DEF Evaluate!EvaluationInv, Evaluate!RowsInOrder, Evaluate!Requests,
                            Evaluate!BatchAssumption
  <2>2. CASE i' = i + 1 /\ status # "outcome-unknown" /\ phase' = "run"
    <3>1. i + 1 \in Evaluate!Requests /\ i + 1 > i /\ i + 1 # i
      BY <1>1, <1>2, <2>2 DEF Evaluate!Requests, Evaluate!BatchAssumption
    <3>2. entry.status = status
      OBVIOUS
    <3> QED
      <4>1. i' = i + 1 /\ phase' = "run" /\ sent' = sent
        BY <1>1, <2>2
      <4>2. results'[i + 1] = Evaluate!NotRun
        BY <1>1, <3>1 DEF Evaluate!EvaluationInv, Evaluate!RowsInOrder
      <4>3. ASSUME NEW r \in Evaluate!Requests
            PROVE  /\ r > i + 1 => results'[r] = Evaluate!NotRun /\ r \notin sent
                   /\ r < i + 1 => results'[r].status \notin {"outcome-unknown", "not-run"}
        <5> HIDE DEF entry
        <5>1. CASE r = i
          <6>1. i \in Nat /\ ~(i > i + 1)
            BY <1>1 DEF Evaluate!BatchAssumption
          <6> QED
            BY <1>1, <2>2, <3>2, <5>1, <6>1
        <5>2. CASE r # i
          <6>1. results'[r] = results[r]
            BY <1>1, <4>3, <5>2
          <6>2. /\ r > i => results[r] = Evaluate!NotRun /\ r \notin sent
                /\ r < i => results[r].status \notin {"outcome-unknown", "not-run"}
            BY <4>3 DEF Evaluate!EvaluationInv, Evaluate!RowsInOrder
          <6>3. (r > i + 1 => r > i) /\ (r < i + 1 => r < i)
            BY <1>1, <5>2 DEF Evaluate!Requests, Evaluate!BatchAssumption
          <6> QED
            BY <6>1, <6>2, <6>3, Zenon
        <5> QED
          BY <5>1, <5>2
      <4> QED
        BY <4>1, <4>2, <4>3 DEF Evaluate!RowsInOrder
  <2> QED
    BY <1>2, <2>1, <2>2
<1>6. Evaluate!RowsAreTrue'
  <2>1. entry.status = status /\ entry.posts = n
    OBVIOUS
  <2>2. i' = i + 1 => i' \notin sent
    BY <1>1, <1>2 DEF Evaluate!EvaluationInv, Evaluate!RowsInOrder, Evaluate!Requests,
                      Evaluate!BatchAssumption
  <2> QED
    BY <1>1, <1>2, <2>1, <2>2 DEF Evaluate!EvaluationInv, Evaluate!RowsAreTrue
<1> QED
  BY <1>3, <1>4, <1>5, <1>6 DEF Evaluate!EvaluationInv

(* A new run starts with an empty report, whatever the last one left. *)
LEMMA BeginKeeps ==
  ASSUME Evaluate!BatchAssumption, Evaluate!EvaluationInv, NEW a \in Auths,
         NEW m \in {"native", "replay"}, Evaluate!Begin(a, m)
  PROVE  Evaluate!EvaluationInv'
<1>1. /\ phase' = "validate" /\ mode' = m /\ i' = 1 /\ worker' = "none" /\ sent' = {}
      /\ results' = [r \in Evaluate!Requests |-> Evaluate!NotRun]
      /\ UNCHANGED <<evalLedger, orphans, posts>>
  BY DEF Evaluate!Begin
<1>2. Evaluate!EvaluationTyped'
  BY <1>1 DEF Evaluate!EvaluationInv, Evaluate!EvaluationTyped, Evaluate!NotRun,
              Evaluate!Requests, Evaluate!BatchAssumption
<1>3. Evaluate!ConsumedFirst' /\ Evaluate!RowsAreTrue'
  BY <1>1 DEF Evaluate!EvaluationInv, Evaluate!ConsumedFirst, Evaluate!RowsAreTrue,
              Evaluate!NotRun, Evaluate!Unread
<1>4. Evaluate!RowsInOrder'
  BY <1>1 DEF Evaluate!RowsInOrder, Evaluate!NotRun, Evaluate!Requests, Evaluate!BatchAssumption
<1> QED
  BY <1>2, <1>3, <1>4 DEF Evaluate!EvaluationInv

(* The steps before the requests, and a crash after which a worker that has *)
(* consumed its permit lives on as an orphan.                               *)
LEMMA RunMoves ==
  ASSUME Evaluate!BatchAssumption, Evaluate!EvaluationInv,
  Evaluate!Validate \/ Evaluate!Reserve \/ Evaluate!Crash
  PROVE  Evaluate!EvaluationInv'
<1>1. CASE Evaluate!Validate
  BY <1>1 DEF Evaluate!Validate, Evaluate!EvaluationInv, Evaluate!EvaluationTyped,
              Evaluate!ConsumedFirst, Evaluate!RowsInOrder, Evaluate!RowsAreTrue
<1>2. CASE Evaluate!Reserve
  BY <1>2 DEF Evaluate!Reserve, Evaluate!EvaluationInv, Evaluate!EvaluationTyped,
              Evaluate!ConsumedFirst, Evaluate!RowsInOrder, Evaluate!RowsAreTrue
<1>3. CASE Evaluate!Crash
  <2>1. Evaluate!EvaluationTyped'
    BY <1>3 DEF Evaluate!Crash, Evaluate!EvaluationInv, Evaluate!EvaluationTyped
  <2>2. Evaluate!ConsumedFirst'
    BY <1>3 DEF Evaluate!Crash, Evaluate!EvaluationInv, Evaluate!EvaluationTyped,
                Evaluate!ConsumedFirst
  <2>3. Evaluate!RowsInOrder' /\ Evaluate!RowsAreTrue'
    BY <1>3 DEF Evaluate!Crash, Evaluate!EvaluationInv, Evaluate!EvaluationTyped,
                Evaluate!RowsInOrder, Evaluate!RowsAreTrue
  <2> QED
    BY <2>1, <2>2, <2>3 DEF Evaluate!EvaluationInv
<1> QED
  BY <1>1, <1>2, <1>3

(* The worker consumes a permit nobody consumed, or its row says that nothing *)
(* was sent or that the outcome is unknown.                                   *)
LEMMA RequestConsumes ==
  ASSUME Evaluate!BatchAssumption, Evaluate!EvaluationInv, Evaluate!Consume
  PROVE  Evaluate!EvaluationInv'
<1>1. CASE Evaluate!Record(Evaluate!Refused) /\ UNCHANGED <<sent, evalLedger, posts>>
  <2>1. phase = "run" /\ worker = "start" /\ i \notin sent
    BY DEF Evaluate!Consume, Evaluate!EvaluationInv, Evaluate!RowsAreTrue
  <2>2. CASE Evaluate!Refused = Evaluate!Unknown
    BY <1>1, <2>1, <2>2, RecordKeeps DEF Evaluate!Unknown, Evaluate!Unread
  <2>3. CASE Evaluate!Refused = Evaluate!Unavailable
    BY <1>1, <2>1, <2>3, RecordKeeps DEF Evaluate!Unavailable
  <2> QED
    BY <2>2, <2>3 DEF Evaluate!Refused
<1>2. CASE /\ worker' = "consumed" /\ (mode = "native" => i \notin evalLedger)
           /\ evalLedger' = IF mode = "native" THEN evalLedger \cup {i} ELSE evalLedger
           /\ UNCHANGED <<phase, mode, i, results, sent, orphans, posts>>
  <2>1. Evaluate!EvaluationTyped'
    BY <1>2 DEF Evaluate!EvaluationInv, Evaluate!EvaluationTyped
  <2>2. Evaluate!ConsumedFirst'
    BY <1>2 DEF Evaluate!Consume, Evaluate!EvaluationInv, Evaluate!EvaluationTyped,
                Evaluate!ConsumedFirst
  <2>3. Evaluate!RowsInOrder' /\ Evaluate!RowsAreTrue'
    BY <1>2 DEF Evaluate!Consume, Evaluate!EvaluationInv, Evaluate!RowsInOrder,
                Evaluate!RowsAreTrue
  <2> QED
    BY <2>1, <2>2, <2>3 DEF Evaluate!EvaluationInv
<1> QED
  BY <1>1, <1>2 DEF Evaluate!Consume

(* A request leaves: the evaluator's worker's, or an orphan's. *)
LEMMA SendKeeps ==
  ASSUME Evaluate!BatchAssumption, Evaluate!EvaluationInv,
  Evaluate!Send \/ \E r \in Evaluate!Requests : Evaluate!OrphanSends(r)
  PROVE  Evaluate!EvaluationInv'
<1>1. CASE Evaluate!Send
  <2>1. Evaluate!EvaluationTyped'
    BY <1>1 DEF Evaluate!Send, Evaluate!EvaluationInv, Evaluate!EvaluationTyped
  <2>2. Evaluate!ConsumedFirst'
    BY <1>1 DEF Evaluate!Send, Evaluate!EvaluationInv, Evaluate!EvaluationTyped,
                Evaluate!ConsumedFirst
  <2>3. Evaluate!RowsInOrder'
    BY <1>1 DEF Evaluate!Send, Evaluate!EvaluationInv, Evaluate!EvaluationTyped,
                Evaluate!RowsInOrder, Evaluate!Requests, Evaluate!BatchAssumption
  <2>4. Evaluate!RowsAreTrue'
    BY <1>1 DEF Evaluate!Send, Evaluate!EvaluationInv, Evaluate!EvaluationTyped,
                Evaluate!RowsInOrder, Evaluate!RowsAreTrue, Evaluate!NotRun, Evaluate!Unread
  <2> QED
    BY <2>1, <2>2, <2>3, <2>4 DEF Evaluate!EvaluationInv
<1>2. ASSUME NEW r \in Evaluate!Requests, Evaluate!OrphanSends(r)
      PROVE  Evaluate!EvaluationInv'
  <2>1. /\ r \in orphans /\ orphans' = orphans \ {r} /\ posts' = [posts EXCEPT ![r] = @ + 1]
        /\ UNCHANGED <<phase, mode, i, worker, results, sent, evalLedger>>
    BY <1>2 DEF Evaluate!OrphanSends
  <2>2. Evaluate!EvaluationTyped'
    BY <2>1 DEF Evaluate!EvaluationInv, Evaluate!EvaluationTyped
  <2>3. Evaluate!ConsumedFirst'
    BY <2>1 DEF Evaluate!EvaluationInv, Evaluate!EvaluationTyped, Evaluate!ConsumedFirst
  <2>4. Evaluate!RowsInOrder' /\ Evaluate!RowsAreTrue'
    BY <2>1 DEF Evaluate!EvaluationInv, Evaluate!RowsInOrder, Evaluate!RowsAreTrue
  <2> QED
    BY <2>2, <2>3, <2>4 DEF Evaluate!EvaluationInv
<1> QED
  BY <1>1, <1>2

(* A request that ends without its answer, and one that is answered. *)
LEMMA RowEnds ==
  ASSUME Evaluate!BatchAssumption, Evaluate!EvaluationInv,
  Evaluate!Preflight \/ Evaluate!Reply \/ Evaluate!WorkerFails
  PROVE  Evaluate!EvaluationInv'
<1>1. CASE Evaluate!Preflight
  BY <1>1, RecordKeeps DEF Evaluate!Preflight, Evaluate!Unavailable, Evaluate!EvaluationInv,
                           Evaluate!RowsAreTrue
<1>2. CASE Evaluate!Reply
  <2>1. PICK s \in {"completed", "unavailable", "outcome-unknown"} :
          Evaluate!Record([status |-> s, posts |-> 1])
    BY <1>2 DEF Evaluate!Reply
  <2>2. mode = "native" => i \in sent
    BY <1>2 DEF Evaluate!Reply, Evaluate!EvaluationInv, Evaluate!RowsAreTrue
  <2> QED
    BY <1>2, <2>1, <2>2, RecordKeeps DEF Evaluate!Reply
<1>3. CASE Evaluate!WorkerFails
  BY <1>3, RecordKeeps DEF Evaluate!WorkerFails, Evaluate!Unknown, Evaluate!Unread
<1> QED
  BY <1>1, <1>2, <1>3

LEMMA EvaluationInvariant ==
  Evaluate!BatchAssumption /\ Evaluate!Spec => []Evaluate!EvaluationInv
<1> SUFFICES ASSUME Evaluate!BatchAssumption
             PROVE  Evaluate!Spec => []Evaluate!EvaluationInv
  OBVIOUS
<1>1. Evaluate!Init => Evaluate!EvaluationInv
  BY DEF Evaluate!Init, Evaluate!EvaluationInv, Evaluate!EvaluationTyped, Evaluate!ConsumedFirst,
         Evaluate!RowsInOrder, Evaluate!RowsAreTrue, Evaluate!NotRun,
         Evaluate!Unread, Evaluate!Requests, Evaluate!BatchAssumption
<1>2. Evaluate!EvaluationInv /\ [Evaluate!Next]_(Evaluate!vars) => Evaluate!EvaluationInv'
  <2> SUFFICES ASSUME Evaluate!EvaluationInv, [Evaluate!Next]_(Evaluate!vars)
               PROVE  Evaluate!EvaluationInv'
    OBVIOUS
  <2>1. CASE \/ \E r \in Evaluate!Requests : Evaluate!Expire(r) \/ Evaluate!LiveModel(r)
             \/ UNCHANGED Evaluate!vars
    BY <2>1 DEF Evaluate!Expire, Evaluate!LiveModel, Evaluate!vars, Evaluate!EvaluationInv,
                Evaluate!EvaluationTyped, Evaluate!ConsumedFirst,
                Evaluate!RowsInOrder, Evaluate!RowsAreTrue
  <2> QED
    BY <2>1, BeginKeeps, RunMoves, RequestConsumes, SendKeeps, RowEnds DEF Evaluate!Next
<1> QED
  BY <1>1, <1>2, PTL DEF Evaluate!Spec

(* Crashed evaluators, their orphaned workers, replays and further           *)
(* authorisations of a batch send no request twice: what may still be sent   *)
(* has its permit in the ledger (evaluation-runtime.ts, consumePermit).      *)
THEOREM RequestsSentOnce == Evaluate!BatchAssumption /\ Evaluate!Spec => []Evaluate!SentOnce
<1>1. Evaluate!EvaluationInv => Evaluate!SentOnce
  BY DEF Evaluate!EvaluationInv, Evaluate!ConsumedFirst, Evaluate!SentOnce
<1> QED
  BY <1>1, EvaluationInvariant, PTL

(* In a batch of any size nothing is sent after the first unknown outcome of *)
(* a run (runSequentialRequests).                                            *)
THEOREM UnknownAlwaysStops ==
  Evaluate!BatchAssumption /\ Evaluate!Spec => []Evaluate!StopsAtUnknown
<1> SUFFICES ASSUME Evaluate!BatchAssumption
             PROVE  Evaluate!Spec => []Evaluate!StopsAtUnknown
  OBVIOUS
<1>1. Evaluate!EvaluationInv => Evaluate!StopsAtUnknown
  <2> SUFFICES ASSUME Evaluate!EvaluationInv, NEW q \in Evaluate!Requests,
  NEW r \in Evaluate!Requests,
                      q < r, results[q].status = "outcome-unknown"
               PROVE  results[r].status = "not-run" /\ r \notin sent
    BY DEF Evaluate!StopsAtUnknown
  <2>1. q >= i
    BY DEF Evaluate!EvaluationInv, Evaluate!EvaluationTyped, Evaluate!RowsInOrder,
           Evaluate!Requests, Evaluate!BatchAssumption
  <2>2. r > i
    BY <2>1 DEF Evaluate!EvaluationInv, Evaluate!EvaluationTyped, Evaluate!Requests,
                Evaluate!BatchAssumption
  <2> QED
    BY <2>2 DEF Evaluate!EvaluationInv, Evaluate!RowsInOrder, Evaluate!NotRun
<1> QED
  BY <1>1, EvaluationInvariant, PTL

(* A feature qualifies only on requests that its own run sent                *)
(* (qualifyFeatures): never on a replay or on rows of an earlier run.        *)
THEOREM QualifiedIsAlwaysMeasured ==
  Evaluate!BatchAssumption /\ Evaluate!Spec => []Evaluate!QualifiedIsMeasured
<1>1. Evaluate!EvaluationInv => Evaluate!QualifiedIsMeasured
  BY DEF Evaluate!EvaluationInv, Evaluate!EvaluationTyped, Evaluate!RowsAreTrue,
         Evaluate!QualifiedIsMeasured, Evaluate!Qualified
<1> QED
  BY <1>1, EvaluationInvariant, PTL

(* The counts of the report: the confirmed requests were sent, and the rows  *)
(* without a count cover what else was.                                      *)
LEMMA CountsCover ==
  ASSUME Evaluate!BatchAssumption, Evaluate!EvaluationInv, phase = "done", mode = "native"
  PROVE  /\ Evaluate!LowerBound \in Nat /\ Evaluate!Cardinality(sent) \in Nat
         /\ Evaluate!LowerBound <= Evaluate!Cardinality(sent)
         /\ Evaluate!Cardinality(sent) <=
              Evaluate!LowerBound + Evaluate!Cardinality(Evaluate!Attempted \ Evaluate!Known)
         /\ Evaluate!Attempted = Evaluate!Known => Evaluate!LowerBound = Evaluate!Cardinality(sent)
<1> DEFINE Confirmed == {r \in Evaluate!Known : results[r].posts = 1}
           Uncounted == Evaluate!Attempted \ Evaluate!Known
<1>1. Evaluate!IsFiniteSet(Evaluate!Requests)
  BY Evaluate!FS_Interval DEF Evaluate!Requests, Evaluate!BatchAssumption
<1>2. Confirmed \subseteq sent /\ sent \subseteq Evaluate!Requests
  BY DEF Evaluate!Known, Evaluate!Attempted, Evaluate!EvaluationInv, Evaluate!EvaluationTyped,
         Evaluate!RowsAreTrue
<1>3. \A r \in sent : r \in Evaluate!Attempted /\ (r \in Confirmed \/ r \in Uncounted)
  <2> SUFFICES ASSUME NEW r \in sent
               PROVE  r \in Evaluate!Attempted /\ (r \in Confirmed \/ r \in Uncounted)
    OBVIOUS
  <2>1. r \in Evaluate!Requests /\ results[r].posts \in {0, 1,
  Evaluate!Unread} /\ results[r].posts # 0
    BY DEF Evaluate!EvaluationInv, Evaluate!EvaluationTyped, Evaluate!RowsAreTrue
  <2>2. r = i \/ r < i
    BY <2>1 DEF Evaluate!EvaluationInv, Evaluate!EvaluationTyped, Evaluate!RowsInOrder,
                Evaluate!Requests, Evaluate!BatchAssumption
  <2>3. results[r].status # "not-run"
    BY <2>1, <2>2 DEF Evaluate!EvaluationInv, Evaluate!RowsInOrder
  <2> QED
    BY <2>1, <2>3 DEF Evaluate!Attempted, Evaluate!Known
<1>4. /\ Evaluate!IsFiniteSet(sent) /\ Evaluate!IsFiniteSet(Confirmed)
      /\ Evaluate!IsFiniteSet(Uncounted)
  BY <1>1, <1>2, Evaluate!FS_Subset DEF Evaluate!Attempted, Evaluate!Known
<1>5. Evaluate!Cardinality(Confirmed) <= Evaluate!Cardinality(sent)
  BY <1>2, <1>4, Evaluate!FS_Subset
<1>6. /\ Evaluate!IsFiniteSet(Confirmed \cup Uncounted)
      /\ Evaluate!Cardinality(Confirmed \cup Uncounted)
           = Evaluate!Cardinality(Confirmed) + Evaluate!Cardinality(Uncounted)
               - Evaluate!Cardinality(Confirmed \cap Uncounted)
  BY <1>4, Evaluate!FS_Union
<1>7. Confirmed \cap Uncounted = {}
  OBVIOUS
<1>8. Evaluate!Cardinality(sent) <= Evaluate!Cardinality(Confirmed \cup Uncounted)
  BY <1>3, <1>6, Evaluate!FS_Subset
<1>9. /\ Evaluate!Cardinality(sent) \in Nat /\ Evaluate!Cardinality(Confirmed) \in Nat
      /\ Evaluate!Cardinality(Uncounted) \in Nat
  BY <1>4, Evaluate!FS_CardinalityType
<1>10. Evaluate!Cardinality(sent) <= Evaluate!Cardinality(Confirmed) + Evaluate!Cardinality(Uncounted)
  BY <1>6, <1>7, <1>8, <1>9, Evaluate!FS_EmptySet
<1>11. Evaluate!Attempted = Evaluate!Known => sent = Confirmed
  BY <1>2, <1>3
<1> QED
  BY <1>5, <1>9, <1>10, <1>11 DEF Evaluate!LowerBound

(* The report never over- or understates what the provider got, and gives a  *)
(* number only when it is exact (accountRequests).                           *)
THEOREM AccountAlwaysHonest ==
  Evaluate!BatchAssumption /\ Evaluate!Spec => []Evaluate!AccountIsHonest
<1> SUFFICES ASSUME Evaluate!BatchAssumption
             PROVE  Evaluate!Spec => []Evaluate!AccountIsHonest
  OBVIOUS
<1>1. Evaluate!EvaluationInv => Evaluate!AccountIsHonest
  <2> SUFFICES ASSUME Evaluate!EvaluationInv, phase = "done"
               PROVE  Evaluate!AccountIsHonest
    BY DEF Evaluate!AccountIsHonest
  <2>1. CASE mode = "native"
    BY <2>1, CountsCover DEF Evaluate!AccountIsHonest, Evaluate!NativeCalls
  <2>2. CASE mode = "replay"
    BY <2>2, Evaluate!FS_EmptySet DEF Evaluate!EvaluationInv, Evaluate!RowsAreTrue,
                                      Evaluate!AccountIsHonest, Evaluate!NativeCalls
  <2> QED
    BY <2>1, <2>2 DEF Evaluate!EvaluationInv, Evaluate!EvaluationTyped
<1> QED
  BY <1>1, EvaluationInvariant, PTL

-----------------------------------------------------------------------------
(* The composition: a behaviour is about one service, and each theorem above *)
(* holds of the instance that runs.                                          *)

(* Every step of the composition is a step of each service or leaves it alone. *)
LEMMA ServicesRun ==
  MCSpec => /\ Enrich!Spec /\ Evaluate!Spec /\ Publish!Spec /\ Propose!Spec /\ Spec
<1>1. MCInit => Enrich!Init /\ Evaluate!Init /\ Publish!Init /\ Propose!Init /\ Init
  BY Zenon DEF MCInit
<1>2. [MCNext]_allVars => [Enrich!Next]_(Enrich!vars)
  BY DEF MCNext, allVars, enrichVars, Enrich!vars, MainAlone, EnrichAlone, EvaluateAlone,
         PublishAlone, PairAlone, VerifierAlone, ProposeAlone
<1>3. [MCNext]_allVars => [Evaluate!Next]_(Evaluate!vars)
  BY DEF MCNext, allVars, evalVars, Evaluate!vars, MainAlone, EnrichAlone, EvaluateAlone,
         PublishAlone, PairAlone, VerifierAlone, ProposeAlone
<1>4. [MCNext]_allVars => [Publish!Next]_(Publish!vars)
  BY DEF MCNext, allVars, publishVars, Publish!vars, Publish!disk, Publish!github, MainAlone,
         EnrichAlone, EvaluateAlone, PublishAlone, PairAlone, VerifierAlone, ProposeAlone
<1>5. [MCNext]_allVars => [Propose!Next]_(Propose!vars)
  BY DEF MCNext, allVars, proposeVars, Propose!vars, MainAlone, EnrichAlone, EvaluateAlone,
         PublishAlone, PairAlone, VerifierAlone, ProposeAlone
<1>6. [MCNext]_allVars => [Next]_vars
  BY DEF MCNext, allVars, MainAlone, EnrichAlone, EvaluateAlone, PublishAlone, PairAlone,
         VerifierAlone, ProposeAlone
<1> QED
  BY <1>1, <1>2, <1>3, <1>4, <1>5, <1>6,
     PTL DEF MCSpec, Spec, Enrich!Spec, Evaluate!Spec, Publish!Spec, Propose!Spec

(* A pair or a verifier runs in a behaviour that is about it. *)
LEMMA SandboxRuns ==
  MCSpec => /\ part = "pair" => Pair!Spec /\ [](part = "pair")
            /\ part = "verifier" => Verifier!Spec /\ [](part = "verifier")
            /\ ~(part = "pair") => []~(part = "pair")
            /\ ~(part = "verifier") => []~(part = "verifier")
<1>1. /\ MCInit /\ part = "pair" => Pair!Init
      /\ MCInit /\ part = "verifier" => Verifier!Init
  BY Zenon DEF MCInit
<1>2. [MCNext]_allVars => part' = part
  BY DEF MCNext, allVars, MainAlone, EnrichAlone, EvaluateAlone, PublishAlone, PairAlone,
         VerifierAlone, ProposeAlone
<1>3. part = "pair" /\ [MCNext]_allVars => [Pair!Next]_(Pair!vars)
  <2>1. part = "pair" /\ MCNext => Pair!Next
    BY DEF MCNext, MainAlone, EnrichAlone, EvaluateAlone, PublishAlone, PairAlone, VerifierAlone,
           ProposeAlone
  <2>2. UNCHANGED allVars => UNCHANGED Pair!vars
    BY DEF allVars, sandboxVars, Pair!vars, Pair!journal
  <2> QED
    BY <2>1, <2>2
<1>4. part = "verifier" /\ [MCNext]_allVars => [Verifier!Next]_(Verifier!vars)
  <2>1. part = "verifier" /\ MCNext => Verifier!Next
    BY DEF MCNext, MainAlone, EnrichAlone, EvaluateAlone, PublishAlone, PairAlone, VerifierAlone,
           ProposeAlone
  <2>2. UNCHANGED allVars => UNCHANGED Verifier!vars
    BY DEF allVars, sandboxVars, Verifier!vars, Verifier!journal
  <2> QED
    BY <2>1, <2>2
<1>5. /\ part = "pair" /\ part' = part => (part = "pair")'
      /\ part = "verifier" /\ part' = part => (part = "verifier")'
      /\ ~(part = "pair") /\ part' = part => (~(part = "pair"))'
      /\ ~(part = "verifier") /\ part' = part => (~(part = "verifier"))'
  OBVIOUS
<1> QED
  BY <1>1, <1>2, <1>3, <1>4, <1>5, PTL DEF MCSpec, Pair!Spec, Verifier!Spec

(* Nothing is done outside that was not authorised and recorded first,       *)
(* whichever service runs, for any batch, directories, permits and bounds    *)
(* (evaluate.mjs, runPublish, consumePermit, beforePost, pilot.ts).          *)
THEOREM AuthorityIsNeverExceeded == MCSpec => []WithinAuthority
<1>1. MCSpec => [](part = "evaluation" => Evaluate!SentOnce)
  BY ServicesRun, EvaluateConstants, RequestsSentOnce, PTL
<1>2. MCSpec => [](Publish!PostIsJournaled /\ Publish!OnePostPerPermit)
  BY ServicesRun, PostsAlwaysJournaled, PTL
<1>3. MCSpec => [](part = "pair" => Pair!AuthorityIsKept /\ Pair!InstanceIsJournaled)
  BY SandboxRuns, PairConstants, Pair!AuthorityAlwaysKept, Pair!InstanceAlwaysJournaled, PTL
<1>4. MCSpec => [](part = "verifier" => Verifier!AuthorityIsKept /\ Verifier!InstanceIsJournaled)
  BY SandboxRuns, VerifierConstants, Verifier!AuthorityAlwaysKept,
     Verifier!InstanceAlwaysJournaled, PTL
<1>5. MCSpec => []Propose!SpendWithinCeiling
  BY ServicesRun, SpendStaysWithinCeiling, PTL
<1> QED
  BY <1>1, <1>2, <1>3, <1>4, <1>5, PTL DEF WithinAuthority

(* No service ever answers more than it can know (service.ts, enrich.ts,     *)
(* evaluate.mjs, publish.ts finish, artifactFor).                            *)
THEOREM AnswersStayTrue == MCSpec => []AnswersAreTrue
<1>1. MCSpec => [](UnknownIsReported /\ DecisionReadsBack)
  BY ServicesRun, OutcomeStaysReported, PTL
<1>2. MCSpec => []Enrich!InspectionIsTrue
  BY ServicesRun, InspectionAlwaysTrue, PTL
<1>3. MCSpec => [](Evaluate!StopsAtUnknown /\ Evaluate!AccountIsHonest /\ Evaluate!QualifiedIsMeasured)
  BY ServicesRun, EvaluateConstants, UnknownAlwaysStops, AccountAlwaysHonest,
     QualifiedIsAlwaysMeasured, PTL
<1>4. MCSpec => [](Publish!PublishedExists /\ Publish!TypeOK)
  <2>1. PublicationInv => Publish!TypeOK
    BY DEF PublicationInv
  <2> QED
    BY <2>1, ServicesRun, PublishedAlwaysExists, PublicationInvariant, PTL
<1>5. MCSpec => [](part = "pair" => Pair!DefiniteMeansOver /\ Pair!VerifiedIsEarned /\ Pair!TypeOK)
  <2>1. Pair!SandboxInv => Pair!TypeOK
    BY DEF Pair!SandboxInv
  <2> QED
    BY <2>1, SandboxRuns, PairConstants, Pair!VerdictsAreTrue, Pair!SandboxInvariant, PTL
<1>6. MCSpec => [](part = "verifier" => /\ Verifier!DefiniteMeansOver /\ Verifier!VerifiedIsEarned
                                        /\ Verifier!TypeOK)
  <2>1. Verifier!SandboxInv => Verifier!TypeOK
    BY DEF Verifier!SandboxInv
  <2> QED
    BY <2>1, SandboxRuns, VerifierConstants, Verifier!VerdictsAreTrue, Verifier!SandboxInvariant, PTL
<1> QED
  BY <1>1, <1>2, <1>3, <1>4, <1>5, <1>6, PTL DEF AnswersAreTrue, MCTypeOK

(* A permit pays once and a published number stays (reservePermit of         *)
(* permit.ts, readback of publish.ts).                                       *)
THEOREM EverySpendingIsFinal == MCSpec => SpentOnce
<1>1. MCSpec => Enrich!OnePostPerPermit /\ Publish!NumberIsStable
  BY ServicesRun, PermitIdPaysOnce, NumberStaysStable, PTL
<1> QED
  BY <1>1 DEF SpentOnce
=============================================================================
