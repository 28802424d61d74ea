---------------------------- MODULE JournalFile ----------------------------
(***************************************************************************)
(* How the controller and the optimization commands replace a file         *)
(* (writeJournalAtomic, OperationStore.writeText) and how the telemetry    *)
(* collector and the fleet registry do it (writeTelemetrySnapshot,         *)
(* writeFleetRegistry): a new temporary file is written and renamed over   *)
(* the old one.  Every step may throw, the process may be killed between   *)
(* two steps and the machine may lose power.  The file system is external: *)
(* data that was not synced may be lost, and until its directory is synced *)
(* a name may go back to a file it had before.                             *)
(*                                                                         *)
(* A write is known by its number.  One process writes at a time (the      *)
(* controller lock, the launch agent's lock).  The synced writers are the  *)
(* first two; the others sync neither the file nor the directory.          *)
(***************************************************************************)
EXTENDS Naturals

CONSTANTS MaxWrites,     \* bound: the writes that are started
          Synced,        \* TRUE: the journal's writer, FALSE: the registry's
          PowerFails     \* whether the machine may lose power

ASSUME WritersAreKnown == /\ MaxWrites \in Nat
                          /\ Synced \in BOOLEAN
                          /\ PowerFails \in BOOLEAN

VARIABLES live,       \* the file the name leads to
          stored,     \* the files it may lead to after a power loss
          temp,       \* the temporary file of the last write
          pc,         \* where the writer is
          writes,     \* the writes that were started
          returned    \* the last write that returned without an error

vars == <<live, stored, temp, pc, writes, returned>>

(* whole: a reader can parse it; safe: its bytes are on the disk. *)
File == [write : Nat, whole : BOOLEAN, safe : BOOLEAN]

First == [write |-> 0, whole |-> TRUE, safe |-> TRUE]

Init == /\ live = First
        /\ stored = {First}
        /\ temp = First
        /\ pc = "idle"
        /\ writes = 0
        /\ returned = 0

(* The temporary file has a name of its own and is created empty. *)
Open == /\ pc = "idle" /\ writes < MaxWrites
        /\ writes' = writes + 1
        /\ temp' = [write |-> writes + 1, whole |-> FALSE, safe |-> FALSE]
        /\ pc' = "opened"
        /\ UNCHANGED <<live, stored, returned>>

WriteFile == /\ pc = "opened"
             /\ temp' = [temp EXCEPT !.whole = TRUE]
             /\ pc' = "written"
             /\ UNCHANGED <<live, stored, writes, returned>>

(* Mutant: the bytes are not synced before the rename. *)
SkipsSync == /\ pc = "written" /\ Synced
             /\ pc' = "synced"
             /\ UNCHANGED <<live, stored, temp, writes, returned>>

SyncFile == /\ pc = "written" /\ Synced
            /\ temp' = [temp EXCEPT !.safe = TRUE]
            /\ pc' = "synced"
            /\ UNCHANGED <<live, stored, writes, returned>>

(* What is renamed: the telemetry collector and the registry do not sync it. *)
Ready == pc = IF Synced THEN "synced" ELSE "written"

(* Readers find the new file at once; the disk may still hold the old name. *)
Rename == /\ Ready
          /\ live' = temp
          /\ stored' = stored \cup {temp}
          /\ pc' = "renamed"
          /\ UNCHANGED <<temp, writes, returned>>

(* Mutant: the directory is not synced. *)
LeavesDirectory == /\ pc = "renamed" /\ Synced
                   /\ returned' = live.write
                   /\ pc' = "idle"
                   /\ UNCHANGED <<live, stored, temp, writes>>

(* The name is made private and its directory synced: the write returns. *)
SyncDirectory == /\ pc = "renamed" /\ Synced
                 /\ stored' = {live}
                 /\ returned' = live.write
                 /\ pc' = "idle"
                 /\ UNCHANGED <<live, temp, writes>>

(* The writers that do not sync return here: the registry makes the name *)
(* private first.                                                        *)
ReturnUnsynced == /\ pc = "renamed" /\ ~Synced
                  /\ returned' = live.write
                  /\ pc' = "idle"
                  /\ UNCHANGED <<live, stored, temp, writes>>

(* Mutant: a write that fails puts an old file back. *)
RollsBack == /\ pc # "idle"
             /\ pc' = "idle"
             /\ live' \in stored
             /\ UNCHANGED <<stored, temp, writes, returned>>

(* A step throws (a full disk, a lost permission) or the process is killed. *)
(* The temporary file stays behind, or is unlinked: nobody reads it again.  *)
Interrupted == /\ pc # "idle"
               /\ pc' = "idle"
               /\ UNCHANGED <<live, stored, temp, writes, returned>>

(* The bytes of a file that was never synced may be there or not. *)
AfterLoss(f) == {[f EXCEPT !.whole = w, !.safe = TRUE] :
                   w \in IF f.safe THEN {f.whole} ELSE {FALSE, f.whole}}

PowerLoss == /\ PowerFails
             /\ \E f \in stored : live' \in AfterLoss(f)
             /\ stored' = {live'}
             /\ pc' = "idle"
             /\ UNCHANGED <<temp, writes, returned>>

Next == \/ Open \/ WriteFile \/ SyncFile \/ Rename \/ SyncDirectory
        \/ ReturnUnsynced \/ Interrupted \/ PowerLoss

Spec == Init /\ [][Next]_vars

-----------------------------------------------------------------------------

TypeOK == /\ live \in File
          /\ stored \in SUBSET File
          /\ temp \in File
          /\ pc \in {"idle", "opened", "written", "synced", "renamed"}
          /\ writes \in 0..MaxWrites
          /\ returned \in 0..writes

(* A reader never finds half a journal, whatever was interrupted and *)
(* whenever the power failed (writeJournalAtomic).                   *)
NeverTorn == live.whole

(* A journal write that returned is never undone: neither a later write  *)
(* that fails half way nor a power loss brings an older journal back, so *)
(* an effect is only emitted when its intent is there to be found.       *)
ReturnedIsDurable == \A f \in stored \cup {live} : f.write >= returned

(* The journal is a register that changes as a whole. *)
Register == INSTANCE AtomicRegister WITH
              value <- live.write,
              maybe <- {f.write : f \in stored},
              done <- returned

Atomic == Register!Spec
=============================================================================
