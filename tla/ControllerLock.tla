---------------------------- MODULE ControllerLock ----------------------------
(***************************************************************************)
(* acquireControllerLock of packages/runner/src/journal.ts: the watch loop *)
(* and the direct actions of several processes compete for one state       *)
(* directory. A process first takes an operating-system file lock, then    *)
(* binds a socket that older controllers, which know no file lock, hold    *)
(* while they run. A dead process leaves its socket file behind.           *)
(*                                                                         *)
(* A step is what happens between two awaits. Controller assumes what is   *)
(* shown here: one process at a time works on the journal.                 *)
(***************************************************************************)
EXTENDS Naturals

CONSTANTS
    Current,   \* processes that run acquireControllerLock
    Legacy,    \* older controllers, already running or already dead
    Nobody     \* no process

ASSUME LockAssumption == Current \cap Legacy = {} /\ Nobody \notin Current \cup Legacy

VARIABLES
    pc,         \* where each current process is in acquireControllerLock
    fileLock,   \* holder of the file lock
    path,       \* the process whose server was last bound at the socket path
    listening   \* processes whose server accepts connections

vars == <<pc, fileLock, path, listening>>

Stages == {"idle", "locked", "probe", "unlink", "rebind", "bound", "held", "closing"}

\* Type invariant: both locks name at most one process each.
LockTypeOK ==
    /\ pc \in [Current -> Stages]
    /\ fileLock \in Current \cup {Nobody}
    /\ path \in Current \cup Legacy \cup {Nobody}
    /\ listening \subseteq Current \cup Legacy

\* An older controller runs, or the socket of a dead process is left, or neither.
Init ==
    /\ pc = [p \in Current |-> "idle"] /\ fileLock = Nobody
    /\ path \in Current \cup Legacy \cup {Nobody}
    /\ listening \in {{}, Legacy \cap {path}}

SocketIsHeld == path \in listening

GoTo(p, stage) == pc' = [pc EXCEPT ![p] = stage]

\* BEGIN IMMEDIATE; a process that finds the lock taken gives up unchanged.
LockFile(p) ==
    /\ pc[p] = "idle" /\ fileLock = Nobody
    /\ fileLock' = p /\ GoTo(p, "locked")
    /\ UNCHANGED <<path, listening>>

\* The acquisition throws before it has a server: the database is closed.
GiveUp(p) ==
    /\ fileLock' = Nobody /\ GoTo(p, "idle")
    /\ UNCHANGED <<path, listening>>

Bind(p) ==
    /\ path = Nobody
    /\ path' = p /\ listening' = listening \cup {p} /\ GoTo(p, "bound")
    /\ UNCHANGED fileLock

Listen(p) ==
    /\ pc[p] = "locked"
    /\ \/ Bind(p)
       \/ path # Nobody /\ GoTo(p, "probe") /\ UNCHANGED <<fileLock, path, listening>>

\* Mutant: an address in use is taken for a socket left behind.
ProbeSkipped(p) ==
    /\ pc[p] = "probe"
    /\ \/ GoTo(p, "unlink") /\ UNCHANGED <<fileLock, path, listening>>
       \/ GiveUp(p)

\* socketIsHeld: a connection, or none within the time limit, means held; only
\* a refused connection or a missing file means left behind.
Probe(p) ==
    /\ pc[p] = "probe"
    /\ \/ ~SocketIsHeld /\ GoTo(p, "unlink") /\ UNCHANGED <<fileLock, path, listening>>
       \/ GiveUp(p)

Unlink(p) ==
    /\ pc[p] = "unlink"
    /\ path' = Nobody /\ GoTo(p, "rebind")
    /\ UNCHANGED <<fileLock, listening>>

Rebind(p) == pc[p] = "rebind" /\ IF path = Nobody THEN Bind(p) ELSE GiveUp(p)

\* Any other failure to listen or to unlink.
AcquisitionFails(p) == pc[p] \in {"locked", "unlink", "rebind"} /\ GiveUp(p)

\* The socket has its mode: the capability is handed out.
Grant(p) ==
    /\ pc[p] = "bound" /\ GoTo(p, "held")
    /\ UNCHANGED <<fileLock, path, listening>>

\* server.close removes the file at the path, whoever bound it. It ends a
\* holder's work and the acquisition of a process that could not set the mode.
CloseServer(p) ==
    /\ pc[p] \in {"bound", "held"}
    /\ path' = Nobody /\ listening' = listening \ {p} /\ GoTo(p, "closing")
    /\ UNCHANGED fileLock

\* Mutant: the socket path is cleaned up once more after the file lock is free.
CloseDatabaseThenUnlink(p) ==
    \/ /\ pc[p] = "closing" /\ fileLock = p
       /\ fileLock' = Nobody /\ UNCHANGED <<pc, path, listening>>
    \/ /\ pc[p] = "closing" /\ fileLock # p
       /\ path' = Nobody /\ GoTo(p, "idle") /\ UNCHANGED <<fileLock, listening>>

CloseDatabase(p) ==
    /\ pc[p] = "closing"
    /\ fileLock' = Nobody /\ GoTo(p, "idle")
    /\ UNCHANGED <<path, listening>>

\* The system frees the file lock and the server of a dead process; its socket
\* file stays.
Die(p) ==
    /\ pc[p] # "idle"
    /\ GoTo(p, "idle") /\ listening' = listening \ {p}
    /\ fileLock' = Nobody
    /\ UNCHANGED path

LegacyCloses(p) ==
    /\ p \in listening
    /\ listening' = listening \ {p} /\ path' = Nobody
    /\ UNCHANGED <<pc, fileLock>>

LegacyDies(p) ==
    /\ p \in listening
    /\ listening' = listening \ {p}
    /\ UNCHANGED <<pc, fileLock, path>>

Acquire(p) ==
    \/ LockFile(p) \/ Listen(p) \/ Probe(p) \/ Unlink(p) \/ Rebind(p)
    \/ AcquisitionFails(p) \/ Grant(p)
Release(p) == CloseServer(p) \/ CloseDatabase(p)

Next ==
    \/ \E p \in Current : Acquire(p) \/ Release(p) \/ Die(p)
    \/ \E p \in Legacy : LegacyCloses(p) \/ LegacyDies(p)

Spec == Init /\ [][Next]_vars
-----------------------------------------------------------------------------
Holders == {p \in Current : pc[p] = "held"} \cup (Legacy \cap listening)

\* One process at a time works on the journal, an older controller that was
\* already running included.
Exclusive == \A p, q \in Holders : p = q

\* While a process holds the lock, the socket path leads to its own server, so
\* an older controller started meanwhile finds it and refuses: nobody unlinks
\* or replaces the socket of a live holder.
HolderIsReachable == \A p \in Holders : path = p /\ p \in listening
-----------------------------------------------------------------------------
(***************************************************************************)
(* The controller lock excludes for any number of processes. Neither       *)
(* property of ControllerLock is inductive: a process that decided to      *)
(* unlink a socket must still be right when it does, which needs that no   *)
(* other process is past the file lock and no older controller runs.       *)
(***************************************************************************)

\* Every process past its first step holds the file lock.
FileLockGuards == \A p \in Current : pc[p] # "idle" => fileLock = p

\* A bound server, and that of a running older controller, is the one at the path.
BoundIsReachable ==
    \A p \in Current : pc[p] \in {"bound", "held"} => path = p /\ p \in listening
LegacyIsReachable == \A p \in Legacy \cap listening : path = p

\* The verdict "left behind" stays true until the socket is replaced.
StaleStaysStale ==
    \A p \in Current : pc[p] \in {"unlink", "rebind"} => Legacy \cap listening = {}

LockInv ==
    LockTypeOK /\ FileLockGuards /\ BoundIsReachable /\ LegacyIsReachable /\ StaleStaysStale
=============================================================================
