---------------------------- MODULE MCController ----------------------------
(***************************************************************************)
(* Small instances of Controller for TLC.                                  *)
(***************************************************************************)
EXTENDS Controller

\* One permit that covers every operation and may be used for recovery.
FullPermit(expires, maxStarts) ==
    [id |-> 1, own |-> TRUE, ops |-> Operations, issued |-> 0, expires |-> expires,
     maxStarts |-> maxStarts, maxRuntime |-> 20, maxCost |-> 20, recovery |-> TRUE]

OnePermit == {FullPermit(7, 2)}
ThreeStarts == {FullPermit(9, 3)}
=============================================================================
