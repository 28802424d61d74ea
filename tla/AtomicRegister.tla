--------------------------- MODULE AtomicRegister ---------------------------
(***************************************************************************)
(* What a file that is replaced as a whole promises its readers: one       *)
(* value, the number of the write that put it there.  A power loss may     *)
(* take the register back, but to a write that is not older than the last  *)
(* one whose caller was told that it is done.                              *)
(***************************************************************************)
EXTENDS Naturals

VARIABLES value,     \* the write a reader finds
          maybe,     \* the writes a reader may find after a power loss
          done       \* the last write whose caller was told that it is done

vars == <<value, maybe, done>>

Init == value = 0 /\ maybe = {0} /\ done = 0

(* A write takes effect: readers find it, a power loss may still undo it. *)
Change == /\ value' \in Nat
          /\ \A m \in maybe : value' > m
          /\ maybe' = maybe \cup {value'}
          /\ UNCHANGED done

(* The write a reader finds is there to stay. *)
Confirm == /\ maybe' = {value}
           /\ done' = value
           /\ UNCHANGED value

PowerLoss == /\ value' \in maybe
             /\ maybe' = {value'}
             /\ UNCHANGED done

Next == Change \/ Confirm \/ PowerLoss

Spec == Init /\ [][Next]_vars

=============================================================================
