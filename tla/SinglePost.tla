----------------------------- MODULE SinglePost -----------------------------
(* What a single-use permit promises, whichever service spends it: it is     *)
(* reserved before anything is sent, pays for at most one request, and a     *)
(* request whose answer was not seen stays unanswered for good.              *)
CONSTANT Permits

VARIABLE use     \* what became of each permit

Init == use = [p \in Permits |-> "held"]

\* The reservation consumes the permit whether or not a request follows.
Reserve(p) == use[p] = "held" /\ use' = [use EXCEPT ![p] = "reserved"]

\* The one request the permit pays for.
Send(p) == use[p] = "reserved" /\ use' = [use EXCEPT ![p] = "posted"]

\* The answer to that request.
Answer(p) == use[p] = "posted" /\ use' = [use EXCEPT ![p] = "answered"]

Next == \E p \in Permits : Reserve(p) \/ Send(p) \/ Answer(p)

Spec == Init /\ [][Next]_use
=============================================================================
