------------------------------- MODULE Delivery -------------------------------
(***************************************************************************)
(* What sendUpstream (src/core/upstream.ts) promises the request handlers, *)
(* however it reaches the origin: a request is put on the wire at most     *)
(* twice, its promise settles once, and it is answered only after it has   *)
(* been sent.                                                              *)
(***************************************************************************)
EXTENDS Naturals

CONSTANT Reqs   \* requests under way

VARIABLES
    tries,      \* how often a request has been put on a wire
    outcome     \* of the promise

Init ==
    /\ tries = [e \in Reqs |-> 0]
    /\ outcome = [e \in Reqs |-> "pending"]

Put(e) ==
    /\ outcome[e] = "pending"
    /\ tries[e] < 2
    /\ tries' = [tries EXCEPT ![e] = @ + 1]
    /\ UNCHANGED outcome

Answer(e) ==
    /\ outcome[e] = "pending"
    /\ tries[e] > 0
    /\ outcome' = [outcome EXCEPT ![e] = "answered"]
    /\ UNCHANGED tries

GiveUp(e) ==
    /\ outcome[e] = "pending"
    /\ outcome' = [outcome EXCEPT ![e] = "failed"]
    /\ UNCHANGED tries

\* A settled request is done with; another takes its place.
Renew(e) ==
    /\ outcome[e] # "pending"
    /\ tries' = [tries EXCEPT ![e] = 0]
    /\ outcome' = [outcome EXCEPT ![e] = "pending"]

Next == \E e \in Reqs : Put(e) \/ Answer(e) \/ GiveUp(e) \/ Renew(e)

Spec == Init /\ [][Next]_<<tries, outcome>>
=============================================================================
