------------------------- MODULE DeliveryLifecycle -------------------------
(***************************************************************************)
(* What pkg/net/webhookout promises about one delivery, with the queue,    *)
(* the workers, the delay scheduler and the HTTP client left out: a        *)
(* delivery is created pending, every attempt raises its number by exactly *)
(* one and ends it or leaves it to be retried, and an ended delivery is    *)
(* never touched again.                                                    *)
(***************************************************************************)
EXTENDS Integers

CONSTANTS
    Deliveries,     \* the delivery identifiers
    RetryCap        \* no target allows more than this many attempts

VARIABLES
    status,         \* "none" before the delivery exists, then its stored Status
    attempt         \* its stored Attempt

vars == <<status, attempt>>

(* The values of DeliveryStatus, and the two that still expect an attempt. *)
Live == {"pending", "retrying"}
Terminal == {"success", "failed", "dead"}
Status == {"none"} \cup Live \cup Terminal

Init ==
    /\ status = [d \in Deliveries |-> "none"]
    /\ attempt = [d \in Deliveries |-> 0]

(* A delivery is stored pending with attempt 0. *)
Create(d) ==
    /\ status[d] = "none"
    /\ status' = [status EXCEPT ![d] = "pending"]
    /\ UNCHANGED attempt

(* One attempt: it ends the delivery, or leaves it to be retried while     *)
(* there are attempts left.                                                *)
Attempt(d) ==
    /\ status[d] \in Live
    /\ attempt' = [attempt EXCEPT ![d] = @ + 1]
    /\ \E s \in Terminal \cup {"retrying"} :
        /\ s = "retrying" => attempt[d] + 1 < RetryCap
        /\ status' = [status EXCEPT ![d] = s]

Next == \E d \in Deliveries : Create(d) \/ Attempt(d)

Spec == Init /\ [][Next]_vars
=============================================================================
