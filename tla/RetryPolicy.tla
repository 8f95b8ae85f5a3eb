---------------------------- MODULE RetryPolicy ----------------------------
(***************************************************************************)
(* The decisions of pkg/net/webhookout/retry.go and of the end of          *)
(* handleTask (service.go): whether an attempt is followed by another and, *)
(* if not, how the delivery ends.                                          *)
(***************************************************************************)
EXTENDS Integers

(* Mutant: one attempt too many. *)
ShouldRetry_OneTooMany(response, attempt, maxRetries, retryOn429) ==
    /\ attempt <= maxRetries
    /\ \/ response.err
       \/ response.status \in 500..599
       \/ retryOn429 /\ response.status = 429
       \/ response.status = 408

(* ShouldRetry. A response is [err, status]; when err is set the status is *)
(* 0, as sendOnce returns it.                                              *)
ShouldRetry(response, attempt, maxRetries, retryOn429) ==
    /\ attempt < maxRetries
    /\ \/ response.err
       \/ response.status \in 500..599
       \/ retryOn429 /\ response.status = 429
       \/ response.status = 408

Accepted(response) == ~response.err /\ response.status \in 200..299

(* The status handleTask stores after attempt number `attempt`.            *)
Verdict(response, attempt, maxRetries, retryOn429) ==
    IF ShouldRetry(response, attempt, maxRetries, retryOn429) THEN "retrying"
    ELSE IF Accepted(response) THEN "success"
    ELSE IF attempt >= maxRetries THEN "dead"
    ELSE "failed"
=============================================================================
