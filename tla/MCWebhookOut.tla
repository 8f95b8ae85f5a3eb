---------------------------- MODULE MCWebhookOut ----------------------------
(***************************************************************************)
(* WebhookOut on small instances for TLC.                                  *)
(***************************************************************************)
EXTENDS WebhookOut, TLC

Setting(on, max, on429) ==
    [enabled |-> on, events |-> EventTypes, maxRetries |-> max, retryOn429 |-> on429]

(* An enabled target with two attempts; the same target disabled, which    *)
(* falls back on the default number of attempts.                           *)
OnOffSettings == {Setting(TRUE, 2, "default"), Setting(FALSE, 0, "no")}
OnSettings == {Setting(TRUE, 2, "default")}

Response(status) == [err |-> status = 0, status |-> status]

(* A network error, a success, a permanent refusal. *)
AllResponses == {Response(0), Response(200), Response(400)}
RetryResponses == {Response(200), Response(503)}

Symmetry == Permutations(Deliveries) \cup Permutations(Workers) \cup Permutations(Targets)
=============================================================================
