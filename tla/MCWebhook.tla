----------------------------- MODULE MCWebhook -----------------------------
(* Constants for model checking the webhook dispatcher. *)
EXTENDS WebhookDispatcher, TLC

\* One code of each class that attempt() tells apart: no answer, 2xx, a
\* permanent 4xx, 429 and 5xx.
AllCodes == {0, 200, 400, 429, 503}

\* No answer, success, and a failure to be retried.
FewCodes == {0, 200, 503}

WorkerSymmetry == Permutations(Workers)
=============================================================================
