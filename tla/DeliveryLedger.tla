--------------------------- MODULE DeliveryLedger ---------------------------
(***************************************************************************)
(* What the webhook ledger promises, without queues, workers, sweeper or   *)
(* crashes: one entry per (message, recipient) pair, as GetDeliveryStatus  *)
(* shows it, and what the endpoint was really sent.                        *)
(*                                                                         *)
(* The ledger is truthful but not final: an entry says "delivered" only if *)
(* the endpoint took a POST of that job, it says "dead" only if the        *)
(* endpoint refused the job for good or MaxAttempts POSTs were made; yet   *)
(* a closed entry may be reopened, because a second copy of the job that   *)
(* was already on its way may still fail (see WebhookDispatcher).          *)
(***************************************************************************)
EXTENDS Naturals

CONSTANTS
    Jobs,           \* (message, recipient) pairs whose recipient has an endpoint
    MaxAttempts     \* attempts after which a job may be given up

VARIABLES
    entry,          \* [Jobs -> {"none", "open", "delivered", "dead"}]
    accepted,       \* jobs a POST of which the endpoint took
    refused,        \* jobs the endpoint refused for good (4xx other than 429)
    posts           \* [Jobs -> 0..MaxAttempts+1], POSTs made, saturating

ledgerVars == <<entry, accepted, refused, posts>>

LedgerInit ==
    /\ entry = [j \in Jobs |-> "none"]
    /\ accepted = {}
    /\ refused = {}
    /\ posts = [j \in Jobs |-> 0]

\* A new entry is opened when the message arrives; entries are never removed.
Open(j) ==
    /\ entry[j] = "none"
    /\ entry' = [entry EXCEPT ![j] = "open"]
    /\ UNCHANGED <<accepted, refused, posts>>

\* The endpoint sees a POST: it takes it, refuses it, or neither.
Post(j) ==
    /\ entry[j] # "none"
    /\ posts' = [posts EXCEPT ![j] = IF @ <= MaxAttempts THEN @ + 1 ELSE @]
    /\ accepted' \in {accepted, accepted \cup {j}}
    /\ refused' \in {refused, refused \cup {j}}
    /\ UNCHANGED entry

RecordDelivered(j) ==
    /\ entry[j] # "none"
    /\ j \in accepted
    /\ entry' = [entry EXCEPT ![j] = "delivered"]
    /\ UNCHANGED <<accepted, refused, posts>>

RecordDead(j) ==
    /\ entry[j] # "none"
    /\ j \in refused \/ posts[j] >= MaxAttempts
    /\ entry' = [entry EXCEPT ![j] = "dead"]
    /\ UNCHANGED <<accepted, refused, posts>>

Reopen(j) ==
    /\ entry[j] \in {"delivered", "dead"}
    /\ posts[j] > 0
    /\ entry' = [entry EXCEPT ![j] = "open"]
    /\ UNCHANGED <<accepted, refused, posts>>

LedgerNext ==
    \E j \in Jobs :
        Open(j) \/ Post(j) \/ RecordDelivered(j) \/ RecordDead(j) \/ Reopen(j)

LedgerSpec == LedgerInit /\ [][LedgerNext]_ledgerVars
=============================================================================
