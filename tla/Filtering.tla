----------------------------- MODULE Filtering -----------------------------
(***************************************************************************)
(* What the hooks make of a message: the address filter (AddressFilter)    *)
(* and the chain of hooks (SendChain), each in several configurations.     *)
(***************************************************************************)
EXTENDS Integers, Sequences, Parts

CONSTANTS
    FilterConf, Rules, Initial, Ops, Mails,     \* AddressFilter, by part
    ChainConf, Dmarc, Scores, Width             \* SendChain, by part

VARIABLES
    store, arrays, compiled, upd, chk, ops,     \* AddressFilter
    msg, draft, at, outcome, spam, av           \* SendChain

filterVars == <<store, arrays, compiled, upd, chk, ops>>
chainVars == <<msg, draft, at, outcome, spam, av>>

Filter == INSTANCE AddressFilter
Chain == INSTANCE SendChain WITH result <- outcome

ASSUME FilteringAssumption == Filter!ConstantsOK

FilterInit == Filter!Init
FilterNext == part \in DOMAIN FilterConf /\ UNCHANGED part /\ Filter!Next
FilterSpec == FilterInit /\ [][FilterNext]_<<part, filterVars>>

ChainInit == Chain!Init
ChainNext == part \in DOMAIN ChainConf /\ UNCHANGED part /\ Chain!Next
ChainSpec == ChainInit /\ [][ChainNext]_<<part, chainVars>>

-----------------------------------------------------------------------------

\* A message is judged by one list of rules, the one in force when its check
\* began: with a store, on an allow list, and with rules appended in place.
OneList == Filter!OneList

\* ("Thread-safe: AddRule, RemoveRule and Reload may be called concurrently with
\* ongoing message deliveries.")  Without a store, a message that a rule blocks is
\* rejected if the rule was in force during the whole check.
StillBlockedInMemory == Filter!Backing = "none" => Filter!StillBlocked

\* With one updater and none of its calls under way, the rules in force are those
\* of the store that compile.
StoreInForce == (\A u, v \in Filter!Updaters : u = v) => Filter!StoreInForce

\* The attachments of a stored message are within the limits on one, on their
\* number, types and names, and on all of them, though the sum may wrap around.
AttachmentLimits == Chain!AttachmentsWithin /\ Chain!TotalWithin

\* A message the services condemned, or could not judge, is stored only as the
\* configuration says; with a policy of require, one by SMTP is stored only when
\* all its signatures verified, and when SPF was checked and did not fail.
JudgedBeforeStored == Chain!ScannedBeforeStored /\ Chain!RequiredAuthPresent

\* ("checkDMARC evaluates the sender's DMARC DNS record and enforces the policy.")
\* With a policy of reject, a message by SMTP whose From domain asks for rejection
\* and with which nothing aligns is not stored.
DMARCEnforced == Chain!DMARCEnforced
=============================================================================
