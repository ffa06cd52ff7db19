----------------------------- MODULE Reputation -----------------------------
(***************************************************************************)
(* What the hooks know of a sender: the verdicts of DNSBL and CrowdSec     *)
(* (VerdictCache) in each of several configurations, and the rate          *)
(* (RateLimits).                                                           *)
(***************************************************************************)
EXTENDS VerdictCache

CONSTANTS Procs, Limiters, None, Burst, Period, TTL, Stall
VARIABLES cur, tokens, idle, held, age, ideal

Rate == INSTANCE RateLimits

ASSUME RateAssumption == Rate!ConstantsOK

verdictVars == vars
rateVars == <<cur, tokens, idle, held, age, ideal>>

VerdictInit == Init
VerdictNext == part \in DOMAIN VerdictConf /\ UNCHANGED part /\ Next
VerdictSpec == VerdictInit /\ [][VerdictNext]_<<part, verdictVars>>

RateNext == part = "rate" /\ UNCHANGED part /\ Rate!Next
RateSpec == Rate!Init /\ [][RateNext]_<<part, rateVars>>

-----------------------------------------------------------------------------

\* No verdict of DNSBL or CrowdSec rests on an answer older than CacheTTL and
\* Timeout: an address listed for longer is rejected, one clean for longer is
\* accepted, however checks overlap and whatever the cache holds.
VerdictsCurrent == LongListedRejected /\ LongCleanAccepted

\* The rate is kept and nobody pays for the eviction: however the hooks and the
\* goroutine interleave, no more messages of a sender pass than the burst and what
\* the rate adds, and none is refused to a sender who is within the rate.
RateExact == [][Rate!WithinRate' /\ Rate!RefusedOverRate]_rateVars
=============================================================================
