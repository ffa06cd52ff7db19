---------------------------- MODULE RateLimits ----------------------------
(***************************************************************************)
(* The per-sender rate limit of the security agent, for one sender (the    *)
(* entries of others have nothing in common with it).  A hook looks the    *)
(* sender's limiter up under the lock and asks it outside the lock, while  *)
(* a goroutine forgets limiters idle for longer than SenderTTL: the next   *)
(* message then gets a new limiter, which is full.                         *)
(*                                                                         *)
(* A limiter's tokens are counted in the time it takes to earn them: one   *)
(* is earned by each tick, a message costs Period of them, and it holds    *)
(* Burst messages' worth.  `ideal' is a limiter that is never forgotten,   *)
(* charged for each message let through: it is not in the code.            *)
(***************************************************************************)
EXTENDS Integers

CONSTANTS
    Procs,              \* messages that may be under way at once
    Limiters, None,     \* limiter objects
    Burst, Period,      \* BurstPerSender, and the ticks to earn one message
    TTL,                \* SenderTTL, in ticks
    Stall               \* bound on the ticks from the lookup to the question

\* NewSecurityAgent makes burst and TTL positive; a rate of 0 asks no limiter.
ConstantsOK ==
    /\ Burst \in Nat \ {0} /\ Period \in Nat \ {0} /\ TTL \in Nat /\ Stall \in Nat
    /\ None \notin Limiters

Full == Burst * Period

VARIABLES
    cur,                \* the limiter in sa.senders, or None
    tokens,             \* of each limiter
    idle,               \* ticks since the entry was last looked up
    held, age,          \* the limiter a hook holds, and for how long
    ideal
vars == <<cur, tokens, idle, held, age, ideal>>

TypeOK ==
    /\ cur \in Limiters \cup {None}
    /\ tokens \in [Limiters -> 0 .. Full]
    /\ idle \in 0 .. TTL + 1
    /\ held \in [Procs -> Limiters \cup {None}]
    /\ age \in [Procs -> 0 .. Stall]
    /\ ideal \in Int

Init ==
    /\ cur = None /\ idle = 0
    /\ tokens = [l \in Limiters |-> Full]
    /\ held = [p \in Procs |-> None] /\ age = [p \in Procs |-> 0]
    /\ ideal = Full

limiterFor(p) ==
    /\ held[p] = None
    /\ \/ cur # None /\ UNCHANGED <<cur, tokens>>
       \/ /\ cur = None
          /\ cur' \in Limiters /\ \A q \in Procs : held[q] # cur'
          /\ tokens' = [tokens EXCEPT ![cur'] = Full]
    /\ held' = [held EXCEPT ![p] = cur'] /\ age' = [age EXCEPT ![p] = 0]
    /\ idle' = 0
    /\ UNCHANGED ideal

Answered(p) ==
    /\ held' = [held EXCEPT ![p] = None] /\ age' = [age EXCEPT ![p] = 0]
    /\ UNCHANGED <<cur, idle>>

\* rate.Limiter.Allow, with a token and without.
Allowed(p) ==
    /\ held[p] # None /\ tokens[held[p]] >= Period
    /\ tokens' = [tokens EXCEPT ![held[p]] = @ - Period]
    /\ ideal' = ideal - Period
    /\ Answered(p)

Refused(p) ==
    /\ held[p] # None /\ tokens[held[p]] < Period
    /\ UNCHANGED <<tokens, ideal>>
    /\ Answered(p)

\* (variant) half of SenderTTL, the period of the ticker, is taken for SenderTTL
evictHalf ==
    /\ cur # None /\ 2 * idle > TTL
    /\ cur' = None /\ idle' = 0
    /\ UNCHANGED <<tokens, held, age, ideal>>

evict ==
    /\ cur # None /\ idle > TTL
    /\ cur' = None /\ idle' = 0
    /\ UNCHANGED <<tokens, held, age, ideal>>

Earn(n) == IF n < Full THEN n + 1 ELSE n

\* Time passes, but a hook does not stand still longer than Stall.
Tick ==
    /\ \A p \in Procs : held[p] # None => age[p] < Stall
    /\ tokens' = [l \in Limiters |-> Earn(tokens[l])]
    /\ ideal' = Earn(ideal)
    /\ age' = [p \in Procs |-> IF held[p] # None THEN age[p] + 1 ELSE 0]
    /\ idle' = IF cur # None /\ idle <= TTL THEN idle + 1 ELSE idle
    /\ UNCHANGED <<cur, held>>

Next == (\E p \in Procs : limiterFor(p) \/ Allowed(p) \/ Refused(p)) \/ evict \/ Tick

Spec == Init /\ [][Next]_vars
-----------------------------------------------------------------------------

\* ("RatePerSender is the sustained per-sender send rate (messages per second).")
\* However the hooks and the goroutine interleave, over any stretch of time no more
\* messages of the sender pass than Burst and what the rate adds in that time.
WithinRate == ideal >= 0

\* A hook that ends without charging the ideal limiter found it short of a message.
RefusedOverRate ==
    \A p \in Procs : held[p] # None /\ held'[p] = None /\ ideal' = ideal => ideal < Period

\* A message is refused only when the sender has used up the rate: forgetting the
\* sender, or asking the limiter outside the lock, costs them no message.
OnlyOverRateRefused == [][RefusedOverRate]_vars

\* SenderTTL lasts until a limiter has filled up and until no hook holds it.
KeptLongEnough == Full + Stall <= TTL + 1

\* The inductive invariant: the entry, while there is one, agrees with the ideal
\* limiter, and an idle entry is full again by the time it may be forgotten.
RateInv ==
    /\ TypeOK
    /\ ideal \in 0 .. Full
    /\ \A p \in Procs : held[p] # None => held[p] = cur /\ idle <= age[p]
    /\ cur = None => ideal = Full
    /\ cur # None => tokens[cur] = ideal /\ (ideal = Full \/ ideal >= idle - Stall)
=============================================================================
