------------------------------ MODULE Lockouts ------------------------------
(***************************************************************************)
(* The lockout of addresses (Lockout) in each of several configurations.   *)
(***************************************************************************)
EXTENDS Integers, Parts

CONSTANT LockoutConf    \* configurations, by part
VARIABLES clock, failures, lastSeen, lockedUntil, expiry, sess, tried, promised, outages, restarts

lockoutVars == <<clock, failures, lastSeen, lockedUntil, expiry, sess, tried, promised, outages, restarts>>

Lock(conf) == INSTANCE Lockout WITH
    Store <- conf.store, Sessions <- conf.sessions, MaxAuthFailuresPerIP <- conf.limit,
    LockoutDuration <- conf.lock, IPLookupTTL <- conf.ttl, MaxDelay <- conf.delay, MaxClock <- conf.clock,
    MaxTries <- conf.tries, MaxFaults <- conf.faults, MaxRestarts <- conf.restarts, faults <- outages

ASSUME LockoutAssumption == \A k \in DOMAIN LockoutConf : Lock(LockoutConf[k])!ConstantsOK

LockoutInit == \E k \in DOMAIN LockoutConf : k = Named(LockoutConf) /\ Lock(LockoutConf[k])!Init
LockoutNext == \E k \in DOMAIN LockoutConf : part = k /\ UNCHANGED part /\ Lock(LockoutConf[k])!Next
LockoutSpec == LockoutInit /\ [][LockoutNext]_<<part, lockoutVars>>

-----------------------------------------------------------------------------

\* Until a first lockout or counter could end, an address gets no more attempts
\* than the limit and one for each further connection.
AttemptsBounded == \A k \in DOMAIN LockoutConf : part = k => Lock(LockoutConf[k])!AttemptsBounded

\* An address is locked out when it should be and only then: a lockout that was
\* announced lasts, whatever eviction, later failures and, with Redis, a restart
\* do, and no address is locked out for the failures of another.
LockExact ==
    \A k \in DOMAIN LockoutConf : part = k => /\ Lock(LockoutConf[k])!LockHolds
                                              /\ Lock(LockoutConf[k])!LockedForItsOwn
=============================================================================
