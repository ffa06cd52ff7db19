------------------------------ MODULE Lockout ------------------------------
(***************************************************************************)
(* AUTH failures and the lockout of addresses (internal/plugin/            *)
(* smtp_security.go and redis_lockout.go) under the sessions that use them *)
(* (Auth and authFailed in internal/smtp/server.go).                       *)
(*                                                                         *)
(* A session asks IsLockedOut when AUTH begins, evaluates the credentials  *)
(* when the SASL exchange ends, and records a failure in several steps,    *)
(* with nothing locked in between.  Store selects the map of the process   *)
(* or Redis, which outlives a restart.  Time is a clock of coarse ticks:   *)
(* recording one failure takes less than MaxDelay + 1 of them.             *)
(***************************************************************************)
EXTENDS Integers, FiniteSets

CONSTANTS
    Sessions,              \* the connections; <<ip, port>> each
    MaxAuthFailuresPerIP, LockoutDuration, IPLookupTTL,
    Store,                 \* "memory" or "redis"
    MaxDelay,              \* bound on the ticks that recording a failure takes
    MaxClock, MaxTries, MaxFaults, MaxRestarts

VARIABLES
    clock,
    failures, lastSeen,    \* ipEntry: NoEntry in lastSeen when the map has none
    lockedUntil,           \* of ipEntry, or the expiry of the Redis marker
    expiry,                \* when the Redis counter expires; Never without a TTL
    sess,                  \* per session: pc, and the time and count it read
    tried,                 \* failed attempts of each address
    promised,              \* the latest end of a lockout that was announced
    faults, restarts

ConstantsOK ==
    /\ IsFiniteSet(Sessions) /\ MaxAuthFailuresPerIP \in Nat \ {0} /\ MaxDelay \in Nat
    /\ LockoutDuration \in Nat /\ IPLookupTTL \in Nat /\ MaxClock \in Nat

vars == <<clock, failures, lastSeen, lockedUntil, expiry, sess, tried, promised, faults, restarts>>

NoEntry == -1
Never == MaxClock + IPLookupTTL + 1

\* hostOnly: sessions of different ports share an address.
hostOnly(s) == s[1]
IPs == {hostOnly(s) : s \in Sessions}

Init ==
    /\ clock = 0
    /\ failures = [ip \in IPs |-> 0] /\ lastSeen = [ip \in IPs |-> NoEntry]
    /\ lockedUntil = [ip \in IPs |-> 0] /\ expiry = [ip \in IPs |-> Never]
    /\ sess = [s \in Sessions |-> [pc |-> "idle", now |-> 0, n |-> 0]]
    /\ tried = [ip \in IPs |-> 0] /\ promised = [ip \in IPs |-> 0]
    /\ faults = 0 /\ restarts = 0

Goto(s, pc) == sess' = [sess EXCEPT ![s].pc = pc]

IsLockedOut(ip) == clock < lockedUntil[ip]

\* (variant) the lockout is looked at once the failure is recorded
AuthBlind(s) ==
    /\ sess[s].pc = "idle"
    /\ Goto(s, "sasl")
    /\ UNCHANGED <<clock, failures, lastSeen, lockedUntil, expiry, tried, promised, faults, restarts>>

\* Auth: a session of a locked address gets no SASL server.
Auth(s) ==
    /\ sess[s].pc = "idle" /\ ~IsLockedOut(hostOnly(s))
    /\ Goto(s, "sasl")
    /\ UNCHANGED <<clock, failures, lastSeen, lockedUntil, expiry, tried, promised, faults, restarts>>

\* The credentials are accepted: nothing is recorded, and nothing reset.
AuthOK(s) ==
    /\ sess[s].pc = "sasl"
    /\ Goto(s, "idle")
    /\ UNCHANGED <<clock, failures, lastSeen, lockedUntil, expiry, tried, promised, faults, restarts>>

\* authFailed: the time is read, and the entry of the address found or made.
AuthFailed(s) ==
    /\ sess[s].pc = "sasl" /\ tried[hostOnly(s)] < MaxTries
    /\ sess' = [sess EXCEPT ![s].pc = "add", ![s].now = clock]
    /\ lastSeen' = IF Store = "memory" THEN [lastSeen EXCEPT ![hostOnly(s)] = clock] ELSE lastSeen
    /\ tried' = [tried EXCEPT ![hostOnly(s)] = @ + 1]
    /\ UNCHANGED <<clock, failures, lockedUntil, expiry, promised, faults, restarts>>

\* What a failure with count n leads to.
AfterCount(n) ==
    IF Store = "redis" /\ n = 1 THEN "expire" ELSE IF n >= MaxAuthFailuresPerIP THEN "lock" ELSE "idle"

\* The counter is raised: failures.Add, or INCR, which starts over at 1 when
\* the key has expired.
Add(s) ==
    /\ sess[s].pc = "add"
    /\ LET ip == hostOnly(s)
           gone == Store = "redis" /\ expiry[ip] <= clock
           n == IF gone THEN 1 ELSE failures[ip] + 1
       IN /\ failures' = [failures EXCEPT ![ip] = n]
          /\ expiry' = IF gone THEN [expiry EXCEPT ![ip] = Never] ELSE expiry
          /\ sess' = [sess EXCEPT ![s].pc = AfterCount(n), ![s].n = n]
    /\ UNCHANGED <<clock, lastSeen, lockedUntil, tried, promised, faults, restarts>>

\* EXPIRE on the first increment.
Expire(s) ==
    /\ sess[s].pc = "expire"
    /\ expiry' = [expiry EXCEPT ![hostOnly(s)] = clock + IPLookupTTL]
    /\ Goto(s, IF sess[s].n >= MaxAuthFailuresPerIP THEN "lock" ELSE "idle")
    /\ UNCHANGED <<clock, failures, lastSeen, lockedUntil, tried, promised, faults, restarts>>

\* The lockout: from the time read at the beginning in the process, from now on
\* in Redis.
Lock(s) ==
    /\ sess[s].pc = "lock"
    /\ LET until == (IF Store = "redis" THEN clock ELSE sess[s].now) + LockoutDuration
       IN /\ lockedUntil' = [lockedUntil EXCEPT ![hostOnly(s)] = until]
          /\ promised' = [promised EXCEPT ![hostOnly(s)] = IF until > @ THEN until ELSE @]
    /\ Goto(s, "idle")
    /\ UNCHANGED <<clock, failures, lastSeen, expiry, tried, faults, restarts>>

Stale(ip) == lastSeen[ip] # NoEntry /\ lastSeen[ip] < clock - IPLookupTTL

\* (variant) idle entries go, locked or not
EvictLocked ==
    /\ Store = "memory" /\ \E ip \in IPs : Stale(ip)
    /\ failures' = [ip \in IPs |-> IF Stale(ip) THEN 0 ELSE failures[ip]]
    /\ lastSeen' = [ip \in IPs |-> IF Stale(ip) THEN NoEntry ELSE lastSeen[ip]]
    /\ lockedUntil' = [ip \in IPs |-> IF Stale(ip) THEN 0 ELSE lockedUntil[ip]]
    /\ UNCHANGED <<clock, expiry, sess, tried, promised, faults, restarts>>

\* evict: entries that are idle and no longer locked are deleted.
Evict ==
    LET gone == {ip \in IPs : Stale(ip) /\ clock > lockedUntil[ip]}
    IN /\ Store = "memory" /\ gone # {}
       /\ failures' = [ip \in IPs |-> IF ip \in gone THEN 0 ELSE failures[ip]]
       /\ lastSeen' = [ip \in IPs |-> IF ip \in gone THEN NoEntry ELSE lastSeen[ip]]
       /\ lockedUntil' = [ip \in IPs |-> IF ip \in gone THEN 0 ELSE lockedUntil[ip]]
       /\ UNCHANGED <<clock, expiry, sess, tried, promised, faults, restarts>>

\* Redis is not available: IsLockedOut allows the address, RecordFailure gives up.
StoreFails(s) ==
    /\ Store = "redis" /\ faults < MaxFaults
    /\ \/ sess[s].pc = "idle" /\ Goto(s, "sasl")
       \/ sess[s].pc \in {"add", "expire", "lock"} /\ Goto(s, "idle")
    /\ faults' = faults + 1
    /\ UNCHANGED <<clock, failures, lastSeen, lockedUntil, expiry, tried, promised, restarts>>

\* The process ends and comes back: connections and its map are gone.
Restart ==
    /\ restarts < MaxRestarts
    /\ restarts' = restarts + 1
    /\ sess' = [s \in Sessions |-> [pc |-> "idle", now |-> 0, n |-> 0]]
    /\ IF Store = "redis" THEN UNCHANGED <<failures, lastSeen, lockedUntil, promised>>
       ELSE /\ failures' = [ip \in IPs |-> 0] /\ lastSeen' = [ip \in IPs |-> NoEntry]
            /\ lockedUntil' = [ip \in IPs |-> 0] /\ promised' = [ip \in IPs |-> 0]
    /\ UNCHANGED <<clock, expiry, tried, faults>>

Tick ==
    /\ clock < MaxClock
    /\ \A s \in Sessions :
          sess[s].pc \in {"add", "expire", "lock"} => clock + 1 - sess[s].now <= MaxDelay
    /\ clock' = clock + 1
    /\ UNCHANGED <<failures, lastSeen, lockedUntil, expiry, sess, tried, promised, faults, restarts>>

Next ==
    \/ \E s \in Sessions :
          \/ Auth(s) \/ AuthOK(s) \/ AuthFailed(s)
          \/ Add(s) \/ Expire(s) \/ Lock(s) \/ StoreFails(s)
    \/ Evict \/ Restart \/ Tick

Spec == Init /\ [][Next]_vars

-----------------------------------------------------------------------------

SessionsOf(ip) == Cardinality({s \in Sessions : hostOnly(s) = ip})

\* However the sessions of an address overlap, until a first lockout or the
\* counter could end it gets no more attempts than the limit and one for each further connection,
\* which may have passed IsLockedOut before; a restart adds at most what was
\* being recorded when the counter is in Redis, and starts over otherwise.
AttemptsBounded ==
    clock < LockoutDuration /\ clock < IPLookupTTL /\ faults = 0 =>
        \A ip \in IPs :
            tried[ip] <= IF Store = "redis"
                         THEN MaxAuthFailuresPerIP - 1 + SessionsOf(ip) * (1 + restarts)
                         ELSE (MaxAuthFailuresPerIP - 1 + SessionsOf(ip)) * (1 + restarts)

\* A lockout that was announced lasts: eviction, later failures recorded with
\* an older time, and with Redis a restart, shorten it by no more than the
\* delay of one recording.
LockHolds ==
    \A ip \in IPs : clock + MaxDelay < promised[ip] => IsLockedOut(ip)

\* No address is locked out for the failures of another, nor before it reached
\* the limit itself.
LockedForItsOwn ==
    \A ip \in IPs : IsLockedOut(ip) => tried[ip] >= MaxAuthFailuresPerIP

\* A counter in Redis ends (smtp_security.go: "IPLookupTTL controls how long
\* idle per-IP counters are retained"): it has an expiry unless a session is
\* just about to set it.
CounterExpires ==
    \A ip \in IPs :
        Store = "redis" /\ failures[ip] > 0 /\ expiry[ip] = Never =>
            \E s \in Sessions : hostOnly(s) = ip /\ sess[s].pc = "expire"

TypeOK ==
    /\ clock \in Nat /\ faults \in Nat /\ restarts \in Nat
    /\ failures \in [IPs -> Nat] /\ lastSeen \in [IPs -> Nat \cup {NoEntry}]
    /\ lockedUntil \in [IPs -> Nat] /\ expiry \in [IPs -> Nat]
    /\ sess \in [Sessions -> [pc : {"idle", "sasl", "add", "expire", "lock"}, now : Nat, n : Nat]]
    /\ tried \in [IPs -> Nat] /\ promised \in [IPs -> Nat]

\* The sessions of an address, in state se, that evaluate credentials; that have a
\* failure to count; and that have one to count or a lockout to set.
Asking(se, ip) == {s \in Sessions : hostOnly(s) = ip /\ se[s].pc = "sasl"}
Adding(se, ip) == {s \in Sessions : hostOnly(s) = ip /\ se[s].pc = "add"}
Pending(se, ip) ==
    {s \in Sessions : hostOnly(s) = ip /\ \/ se[s].pc = "add"
                                          \/ se[s].pc \in {"expire", "lock"} /\ se[s].n >= MaxAuthFailuresPerIP}

\* The inductive invariant behind LockHolds: the time a session read is not older
\* than MaxDelay, and a lockout in force is no shorter than what was promised.
HoldInv ==
    /\ TypeOK
    /\ \A s \in Sessions : sess[s].pc \in {"add", "expire", "lock"} =>
          sess[s].now <= clock /\ clock - sess[s].now <= MaxDelay
    /\ \A ip \in IPs :
          /\ promised[ip] <= clock + LockoutDuration
          /\ clock + MaxDelay < promised[ip] => promised[ip] <= lockedUntil[ip] + MaxDelay

\* The inductive invariant behind LockedForItsOwn: an address has tried at least as
\* often as was counted and is about to be.
OwnInv ==
    /\ \A ip \in IPs : /\ failures[ip] + Cardinality(Adding(sess, ip)) <= tried[ip]
                       /\ lockedUntil[ip] > 0 => tried[ip] >= MaxAuthFailuresPerIP
    /\ \A s \in Sessions : /\ sess[s].pc \in {"expire", "lock"} => sess[s].n <= tried[hostOnly(s)]
                           /\ sess[s].pc = "lock" => sess[s].n >= MaxAuthFailuresPerIP

\* What a restart adds at most.
PerRestart(ip) == IF Store = "redis" THEN SessionsOf(ip) ELSE MaxAuthFailuresPerIP - 1 + SessionsOf(ip)

\* The inductive invariant behind AttemptsBounded.  While an address is not locked
\* out, what it tried was counted, up to the limit, or is pending, and a session
\* that is idle may ask; once it is, no session begins to ask.
AttemptInv ==
    clock < LockoutDuration /\ clock < IPLookupTTL /\ faults = 0 =>
        /\ \A ip \in IPs :
              /\ tried[ip] + Cardinality(Asking(sess, ip)) <=
                    MaxAuthFailuresPerIP - 1 + SessionsOf(ip) + restarts * PerRestart(ip)
              /\ ~IsLockedOut(ip) =>
                    tried[ip] <= (IF failures[ip] < MaxAuthFailuresPerIP THEN failures[ip] ELSE MaxAuthFailuresPerIP - 1)
                                 + Cardinality(Pending(sess, ip)) + restarts * PerRestart(ip)
              /\ lockedUntil[ip] = 0 \/ lockedUntil[ip] >= LockoutDuration
              /\ expiry[ip] >= IPLookupTTL
        /\ \A s \in Sessions : sess[s].pc \in {"expire", "lock"} => sess[s].n <= failures[hostOnly(s)]
=============================================================================
