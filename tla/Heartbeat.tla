----------------------------- MODULE Heartbeat -----------------------------
(***************************************************************************)
(* The presence of the nodes in Redis: Announce of                         *)
(* internal/registry/redis/registry.go, the heartbeat goroutine of         *)
(* internal/server/node.go, the expiry of the key, crashes and restarts.   *)
(* Time passes in ticks; a goroutine with something to do does it before   *)
(* the next tick.                                                          *)
(***************************************************************************)
EXTENDS Naturals

CONSTANTS
    Nodes,
    HeartbeatTTL,   \* life of a node's key, in ticks
    MaxFaults       \* bound on failed announcements, crashes and closes

ConstantsOK == HeartbeatTTL \in Nat /\ HeartbeatTTL >= 2 /\ MaxFaults \in Nat

VARIABLES
    ttl,        \* ttl[n]: ticks until the key of n expires, 0 when there is none
    st,         \* st[n]: "down", "up", or "closing" once heartbeatCh is closed
    wait,       \* wait[n]: ticks until the ticker of n fires
    missed,     \* nodes whose last announcement failed
    since,      \* since[n]: ticks since n stopped (not counted past HeartbeatTTL)
    faults

vars == <<ttl, st, wait, missed, since, faults>>

TypeOK ==
    /\ ttl \in [Nodes -> 0..HeartbeatTTL]
    /\ st \in [Nodes -> {"down", "up", "closing"}]
    /\ wait \in [Nodes -> 0..HeartbeatTTL]
    /\ missed \subseteq Nodes
    /\ since \in [Nodes -> 0..HeartbeatTTL]
    /\ faults \in 0..MaxFaults

Init ==
    /\ ttl = [n \in Nodes |-> 0]
    /\ st = [n \in Nodes |-> "down"]
    /\ wait = [n \in Nodes |-> 0]
    /\ missed = {}
    /\ since = [n \in Nodes |-> HeartbeatTTL]
    /\ faults = 0

\* (variant) the ticker fires once per HeartbeatTTL.
PeriodWhole == HeartbeatTTL

Period == HeartbeatTTL \div 2

\* NewController announces the node and starts the heartbeat; when the first
\* announcement fails there is no controller.
Start(n) ==
    /\ st[n] = "down"
    /\ ttl' = [ttl EXCEPT ![n] = HeartbeatTTL]
    /\ st' = [st EXCEPT ![n] = "up"]
    /\ wait' = [wait EXCEPT ![n] = Period]
    /\ missed' = missed \ {n}
    /\ UNCHANGED <<since, faults>>

\* (variant) after a failure nothing is announced any more.
AnnounceOnce(n) ==
    /\ st[n] # "down" /\ wait[n] = 0
    /\ ttl' = [ttl EXCEPT ![n] = IF n \in missed THEN @ ELSE HeartbeatTTL]
    /\ wait' = [wait EXCEPT ![n] = Period]
    /\ UNCHANGED <<st, missed, since, faults>>

\* The ticker fires: SET with expiry.  The select may also take the ticker when
\* heartbeatCh is closed already.
Announce(n) ==
    /\ st[n] # "down" /\ wait[n] = 0
    /\ ttl' = [ttl EXCEPT ![n] = HeartbeatTTL]
    /\ wait' = [wait EXCEPT ![n] = Period]
    /\ missed' = missed \ {n}
    /\ UNCHANGED <<st, since, faults>>

\* The error is logged and the next tick tries again.
AnnounceFails(n) ==
    /\ st[n] # "down" /\ wait[n] = 0 /\ faults < MaxFaults
    /\ wait' = [wait EXCEPT ![n] = Period]
    /\ missed' = missed \cup {n}
    /\ faults' = faults + 1
    /\ UNCHANGED <<ttl, st, since>>

\* Close closes heartbeatCh; the key stays.
Close(n) ==
    /\ st[n] = "up" /\ faults < MaxFaults
    /\ st' = [st EXCEPT ![n] = "closing"]
    /\ faults' = faults + 1
    /\ UNCHANGED <<ttl, wait, missed, since>>

\* The goroutine returns, or the process crashes.
Stopped(n) ==
    /\ st' = [st EXCEPT ![n] = "down"]
    /\ since' = [since EXCEPT ![n] = 0]
    /\ UNCHANGED <<ttl, wait, missed>>

Return(n) == st[n] = "closing" /\ Stopped(n) /\ UNCHANGED faults

Crash(n) == st[n] = "up" /\ faults < MaxFaults /\ Stopped(n) /\ faults' = faults + 1

\* Time passes for Redis and for the tickers.
Tick ==
    /\ \A n \in Nodes : st[n] # "closing" /\ (st[n] = "up" => wait[n] > 0)
    /\ ttl' = [n \in Nodes |-> IF ttl[n] > 0 THEN ttl[n] - 1 ELSE 0]
    /\ wait' = [n \in Nodes |-> IF st[n] = "up" THEN wait[n] - 1 ELSE wait[n]]
    /\ since' = [n \in Nodes |-> IF since[n] < HeartbeatTTL THEN since[n] + 1 ELSE since[n]]
    /\ UNCHANGED <<st, missed, faults>>

Next ==
    \/ \E n \in Nodes : Start(n) \/ Announce(n) \/ AnnounceFails(n) \/ Close(n) \/ Return(n) \/ Crash(n)
    \/ Tick

Spec == Init /\ [][Next]_vars

\* Time goes on, and the goroutines run.
Fairness ==
    /\ WF_vars(Tick)
    /\ \A n \in Nodes : WF_vars(Announce(n)) /\ WF_vars(Return(n))

FairSpec == Spec /\ Fairness

-----------------------------------------------------------------------------

\* (registry.go:129-130) Announcing every HeartbeatTTL/2 keeps a node visible: a
\* running node whose last announcement did not fail never drops out of Redis,
\* however the ticks of the nodes interleave.
AliveVisible == \A n \in Nodes : st[n] = "up" /\ n \notin missed => ttl[n] > 0

\* Peers see a node that was closed or has crashed for less than HeartbeatTTL
\* longer, even if its ticker won the last select.
GoneWithinTTL == \A n \in Nodes : st[n] = "down" /\ ttl[n] > 0 => since[n] < HeartbeatTTL

\* The inductive strengthening of the two: key and ticker keep pace, and the rest
\* of a stopped node's key plus the time since are at most HeartbeatTTL.
HeartbeatInv ==
    /\ TypeOK
    /\ \A n \in Nodes : st[n] # "down" => wait[n] <= Period
    /\ \A n \in Nodes : st[n] # "down" /\ n \notin missed =>
          ttl[n] >= wait[n] + (HeartbeatTTL - Period)
    /\ \A n \in Nodes : st[n] = "down" => ttl[n] + since[n] <= HeartbeatTTL \/ ttl[n] = 0

\* A node that keeps running becomes visible again after failed announcements.
VisibleAgain == \A n \in Nodes : (st[n] = "up") ~> (ttl[n] > 0 \/ st[n] # "up")

=============================================================================
