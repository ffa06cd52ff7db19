---------------------------- MODULE Membership ----------------------------
(***************************************************************************)
(* What nodes know of each other: presence in Redis (Heartbeat) and the    *)
(* domains (DomainRegistry), which share no state.                         *)
(***************************************************************************)
EXTENDS Naturals

CONSTANTS
    Announcers, HeartbeatTTL, MaxLost,          \* of Heartbeat
    Members, Names, Calls, MaxDomFaults         \* of DomainRegistry

VARIABLES
    ttl, st, wait, missed, since, lost,                     \* Heartbeat
    domRoute, default, dbs, call, visible, domFaults        \* DomainRegistry

presenceVars == <<ttl, st, wait, missed, since, lost>>
domainVars == <<domRoute, default, dbs, call, visible, domFaults>>

Presence == INSTANCE Heartbeat WITH Nodes <- Announcers, MaxFaults <- MaxLost, faults <- lost
\* No relay is configured: with one, a lookup always finds a node.
Domains == INSTANCE DomainRegistry WITH
    Nodes <- Members, Domains <- Names, HasRelay <- FALSE, RelayNode <- 0, MaxFaults <- MaxDomFaults,
    route <- domRoute, faults <- domFaults

ASSUME MembershipAssumption == Presence!ConstantsOK /\ Domains!ConstantsOK

-----------------------------------------------------------------------------

\* What peers see of a node is true, whatever announcements fail: it is visible
\* while it runs, and not for HeartbeatTTL after it was closed or has crashed.
PresenceTrue == Presence!AliveVisible /\ Presence!GoneWithinTTL

\* What a lookup is told is right, whatever failed or crashed in between: once a
\* default domain is set in Redis every lookup succeeds, and Discover returns the
\* address of the owner, at least while it has a heartbeat.
LookupsRight == Domains!DefaultResolves /\ Domains!DiscoverAddress

\* Store and Redis agree after any crash, failure or other call: a domain that
\* RegisterDomain acknowledged is in the store of the node and has a route, and no
\* store lists a domain that the cluster does not know.
RoutesStay == Domains!RegisteredStays /\ Domains!ListedIsRouted
=============================================================================
