--------------------------- MODULE DomainRegistry ---------------------------
(***************************************************************************)
(* Domains in a cluster: RegisterDomain, RemapDomain and Discover of       *)
(* internal/server/server.go over the Redis registry, which keeps routes   *)
(* in Redis and a copy in the SQL store of the node.  Calls run            *)
(* concurrently, on one node and on several, one access to Redis or to the *)
(* store at a time; nodes crash and come back with their store.  The       *)
(* presence of the nodes in Redis is what Heartbeat describes.             *)
(***************************************************************************)
EXTENDS PostgresStore

CONSTANTS
    Nodes,          \* numbers
    Domains,        \* numbers
    Calls,          \* one RegisterDomain or RemapDomain each
    HasRelay,       \* an outbound relay is configured: FallbackRegistry
    RelayNode,      \* its node id
    MaxFaults       \* bound on failed accesses and crashes

VARIABLES
    route,      \* Redis: route[d], the owner of d, 0 when there is none
    default,    \* Redis: the default domain, 0 when there is none
    dbs,        \* dbs[n]: the store of n
    call,       \* call[c]: what c does and where it is
    visible,    \* nodes with a heartbeat in Redis
    faults

vars == <<route, default, dbs, call, visible, faults>>

\* 0 stands for no node and no domain.
ConstantsOK == Nodes \subseteq Nat \ {0} /\ Domains \subseteq Nat \ {0}

Idle == [pc |-> "new", node |-> 0, name |-> 0, def |-> FALSE, target |-> 0]

Init ==
    /\ route = [d \in Domains |-> 0]
    /\ default = 0
    /\ dbs = [n \in Nodes |-> Empty]
    /\ call = [c \in Calls |-> Idle]
    /\ visible = Nodes
    /\ faults = 0

Goto(c, pc) == call' = [call EXCEPT ![c].pc = pc]

\* RegisterDomain looks into the store of its node, and there only.
RegisterDomain(c, n, d, def) ==
    /\ call[c].pc = "new"
    /\ LET existing == GetDomain(dbs[n], d)
           pc == IF existing = {} THEN "route"
                 ELSE IF \E x \in existing : x.node # n THEN "exists" ELSE "ok"
       IN call' = [call EXCEPT ![c] = [pc |-> pc, node |-> n, name |-> d, def |-> def, target |-> n]]
    /\ UNCHANGED <<route, default, dbs, visible, faults>>

\* (variant) the default is set first.
SetRouteLast(c) ==
    /\ call[c].pc = "route"
    /\ IF call[c].def /\ default # call[c].name
       THEN default' = call[c].name /\ UNCHANGED <<route, call>>
       ELSE route' = [route EXCEPT ![call[c].name] = call[c].node] /\ Goto(c, "save") /\ UNCHANGED default
    /\ UNCHANGED <<dbs, visible, faults>>

\* (variant) what is routed elsewhere is not touched, and the store is.
SetRouteUnset(c) ==
    /\ call[c].pc = "route"
    /\ Goto(c, IF call[c].def THEN "default" ELSE "save")
    /\ UNCHANGED <<route, default, dbs, visible, faults>>

\* Register: SET of the route, whoever had it.
SetRoute(c) ==
    /\ call[c].pc = "route"
    /\ route' = [route EXCEPT ![call[c].name] = call[c].node]
    /\ Goto(c, IF call[c].def THEN "default" ELSE "save")
    /\ UNCHANGED <<default, dbs, visible, faults>>

SetDefault(c) ==
    /\ call[c].pc = "default"
    /\ default' = call[c].name
    /\ Goto(c, "save")
    /\ UNCHANGED <<route, dbs, visible, faults>>

\* The store of the node; a second default is refused there.
SaveLocal(c) ==
    /\ call[c].pc = "save"
    /\ LET w == SaveDomain(dbs[call[c].node], Domain(call[c].name, call[c].node, call[c].def))
       IN dbs' = [dbs EXCEPT ![call[c].node] = w.db] /\ Goto(c, IF w.ok THEN "ok" ELSE "failed")
    /\ UNCHANGED <<route, default, visible, faults>>

\* RemapDomain reads the record, and writes it back with another node.
RemapDomain(c, n, d, target) ==
    /\ call[c].pc = "new"
    /\ LET old == GetDomain(dbs[n], d)
       IN call' = [call EXCEPT ![c] =
              [pc |-> IF old = {} THEN "notfound" ELSE "remap", node |-> n, name |-> d,
               def |-> \E x \in old : x.isDefault, target |-> target]]
    /\ UNCHANGED <<route, default, dbs, visible, faults>>

RemapSave(c) ==
    /\ call[c].pc = "remap"
    /\ LET w == SaveDomain(dbs[call[c].node], Domain(call[c].name, call[c].target, call[c].def))
       IN dbs' = [dbs EXCEPT ![call[c].node] = w.db] /\ Goto(c, IF w.ok THEN "remapped" ELSE "failed")
    /\ UNCHANGED <<route, default, visible, faults>>

\* An access to Redis or to the store fails: the call returns the error.
Busy == {"route", "default", "save", "remap"}
AccessFails(c) ==
    /\ call[c].pc \in Busy /\ faults < MaxFaults
    /\ Goto(c, "failed")
    /\ faults' = faults + 1
    /\ UNCHANGED <<route, default, dbs, visible>>

\* A node crashes with its calls, and is back at once; Redis and store remain.
Crash(n) ==
    /\ faults < MaxFaults
    /\ \E c \in Calls : call[c].node = n /\ call[c].pc \in Busy
    /\ call' = [c \in Calls |-> IF call[c].node = n /\ call[c].pc \in Busy
                               THEN [call[c] EXCEPT !.pc = "lost"] ELSE call[c]]
    /\ faults' = faults + 1
    /\ UNCHANGED <<route, default, dbs, visible>>

\* The heartbeat of a node expires or comes back.
Presence(n) ==
    /\ visible' = IF n \in visible THEN visible \ {n} ELSE visible \cup {n}
    /\ UNCHANGED <<route, default, dbs, call, faults>>

Step(c) == SetRoute(c) \/ SetDefault(c) \/ SaveLocal(c) \/ RemapSave(c) \/ AccessFails(c)

Next ==
    \/ \E c \in Calls : Step(c)
    \/ \E c \in Calls, n \in Nodes, d \in Domains :
          \/ \E def \in BOOLEAN : RegisterDomain(c, n, d, def)
          \/ \E t \in Nodes \ {n} : RemapDomain(c, n, d, t)
    \/ \E n \in Nodes : Crash(n) \/ Presence(n)

Spec == Init /\ [][Next]_vars

-----------------------------------------------------------------------------

NotFound == 0

\* Lookup of the Redis registry: the route, then the default's.
LookupRedis(d) ==
    IF route[d] # 0 THEN route[d]
    ELSE IF default = 0 \/ default = d THEN NotFound ELSE route[default]

\* FallbackRegistry.Lookup.
Lookup(d) ==
    LET id == LookupRedis(d) IN IF id = NotFound /\ HasRelay THEN RelayNode ELSE id

\* Registry.ResolveNode of Redis: the own address, or that in the heartbeat key; a
\* node stands for its address.
ResolveRedis(n, id) == IF id = n \/ id \in visible THEN id ELSE NotFound

\* Discover on node n: only a registry that is itself a NodeResolver is asked,
\* which the FallbackRegistry is not, and an error leaves the own address.
Discover(n, d) ==
    LET id == Lookup(d)
        addr == IF id = n \/ HasRelay \/ ResolveRedis(n, id) = NotFound THEN n ELSE ResolveRedis(n, id)
    IN IF id = NotFound THEN [id |-> NotFound, addr |-> NotFound] ELSE [id |-> id, addr |-> addr]

-----------------------------------------------------------------------------

\* Once a default domain is set in Redis, every lookup of every domain succeeds,
\* whatever failed or crashed in between: its route is written first and stays.
DefaultResolves == default # 0 => \A d \in Domains : LookupRedis(d) # NotFound

\* What a call of RegisterDomain acknowledged is not lost: the domain is in the
\* store of the node and has a route, after any crash, failure or other call.
RegisteredStays ==
    \A c \in Calls : call[c].pc = "ok" =>
        GetDomain(dbs[call[c].node], call[c].name) # {} /\ route[call[c].name] # 0

\* A node's store never lists a domain that the cluster does not know.
ListedIsRouted ==
    \A n \in Nodes : \A x \in dbs[n].domains : route[x.name] # 0

\* (server.go:66-68) RegisterDomain returns AlreadyExists if the domain is owned
\* by a different node: no two nodes have both been told that a domain is theirs.
ExclusiveClaim ==
    \A c, e \in Calls : call[c].pc = "ok" /\ call[e].pc = "ok" /\ call[c].name = call[e].name =>
        call[c].node = call[e].node

\* (registry.go:35) Register atomically claims target: a registration that
\* failed leaves no route to the node that nobody acknowledged.
AtomicClaim ==
    \A c \in Calls : call[c].pc = "failed" /\ call[c].target = call[c].node
                     /\ route[call[c].name] = call[c].node =>
        \E e \in Calls \ {c} : call[e].name = call[c].name

\* (server.go:226) RemapDomain reassigns a domain to a different node: the
\* lookups find that node afterwards.
RemapTakesEffect ==
    [][\A c \in Calls : RemapSave(c) /\ call'[c].pc = "remapped" => Lookup(call[c].name)' = call[c].target]_vars

\* The rows of a store, and where a call may be.
DomainRows == [name : Domains, node : Nodes, isDefault : BOOLEAN]
Progress == {"new", "route", "default", "save", "ok", "exists", "remap", "remapped", "notfound", "failed", "lost"}
CallStates == [pc : Progress, node : Nodes \cup {0}, name : Domains \cup {0}, def : BOOLEAN, target : Nodes \cup {0}]

\* The types of what is stored, and of the calls.
TypeOK ==
    /\ route \in [Domains -> Nodes \cup {0}]
    /\ default \in Domains \cup {0}
    /\ dbs \in [Nodes -> [nodes : SUBSET {}, domains : SUBSET DomainRows, users : SUBSET {}, jobs : SUBSET {}]]
    /\ call \in [Calls -> CallStates]
    /\ \A c \in Calls : call[c].pc # "new" => call[c].node \in Nodes /\ call[c].name \in Domains /\ call[c].target \in Nodes

\* The store db has a row for d.
Lists(db, d) == \E x \in db.domains : x.name = d

\* The inductive invariant: the default has a route, and so has whatever a store
\* lists or a call has taken past the write of its route; a domain that a call
\* found or saved is in the store.
DomainInv ==
    /\ TypeOK
    /\ default # 0 => route[default] # 0
    /\ ListedIsRouted
    /\ \A c \in Calls :
          /\ call[c].pc \in {"default", "save"} => route[call[c].name] # 0
          /\ call[c].pc \in {"ok", "remap"} => Lists(dbs[call[c].node], call[c].name)

\* (registry.go:40-41) Discover returns the real owning-node address rather than
\* the local one, at least while the owner has a heartbeat.
DiscoverAddress ==
    \A n \in Nodes, d \in Domains :
        LET i == Discover(n, d) IN i.id \in visible => i.addr = i.id
=============================================================================
