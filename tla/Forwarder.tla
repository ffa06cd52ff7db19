----------------------------- MODULE Forwarder -----------------------------
(***************************************************************************)
(* The gRPC interceptor of internal/forwarder/forwarder.go on every node:  *)
(* SendMessage calls that nodes make to each other on behalf of requests.  *)
(*                                                                         *)
(* `calls` holds every execution of handle(), in the order they began; a   *)
(* forwarded call is a new execution on the remote node, the `child` its   *)
(* caller waits for.  When the caller gives up (lost connection, deadline) *)
(* the remote execution goes on by itself.  The mailbox handler behind the *)
(* interceptor is external: it delivers to deliver_to if that is set and   *)
(* to recipient_ids otherwise, as the relay's own SendMessage does.        *)
(***************************************************************************)
EXTENDS Integers, Sequences, FiniteSets

CONSTANTS
    Nodes, Users,
    NoNode,         \* Lookup finds no owner
    MaxRequests,    \* SendMessage calls from clients
    MaxCalls,       \* executions in all: stands for the deadline of the context
    MaxFaults,      \* failed lookups, forwards and deliveries
    MaxMoves        \* changes of a recipient's owner while requests run

VARIABLES
    route,      \* [Users -> Nodes \cup {NoNode}]: what Lookup answers
    calls,      \* the executions of handle()
    conns,      \* [Nodes -> SUBSET Nodes]: the pooled connections of each node
    delivered,  \* [Requests -> [Users -> [Nodes -> Nat]]]: copies written
    failed,     \* [Requests -> Nat]: forwards that ended in an error
    faults, moves

vars == <<route, calls, conns, delivered, failed, faults, moves>>

ASSUME ForwarderAssumption == NoNode \notin Nodes /\ MaxRequests \in Nat /\ MaxCalls \in Nat

Requests == 1..MaxRequests
NoCall == 0
Nothing == [n \in Nodes |-> {}]

\* One execution: its request, the groups not yet forwarded (remoteByAddr),
\* localRecipients, and the remote execution being waited for: where, which,
\* and whether the connection it runs on has been closed.
Frame(r, n, R, D) ==
    [req |-> r, node |-> n, recips |-> R, deliverTo |-> D, pc |-> "classify",
     groups |-> Nothing, local |-> {}, target |-> NoNode, child |-> NoCall, cut |-> FALSE]

\* Whom the execution answers for.
Scope(f) == IF f.deliverTo # {} THEN f.deliverTo ELSE f.recips

Issued == Cardinality({calls[c].req : c \in DOMAIN calls})

Running(c, pc) == c \in DOMAIN calls /\ calls[c].pc = pc

Init ==
    /\ route \in [Users -> Nodes \cup {NoNode}]
    /\ calls = <<>>
    /\ conns = Nothing
    /\ delivered = [r \in Requests |-> [u \in Users |-> [n \in Nodes |-> 0]]]
    /\ failed = [r \in Requests |-> 0]
    /\ faults = 0 /\ moves = 0

-----------------------------------------------------------------------------

\* A client calls SendMessage on node n.
Arrive(n, R) ==
    /\ Issued < MaxRequests /\ Len(calls) < MaxCalls
    /\ calls' = Append(calls, Frame(Issued + 1, n, R, {}))
    /\ UNCHANGED <<route, conns, delivered, failed, faults, moves>>

\* The loop over RecipientIds.  `bad` are those whose Lookup or ResolveNode
\* fails; like those of this node and of none, they are delivered here.
Classify(c, bad) ==
    /\ Running(c, "classify")
    /\ bad = {} \/ faults < MaxFaults
    /\ LET f == calls[c]
       IN calls' = [calls EXCEPT ![c] = [f EXCEPT
             !.pc = "split",
             !.local = {u \in f.recips : u \in bad \/ route[u] \in {NoNode, f.node}},
             !.groups = [n \in Nodes |-> {u \in f.recips \ bad : n # f.node /\ route[u] = n}]]]
    /\ faults' = IF bad = {} THEN faults ELSE faults + 1
    /\ UNCHANGED <<route, conns, delivered, failed, moves>>

\* forward() up to the remote SendMessage: dial (or reuse) the connection and
\* start an execution there with deliver_to set to the group.
Forward(c, n) ==
    /\ Running(c, "split") /\ calls[c].groups[n] # {}
    /\ Len(calls) < MaxCalls
    /\ calls' = Append([calls EXCEPT ![c].pc = "wait", ![c].target = n,
                                     ![c].child = Len(calls) + 1],
                       Frame(calls[c].req, n, calls[c].recips, calls[c].groups[n]))
    /\ conns' = [conns EXCEPT ![calls[c].node] = @ \cup {n}]
    /\ UNCHANGED <<route, delivered, failed, faults, moves>>

\* (variant) a forwarded group is delivered locally as well.
ForwardedKept(f) ==
    [f EXCEPT !.pc = "split", !.groups[f.target] = {}, !.target = NoNode,
              !.child = NoCall, !.cut = FALSE, !.local = @ \cup f.groups[f.target]]

\* The group has been forwarded; the loop goes on.
Forwarded(f) ==
    [f EXCEPT !.pc = "split", !.groups[f.target] = {}, !.target = NoNode,
              !.child = NoCall, !.cut = FALSE]

\* (variant) the error of a forward is only logged.
FellBackNot(f) == Forwarded(f)

\* The forward failed: the group joins localRecipients.
FellBack(f) ==
    [Forwarded(f) EXCEPT !.local = f.local \cup f.groups[f.target]]

\* evict, when the code is Unavailable: the pooled connection is closed under
\* every other call of this node that is using it.
Evict(n, m, cs) ==
    [c \in DOMAIN cs |-> IF cs[c].node = n /\ cs[c].pc = "wait" /\ cs[c].target = m
                         THEN [cs[c] EXCEPT !.cut = TRUE] ELSE cs[c]]

ForwardError(c, f, unavailable) ==
    LET cs == [calls EXCEPT ![c] = FellBack(f)]
    IN /\ calls' = IF unavailable THEN Evict(f.node, f.target, cs) ELSE cs
       /\ conns' = IF unavailable THEN [conns EXCEPT ![f.node] = @ \ {f.target}] ELSE conns
       /\ failed' = [failed EXCEPT ![f.req] = @ + 1]

\* The call never reaches the remote node: it is down, the deadline passes
\* (the bound on calls), or dial fails.
ForwardFails(c, n, unavailable) ==
    /\ Running(c, "split") /\ calls[c].groups[n] # {}
    /\ faults < MaxFaults \/ Len(calls) = MaxCalls
    /\ ForwardError(c, [calls[c] EXCEPT !.target = n], unavailable)
    /\ faults' = faults + 1
    /\ UNCHANGED <<route, delivered, moves>>

\* (variant) an error answered by the remote node is not handled.
ReturnOk(c, unavailable) ==
    /\ Running(c, "wait") /\ ~calls[c].cut
    /\ calls[calls[c].child].pc = "ok"
    /\ calls' = [calls EXCEPT ![c] = Forwarded(calls[c])]
    /\ UNCHANGED <<route, conns, failed, delivered, faults, moves>>

\* The answer of the remote node arrives.
Return(c, unavailable) ==
    /\ Running(c, "wait") /\ ~calls[c].cut
    /\ LET f == calls[c]
       IN \/ /\ calls[f.child].pc = "ok"
             /\ calls' = [calls EXCEPT ![c] = Forwarded(f)]
             /\ UNCHANGED <<conns, failed>>
          \/ /\ calls[f.child].pc = "error"
             /\ ForwardError(c, f, unavailable)
    /\ UNCHANGED <<route, delivered, faults, moves>>

\* The call is lost while the remote node works on it: the connection breaks
\* or was closed by another request, or the deadline passes.
Lose(c, unavailable) ==
    /\ Running(c, "wait")
    /\ IF calls[c].cut THEN ~unavailable /\ UNCHANGED faults
                       ELSE faults < MaxFaults /\ faults' = faults + 1
    /\ ForwardError(c, calls[c], unavailable)
    /\ UNCHANGED <<route, delivered, moves>>

\* Nothing local: the synthetic answer.
AnswerForwarded(c) ==
    /\ Running(c, "split") /\ calls[c].groups = Nothing
    /\ calls[c].local = {}
    /\ calls' = [calls EXCEPT ![c].pc = "ok"]
    /\ UNCHANGED <<route, conns, delivered, failed, faults, moves>>

\* The mailbox handler gets recipient_ids = localRecipients and deliver_to as
\* the request had it; it delivers to all or fails having reached some.
DeliverLocal(c, got) ==
    /\ Running(c, "split") /\ calls[c].groups = Nothing
    /\ calls[c].local # {}
    /\ LET f == calls[c]
           targets == Scope([f EXCEPT !.recips = f.local])
       IN /\ got \subseteq targets
          /\ got = targets \/ faults < MaxFaults
          /\ calls' = [calls EXCEPT ![c].pc = IF got = targets THEN "ok" ELSE "error"]
          /\ faults' = IF got = targets THEN faults ELSE faults + 1
          /\ delivered' = [delivered EXCEPT ![f.req] = [u \in Users |-> [n \in Nodes |->
                @[u][n] + IF u \in got /\ n = f.node THEN 1 ELSE 0]]]
    /\ UNCHANGED <<route, conns, failed, moves>>

\* The interceptor.
Handle(c) ==
    \/ \E bad \in SUBSET Users : bad \subseteq calls[c].recips /\ Classify(c, bad)
    \/ \E n \in Nodes : Forward(c, n)
    \/ \E n \in Nodes, e \in BOOLEAN : ForwardFails(c, n, e)
    \/ \E e \in BOOLEAN : Return(c, e) \/ Lose(c, e)
    \/ AnswerForwarded(c)
    \/ \E got \in SUBSET Users : DeliverLocal(c, got)

\* Forwarder.Close on a node that shuts down.
Close(n) ==
    /\ conns[n] # {} /\ faults < MaxFaults
    /\ conns' = [conns EXCEPT ![n] = {}]
    /\ calls' = [c \in DOMAIN calls |-> IF calls[c].node = n /\ calls[c].pc = "wait"
                                        THEN [calls[c] EXCEPT !.cut = TRUE] ELSE calls[c]]
    /\ faults' = faults + 1
    /\ UNCHANGED <<route, delivered, failed, moves>>

\* The registry changes its mind about a recipient.
Move(u, n) ==
    /\ moves < MaxMoves /\ n # route[u]
    /\ moves' = moves + 1
    /\ route' = [route EXCEPT ![u] = n]
    /\ UNCHANGED <<calls, conns, delivered, failed, faults>>

Next ==
    \/ \E n \in Nodes, R \in (SUBSET Users) \ {{}} : Arrive(n, R)
    \/ \E c \in DOMAIN calls : Handle(c)
    \/ \E n \in Nodes : Close(n)
    \/ \E u \in Users, n \in Nodes \cup {NoNode} : Move(u, n)

Spec == Init /\ [][Next]_vars

\* Lookups, RPCs and the handler return (their contexts have deadlines).
FairSpec == Spec /\ \A c \in 1..MaxCalls : WF_vars(c \in DOMAIN calls /\ Handle(c))

-----------------------------------------------------------------------------

Reached(r, u) == \E n \in Nodes : delivered[r][u][n] > 0

\* No recipient is lost: whenever handle() answers without an error, everyone
\* that execution answers for has a copy on some node, whatever lookups, forwards
\* and remote handlers failed on the way and whoever moved meanwhile.
NoLoss ==
    \A c \in DOMAIN calls : calls[c].pc = "ok" => \A u \in Scope(calls[c]) : Reached(calls[c].req, u)

\* The recipients of a request, and whether they have one owner.
RecipientsOf(r) == UNION {calls[c].recips : c \in {d \in DOMAIN calls : calls[d].req = r}}
OneOwner(r) == \A u, v \in RecipientsOf(r) : route[u] = route[v]

Copies(r, u) == Cardinality({copy \in Nodes \X (1..MaxCalls) : copy[2] <= delivered[r][u][copy[1]]})

\* When the recipients of a request have one owner, every copy beyond the first is
\* paid for by a failed forward (the fallback to local delivery at line 104).
CopiesPaidFor ==
    moves = 0 => \A r \in Requests : OneOwner(r) =>
        \A u \in Users : Copies(r, u) <= 1 + failed[r]

\* Without faults a recipient with an owner is delivered on that owner's node
\* only, through however many nodes the request goes.
DeliveredAtOwner ==
    faults = 0 /\ moves = 0 => \A r \in Requests, u \in Users, n \in Nodes :
        delivered[r][u][n] > 0 /\ route[u] # NoNode => n = route[u]

\* There are no copies without a reason: when the recipients of a request have one
\* owner, every copy beyond the first is paid for by a failed forward, and without
\* faults a recipient is delivered on the owner's node only.
CopiesJustified == CopiesPaidFor /\ DeliveredAtOwner

Frames ==
    [req : Requests, node : Nodes, recips : SUBSET Users, deliverTo : SUBSET Users,
     pc : {"classify", "split", "wait", "ok", "error"}, groups : [Nodes -> SUBSET Users],
     local : SUBSET Users, target : Nodes \cup {NoNode}, child : Nat, cut : BOOLEAN]

TypeOK ==
    /\ route \in [Users -> Nodes \cup {NoNode}]
    /\ calls \in Seq(Frames)
    /\ conns \in [Nodes -> SUBSET Nodes]
    /\ delivered \in [Requests -> [Users -> [Nodes -> Nat]]]
    /\ failed \in [Requests -> Nat]
    /\ faults \in Nat /\ moves \in Nat

\* The inductive invariant behind NoLoss.  An execution f, among executions cs and
\* with copies D, has every recipient in one of three places: to be delivered
\* here, in a group to be forwarded, or reached; the execution it waits for
\* answers for the group it has been sent.
Accounted(f, cs, D) ==
    /\ f.deliverTo \subseteq f.recips /\ \A n \in Nodes : f.groups[n] \subseteq f.recips
    /\ f.pc \in {"split", "wait"} => \A u \in f.recips :
          \/ u \in f.local
          \/ \E n \in Nodes : u \in f.groups[n]
          \/ \E n \in Nodes : D[f.req][u][n] > 0
    /\ f.pc = "wait" =>
          /\ f.target \in Nodes /\ f.child \in DOMAIN cs
          /\ cs[f.child].req = f.req /\ cs[f.child].deliverTo = f.groups[f.target]
          /\ f.groups[f.target] # {}
    /\ f.pc = "ok" => \A u \in Scope(f) : \E n \in Nodes : D[f.req][u][n] > 0

CoverInv == TypeOK /\ \A c \in DOMAIN calls : Accounted(calls[c], calls, delivered)

\* The inductive invariant behind DeliveredAtOwner: while nothing has failed, no
\* call is cut or in error, and each delivers what its node owns.
AtHome(f, rt) ==
    /\ ~f.cut /\ f.pc # "error"
    /\ \A u \in f.deliverTo : rt[u] = f.node
    /\ \A u \in f.local : rt[u] \in {NoNode, f.node}
    /\ \A n \in Nodes : \A u \in f.groups[n] : rt[u] = n

HomeInv ==
    faults = 0 /\ moves = 0 => DeliveredAtOwner /\ \A c \in DOMAIN calls : AtHome(calls[c], route)

\* The inductive invariant behind CopiesPaidFor.  The executions of a request have
\* its recipients, and one of them is the client's; requests are numbered without
\* gaps; copies were written by an execution that has ended.
Delivers(f) == IF f.deliverTo = {} THEN f.local ELSE f.deliverTo

Numbered ==
    /\ {calls[c].req : c \in DOMAIN calls} = 1..Issued
    /\ \A c, d \in DOMAIN calls : calls[c].req = calls[d].req =>
          /\ calls[c].recips = calls[d].recips
          /\ calls[c].deliverTo = {} /\ calls[d].deliverTo = {} => c = d
    /\ \A r \in Requests, u \in Users, n \in Nodes : delivered[r][u][n] > 0 =>
          \E c \in DOMAIN calls : /\ calls[c].req = r /\ calls[c].node = n
                                  /\ calls[c].pc \in {"ok", "error"} /\ u \in Delivers(calls[c])

Together(R, rt) == \A u, v \in R : rt[u] = rt[v]

\* Until an owner changes, a group belongs to the node it is forwarded to and
\* not to localRecipients.  If the recipients have one owner there is at most one
\* forwarded execution; it runs at the owner and forwards nothing, and it shares
\* recipients with the client's only after a failure.
Grouped(f, rt) == \A n \in Nodes : \A u \in f.groups[n] : rt[u] = n /\ n # f.node /\ u \notin f.local

Single(f, rt) == f.deliverTo # {} => f.groups = Nothing /\ \A u \in f.recips : rt[u] = f.node

Paired(f, g, F) ==      \* the client's execution and the forwarded one
    /\ f.pc # "classify" /\ (f.pc = "wait" \/ f.groups = Nothing)
    /\ f.node # g.node
    /\ f.local \cap g.deliverTo # {} => F[f.req] >= 1

PaidInv ==
    moves = 0 => \A c \in DOMAIN calls :
        /\ Grouped(calls[c], route)
        /\ Together(calls[c].recips, route) =>
              /\ Single(calls[c], route)
              /\ \A u \in Users, n \in Nodes : delivered[calls[c].req][u][n] <= 1
              /\ \A d \in DOMAIN calls : calls[c].req = calls[d].req /\ calls[d].deliverTo # {} =>
                    IF calls[c].deliverTo # {} THEN c = d ELSE Paired(calls[c], calls[d], failed)

\* Every execution ends: a request gets its answer.
Answered == \A c \in 1..MaxCalls : (c \in DOMAIN calls) ~> (c \in DOMAIN calls /\ calls[c].pc \in {"ok", "error"})

\* (from forwarder.go:10-12) deliver_to scopes a forwarded message to the
\* recipients of the remote node: that node sends it on to nobody else.
ForwardScoped ==
    \A c \in DOMAIN calls : calls[c].deliverTo # {} => \A n \in Nodes : calls[c].groups[n] \subseteq calls[c].deliverTo
=============================================================================
