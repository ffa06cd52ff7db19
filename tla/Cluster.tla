------------------------------ MODULE Cluster ------------------------------
(***************************************************************************)
(* What nodes share: presence in Redis and the domains (Membership), and   *)
(* forwarding (Forwarder).  The modules share no variables; the one that   *)
(* part names moves, and the others stay as they began.                    *)
(***************************************************************************)
EXTENDS Forwarder, Membership, Parts

-----------------------------------------------------------------------------

ClusterInit ==
    /\ part \in Parts
    /\ Init /\ Presence!Init /\ Domains!Init
    /\ part # "forward" => \A u \in Users : route[u] = NoNode

PresenceMoves == part = "presence" /\ UNCHANGED <<part, vars, domainVars>>
DomainsMove == part = "domains" /\ UNCHANGED <<part, vars, presenceVars>>
ForwardMoves == part = "forward" /\ UNCHANGED <<part, presenceVars, domainVars>>

PresenceNext ==
    \/ \E n \in Announcers : PresenceMoves /\ Presence!Start(n)
    \/ \E n \in Announcers : PresenceMoves /\ Presence!Announce(n)
    \/ \E n \in Announcers : PresenceMoves /\ Presence!AnnounceFails(n)
    \/ \E n \in Announcers : PresenceMoves /\ Presence!Close(n)
    \/ \E n \in Announcers : PresenceMoves /\ Presence!Return(n)
    \/ \E n \in Announcers : PresenceMoves /\ Presence!Crash(n)
    \/ PresenceMoves /\ Presence!Tick

DomainsNext ==
    \/ \E c \in Calls, n \in Members, d \in Names, def \in BOOLEAN :
          DomainsMove /\ Domains!RegisterDomain(c, n, d, def)
    \/ \E c \in Calls, n \in Members, d \in Names : \E t \in Members \ {n} :
          DomainsMove /\ Domains!RemapDomain(c, n, d, t)
    \/ \E c \in Calls : DomainsMove /\ Domains!SetRoute(c)
    \/ \E c \in Calls : DomainsMove /\ Domains!SetDefault(c)
    \/ \E c \in Calls : DomainsMove /\ Domains!SaveLocal(c)
    \/ \E c \in Calls : DomainsMove /\ Domains!RemapSave(c)
    \/ \E c \in Calls : DomainsMove /\ Domains!AccessFails(c)
    \/ \E n \in Members : DomainsMove /\ Domains!Crash(n)
    \/ \E n \in Members : DomainsMove /\ Domains!Presence(n)

ForwardNext ==
    \/ \E n \in Nodes, R \in (SUBSET Users) \ {{}} : ForwardMoves /\ Arrive(n, R)
    \/ \E c \in DOMAIN calls : \E bad \in SUBSET calls[c].recips : ForwardMoves /\ Classify(c, bad)
    \/ \E c \in DOMAIN calls, n \in Nodes : ForwardMoves /\ Forward(c, n)
    \/ \E c \in DOMAIN calls, n \in Nodes, e \in BOOLEAN : ForwardMoves /\ ForwardFails(c, n, e)
    \/ \E c \in DOMAIN calls, e \in BOOLEAN : ForwardMoves /\ Return(c, e)
    \/ \E c \in DOMAIN calls, e \in BOOLEAN : ForwardMoves /\ Lose(c, e)
    \/ \E c \in DOMAIN calls : ForwardMoves /\ AnswerForwarded(c)
    \/ \E c \in DOMAIN calls, got \in SUBSET Users : ForwardMoves /\ DeliverLocal(c, got)
    \/ \E n \in Nodes : ForwardMoves /\ Close(n)
    \/ \E u \in Users, n \in Nodes \cup {NoNode} : ForwardMoves /\ Move(u, n)

ClusterNext == PresenceNext \/ DomainsNext \/ ForwardNext

ClusterSpec == ClusterInit /\ [][ClusterNext]_<<part, vars, presenceVars, domainVars>>
=============================================================================
