----------------------------- MODULE MCProgress -----------------------------
(***************************************************************************)
(* What must happen in the end, for model checking: the relay (RelayQueue),*)
(* the life of a process (NodeLife), presence (Heartbeat), forwarding      *)
(* (Forwarder) and the listeners (Listener), each with the fairness of its *)
(* own module.  The modules share no variables; the one that part names    *)
(* moves, and the others stay as they began.                               *)
(***************************************************************************)
EXTENDS RelayQueue

CONSTANTS
    Parts,
    Nodes, Users, NoNode,           \* of the forwarder
    Calls, Closer, None             \* of the listeners

VARIABLES
    part,
    mode, at, up, runs, nodeID, key, nodes, keys, handlers, serveErr, known, signed,    \* NodeLife
    ttl, st, wait, missed, since, lost,                                                 \* Heartbeat
    route, calls, conns, delivered, failed, faults, moves,                              \* Forwarder
    running, lis, registered, loop, current, file, pc, target, result, broke, breaks    \* Listener

nodeVars == <<mode, at, up, runs, nodeID, key, nodes, keys, handlers, serveErr, known, signed>>
presenceVars == <<ttl, st, wait, missed, since, lost>>
forwardVars == <<route, calls, conns, delivered, failed, faults, moves>>
listenerVars == <<running, lis, registered, loop, current, file, pc, target, result, broke, breaks>>

-----------------------------------------------------------------------------

\* A node with every part, started twice; and one with a temporary store and a
\* new identity at each of three starts.
NodeConf ==
    [full  |-> [configured |-> {"redis", "relay", "dispatcher", "metrics", "smtp", "lmtp"},
                id |-> "n1", temp |-> FALSE, starts |-> 2],
     small |-> [configured |-> {"dispatcher"}, id |-> "", temp |-> TRUE, starts |-> 3]]

Node(conf) == INSTANCE NodeLife WITH
    Configured <- conf.configured, NodeID <- conf.id, Temp <- conf.temp, MaxStarts <- conf.starts,
    MaxHandlers <- 2, starts <- runs, delivered <- signed

Members == {1, 2}
Presence == INSTANCE Heartbeat WITH Nodes <- Members, HeartbeatTTL <- 4, MaxFaults <- 3, faults <- lost

MaxCalls == 3
Forward == INSTANCE Forwarder WITH MaxRequests <- 1, MaxFaults <- 1, MaxMoves <- 1

Listening == INSTANCE Listener WITH
    Network <- "tcp", Shutdown <- "graceful", MaxFaults <- 1, faults <- breaks

-----------------------------------------------------------------------------

ProgressInit ==
    /\ part \in Parts
    /\ Init /\ Node(NodeConf.full)!Init /\ Presence!Init /\ Forward!Init /\ Listening!Init
    /\ part # "forward" => \A u \in Users : route[u] = NoNode

RelayMoves == part = "relay" /\ UNCHANGED <<part, nodeVars, presenceVars, forwardVars, listenerVars>>
NodeMoves(p) == part = p /\ UNCHANGED <<part, vars, presenceVars, forwardVars, listenerVars>>
PresenceMoves == part = "presence" /\ UNCHANGED <<part, vars, nodeVars, forwardVars, listenerVars>>
ForwardMoves == part = "forward" /\ UNCHANGED <<part, vars, nodeVars, presenceVars, listenerVars>>
ListenerMoves == part = "listener" /\ UNCHANGED <<part, vars, nodeVars, presenceVars, forwardVars>>

RelayNext ==
    \/ \E ok \in BOOLEAN : RelayMoves /\ Start(ok)
    \/ RelayMoves /\ Stop
    \/ RelayMoves /\ Expire
    \/ RelayMoves /\ GracefulDone
    \/ RelayMoves /\ ForceStop
    \/ RelayMoves /\ QueueStopped
    \/ \E m \in Messages : RelayMoves /\ Call(m)
    \/ \E m \in Messages, gone \in BOOLEAN : RelayMoves /\ SendMessage(m, gone)
    \/ \E w \in Workers : RelayMoves /\ WorkerTake(w)
    \/ \E w \in Workers : RelayMoves /\ WorkerExit(w)
    \/ \E w \in Workers : RelayMoves /\ TimerFires(w)
    \/ \E w \in Workers : RelayMoves /\ Abort(w)
    \/ \E w \in Workers, ok \in BOOLEAN : RelayMoves /\ Send(w, ok)
    \/ \E w \in Workers : RelayMoves /\ Requeue(w)

NodeNext(p, conf) ==
    \/ NodeMoves(p) /\ Node(conf)!Launch
    \/ NodeMoves(p) /\ Node(conf)!StartNext
    \/ NodeMoves(p) /\ Node(conf)!StartFails
    \/ NodeMoves(p) /\ Node(conf)!Signal
    \/ NodeMoves(p) /\ Node(conf)!ServeFails
    \/ NodeMoves(p) /\ Node(conf)!StopNext
    \/ NodeMoves(p) /\ Node(conf)!Exit
    \/ NodeMoves(p) /\ Node(conf)!Crash
    \/ NodeMoves(p) /\ Node(conf)!HandlerBegins
    \/ NodeMoves(p) /\ Node(conf)!HandlerEnds
    \/ NodeMoves(p) /\ Node(conf)!GetNodePublicKey
    \/ NodeMoves(p) /\ Node(conf)!SignedHeaders

PresenceNext ==
    \/ \E n \in Members : PresenceMoves /\ Presence!Start(n)
    \/ \E n \in Members : PresenceMoves /\ Presence!Announce(n)
    \/ \E n \in Members : PresenceMoves /\ Presence!AnnounceFails(n)
    \/ \E n \in Members : PresenceMoves /\ Presence!Close(n)
    \/ \E n \in Members : PresenceMoves /\ Presence!Return(n)
    \/ \E n \in Members : PresenceMoves /\ Presence!Crash(n)
    \/ PresenceMoves /\ Presence!Tick

ForwardNext ==
    \/ \E n \in Nodes, R \in (SUBSET Users) \ {{}} : ForwardMoves /\ Forward!Arrive(n, R)
    \/ \E c \in DOMAIN calls : \E bad \in SUBSET calls[c].recips : ForwardMoves /\ Forward!Classify(c, bad)
    \/ \E c \in DOMAIN calls, n \in Nodes : ForwardMoves /\ Forward!Forward(c, n)
    \/ \E c \in DOMAIN calls, n \in Nodes, e \in BOOLEAN : ForwardMoves /\ Forward!ForwardFails(c, n, e)
    \/ \E c \in DOMAIN calls, e \in BOOLEAN : ForwardMoves /\ Forward!Return(c, e)
    \/ \E c \in DOMAIN calls, e \in BOOLEAN : ForwardMoves /\ Forward!Lose(c, e)
    \/ \E c \in DOMAIN calls : ForwardMoves /\ Forward!AnswerForwarded(c)
    \/ \E c \in DOMAIN calls, got \in SUBSET Users : ForwardMoves /\ Forward!DeliverLocal(c, got)
    \/ \E n \in Nodes : ForwardMoves /\ Forward!Close(n)
    \/ \E u \in Users, n \in Nodes \cup {NoNode} : ForwardMoves /\ Forward!Move(u, n)

\* No call begins once the Controller closes.
Late == Listening!Closing

ListenerNext ==
    \/ \E c \in Calls : ListenerMoves /\ ~Late /\ Listening!StartSMTP(c)
    \/ \E c \in Calls : ListenerMoves /\ ~Late /\ Listening!LookUp(c)
    \/ ListenerMoves /\ Listening!Quiet /\ Listening!LookUp(Closer)
    \/ \E c \in Calls \cup {Closer} : ListenerMoves /\ Listening!Check(c)
    \/ \E c \in Calls \cup {Closer} : ListenerMoves /\ Listening!Stop(c)
    \/ \E c \in Calls \cup {Closer} : ListenerMoves /\ Listening!CloseListener(c)
    \/ \E c \in Calls \cup {Closer} : ListenerMoves /\ Listening!Wait(c)
    \/ \E s \in Calls : ListenerMoves /\ Listening!Register(s)
    \/ \E s \in Calls : ListenerMoves /\ Listening!LoopEnds(s)
    \/ \E s \in Calls : ListenerMoves /\ Listening!Done(s)
    \/ \E s \in Calls : ListenerMoves /\ Listening!LoopBreaks(s)

ProgressNext ==
    \/ RelayNext
    \/ \E p \in DOMAIN NodeConf : NodeNext(p, NodeConf[p])
    \/ PresenceNext \/ ForwardNext \/ ListenerNext

\* The fairness of each module, for the part that moves.
NodeStops == \E p \in DOMAIN NodeConf : part = p /\ Node(NodeConf[p])!StopNext
NodeExits == \E p \in DOMAIN NodeConf : part = p /\ Node(NodeConf[p])!Exit
NodeAnswers == \E p \in DOMAIN NodeConf : part = p /\ Node(NodeConf[p])!HandlerEnds

ProgressFairness ==
    /\ \A m \in Messages : WF_vars(part = "relay" /\ \E gone \in BOOLEAN : SendMessage(m, gone))
    /\ \A w \in Workers : WF_vars(part = "relay" /\ Work(w))
    /\ WF_vars(part = "relay" /\ GracefulDone) /\ WF_vars(part = "relay" /\ QueueStopped)
    /\ WF_nodeVars(NodeStops) /\ WF_nodeVars(NodeExits) /\ WF_nodeVars(NodeAnswers)
    /\ WF_presenceVars(part = "presence" /\ Presence!Tick)
    /\ \A n \in Members : /\ WF_presenceVars(part = "presence" /\ Presence!Announce(n))
                          /\ WF_presenceVars(part = "presence" /\ Presence!Return(n))
    /\ \A c \in 1..MaxCalls : WF_forwardVars(part = "forward" /\ c \in DOMAIN calls /\ Forward!Handle(c))
    /\ \A s \in Calls : WF_listenerVars(part = "listener" /\ Listening!Accepting(s))
    /\ \A c \in Calls \cup {Closer} : WF_listenerVars(part = "listener" /\ Listening!Stopping(c))

ProgressSpec ==
    /\ ProgressInit
    /\ [][ProgressNext]_<<part, vars, nodeVars, presenceVars, forwardVars, listenerVars>>
    /\ ProgressFairness

-----------------------------------------------------------------------------

\* A stop of the relay that was asked for returns, even if its deadline never
\* passes, and every message it accepted gets its outcome, unless that deadline
\* cut the stop short.
RelayFinishes == StopReturns /\ AcceptedResolves

\* A node has what it needs while it is up: no part is up without those it uses,
\* not while the node starts, fails to start or goes down; and the store has the
\* key the node signs with, so that a receiver that asked can check what it sends.
NodeReady ==
    \A p \in DOMAIN NodeConf : part = p => /\ Node(NodeConf[p])!PartsUsedAreUp
                                           /\ Node(NodeConf[p])!KeyAgrees

\* A node told to stop, or that cannot serve, ends, unless it crashes first.
Stops == mode = "stopping" ~> mode = "down"

\* A node that stays up is seen again, however its announcements failed.
VisibleAgain == Presence!VisibleAgain

\* Every execution of handle() answers, through however many nodes a request goes.
Answered == Forward!Answered

\* A Stop that found its Server running returns, even when it was called before
\* go-smtp had recorded the listener.
ListenerStopReturns == Listening!StopReturns
=============================================================================
