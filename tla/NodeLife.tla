------------------------------ MODULE NodeLife ------------------------------
(***************************************************************************)
(* The life of a node's process: postbox serve (cmd/serve.go, runServe)    *)
(* brings the parts up in order, NewController among them                  *)
(* (internal/server/node.go), serves, and takes them down; it may fail at  *)
(* any step, crash at any moment and be started again.  EnsureKey          *)
(* (internal/nodekey) gives it the key that signs webhook deliveries, and  *)
(* receivers check them with the key GetNodePublicKey told them.           *)
(*                                                                         *)
(* What the parts do while they are up is in modules of their own.         *)
(***************************************************************************)
EXTENDS Integers, Sequences

CONSTANTS
    Configured,         \* the optional parts the configuration asks for
    NodeID,             \* "" for a new UUID at each start
    Temp,               \* TRUE: the store is in memory
    MaxStarts, MaxHandlers

VARIABLES
    mode,       \* "down", "starting", "serving", "stopping"
    at,         \* the next step of the order that mode follows
    up,         \* the parts that are up
    starts,     \* how often the process was started
    nodeID, key,        \* of this process
    nodes,      \* the store's node records: id -> key
    keys,       \* keys generated so far
    handlers,   \* gRPC calls under way
    serveErr,   \* grpcSrv.Serve returned an error
    known,      \* the key the receiver was told, and by which process
    delivered   \* the last delivery: the key that signed it, by which process

vars == <<mode, at, up, starts, nodeID, key, nodes, keys, handlers, serveErr, known, delivered>>

Unset == 0

StartOrder == <<"redis", "store", "key", "mailbox", "presence", "relay", "forwarder", "heartbeat",
                "dispatcher", "mbxserver", "metrics", "listen", "smtp", "lmtp", "grpc">>

\* runServe's GracefulStop and deferred calls, and Close of the controller.
StopOrderSwapped == <<"grpc", "metrics", "heartbeat", "forwarder", "relay", "smtp", "lmtp",
                      "mailbox", "dispatcher", "store", "redis">>
StopOrder == <<"grpc", "metrics", "heartbeat", "forwarder", "relay", "smtp", "lmtp",
               "dispatcher", "mailbox", "store", "redis">>

Always == {"store", "key", "mailbox", "mbxserver", "listen", "grpc"}
Optional == {"redis", "relay", "dispatcher", "metrics", "smtp", "lmtp"}

\* A part that follows from others: presence and its refresh need Redis, and
\* the forwarder is there when Redis or the relay tells where nodes are.
Wanted ==
    Always \cup (Configured \cap Optional)
        \cup (IF "redis" \in Configured THEN {"presence", "heartbeat"} ELSE {})
        \cup (IF {"redis", "relay"} \cap Configured # {} THEN {"forwarder"} ELSE {})

\* Calls that return an error at start-up; what is left only allocates.
Fallible == {"redis", "store", "key", "mailbox", "presence", "relay", "dispatcher", "mbxserver", "metrics",
             "listen", "smtp", "lmtp"}

Init ==
    /\ mode = "down" /\ at = 1 /\ up = {}
    /\ starts = 0 /\ nodeID = Unset /\ key = Unset
    /\ nodes = <<>> /\ keys = 0
    /\ handlers = 0 /\ serveErr = FALSE
    /\ known = [key |-> Unset, by |-> 0] /\ delivered = [key |-> Unset, by |-> 0]

\* What is left when the process has ended.
Ended ==
    /\ mode' = "down" /\ at' = 1 /\ up' = {} /\ handlers' = 0 /\ serveErr' = FALSE
    /\ nodeID' = Unset /\ key' = Unset
    /\ nodes' = IF Temp THEN <<>> ELSE nodes
    /\ UNCHANGED <<starts, keys, known, delivered>>

Launch ==
    /\ mode = "down" /\ starts < MaxStarts
    /\ starts' = starts + 1
    /\ mode' = "starting"
    /\ nodeID' = IF NodeID = "" THEN starts + 1 ELSE 1
    /\ UNCHANGED <<at, up, key, nodes, keys, handlers, serveErr, known, delivered>>

\* SaveNode: the store keeps a field that is given empty.
SaveNode(id, k) == [i \in DOMAIN nodes \cup {id} |-> IF i = id /\ k # Unset THEN k ELSE nodes[i]]

\* EnsureKey returns the node as given when it has a key.
EnsureKey(given) ==
    IF given # Unset THEN key' = given /\ UNCHANGED <<keys, nodes>>
    ELSE /\ keys' = keys + 1
         /\ key' = keys + 1
         /\ nodes' = SaveNode(nodeID, keys + 1)

\* One step of start-up; NewController gives EnsureKey a node with an id only.
StartNext ==
    /\ mode = "starting"
    /\ LET step == StartOrder[at]
       IN /\ up' = IF step \in Wanted THEN up \cup {step} ELSE up
          /\ IF step = "key" THEN EnsureKey(Unset) ELSE UNCHANGED <<key, keys, nodes>>
          /\ IF at = Len(StartOrder) THEN mode' = "serving" /\ at' = 1
             ELSE mode' = mode /\ at' = at + 1
    /\ UNCHANGED <<starts, nodeID, handlers, serveErr, known, delivered>>

\* A step that fails.  Once there is a controller its deferred Close runs; when
\* NewController itself fails the process ends with what was up.
StartFails ==
    /\ mode = "starting" /\ StartOrder[at] \in Fallible \cap Wanted
    /\ IF "dispatcher" \in {StartOrder[i] : i \in 1 .. at - 1}
       THEN /\ mode' = "stopping" /\ at' = 2
            /\ UNCHANGED <<up, starts, nodeID, key, nodes, keys, handlers, serveErr, known, delivered>>
       ELSE Ended

\* SIGINT or SIGTERM: GracefulStop, and the deferred calls after it.
Signal ==
    /\ mode = "serving"
    /\ mode' = "stopping" /\ at' = 1
    /\ UNCHANGED <<up, starts, nodeID, key, nodes, keys, handlers, serveErr, known, delivered>>

\* Serve returns an error: the deferred calls run at once, with calls under way.
ServeFails ==
    /\ mode = "serving"
    /\ mode' = "stopping" /\ at' = 2 /\ serveErr' = TRUE
    /\ UNCHANGED <<up, starts, nodeID, key, nodes, keys, handlers, known, delivered>>

\* (variant) a part that was never started is waited for
StopWaits ==
    /\ mode = "stopping" /\ at <= Len(StopOrder)
    /\ StopOrder[at] = "grpc" => handlers = 0
    /\ StopOrder[at] \in up
    /\ up' = up \ {StopOrder[at]}
    /\ at' = at + 1
    /\ UNCHANGED <<mode, starts, nodeID, key, nodes, keys, handlers, serveErr, known, delivered>>

\* One step of the way down; GracefulStop waits for the calls under way.
StopNext ==
    /\ mode = "stopping" /\ at <= Len(StopOrder)
    /\ StopOrder[at] = "grpc" => handlers = 0
    /\ up' = up \ {StopOrder[at]}
    /\ at' = at + 1
    /\ UNCHANGED <<mode, starts, nodeID, key, nodes, keys, handlers, serveErr, known, delivered>>

Exit == mode = "stopping" /\ at > Len(StopOrder) /\ Ended

Crash == mode # "down" /\ Ended

\* gRPC calls begin while the server is up and GracefulStop has not begun.
HandlerBegins ==
    /\ "grpc" \in up /\ (mode = "serving" \/ serveErr) /\ handlers < MaxHandlers
    /\ handlers' = handlers + 1
    /\ UNCHANGED <<mode, at, up, starts, nodeID, key, nodes, keys, serveErr, known, delivered>>

HandlerEnds ==
    /\ handlers > 0
    /\ handlers' = handlers - 1
    /\ UNCHANGED <<mode, at, up, starts, nodeID, key, nodes, keys, serveErr, known, delivered>>

\* A receiver asks for the key once, as one that stores it would.
GetNodePublicKey ==
    /\ "grpc" \in up /\ mode = "serving"
    /\ known' = [key |-> key, by |-> starts]
    /\ UNCHANGED <<mode, at, up, starts, nodeID, key, nodes, keys, handlers, serveErr, delivered>>

\* The dispatcher signs with the key of the controller.
SignedHeaders ==
    /\ "dispatcher" \in up
    /\ delivered' = [key |-> key, by |-> starts]
    /\ UNCHANGED <<mode, at, up, starts, nodeID, key, nodes, keys, handlers, serveErr, known>>

Next ==
    \/ Launch \/ StartNext \/ StartFails \/ Signal \/ ServeFails
    \/ StopNext \/ Exit \/ Crash \/ HandlerBegins \/ HandlerEnds
    \/ GetNodePublicKey \/ SignedHeaders

\* The goroutine that runs runServe is scheduled, and a call that was accepted
\* ends: its handler makes a bounded number of store and mailbox operations.
\* GracefulStop itself has no limit of time, so this is what Stops rests on.
Fairness == WF_vars(StopNext) /\ WF_vars(Exit) /\ WF_vars(HandlerEnds)

Spec == Init /\ [][Next]_vars /\ Fairness

-----------------------------------------------------------------------------

\* What a part uses while it is up.
Uses == [forwarder |-> {"relay", "redis"}, heartbeat |-> {"redis"}, dispatcher |-> {"store", "mailbox", "key"},
         smtp |-> {"store", "mailbox"}, lmtp |-> {"mailbox"}, mailbox |-> {"store", "redis"},
         grpc |-> {"store", "mailbox", "forwarder"}]

\* No part is up without what it uses: not while the node starts, not when a
\* step of it fails, and not while it goes down ("Close stops the SMTP listener
\* (if running), the webhook dispatcher, the mailbox service, and the store").
\* Only calls that outlive a failed Serve may meet a part that is closed.
PartsUsedAreUp ==
    /\ \A p \in up \cap DOMAIN Uses :
          (p = "grpc" => ~serveErr) => Uses[p] \cap Wanted \subseteq up
    /\ handlers > 0 /\ ~serveErr => Uses["grpc"] \cap Wanted \subseteq up

\* While a process is up the store's record of the node has the key it signs
\* with, and the receiver that asked it can check what it sends; so can anyone
\* who takes the key from the store.
KeyAgrees ==
    /\ "key" \in up => nodeID \in DOMAIN nodes /\ nodes[nodeID] = key
    /\ known.by = delivered.by => known.key = delivered.key

\* A node told to stop, or that cannot serve, ends, unless it crashes first.
Stops == mode = "stopping" ~> mode = "down"

\* ("The private key is persisted in the store so it survives restarts.") What a
\* node signs can be checked with the key it gave out before it was restarted.
KeySurvivesRestart ==
    delivered.by >= known.by /\ known.key # Unset => delivered.key = known.key
=============================================================================
