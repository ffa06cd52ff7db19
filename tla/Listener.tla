------------------------------ MODULE Listener ------------------------------
(***************************************************************************)
(* The SMTP and LMTP listeners under the Controller (internal/server/      *)
(* node.go, internal/smtp/server.go, lmtp.go): StartSMTP, StopSMTP and     *)
(* Close run concurrently as gRPC calls, each accept loop is a goroutine   *)
(* of its own, and go-smtp's Server registers the net.Listener some time   *)
(* after that goroutine was started.                                       *)
(*                                                                         *)
(* A StartSMTP call creates a new Server, which is named after the call    *)
(* and is never started twice.  Network selects the LMTP listener on a    *)
(* socket path, whose file is part of the state, or a listener on a TCP    *)
(* port.  Everything StartSMTP does is under smtpMu and is one step; StopSMTP  *)
(* keeps no lock between its steps.                                        *)
(***************************************************************************)
EXTENDS Naturals

CONSTANTS
    Calls,      \* the calls of a run: each starts or stops once
    Network,    \* "unix": LMTP on a Unix socket; "tcp": a port
    Shutdown,   \* "graceful": Close comes after every call returned; or "abrupt"
    MaxFaults,  \* bound on failing binds and accept loops
    Closer,     \* the Close of the Controller, a call of its own
    None        \* no Server

ASSUME ListenerAssumption ==
    /\ Network \in {"unix", "tcp"} /\ Shutdown \in {"graceful", "abrupt"}
    /\ MaxFaults \in Nat /\ Closer \notin Calls /\ None \notin Calls

Unix == Network = "unix"
Graceful == Shutdown = "graceful"

VARIABLES
    running,    \* the Servers with the running flag set
    lis,        \* the listener of each Server
    registered, \* the Servers whose listener go-smtp knows
    loop,       \* the accept goroutine of each Server
    current,    \* Controller.smtp, None before the first start
    file,       \* the Server whose socket is at the path, None if no file is
    pc,         \* where each call is
    target,     \* the Server a call has looked up, or started
    result,     \* what a call returned
    broke,      \* Servers whose accept loop failed by itself
    faults

servers == <<running, lis, registered, loop>>
calls == <<pc, target, result>>
vars == <<running, lis, registered, loop, current, file, pc, target, result, broke, faults>>

TypeOK ==
    /\ running \subseteq Calls /\ registered \subseteq Calls /\ broke \subseteq Calls
    /\ lis \in [Calls -> {"none", "open", "closed"}]
    /\ loop \in [Calls -> {"none", "serve", "ended", "done"}]
    /\ current \in Calls \cup {None} /\ file \in Calls \cup {None}
    /\ pc \in [Calls \cup {Closer} -> {"new", "check", "stop", "close", "wait", "end"}]
    /\ target \in [Calls \cup {Closer} -> Calls \cup {None}]
    /\ result \in [Calls \cup {Closer} ->
                      {"none", "started", "ErrSMTPAlreadyRunning", "InUse", "failed",
                       "ErrSMTPNotRunning", "ErrNotRunning", "stopped"}]
    /\ faults \in 0 .. MaxFaults

Init ==
    /\ running = {} /\ registered = {} /\ broke = {}
    /\ lis = [s \in Calls |-> "none"]
    /\ loop = [s \in Calls |-> "none"]
    /\ current = None /\ file = None
    /\ pc = [c \in Calls \cup {Closer} |-> "new"]
    /\ target = [c \in Calls \cup {Closer} |-> None]
    /\ result = [c \in Calls \cup {Closer} |-> "none"]
    /\ faults = 0

Return(c, s, r) ==
    /\ pc' = [pc EXCEPT ![c] = "end"]
    /\ target' = [target EXCEPT ![c] = s]
    /\ result' = [result EXCEPT ![c] = r]

Goto(c, label) ==
    /\ pc' = [pc EXCEPT ![c] = label]
    /\ UNCHANGED <<target, result>>

\* SMTPLifecycle.IsRunning of the Server the Controller has.
IsRunning(s) == s \in running

\* A TCP port is taken while any Server has its listener open; a socket path
\* is free once the file is removed, which Start does.
AddressFree == Unix \/ \A s \in Calls : lis[s] # "open"

\* Server.Start of a new Server: listener, running, and the accept goroutine.
Start(s) ==
    /\ running' = running \cup {s}
    /\ lis' = [lis EXCEPT ![s] = "open"]
    /\ loop' = [loop EXCEPT ![s] = "serve"]
    /\ current' = s
    /\ UNCHANGED registered

\* LMTPServer.Start: a stale socket file is removed before the path is bound,
\* and a socket whose permissions cannot be set is closed again.
BindPath(s, ok) == file' = IF ~Unix THEN file ELSE IF ok THEN s ELSE None

\* Controller.StartSMTP and StartLMTP.
StartSMTP(c) ==
    /\ pc[c] = "new"
    /\ \/ /\ IsRunning(current)
          /\ Return(c, current, "ErrSMTPAlreadyRunning")
          /\ UNCHANGED servers /\ UNCHANGED <<current, file, broke, faults>>
       \/ /\ ~IsRunning(current) /\ ~AddressFree
          /\ Return(c, None, "InUse")
          /\ UNCHANGED servers /\ UNCHANGED <<current, file, broke, faults>>
       \/ /\ ~IsRunning(current) /\ AddressFree
          /\ Start(c) /\ BindPath(c, TRUE)
          /\ Return(c, c, "started")
          /\ UNCHANGED <<broke, faults>>
       \/ /\ ~IsRunning(current) /\ faults < MaxFaults
          /\ BindPath(None, FALSE)
          /\ Return(c, None, "failed")
          /\ faults' = faults + 1
          /\ UNCHANGED servers /\ UNCHANGED <<current, broke>>

\* Controller.StopSMTP, StopLMTP and Close look the Server up under the lock.
LookUp(c) ==
    /\ pc[c] = "new"
    /\ pc' = [pc EXCEPT ![c] = "check"]
    /\ target' = [target EXCEPT ![c] = current]
    /\ UNCHANGED servers /\ UNCHANGED <<current, file, result, broke, faults>>

Check(c) ==
    /\ pc[c] = "check"
    /\ IF IsRunning(target[c]) THEN Goto(c, "stop") ELSE Return(c, target[c], "ErrSMTPNotRunning")
    /\ UNCHANGED servers /\ UNCHANGED <<current, file, broke, faults>>

\* Server.Stop copies srv, lis, done and running under its lock ...
Stop(c) ==
    /\ pc[c] = "stop"
    /\ IF IsRunning(target[c]) THEN Goto(c, "close") ELSE Return(c, target[c], "ErrNotRunning")
    /\ UNCHANGED servers /\ UNCHANGED <<current, file, broke, faults>>

\* (variant) only go-smtp is closed, which knows registered listeners only
CloseServerOnly(c) ==
    /\ pc[c] = "close"
    /\ lis' = [lis EXCEPT ![target[c]] = IF target[c] \in registered THEN "closed" ELSE @]
    /\ file' = IF Unix /\ target[c] \in registered THEN None ELSE file
    /\ Goto(c, "wait")
    /\ UNCHANGED <<running, registered, loop, current, broke, faults>>

\* ... closes the listener, which removes the file of a socket it had open, and
\* then go-smtp's Server ...
CloseListener(c) ==
    /\ pc[c] = "close"
    /\ lis' = [lis EXCEPT ![target[c]] = "closed"]
    /\ file' = IF Unix /\ lis[target[c]] = "open" THEN None ELSE file
    /\ Goto(c, "wait")
    /\ UNCHANGED <<running, registered, loop, current, broke, faults>>

\* (variant) Stop returns at once
WaitNot(c) ==
    /\ pc[c] = "wait"
    /\ Return(c, target[c], "stopped")
    /\ UNCHANGED servers /\ UNCHANGED <<current, file, broke, faults>>

\* ... and waits for the accept loop: done is closed.
Wait(c) ==
    /\ pc[c] = "wait"
    /\ loop[target[c]] = "done"
    /\ Return(c, target[c], "stopped")
    /\ UNCHANGED servers /\ UNCHANGED <<current, file, broke, faults>>

\* The accept goroutine reaches go-smtp's Serve, which records the listener.
Register(s) ==
    /\ loop[s] = "serve" /\ s \notin registered
    /\ registered' = registered \cup {s}
    /\ UNCHANGED calls /\ UNCHANGED <<running, lis, loop, current, file, broke, faults>>

\* Accept fails on the closed listener and Serve returns: under the lock the
\* running flag goes and the socket file is removed.
LoopEnds(s) ==
    /\ loop[s] = "serve" /\ lis[s] = "closed" /\ s \in registered
    /\ running' = running \ {s}
    /\ loop' = [loop EXCEPT ![s] = "ended"]
    /\ file' = IF Unix THEN None ELSE file
    /\ UNCHANGED calls /\ UNCHANGED <<lis, registered, current, broke, faults>>

\* Serve returns by itself on an error of Accept: the listener stays open.
LoopBreaks(s) ==
    /\ loop[s] = "serve" /\ lis[s] = "open" /\ s \in registered
    /\ faults < MaxFaults
    /\ running' = running \ {s}
    /\ loop' = [loop EXCEPT ![s] = "ended"]
    /\ file' = IF Unix THEN None ELSE file
    /\ broke' = broke \cup {s}
    /\ faults' = faults + 1
    /\ UNCHANGED calls /\ UNCHANGED <<lis, registered, current>>

Done(s) ==
    /\ loop[s] = "ended"
    /\ loop' = [loop EXCEPT ![s] = "done"]
    /\ UNCHANGED calls /\ UNCHANGED <<running, lis, registered, current, file, broke, faults>>

\* runServe closes the Controller once GracefulStop has waited for the calls.
Quiet == \A c \in Calls : pc[c] \in {"new", "end"}
Closing == pc[Closer] # "new"

Accepting(s) == Register(s) \/ LoopEnds(s) \/ Done(s)
Stopping(c) == Check(c) \/ Stop(c) \/ CloseListener(c) \/ Wait(c)

Next ==
    \/ \E c \in Calls :
          \/ ~(Graceful /\ Closing) /\ (StartSMTP(c) \/ LookUp(c))
          \/ Stopping(c)
    \/ (Graceful => Quiet) /\ LookUp(Closer)
    \/ Stopping(Closer)
    \/ \E s \in Calls : Accepting(s) \/ LoopBreaks(s)

\* The scheduler runs every goroutine; nobody has to call Start or Stop.
Spec ==
    /\ Init /\ [][Next]_vars
    /\ \A s \in Calls : WF_vars(Accepting(s))
    /\ \A c \in Calls \cup {Closer} : WF_vars(Stopping(c))

-----------------------------------------------------------------------------

\* PostboxServer.StartSMTP and StopSMTP: the code of the answer.
StartCode(c) ==
    CASE result[c] = "started" -> "OK"
      [] result[c] = "ErrSMTPAlreadyRunning" -> "FailedPrecondition"
      [] result[c] \in {"InUse", "failed"} -> "Internal"

StopCode(c) ==
    CASE result[c] = "stopped" -> "OK"
      [] result[c] = "ErrSMTPNotRunning" -> "FailedPrecondition"
      [] result[c] = "ErrNotRunning" -> "Internal"

\* PostboxServer.GetSMTPStatus.
GetSMTPStatus == [state |-> IF IsRunning(current) THEN "running" ELSE "stopped", srv |-> current]

Stopped(c) == pc[c] = "end" /\ result[c] \in {"stopped", "ErrSMTPNotRunning", "ErrNotRunning"}
Started(c) == pc[c] = "end" /\ ~Stopped(c)

\* No listener runs unreported: whatever accepts connections is the one Server
\* that GetSMTPStatus reports as running, so that StopSMTP can stop it, whatever
\* starts, stops and ending accept loops overlap.
Reported ==
    \A s \in Calls :
        loop[s] = "serve" => GetSMTPStatus = [state |-> "running", srv |-> s]

\* A Stop that returned nil leaves a Server whose listener is closed and whose
\* accept loop is over (smtp/server.go: "After Stop returns, IsRunning is
\* false"), although the loop ends on a goroutine of its own.
StopMeansStopped ==
    \A c \in Calls \cup {Closer} :
        result[c] = "stopped" =>
            /\ ~IsRunning(target[c])
            /\ lis[target[c]] = "closed" /\ loop[target[c]] = "done"

\* A start is an internal error only after a fault: Stop gives the port back
\* before the listener counts as stopped, so that it can be started again, and
\* two starts at once are told apart from a port in use.
StartableAfterStop ==
    \A c \in Calls : Started(c) /\ StartCode(c) = "Internal" => faults > 0

\* The socket file of a running LMTP listener that nobody stops is there: the
\* end of an earlier listener never removes the file of a later one.
SocketPresent ==
    Unix /\ broke = {} =>
        \A s \in Calls :
            IsRunning(s) /\ lis[s] = "open" => file = s

\* Once Close has dealt with the listeners nothing accepts connections for the
\* mailbox service and the store that Close goes on to close.
ClosedMeansStopped ==
    pc[Closer] = "end" => \A s \in Calls : ~IsRunning(s)

\* StopSMTP on a listener that does not run is answered with FailedPrecondition
\* (server.go: "Returns FailedPrecondition if the listener is not currently
\* running"), never as an internal error.
StopRefusal ==
    \A c \in Calls :
        Stopped(c) => StopCode(c) \in {"OK", "FailedPrecondition"}

\* The inductive invariant behind these: only the current Server accepts, only
\* a loop that broke leaves a listener open behind it, a call past the check
\* has a started Server, and behind a graceful Close no call is under way.
ServerInv(s) ==
    /\ IsRunning(s) <=> loop[s] = "serve"
    /\ loop[s] = "serve" => s = current
    /\ loop[s] = "none" <=> lis[s] = "none"
    /\ lis[s] = "open" /\ loop[s] # "serve" => s \in broke
    /\ pc[s] = "new" => loop[s] = "none"
    /\ Unix /\ broke = {} /\ IsRunning(s) /\ lis[s] = "open" => file = s

CallInv(c) ==
    /\ pc[c] # "end" <=> result[c] = "none"
    /\ pc[c] \in {"stop", "close", "wait"} \/ result[c] = "stopped" =>
          target[c] \in Calls /\ loop[target[c]] # "none"
    /\ pc[c] = "wait" \/ result[c] = "stopped" => lis[target[c]] = "closed"
    /\ result[c] = "stopped" => loop[target[c]] = "done"
    /\ result[c] \in {"InUse", "failed"} => faults > 0

CloseInv ==
    Graceful /\ Closing =>
        /\ Quiet /\ target[Closer] = current
        /\ pc[Closer] = "end" => ~IsRunning(current)

ListenerInv ==
    /\ TypeOK
    /\ \A s \in Calls : ServerInv(s)
    /\ \A c \in Calls \cup {Closer} : CallInv(c)
    /\ CloseInv
    /\ broke # {} => faults > 0

\* A Stop that found its Server running returns, even when it was called before
\* go-smtp had recorded the listener.
StopReturns ==
    \A c \in Calls \cup {Closer} : pc[c] = "check" ~> pc[c] = "end"

=============================================================================
