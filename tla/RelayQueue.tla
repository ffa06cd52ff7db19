----------------------------- MODULE RelayQueue -----------------------------
(***************************************************************************)
(* The outbound relay of a node: RelayServer (internal/relay/relay.go),    *)
(* whose SendMessage handlers put messages on the asynchronous RelayQueue  *)
(* (internal/relay/queue.go), its workers with their retries, and the      *)
(* shutdown of both under one deadline.                                    *)
(*                                                                         *)
(* A message is one SendMessage call with its recipients.  Its job moves   *)
(* between the channel and the workers and ends in an outcome, which the   *)
(* code only logs.  The delay of a retry is a wait of its worker that may  *)
(* end at any time.                                                        *)
(***************************************************************************)
EXTENDS Integers, Sequences, FiniteSets

CONSTANTS
    Messages,       \* SendMessage calls the relay may get
    NoMsg,          \* what a worker holds when it holds nothing
    Workers,        \* the worker goroutines
    MaxRetries,     \* QueueConfig.MaxRetries
    BufSize         \* capacity of the channel: max(8 * workers, 64)

ASSUME RelayAssumption ==
    /\ NoMsg \notin Messages
    /\ Workers # {}
    /\ MaxRetries \in Nat \ {0}
    /\ BufSize \in Nat \ {0}

VARIABLES
    server,     \* "new", "failed", "serving", "graceful", "draining", "stopped"
    starts,     \* results of the calls of Start, in order
    expired,    \* whether the context given to Stop is done
    cancelled,  \* whether the workers' context is cancelled
    handler,    \* [Messages -> "none", "called", "accepted", "refused"]
    jobs,       \* RelayQueue.jobs: sequence of [msg, attempts]
    worker,     \* [Workers -> [pc, msg, attempts]]
    outcome,    \* [Messages -> how its job ended, "none" while it has not]
    sends       \* history: calls of Backend.Send per message

vars == <<server, starts, expired, cancelled, handler, jobs, worker, outcome, sends>>
serverVars == <<server, starts, expired, cancelled>>

-----------------------------------------------------------------------------

\* queuedJob, as far as the queue looks at it.
Job(m, n) == [msg |-> m, attempts |-> n]

Holding(pc, m, n) == [pc |-> pc, msg |-> m, attempts |-> n]

Idle   == Holding("idle", NoMsg, 0)
Exited == Holding("exited", NoMsg, 0)

\* stopCh is closed by RelayQueue.Stop and never reopened.
StopClosed == server \in {"draining", "stopped"}

\* The worker ends its turn with the job's outcome known.
Finish(w, how) ==
    /\ outcome' = [outcome EXCEPT ![worker[w].msg] = how]
    /\ worker' = [worker EXCEPT ![w] = Idle]

-----------------------------------------------------------------------------
(* RelayServer *)

\* Only the first Start listens; every later one is a no-op without error.
\* (The controller starts the relay before it can stop it.)
Start(ok) ==
    /\ server \in {"new", "failed", "serving"}
    /\ Len(starts) < 2
    /\ IF server = "new"
       THEN /\ server' = IF ok THEN "serving" ELSE "failed"
            /\ starts' = <<IF ok THEN "nil" ELSE "error">>
       ELSE /\ starts' = Append(starts, "nil")
            /\ UNCHANGED server
    /\ UNCHANGED <<expired, cancelled, handler, jobs, worker, outcome, sends>>

\* gRPC starts a handler for a call.
Call(m) ==
    /\ server = "serving"
    /\ handler[m] = "none"
    /\ handler' = [handler EXCEPT ![m] = "called"]
    /\ UNCHANGED <<serverVars, jobs, worker, outcome, sends>>

\* SendMessage enqueues: there is room, or the caller gets ErrQueueFull, or
\* its context is done (the caller may go away at any time) and it gets that.
SendMessage(m, gone) ==
    /\ handler[m] = "called"
    /\ \/ /\ Len(jobs) < BufSize
          /\ jobs' = Append(jobs, Job(m, 0))
          /\ handler' = [handler EXCEPT ![m] = "accepted"]
       \/ /\ Len(jobs) >= BufSize \/ gone
          /\ handler' = [handler EXCEPT ![m] = "refused"]
          /\ UNCHANGED jobs
    /\ UNCHANGED <<serverVars, worker, outcome, sends>>

\* RelayServer.Stop: GracefulStop when there is a gRPC server, and straight
\* on to the queue when there is none.
Stop ==
    /\ server \in {"new", "failed", "serving"}
    /\ server' = IF server = "serving" THEN "graceful" ELSE "draining"
    /\ UNCHANGED <<starts, expired, cancelled, handler, jobs, worker, outcome, sends>>

\* The deadline of the context given to Stop passes.
Expire ==
    /\ server \in {"graceful", "draining"}
    /\ ~expired
    /\ expired' = TRUE
    /\ UNCHANGED <<server, starts, cancelled, handler, jobs, worker, outcome, sends>>

\* (variant) the queue is stopped without waiting for the handlers.
GracefulDoneEarly ==
    /\ server = "graceful"
    /\ server' = "draining"
    /\ UNCHANGED <<starts, expired, cancelled, handler, jobs, worker, outcome, sends>>

\* GracefulStop returns when no handler runs; RelayQueue.Stop closes stopCh.
GracefulDone ==
    /\ server = "graceful"
    /\ \A m \in Messages : handler[m] # "called"
    /\ server' = "draining"
    /\ UNCHANGED <<starts, expired, cancelled, handler, jobs, worker, outcome, sends>>

\* The deadline passes first: the connections are cut while handlers may
\* still run, and RelayQueue.Stop closes stopCh.
ForceStop ==
    /\ server = "graceful"
    /\ expired
    /\ server' = "draining"
    /\ UNCHANGED <<starts, expired, cancelled, handler, jobs, worker, outcome, sends>>

\* RelayQueue.Stop: all workers are done, or the deadline passed and their
\* context is cancelled; select prefers neither.
QueueStopped ==
    /\ server = "draining"
    /\ \/ (\A w \in Workers : worker[w].pc = "exited") /\ UNCHANGED cancelled
       \/ expired /\ cancelled' = TRUE
    /\ server' = "stopped"
    /\ UNCHANGED <<starts, expired, handler, jobs, worker, outcome, sends>>

-----------------------------------------------------------------------------
(* RelayQueue workers *)

\* Either select receives a job: its first attempt is made at once, a retry
\* waits for its time (which may have passed).
WorkerTake(w) ==
    /\ worker[w].pc = "idle"
    /\ jobs # <<>>
    /\ worker' = [worker EXCEPT ![w] =
           Holding(IF Head(jobs).attempts = 0 THEN "sending" ELSE "waiting",
                   Head(jobs).msg, Head(jobs).attempts)]
    /\ jobs' = Tail(jobs)
    /\ UNCHANGED <<serverVars, handler, outcome, sends>>

\* (variant) the worker returns on the cancelled context instead of stopCh.
WorkerExitOnCancel(w) ==
    /\ cancelled
    /\ worker[w].pc = "idle"
    /\ worker' = [worker EXCEPT ![w] = Exited]
    /\ UNCHANGED <<serverVars, handler, jobs, outcome, sends>>

\* stopCh is closed and the draining select finds the channel empty.
WorkerExit(w) ==
    /\ StopClosed
    /\ worker[w].pc = "idle"
    /\ jobs = <<>>
    /\ worker' = [worker EXCEPT ![w] = Exited]
    /\ UNCHANGED <<serverVars, handler, jobs, outcome, sends>>

\* The retry time of the job has come.
TimerFires(w) ==
    /\ worker[w].pc = "waiting"
    /\ worker' = [worker EXCEPT ![w].pc = "sending"]
    /\ UNCHANGED <<serverVars, handler, jobs, outcome, sends>>

\* The context is cancelled during the wait: the job is given up.
Abort(w) ==
    /\ worker[w].pc = "waiting"
    /\ cancelled
    /\ Finish(w, "aborted")
    /\ UNCHANGED <<serverVars, handler, jobs, sends>>

\* Backend.Send returns; a failure counts, and the last one ends the job.
Send(w, ok) ==
    /\ worker[w].pc = "sending"
    /\ sends' = [sends EXCEPT ![worker[w].msg] = @ + 1]
    /\ IF ok THEN Finish(w, "delivered")
       ELSE IF worker[w].attempts + 1 >= MaxRetries THEN Finish(w, "exhausted")
       ELSE /\ worker' = [worker EXCEPT ![w] =
                   Holding("retrying", worker[w].msg, worker[w].attempts + 1)]
            /\ UNCHANGED outcome
    /\ UNCHANGED <<serverVars, handler, jobs>>

\* (variant) the retry is queued although it is also dropped.
RequeueTwice(w) ==
    /\ worker[w].pc = "retrying"
    /\ jobs' = Append(jobs, Job(worker[w].msg, worker[w].attempts))
    /\ IF StopClosed THEN Finish(w, "shutdown")
       ELSE worker' = [worker EXCEPT ![w] = Idle] /\ UNCHANGED outcome
    /\ UNCHANGED <<serverVars, handler, sends>>

\* The retry goes back to the channel, or is dropped: because stopCh is
\* closed, or because the channel is full.
Requeue(w) ==
    /\ worker[w].pc = "retrying"
    /\ \/ /\ Len(jobs) < BufSize
          /\ jobs' = Append(jobs, Job(worker[w].msg, worker[w].attempts))
          /\ worker' = [worker EXCEPT ![w] = Idle]
          /\ UNCHANGED outcome
       \/ StopClosed /\ Finish(w, "shutdown") /\ UNCHANGED jobs
       \/ ~StopClosed /\ Len(jobs) >= BufSize /\ Finish(w, "full") /\ UNCHANGED jobs
    /\ UNCHANGED <<serverVars, handler, sends>>

-----------------------------------------------------------------------------

Init ==
    /\ server = "new"
    /\ starts = <<>>
    /\ expired = FALSE
    /\ cancelled = FALSE
    /\ handler = [m \in Messages |-> "none"]
    /\ jobs = <<>>
    /\ worker = [w \in Workers |-> Idle]
    /\ outcome = [m \in Messages |-> "none"]
    /\ sends = [m \in Messages |-> 0]

Server ==
    \/ \E ok \in BOOLEAN : Start(ok)
    \/ Stop \/ Expire \/ GracefulDone \/ ForceStop \/ QueueStopped

Work(w) ==
    \/ WorkerTake(w) \/ WorkerExit(w) \/ TimerFires(w) \/ Abort(w)
    \/ \E ok \in BOOLEAN : Send(w, ok)
    \/ Requeue(w)

Next ==
    \/ Server
    \/ \E m \in Messages : Call(m) \/ \E gone \in BOOLEAN : SendMessage(m, gone)
    \/ \E w \in Workers : Work(w)

Spec == Init /\ [][Next]_vars

\* Goroutines run, Backend.Send returns, timers fire, and a graceful or a
\* queue stop that can finish does.  Nothing makes calls arrive, and the
\* deadline of Stop need not pass.
Fairness ==
    /\ \A m \in Messages : WF_vars(\E gone \in BOOLEAN : SendMessage(m, gone))
    /\ \A w \in Workers : WF_vars(Work(w))
    /\ WF_vars(GracefulDone) /\ WF_vars(QueueStopped)

FairSpec == Spec /\ Fairness

-----------------------------------------------------------------------------
(* Properties *)

\* Type correctness; a worker holds a message exactly while it processes one.
TypeOK ==
    /\ server \in {"new", "failed", "serving", "graceful", "draining", "stopped"}
    /\ starts \in Seq({"nil", "error"})
    /\ expired \in BOOLEAN
    /\ cancelled \in BOOLEAN
    /\ handler \in [Messages -> {"none", "called", "accepted", "refused"}]
    /\ jobs \in Seq([msg : Messages, attempts : Nat])
    /\ worker \in [Workers ->
           [pc : {"idle", "exited"}, msg : {NoMsg}, attempts : {0}]
           \cup [pc : {"waiting", "sending", "retrying"}, msg : Messages, attempts : Nat]]
    /\ outcome \in [Messages ->
           {"none", "delivered", "exhausted", "full", "shutdown", "aborted"}]
    /\ sends \in [Messages -> Nat]

Queued(m) == \E i \in DOMAIN jobs : jobs[i].msg = m
Held(m)   == \E w \in Workers : worker[w].msg = m

\* An accepted message that has no outcome yet is in exactly one place, the
\* channel or one worker, and no other message is anywhere: retries, drains
\* and aborts neither lose nor double a job without saying so.
OneHome ==
    /\ \A m \in Messages :
          (handler[m] = "accepted" /\ outcome[m] = "none") <=> (Queued(m) \/ Held(m))
    /\ \A i, k \in DOMAIN jobs : jobs[i].msg = jobs[k].msg => i = k
    /\ \A w, v \in Workers :
          worker[w].msg = worker[v].msg /\ worker[w].msg # NoMsg => w = v
    /\ \A i \in DOMAIN jobs, w \in Workers : jobs[i].msg # worker[w].msg

\* What the copy of a job says about its attempts is what the backend saw,
\* and an outcome is reached with the number of attempts it stands for:
\* MaxRetries for a message given up as exhausted, never more for any.
AttemptsCounted ==
    /\ \A i \in DOMAIN jobs :
          sends[jobs[i].msg] = jobs[i].attempts /\ jobs[i].attempts < MaxRetries
    /\ \A w \in Workers : worker[w].msg # NoMsg =>
          sends[worker[w].msg] = worker[w].attempts /\ worker[w].attempts < MaxRetries
    /\ \A m \in Messages :
          /\ sends[m] <= MaxRetries
          /\ outcome[m] = "exhausted" => sends[m] = MaxRetries
          /\ outcome[m] \in {"delivered", "full", "shutdown"} => sends[m] > 0
          /\ outcome[m] \in {"full", "shutdown", "aborted"} => sends[m] < MaxRetries
          /\ handler[m] # "accepted" => sends[m] = 0 /\ outcome[m] = "none"

\* A Stop that returns before its deadline has drained the queue completely:
\* every worker is gone, the channel is empty, and every message the relay
\* accepted has been sent at least once and has its outcome; none was aborted.
CleanStopDrains ==
    server = "stopped" /\ ~expired =>
        /\ jobs = <<>>
        /\ \A w \in Workers : worker[w].pc = "exited"
        /\ \A m \in Messages : handler[m] = "accepted" =>
              sends[m] > 0 /\ outcome[m] \notin {"none", "aborted"}

\* How a stop proceeds.  A worker on a retry has attempts behind it; workers
\* leave and handlers stop only on the way to a drained queue; and only a
\* deadline cancels, cuts handlers off or ends the wait early.
StopInv ==
    /\ \A w \in Workers : worker[w].pc \in {"waiting", "retrying"} => worker[w].attempts > 0
    /\ \A w \in Workers : worker[w].pc = "exited" => StopClosed
    /\ server \in {"new", "failed"} => \A m \in Messages : handler[m] = "none"
    /\ cancelled => expired
    /\ ~expired =>
          /\ \A m \in Messages : outcome[m] # "aborted"
          /\ StopClosed => \A m \in Messages : handler[m] # "called"
          /\ (\A w \in Workers : worker[w].pc = "exited") => jobs = <<>>
          /\ server = "stopped" => \A w \in Workers : worker[w].pc = "exited"

\* However handlers, workers and Stop interleave, every accepted job has one home,
\* its attempts are counted, and a stop proceeds in order: the inductive invariant
\* of the proof.
RelayInv == TypeOK /\ OneHome /\ AttemptsCounted /\ StopInv

\* Stop returns, even if its deadline never passes.
StopReturns == (server \in {"graceful", "draining"}) ~> (server = "stopped")

\* Every accepted message gets its outcome, unless a deadline cut Stop short.
AcceptedResolves ==
    \A m \in Messages : (handler[m] = "accepted") ~> (outcome[m] # "none" \/ expired)

\* relay.go: "Calling Start more than once returns an error without starting
\* a second listener."
SecondStartFails == Len(starts) = 2 => starts[2] = "error"
=============================================================================
