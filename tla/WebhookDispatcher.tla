------------------------- MODULE WebhookDispatcher -------------------------
(***************************************************************************)
(* The webhook dispatcher (internal/webhook) with the delivery jobs of the *)
(* persistent store, the event handler that creates them, the worker pool, *)
(* the sweeper, and the life of the process around them.                   *)
(*                                                                         *)
(* A job is a (message, recipient) pair whose recipient has an endpoint.   *)
(* The channel, the sweeper's batch and the workers hold COPIES of a job;  *)
(* the store holds its row.  Every place where the code may be overtaken   *)
(* by another goroutine (channel operations, HTTP round trip, store call)  *)
(* is a step boundary.                                                     *)
(*                                                                         *)
(* Time.  NextRetryAt is compared only with the present, and orders the    *)
(* sweeper's listing.  The model keeps the open rows whose time has come   *)
(* as the sequence due, in NextRetryAt order, and the others as the set    *)
(* waiting; the passing of a NextRetryAt moves a row to the end of due.    *)
(***************************************************************************)
EXTENDS Integers, Sequences, FiniteSets

CONSTANTS
    Jobs,           \* (message, recipient) pairs that may get a delivery job
    NoJob,          \* what a worker holds when it holds nothing
    Workers,        \* the worker goroutines
    MaxAttempts,    \* WithMaxAttempts
    QueueFactor,    \* the 10 of "workers*10": channel capacity and sweep limit
    Codes,          \* HTTP status codes an endpoint may answer; 0: no answer
    BadURL,         \* jobs whose endpoint is no valid request URL
    Deletable,      \* jobs whose message may be deleted from the mailbox
    MailboxDurable, \* whether the mailbox backend survives a restart
    MaxEvents,      \* bound: MessageReceived events per job
    MaxFaults       \* bound: store errors, signals, stops and crashes

ASSUME ConstantsAssumption ==
    /\ NoJob \notin Jobs
    /\ Cardinality(Workers) \in Nat /\ Workers # {}
    /\ MaxAttempts \in Nat \ {0}
    /\ QueueFactor \in Nat \ {0}
    /\ Codes \subseteq Nat
    /\ BadURL \subseteq Jobs
    /\ Deletable \subseteq Jobs
    /\ MailboxDurable \in BOOLEAN
    /\ MaxEvents \in Nat
    /\ MaxFaults \in Nat

VARIABLES
    rows,       \* [Jobs -> Row]: table webhook_delivery_jobs
    due,        \* open rows with NextRetryAt <= now, in NextRetryAt order
    waiting,    \* open rows with NextRetryAt > now
    queue,      \* Dispatcher.queue
    saved,      \* [Jobs -> Nat]: event handlers between save and enqueue
    worker,     \* [Workers -> what the goroutine is doing]
    sweeper,    \* "running" or "exited"
    batch,      \* jobs the sweeper has listed and not yet offered
    phase,      \* "up", "stopping" (stopCh closed), "down"
    ctxDone,    \* whether the context given to Start is cancelled
    deleted,    \* jobs whose message the mailbox no longer has
    events,     \* [Jobs -> 0..MaxEvents]: events handled so far
    unsaved,    \* history: jobs an event of which could not be saved
    accepted,   \* history: jobs a POST of which the endpoint took
    refused,    \* history: jobs the endpoint answered with a permanent failure
    posts,      \* history: POSTs made per job, saturating above MaxAttempts
    faults      \* bound: faults injected so far

storeVars == <<rows, due, waiting>>
sweepVars == <<sweeper, batch>>
lifeVars  == <<phase, ctxDone>>
eventVars == <<events, saved, unsaved>>
endpointVars == <<accepted, refused, posts>>
vars == <<rows, due, waiting, queue, saved, worker, sweeper, batch, phase,
          ctxDone, deleted, events, unsaved, accepted, refused, posts, faults>>

-----------------------------------------------------------------------------
(* Jobs, rows and copies *)

OpenStatus   == {"pending", "failed"}
ClosedStatus == {"delivered", "dead"}

Row == [status : {"none"} \cup OpenStatus \cup ClosedStatus, attempts : Nat]

Copy(j, n) == [job |-> j, attempts |-> n]

Copies == [job : Jobs, attempts : Nat]

Idle   == [pc |-> "idle",   job |-> NoJob, attempts |-> 0, status |-> "pending"]
Exited == [pc |-> "exited", job |-> NoJob, attempts |-> 0, status |-> "pending"]

\* Both the channel capacity and the limit of one sweep.
QueueCap == Cardinality(Workers) * QueueFactor

\* A non-blocking channel send: select { case queue <- c: default: }.
Offer(q, c) == IF Len(q) < QueueCap THEN Append(q, c) ELSE q

\* The sequence s without its element j.
Without(s, j) ==
    LET i == CHOOSE i \in DOMAIN s : s[i] = j
    IN  IF \E k \in DOMAIN s : s[k] = j
        THEN [k \in 1..(Len(s) - 1) |-> IF k < i THEN s[k] ELSE s[k + 1]]
        ELSE s

\* What the endpoint itself means by its answers.
TakenAnswers   == 200..299
RefusedAnswers == (400..499) \ {429}

\* (variant) 429 is treated like the other 4xx.
isPermanentFailureWith429(code) == code >= 400 /\ code < 500

\* 4xx answers are permanent, except 429.
isPermanentFailure(code) == code >= 400 /\ code < 500 /\ code # 429

isSuccess(code) == code >= 200 /\ code < 300

\* (variant) gives up one attempt late.
failStatusLate(attempts, permanent) ==
    IF permanent \/ attempts > MaxAttempts THEN "dead" ELSE "failed"

\* (variant) gives up one attempt early.
failStatusEarly(attempts, permanent) ==
    IF permanent \/ attempts + 1 >= MaxAttempts THEN "dead" ELSE "failed"

\* fail: dead when permanent or out of attempts, to be retried otherwise.
failStatus(attempts, permanent) ==
    IF permanent \/ attempts >= MaxAttempts THEN "dead" ELSE "failed"

\* The status attempt() gives the job for an answer (0: client.Do failed).
answerStatus(attempts, code) ==
    IF isSuccess(code) THEN "delivered"
    ELSE failStatus(attempts, isPermanentFailure(code))

\* SaveDeliveryJob: insert unless a row with this key exists.
SaveDeliveryJob(j) ==
    IF rows[j].status = "none"
    THEN /\ rows' = [rows EXCEPT ![j] = [status |-> "pending", attempts |-> 0]]
         /\ due' = Append(due, j)
         /\ UNCHANGED waiting
    ELSE UNCHANGED storeVars

\* (variant) the retry time of a failed row is not written.
UpdateDeliveryJobNoRetryTime(j, status, attempts) ==
    /\ rows' = [rows EXCEPT ![j] = [status |-> status, attempts |-> attempts]]
    /\ due' = Without(due, j)
    /\ waiting' = waiting \ {j}

\* (variant) the attempts are not written.
UpdateDeliveryJobNoAttempts(j, status, attempts) ==
    /\ rows' = [rows EXCEPT ![j].status = status]
    /\ due' = Without(due, j)
    /\ waiting' = IF status = "failed" THEN waiting \cup {j} ELSE waiting \ {j}

\* UpdateDeliveryJob: overwrite status, attempts and NextRetryAt of the row
\* with those of the copy, whatever the row holds.
UpdateDeliveryJob(j, status, attempts) ==
    /\ rows' = [rows EXCEPT ![j] = [status |-> status, attempts |-> attempts]]
    /\ due' = Without(due, j)
    /\ waiting' = IF status = "failed" THEN waiting \cup {j} ELSE waiting \ {j}

\* ListPendingDeliveryJobs(now, workers*10).
ListPendingDeliveryJobs ==
    LET n == IF Len(due) < QueueCap THEN Len(due) ELSE QueueCap
    IN  [i \in 1..n |-> Copy(due[i], rows[due[i]].attempts)]

Fault == faults < MaxFaults /\ faults' = faults + 1

-----------------------------------------------------------------------------
(* onMessageReceived *)

\* The recipient is registered and has an endpoint; the job is saved, or the
\* store fails and the event is dropped.
OnMessageReceived(j) ==
    /\ phase # "down"
    /\ events[j] < MaxEvents
    /\ events' = [events EXCEPT ![j] = @ + 1]
    /\ \/ /\ SaveDeliveryJob(j)
          /\ saved' = [saved EXCEPT ![j] = @ + 1]
          /\ UNCHANGED <<unsaved, faults>>
       \/ /\ Fault
          /\ unsaved' = unsaved \cup {j}
          /\ UNCHANGED <<rows, due, waiting, saved>>
    /\ UNCHANGED <<queue, worker, sweepVars, lifeVars, deleted, endpointVars>>

\* (variant) a handler enqueues without having saved.
EnqueueNewUnsaved(j) ==
    /\ saved' = [saved EXCEPT ![j] = @ - 1]
    /\ queue' = Offer(queue, Copy(j, 0))
    /\ UNCHANGED <<storeVars, worker, sweepVars, lifeVars, deleted, events,
                   unsaved, endpointVars, faults>>

\* The handler offers the copy it built, with no attempts, to the workers.
EnqueueNew(j) ==
    /\ saved[j] > 0
    /\ saved' = [saved EXCEPT ![j] = @ - 1]
    /\ queue' = Offer(queue, Copy(j, 0))
    /\ UNCHANGED <<storeVars, worker, sweepVars, lifeVars, deleted, events,
                   unsaved, endpointVars, faults>>

-----------------------------------------------------------------------------
(* worker and attempt *)

WorkerTake(w) ==
    /\ phase # "down"
    /\ worker[w].pc = "idle"
    /\ queue # <<>>
    /\ worker' = [worker EXCEPT ![w] =
           [pc |-> "taken", job |-> Head(queue).job,
            attempts |-> Head(queue).attempts, status |-> "pending"]]
    /\ queue' = Tail(queue)
    /\ UNCHANGED <<storeVars, sweepVars, lifeVars, eventVars, deleted,
                   endpointVars, faults>>

\* (variant) the worker watches the context instead of stopCh.
WorkerExitOnContext(w) ==
    /\ phase = "stopping"
    /\ ctxDone
    /\ worker[w].pc = "idle"
    /\ worker' = [worker EXCEPT ![w] = Exited]
    /\ UNCHANGED <<storeVars, queue, sweepVars, lifeVars, eventVars, deleted,
                   endpointVars, faults>>

\* select prefers neither case: a worker may also leave jobs in the channel.
WorkerExit(w) ==
    /\ phase = "stopping"
    /\ worker[w].pc = "idle"
    /\ worker' = [worker EXCEPT ![w] = Exited]
    /\ UNCHANGED <<storeVars, queue, sweepVars, lifeVars, eventVars, deleted,
                   endpointVars, faults>>

\* The message cannot be read: attempt returns and the row stays as it is.
FetchFails(w) ==
    /\ worker[w].pc = "taken"
    /\ \/ worker[w].job \in deleted /\ UNCHANGED faults
       \/ ctxDone /\ UNCHANGED faults
       \/ Fault
    /\ worker' = [worker EXCEPT ![w] = Idle]
    /\ UNCHANGED <<storeVars, queue, sweepVars, lifeVars, eventVars, deleted,
                   endpointVars>>

\* http.NewRequest rejects the endpoint: a failure that counts no attempt.
BuildRequestFails(w) ==
    /\ worker[w].pc = "taken"
    /\ worker[w].job \in BadURL \ deleted
    /\ worker' = [worker EXCEPT ![w] =
           [pc |-> "answered", job |-> worker[w].job,
            attempts |-> worker[w].attempts,
            status |-> failStatus(worker[w].attempts, FALSE)]]
    /\ UNCHANGED <<storeVars, queue, sweepVars, lifeVars, eventVars, deleted,
                   endpointVars, faults>>

\* client.Do: the endpoint answers code, or does not answer although it may
\* have taken the request (code 0, takes); a cancelled context gives no answer.
Post(w, code, takes) ==
    LET j == worker[w].job
        n == worker[w].attempts + 1
    IN
    /\ worker[w].pc = "taken"
    /\ j \notin deleted \cup BadURL
    /\ ctxDone => code = 0
    /\ code # 0 => (takes <=> code \in TakenAnswers)
    /\ posts' = [posts EXCEPT ![j] = IF @ <= MaxAttempts THEN @ + 1 ELSE @]
    /\ accepted' = IF takes THEN accepted \cup {j} ELSE accepted
    /\ refused' = IF code \in RefusedAnswers THEN refused \cup {j} ELSE refused
    /\ worker' = [worker EXCEPT ![w] = [pc |-> "answered", job |-> j,
                                        attempts |-> n,
                                        status |-> answerStatus(n, code)]]
    /\ UNCHANGED <<storeVars, queue, sweepVars, lifeVars, eventVars, deleted,
                   faults>>

\* The store call that ends attempt, for the delivered and the failed case.
RecordOutcome(w) ==
    /\ worker[w].pc = "answered"
    /\ UpdateDeliveryJob(worker[w].job, worker[w].status, worker[w].attempts)
    /\ worker' = [worker EXCEPT ![w] = Idle]
    /\ UNCHANGED <<queue, sweepVars, lifeVars, eventVars, deleted,
                   endpointVars, faults>>

\* That store call fails: by itself or, with a store that heeds it, because
\* the context is cancelled.  The error is logged and the outcome forgotten.
RecordFails(w) ==
    /\ worker[w].pc = "answered"
    /\ (ctxDone /\ UNCHANGED faults) \/ Fault
    /\ worker' = [worker EXCEPT ![w] = Idle]
    /\ UNCHANGED <<storeVars, queue, sweepVars, lifeVars, eventVars, deleted,
                   endpointVars>>

-----------------------------------------------------------------------------
(* sweeper *)

\* A tick: copy the due rows.  (A listing that fails changes nothing.)
SweepList ==
    /\ phase # "down"
    /\ sweeper = "running"
    /\ batch = <<>>
    /\ due # <<>>
    /\ batch' = ListPendingDeliveryJobs
    /\ UNCHANGED <<storeVars, queue, worker, sweeper, lifeVars, eventVars,
                   deleted, endpointVars, faults>>

SweepOffer ==
    /\ batch # <<>>
    /\ queue' = Offer(queue, Head(batch))
    /\ batch' = Tail(batch)
    /\ UNCHANGED <<storeVars, worker, sweeper, lifeVars, eventVars, deleted,
                   endpointVars, faults>>

SweeperExit ==
    /\ phase = "stopping"
    /\ sweeper = "running"
    /\ batch = <<>>
    /\ sweeper' = "exited"
    /\ UNCHANGED <<storeVars, queue, worker, batch, lifeVars, eventVars,
                   deleted, endpointVars, faults>>

\* The NextRetryAt of a failed row passes.
RetryDue(j) ==
    /\ j \in waiting
    /\ waiting' = waiting \ {j}
    /\ due' = Append(due, j)
    /\ UNCHANGED <<rows, queue, worker, sweepVars, lifeVars, eventVars,
                   deleted, endpointVars, faults>>

-----------------------------------------------------------------------------
(* The process and the mailbox *)

\* A user deletes the message for which the job exists.
DeleteMessage(j) ==
    /\ j \in Deletable \ deleted
    /\ events[j] > 0
    /\ deleted' = deleted \cup {j}
    /\ UNCHANGED <<storeVars, queue, worker, sweepVars, lifeVars, eventVars,
                   endpointVars, faults>>

\* SIGINT or SIGTERM cancels the context that Start was given.
Signal ==
    /\ phase = "up"
    /\ ~ctxDone
    /\ Fault
    /\ ctxDone' = TRUE
    /\ UNCHANGED <<storeVars, queue, worker, sweepVars, phase, eventVars,
                   deleted, endpointVars>>

\* Dispatcher.Stop closes stopCh: after a signal, or because serving failed.
Stop ==
    /\ phase = "up"
    /\ IF ctxDone THEN UNCHANGED faults ELSE Fault
    /\ phase' = "stopping"
    /\ UNCHANGED <<storeVars, queue, worker, sweepVars, ctxDone, eventVars,
                   deleted, endpointVars>>

\* The process ends: all that was in memory is gone, the messages too when the
\* mailbox is the in-memory one.
GoDown ==
    /\ phase' = "down"
    /\ queue' = <<>>
    /\ saved' = [j \in Jobs |-> 0]
    /\ worker' = [w \in Workers |-> Idle]
    /\ sweeper' = "running"
    /\ batch' = <<>>
    /\ deleted' = IF MailboxDurable THEN deleted
                  ELSE deleted \cup {j \in Jobs : events[j] > 0}
    /\ UNCHANGED <<storeVars, ctxDone, events, unsaved, endpointVars>>

\* Stop returns once workers and sweeper have exited; Close goes on to close
\* mailbox and store.
Exit ==
    /\ phase = "stopping"
    /\ \A w \in Workers : worker[w].pc = "exited"
    /\ sweeper = "exited"
    /\ GoDown
    /\ UNCHANGED faults

Crash ==
    /\ phase # "down"
    /\ Fault
    /\ GoDown

\* Start subscribes and launches workers and sweeper; nothing is re-read
\* from the store before the first tick.
Start ==
    /\ phase = "down"
    /\ phase' = "up"
    /\ ctxDone' = FALSE
    /\ UNCHANGED <<storeVars, queue, worker, sweepVars, eventVars, deleted,
                   endpointVars, faults>>

-----------------------------------------------------------------------------

Init ==
    /\ rows = [j \in Jobs |-> [status |-> "none", attempts |-> 0]]
    /\ due = <<>>
    /\ waiting = {}
    /\ queue = <<>>
    /\ saved = [j \in Jobs |-> 0]
    /\ worker = [w \in Workers |-> Idle]
    /\ sweeper = "running"
    /\ batch = <<>>
    /\ phase = "up"
    /\ ctxDone = FALSE
    /\ deleted = {}
    /\ events = [j \in Jobs |-> 0]
    /\ unsaved = {}
    /\ accepted = {}
    /\ refused = {}
    /\ posts = [j \in Jobs |-> 0]
    /\ faults = 0

Attempt(w) ==
    \/ FetchFails(w)
    \/ BuildRequestFails(w)
    \/ \E code \in Codes, takes \in BOOLEAN : Post(w, code, takes)
    \/ RecordOutcome(w)
    \/ RecordFails(w)

Next ==
    \/ \E j \in Jobs : OnMessageReceived(j) \/ EnqueueNew(j)
    \/ \E w \in Workers : WorkerTake(w) \/ WorkerExit(w) \/ Attempt(w)
    \/ SweepList \/ SweepOffer \/ SweeperExit
    \/ \E j \in Jobs : RetryDue(j) \/ DeleteMessage(j)
    \/ Signal \/ Stop \/ Exit \/ Crash \/ Start

Spec == Init /\ [][Next]_vars

\* Goroutines are scheduled, the ticker ticks, retry times pass, HTTP calls
\* end (the client has a timeout), Close follows a signal and the process is
\* started again.  select chooses uniformly among its ready cases, hence
\* strong fairness for the exits.  Faults, events and deletions need not happen.
Fairness ==
    /\ \A j \in Jobs : WF_vars(EnqueueNew(j)) /\ WF_vars(RetryDue(j))
    /\ \A w \in Workers : /\ WF_vars(WorkerTake(w))
                          /\ WF_vars(Attempt(w))
                          /\ SF_vars(WorkerExit(w))
    /\ WF_vars(SweepList) /\ WF_vars(SweepOffer) /\ SF_vars(SweeperExit)
    /\ WF_vars(ctxDone /\ Stop) /\ WF_vars(Exit) /\ WF_vars(Start)

FairSpec == Spec /\ Fairness

-----------------------------------------------------------------------------
(* Properties *)

\* The parts of the type invariant, one per group of variables.
StoreType == rows \in [Jobs -> Row] /\ due \in Seq(Jobs) /\ waiting \subseteq Jobs

WorkerType ==
    worker \in [Workers ->
        [pc : {"idle", "exited"}, job : {NoJob}, attempts : {0}, status : {"pending"}]
        \cup [pc : {"taken", "answered"}, job : Jobs, attempts : Nat,
              status : OpenStatus \cup ClosedStatus]]

SweepType == sweeper \in {"running", "exited"} /\ batch \in Seq(Copies)

LifeType == phase \in {"up", "stopping", "down"} /\ ctxDone \in BOOLEAN

EventType == events \in [Jobs -> Nat] /\ saved \in [Jobs -> Nat] /\ unsaved \subseteq Jobs

EndpointType ==
    /\ accepted \subseteq Jobs
    /\ refused \subseteq Jobs
    /\ posts \in [Jobs -> 0..(MaxAttempts + 1)]

\* Type correctness of the state; a worker that holds a copy holds a job.
TypeOK ==
    /\ StoreType
    /\ queue \in Seq(Copies)
    /\ WorkerType
    /\ SweepType
    /\ LifeType
    /\ EventType
    /\ EndpointType
    /\ deleted \subseteq Jobs
    /\ faults \in 0..MaxFaults

\* GetDeliveryStatus tells the truth, whatever copies of a job were in flight,
\* whatever store call failed and whenever the process died: "delivered" only
\* if the endpoint took a POST of the job, "dead" only if it refused one for
\* good or MaxAttempts POSTs were really made.
LedgerTruthful ==
    \A j \in Jobs :
        /\ rows[j].status = "delivered" => j \in accepted
        /\ rows[j].status = "dead" => j \in refused \/ posts[j] >= MaxAttempts

\* The attempts a row shows are never more than the POSTs really made, so a
\* job is never given up early; duplicates can only make the row show fewer.
AttemptsHonest ==
    \A j \in Jobs : rows[j].attempts <= posts[j] /\ rows[j].attempts <= MaxAttempts

\* No row that still has to be delivered is ever out of the sweeper's sight:
\* exactly the open rows are scheduled, each once, now or later.
OpenRowsScheduled ==
    /\ \A j \in Jobs : rows[j].status \in OpenStatus
           <=> (j \in waiting \/ \E i \in DOMAIN due : due[i] = j)
    /\ \A i \in DOMAIN due : due[i] \notin waiting
    /\ \A i, k \in DOMAIN due : due[i] = due[k] => i = k

\* A copy of job j that has made n attempts is of a persisted job, stands for
\* no more POSTs than were made, and has an attempt left.
CopyHonest(j, n) ==
    /\ rows[j].status # "none"
    /\ n <= posts[j]
    /\ n < MaxAttempts

\* The outcome a worker is about to record rests on what the endpoint did.
OutcomeHonest(j, n, status) ==
    /\ rows[j].status # "none"
    /\ n <= posts[j]
    /\ status \in {"failed", "delivered", "dead"}
    /\ status = "failed" => n < MaxAttempts
    /\ n <= MaxAttempts
    /\ status = "delivered" => j \in accepted
    /\ status = "dead" => j \in refused \/ posts[j] >= MaxAttempts

\* What worker w holds is honest.
WorkerHonest(w) ==
    /\ worker[w].pc = "taken" => CopyHonest(worker[w].job, worker[w].attempts)
    /\ worker[w].pc = "answered" =>
          OutcomeHonest(worker[w].job, worker[w].attempts, worker[w].status)

\* Every copy in q (the channel, or the sweeper's batch) is honest.
AllHonest(q) == \A i \in DOMAIN q : CopyHonest(q[i].job, q[i].attempts)

\* Handlers enqueue only what is saved, and open rows have an attempt left.
RowsHonest ==
    \A j \in Jobs : /\ saved[j] > 0 => rows[j].status # "none"
                    /\ rows[j].status \in OpenStatus => rows[j].attempts < MaxAttempts

\* Every copy of a job, in a handler, the channel, the sweeper's batch or a
\* worker, is honest however stale it is, and so is every row to be listed.
\* This is what makes the blind overwrite of UpdateDeliveryJob harmless for
\* the truth of the ledger.
CopiesHonest ==
    /\ RowsHonest
    /\ AllHonest(queue)
    /\ AllHonest(batch)
    /\ \A w \in Workers : WorkerHonest(w)

\* Every persisted job is settled in the end and stays so, through crashes,
\* lost enqueues, failing store calls and duplicate copies, unless its message
\* is gone or its endpoint is no URL: duplicates may reopen a closed row, but
\* they die out.
JobsSettle ==
    \A j \in Jobs \ BadURL :
        <>[](rows[j].status \in {"none"} \cup ClosedStatus \/ j \in deleted)

\* Dispatcher.Stop returns: all workers and the sweeper exit.
StopReturns == (phase = "stopping") ~> (phase = "down")

\* The dispatcher implements the abstract ledger: a row is opened once, closed
\* only on the evidence the ledger asks for, and only a POST already made can
\* reopen it.
Ledger == INSTANCE DeliveryLedger WITH
    entry <- [j \in Jobs |-> IF rows[j].status \in OpenStatus THEN "open"
                             ELSE rows[j].status]

ImplementsLedger == Ledger!LedgerSpec

-----------------------------------------------------------------------------
(* What comments of the repository say, and the code does not do *)

\* options.go: "WithMaxAttempts sets the maximum delivery attempts before
\* marking a job dead".
MaxAttemptsRespected == \A j \in Jobs : posts[j] <= MaxAttempts

\* postbox.proto, delivered_at: "empty when not yet delivered".  A row once
\* marked delivered stays so (delivered_at is set exactly in that status).
DeliveredStays ==
    [][\A j \in Jobs : rows[j].status = "delivered" => rows'[j].status = "delivered"]_vars

\* dispatcher.go, when SaveDeliveryJob fails: "don't propagate; sweeper will
\* pick it up".
SweeperPicksUpUnsaved ==
    \A j \in Jobs : (j \in unsaved) ~> (rows[j].status # "none")

\* Some goroutine holds a copy of job j, or the channel does.
Held(j) ==
    \/ \E w \in Workers : worker[w].job = j
    \/ \E i \in DOMAIN queue : queue[i].job = j

\* dispatcher.go, when the channel is full: "sweeper will pick up the
\* persisted job".
SweeperPicksUpPersisted ==
    \A j \in Jobs :
        (rows[j].status = "pending") ~> (Held(j) \/ rows[j].status # "pending" \/ j \in deleted)

\* dispatcher.go: "Stop signals workers to drain and waits for them to finish".
DrainedWhenStopped ==
    (phase = "stopping" /\ \A w \in Workers : worker[w].pc = "exited") => queue = <<>>
=============================================================================
