---------------------- MODULE WebhookDispatcher_proof ----------------------
(***************************************************************************)
(* Proofs about the webhook dispatcher, for every set of jobs and workers  *)
(* and every value of the bounds: types, the sweeper's schedule, the       *)
(* honesty of rows and copies with the inductive invariant they need, and  *)
(* that the dispatcher implements the ledger.                              *)
(***************************************************************************)
EXTENDS WebhookDispatcher, TLAPS

-----------------------------------------------------------------------------
(* The inductive invariant *)

\* The inductive invariant.  The truth of the rows alone is not inductive: a
\* row is overwritten by whatever copy ends its attempt, so every copy has to
\* be honest; a copy is listed from the schedule, so the schedule has to hold
\* open rows only.
IInv == TypeOK /\ OpenRowsScheduled /\ CopiesHonest /\ AttemptsHonest /\ LedgerTruthful

\* The initial state is well typed.
LEMMA InitType == Init => TypeOK
<1> SUFFICES ASSUME Init PROVE TypeOK
  BY Zenon
<1>1. StoreType
  BY DEF Init, StoreType, Row
<1>2. WorkerType
  BY Zenon DEF Init, WorkerType, Idle
<1>3. queue \in Seq(Copies) /\ SweepType
  BY DEF Init, SweepType
<1>6. LifeType
  BY ZenonT(20) DEF Init, LifeType
<1>7. EventType
  BY Zenon DEF Init, EventType
<1>4. EndpointType
  BY ConstantsAssumption DEF Init, EndpointType
<1>5. deleted \subseteq Jobs /\ faults \in 0..MaxFaults
  BY ConstantsAssumption DEF Init
<1> QED
  BY <1>1, <1>2, <1>3, <1>4, <1>5, <1>6, <1>7, Zenon DEF TypeOK

\* Nothing is claimed at the start.
LEMMA InitHonest == Init => OpenRowsScheduled /\ CopiesHonest /\ AttemptsHonest /\ LedgerTruthful
<1> SUFFICES ASSUME Init PROVE OpenRowsScheduled /\ CopiesHonest /\ AttemptsHonest /\ LedgerTruthful
  BY Zenon
<1>1. OpenRowsScheduled
  BY SMTT(20) DEF Init, OpenRowsScheduled, OpenStatus
<1>2. CopiesHonest
  BY DEF Init, CopiesHonest, RowsHonest, AllHonest, WorkerHonest, Idle, OpenStatus
<1>3. AttemptsHonest /\ LedgerTruthful
  BY ConstantsAssumption DEF Init, AttemptsHonest, LedgerTruthful
<1> QED
  BY <1>1, <1>2, <1>3, Zenon

\* A non-blocking send keeps the channel a sequence of copies, and adds to it
\* nothing but the copy offered.
LEMMA OfferProps ==
    ASSUME NEW S, NEW q \in Seq(S), NEW c \in S
    PROVE  /\ Offer(q, c) \in Seq(S)
           /\ \A i \in DOMAIN Offer(q, c) :
                 (i \in DOMAIN q /\ Offer(q, c)[i] = q[i]) \/ Offer(q, c)[i] = c
  BY DEF Offer

\* Dropping the head keeps the other elements.
LEMMA TailProps ==
    ASSUME NEW S, NEW q \in Seq(S), q # <<>>
    PROVE  /\ Head(q) \in S
           /\ Tail(q) \in Seq(S)
           /\ 1 \in DOMAIN q /\ Head(q) = q[1]
           /\ \A i \in DOMAIN Tail(q) : i + 1 \in DOMAIN q /\ Tail(q)[i] = q[i + 1]
  OBVIOUS

\* A worker inside attempt() holds a copy of a job.
LEMMA BusyWorker ==
    ASSUME TypeOK, NEW w \in Workers, worker[w].pc \in {"taken", "answered"}
    PROVE  /\ worker[w].job \in Jobs
           /\ worker[w].attempts \in Nat
           /\ worker[w].status \in OpenStatus \cup ClosedStatus
<1> DEFINE A == [pc : {"idle", "exited"}, job : {NoJob}, attempts : {0}, status : {"pending"}]
           B == [pc : {"taken", "answered"}, job : Jobs, attempts : Nat,
                 status : OpenStatus \cup ClosedStatus]
<1>1. worker[w] \in A \cup B
  BY Zenon DEF TypeOK, WorkerType
<1>2. worker[w] \notin A
  BY Zenon
<1>3. worker[w] \in B
  BY <1>1, <1>2, Zenon
<1> QED
  BY <1>3, Zenon

\* One more POST of job j, counted up to MaxAttempts + 1.
LEMMA PostsGrow ==
    ASSUME NEW f \in [Jobs -> 0..(MaxAttempts + 1)], NEW j \in Jobs, NEW g,
           g = [f EXCEPT ![j] = IF @ <= MaxAttempts THEN @ + 1 ELSE @]
    PROVE  /\ g \in [Jobs -> 0..(MaxAttempts + 1)]
           /\ \A k \in Jobs : f[k] \in Nat /\ g[k] \in Nat /\ f[k] <= g[k]
           /\ f[j] <= MaxAttempts => g[j] = f[j] + 1
           /\ f[j] > MaxAttempts => g[j] = f[j]
<1>1. MaxAttempts \in Nat
  BY ConstantsAssumption, Zenon
<1>2. \A k \in Jobs : f[k] \in Nat /\ f[k] <= MaxAttempts + 1
  BY <1>1
<1>3. \A k \in Jobs : g[k] = IF k = j /\ f[k] <= MaxAttempts THEN f[k] + 1 ELSE f[k]
  BY Zenon
<1>4. \A k \in Jobs : g[k] \in Nat /\ f[k] <= g[k] /\ g[k] <= MaxAttempts + 1
  BY <1>1, <1>2, <1>3
<1>5. g \in [Jobs -> 0..(MaxAttempts + 1)]
  <2>1. \A k \in Jobs : g[k] \in 0..(MaxAttempts + 1)
    BY <1>1, <1>4
  <2> QED
    BY <2>1, Zenon
<1>6. (f[j] <= MaxAttempts => g[j] = f[j] + 1) /\ (f[j] > MaxAttempts => g[j] = f[j])
  BY <1>1, <1>2, <1>3
<1> QED
  BY <1>2, <1>4, <1>5, <1>6, Zenon

-----------------------------------------------------------------------------
(* The dispatcher's steps are steps of the ledger *)

\* What the endpoint took or refused, it was sent.
Evidence == \A j \in Jobs : j \in accepted \cup refused => posts[j] > 0

\* A POST leaves the evidence of having been made, and nothing else touches it.
LEMMA EvidenceStep == IInv /\ Evidence /\ [Next]_vars => Evidence'
<1> SUFFICES ASSUME IInv, Evidence, [Next]_vars PROVE Evidence'
  BY Zenon
<1>a. TypeOK /\ posts \in [Jobs -> 0..(MaxAttempts + 1)]
  BY Zenon DEF IInv, TypeOK, EndpointType
<1>1. ASSUME NEW w \in Workers, NEW code, NEW takes, Post(w, code, takes) PROVE Evidence'
  <2> DEFINE j == worker[w].job
  <2>1. j \in Jobs
    BY <1>1, <1>a, BusyWorker, Zenon DEF Post
  <2>2. posts' = [posts EXCEPT ![j] = IF @ <= MaxAttempts THEN @ + 1 ELSE @]
    BY <1>1, Zenon DEF Post
  <2>3. \A k \in Jobs : posts[k] \in Nat /\ posts'[k] \in Nat /\ posts[k] <= posts'[k]
    BY <1>a, <2>1, <2>2, PostsGrow, Zenon
  <2>4. posts'[j] > 0
    BY <1>a, <2>1, <2>2, <2>3, PostsGrow, ConstantsAssumption
  <2>5. \A k \in accepted' \cup refused' : k = j \/ k \in accepted \cup refused
    BY <1>1, Zenon DEF Post
  <2> QED
    BY <2>3, <2>4, <2>5 DEF Evidence
<1>2. CASE UNCHANGED endpointVars
  BY <1>2, Zenon DEF endpointVars, Evidence
<1>3. UNCHANGED endpointVars \/ \E w \in Workers, code \in Codes, takes \in BOOLEAN : Post(w, code, takes)
  BY Zenon DEF Next, Attempt, OnMessageReceived, EnqueueNew, WorkerTake, WorkerExit, FetchFails,
         BuildRequestFails, RecordOutcome, RecordFails, SweepList, SweepOffer, SweeperExit, RetryDue,
         DeleteMessage, Signal, Stop, Exit, Crash, GoDown, Start, vars, endpointVars
<1> QED
  BY <1>1, <1>2, <1>3, Zenon

\* What the ledger shows for a row.
Shown(row) == IF row.status \in OpenStatus THEN "open" ELSE row.status

\* A row that is overwritten changes its own entry only.
LEMMA ShownChange ==
    ASSUME NEW f \in [Jobs -> Row], NEW j \in Jobs, NEW row
    PROVE  [k \in Jobs |-> Shown([f EXCEPT ![j] = row][k])]
             = [[k \in Jobs |-> Shown(f[k])] EXCEPT ![j] = Shown(row)]
  BY Zenon

\* Every step of the dispatcher is a step of the ledger or leaves it alone: a save
\* opens an entry, a POST is seen, a stored outcome closes or reopens one.
LEMMA LedgerStep == IInv /\ Evidence /\ [Next]_vars => [Ledger!LedgerNext]_(Ledger!ledgerVars)
<1> SUFFICES ASSUME IInv, Evidence, [Next]_vars PROVE Ledger!LedgerNext \/ UNCHANGED Ledger!ledgerVars
  BY Zenon
<1> DEFINE shown == [k \in Jobs |-> Shown(rows[k])]
<1>a. TypeOK /\ rows \in [Jobs -> Row] /\ posts \in [Jobs -> 0..(MaxAttempts + 1)]
  BY Zenon DEF IInv, TypeOK, EndpointType, StoreType
<1>b. LedgerTruthful /\ \A w \in Workers : WorkerHonest(w)
  BY Zenon DEF IInv, CopiesHonest
<1>1. CASE UNCHANGED rows /\ UNCHANGED endpointVars
  BY <1>1, Zenon DEF endpointVars, Ledger!ledgerVars
<1>2. ASSUME NEW j \in Jobs, OnMessageReceived(j) PROVE Ledger!LedgerNext \/ UNCHANGED Ledger!ledgerVars
  <2>1. CASE UNCHANGED rows
    BY <1>1, <1>2, <2>1, Zenon DEF OnMessageReceived
  <2>2. CASE rows[j].status = "none" /\ rows' = [rows EXCEPT ![j] = [status |-> "pending", attempts |-> 0]]
    <3>1. [k \in Jobs |-> Shown(rows'[k])] = [shown EXCEPT ![j] = "open"]
      BY <1>a, <2>2, ShownChange, Zenon DEF Shown, OpenStatus
    <3>2. shown[j] = "none"
      BY <2>2, Zenon DEF Shown, OpenStatus
    <3> QED
      BY <1>2, <3>1, <3>2, Zenon DEF OnMessageReceived, endpointVars, Ledger!LedgerNext, Ledger!Open, Shown
  <2> QED
    BY <1>2, <2>1, <2>2, Zenon DEF OnMessageReceived, SaveDeliveryJob, storeVars
<1>3. ASSUME NEW w \in Workers, NEW code \in Codes, NEW takes \in BOOLEAN, Post(w, code, takes)
      PROVE  Ledger!LedgerNext
  <2> DEFINE j == worker[w].job
  <2>1. j \in Jobs
    BY <1>3, <1>a, BusyWorker, Zenon DEF Post
  <2>2. rows[j].status # "none"
    BY <1>3, <1>b, Zenon DEF Post, WorkerHonest, CopyHonest
  <2>3. shown[j] # "none"
    BY <2>1, <2>2, Zenon DEF Shown, OpenStatus
  <2>4. rows' = rows /\ accepted' \in {accepted, accepted \cup {j}} /\ refused' \in {refused, refused \cup {j}}
    BY <1>3, Zenon DEF Post, storeVars
  <2>5. posts' = [posts EXCEPT ![j] = IF @ <= MaxAttempts THEN @ + 1 ELSE @]
    BY <1>3, Zenon DEF Post
  <2>6. Ledger!Post(j)
    BY <2>3, <2>4, <2>5, Zenon DEF Ledger!Post, Shown
  <2> QED
    BY <2>1, <2>6, Zenon DEF Ledger!LedgerNext
<1>4. ASSUME NEW w \in Workers, RecordOutcome(w) PROVE Ledger!LedgerNext \/ UNCHANGED Ledger!ledgerVars
  <2> DEFINE n == worker[w].attempts
             status == worker[w].status
  <2>1. PICK j \in Jobs : j = worker[w].job
    BY <1>4, <1>a, BusyWorker, Zenon DEF RecordOutcome
  <2>2. OutcomeHonest(j, n, status)
    BY <1>4, <1>b, <2>1, Zenon DEF RecordOutcome, WorkerHonest
  <2>3. rows' = [rows EXCEPT ![j] = [status |-> status, attempts |-> n]]
    BY <1>4, <2>1, Zenon DEF RecordOutcome, UpdateDeliveryJob
  <2>4. [k \in Jobs |-> Shown(rows'[k])]
          = [shown EXCEPT ![j] = IF status \in OpenStatus THEN "open" ELSE status]
    BY <1>a, <2>1, <2>3, ShownChange, Zenon DEF Shown
  <2>5. UNCHANGED <<accepted, refused, posts>>
    BY <1>4, Zenon DEF RecordOutcome, endpointVars
  <2>6. shown[j] # "none"
    BY <2>1, <2>2, Zenon DEF OutcomeHonest, Shown, OpenStatus
  <2>7. CASE status = "delivered"
    <3>1. Ledger!RecordDelivered(j)
      BY <2>2, <2>4, <2>5, <2>6, <2>7, Zenon DEF OutcomeHonest, Ledger!RecordDelivered, Shown, OpenStatus
    <3> QED
      BY <2>1, <3>1, Zenon DEF Ledger!LedgerNext
  <2>8. CASE status = "dead"
    <3>1. Ledger!RecordDead(j)
      BY <2>2, <2>4, <2>5, <2>6, <2>8, Zenon DEF OutcomeHonest, Ledger!RecordDead, Shown, OpenStatus
    <3> QED
      BY <2>1, <3>1, Zenon DEF Ledger!LedgerNext
  <2>9. CASE status = "failed" /\ rows[j].status \in OpenStatus
    <3>1. [k \in Jobs |-> Shown(rows'[k])] = shown
      BY <2>1, <2>4, <2>9, Zenon DEF Shown, OpenStatus
    <3> QED
      BY <2>5, <3>1, Zenon DEF Ledger!ledgerVars, Shown
  <2>10. CASE status = "failed" /\ rows[j].status \notin OpenStatus
    <3>1. rows[j].status \in {"delivered", "dead"}
      BY <1>a, <2>1, <2>2, <2>10, Zenon DEF Row, OpenStatus, ClosedStatus, OutcomeHonest
    <3>2. posts[j] > 0
      BY <1>a, <1>b, <2>1, <3>1, ConstantsAssumption DEF Evidence, LedgerTruthful
    <3>3. shown[j] \in {"delivered", "dead"}
      BY <2>1, <2>10, <3>1, Zenon DEF Shown
    <3>4. Ledger!Reopen(j)
      BY <2>4, <2>5, <2>10, <3>2, <3>3, Zenon DEF Ledger!Reopen, Shown, OpenStatus
    <3> QED
      BY <2>1, <3>4, Zenon DEF Ledger!LedgerNext
  <2> QED
    BY <2>2, <2>7, <2>8, <2>9, <2>10, Zenon DEF OutcomeHonest
<1>5. \/ UNCHANGED rows /\ UNCHANGED endpointVars
      \/ \E j \in Jobs : OnMessageReceived(j)
      \/ \E w \in Workers : RecordOutcome(w) \/ \E code \in Codes, takes \in BOOLEAN : Post(w, code, takes)
  BY Zenon DEF Next, Attempt, EnqueueNew, WorkerTake, WorkerExit, FetchFails, BuildRequestFails, RecordFails,
         SweepList, SweepOffer, SweeperExit, RetryDue, DeleteMessage, Signal, Stop, Exit, Crash, GoDown,
         Start, vars, storeVars, endpointVars
<1> QED
  BY <1>1, <1>2, <1>3, <1>4, <1>5, Zenon

-----------------------------------------------------------------------------
(* The honesty of rows and copies *)

\* History only grows: no row disappears, no POST is unmade.
Grows ==
    /\ \A k \in Jobs : rows[k].status # "none" => rows'[k].status # "none"
    /\ \A k \in Jobs : posts[k] <= posts'[k]
    /\ accepted \subseteq accepted'
    /\ refused \subseteq refused'

\* POSTs are counted in numbers.
LEMMA PostsNat ==
    ASSUME NEW f \in [Jobs -> 0..(MaxAttempts + 1)]
    PROVE  MaxAttempts \in Nat \ {0} /\ \A k \in Jobs : f[k] \in Nat
  BY ConstantsAssumption

\* While history grows, what was honest stays honest.
LEMMA HonestStays ==
    ASSUME TypeOK, TypeOK', Grows
    PROVE  /\ \A k \in Jobs, n \in Nat : CopyHonest(k, n) => CopyHonest(k, n)'
           /\ AllHonest(queue) /\ queue' = queue => AllHonest(queue)'
           /\ AllHonest(batch) /\ batch' = batch => AllHonest(batch)'
           /\ \A w \in Workers : WorkerHonest(w) /\ worker'[w] = worker[w] => WorkerHonest(w)'
<1>0. MaxAttempts \in Nat /\ \A k \in Jobs : posts[k] \in Nat /\ posts'[k] \in Nat
  <2>1. posts \in [Jobs -> 0..(MaxAttempts + 1)] /\ posts' \in [Jobs -> 0..(MaxAttempts + 1)]
    BY Zenon DEF TypeOK, EndpointType
  <2> QED
    BY <2>1, PostsNat, Zenon
<1>1. ASSUME NEW k \in Jobs, NEW n \in Nat, CopyHonest(k, n) PROVE CopyHonest(k, n)'
  BY <1>0, <1>1 DEF CopyHonest, Grows
<1>2. ASSUME NEW k \in Jobs, NEW n \in Nat, NEW s, OutcomeHonest(k, n, s)
      PROVE  OutcomeHonest(k, n, s)'
  BY <1>0, <1>2 DEF OutcomeHonest, Grows
<1>3. \A q \in Seq(Copies) : \A i \in DOMAIN q : q[i].job \in Jobs /\ q[i].attempts \in Nat
  <2> SUFFICES ASSUME NEW q \in Seq(Copies), NEW i \in DOMAIN q
               PROVE  q[i].job \in Jobs /\ q[i].attempts \in Nat
    BY Zenon
  <2>1. q[i] \in Copies
    OBVIOUS
  <2> QED
    BY <2>1, Zenon DEF Copies
<1>4. queue \in Seq(Copies) /\ batch \in Seq(Copies)
  BY Zenon DEF TypeOK, SweepType
<1>5. ASSUME AllHonest(queue), queue' = queue PROVE AllHonest(queue)'
  BY <1>1, <1>3, <1>4, <1>5, Zenon DEF AllHonest
<1>6. ASSUME AllHonest(batch), batch' = batch PROVE AllHonest(batch)'
  BY <1>1, <1>3, <1>4, <1>6, Zenon DEF AllHonest
<1>7. ASSUME NEW w \in Workers, WorkerHonest(w), worker'[w] = worker[w] PROVE WorkerHonest(w)'
  BY <1>1, <1>2, <1>7, BusyWorker, Zenon DEF WorkerHonest
<1> QED
  BY <1>1, <1>5, <1>6, <1>7, Zenon

\* What a step leaves alone stays honest while history grows.
LEMMA HonestFrame ==
    ASSUME TypeOK, TypeOK', Grows, CopiesHonest
    PROVE  /\ UNCHANGED queue => AllHonest(queue)'
           /\ UNCHANGED sweepVars => AllHonest(batch)'
           /\ UNCHANGED worker => \A w \in Workers : WorkerHonest(w)'
           /\ UNCHANGED storeVars /\ UNCHANGED eventVars => RowsHonest'
<1>1. RowsHonest /\ AllHonest(queue) /\ AllHonest(batch) /\ \A w \in Workers : WorkerHonest(w)
  BY Zenon DEF CopiesHonest
<1>2. UNCHANGED queue => AllHonest(queue)'
  BY <1>1, HonestStays, Zenon
<1>3. UNCHANGED sweepVars => AllHonest(batch)'
  BY <1>1, HonestStays, Zenon DEF sweepVars
<1>4. UNCHANGED worker => \A w \in Workers : WorkerHonest(w)'
  BY <1>1, HonestStays, Zenon
<1>5. UNCHANGED storeVars /\ UNCHANGED eventVars => RowsHonest'
  BY <1>1, Zenon DEF RowsHonest, storeVars, eventVars
<1> QED
  BY <1>2, <1>3, <1>4, <1>5, Zenon

\* A channel stays honest when an honest copy is offered, or its head taken.
LEMMA OfferHonest ==
    ASSUME NEW q \in Seq(Copies), NEW c \in Copies, AllHonest(q), CopyHonest(c.job, c.attempts)
    PROVE  AllHonest(Offer(q, c))
<1> SUFFICES ASSUME NEW i \in DOMAIN Offer(q, c)
             PROVE  CopyHonest(Offer(q, c)[i].job, Offer(q, c)[i].attempts)
  BY Zenon DEF AllHonest
<1>1. (i \in DOMAIN q /\ Offer(q, c)[i] = q[i]) \/ Offer(q, c)[i] = c
  BY OfferProps, Zenon
<1> QED
  BY <1>1, Zenon DEF AllHonest

\* What remains of a channel of honest copies after its head is taken is honest.
LEMMA TailHonest ==
    ASSUME NEW q \in Seq(Copies), q # <<>>, AllHonest(q)
    PROVE  AllHonest(Tail(q))
<1> SUFFICES ASSUME NEW i \in DOMAIN Tail(q)
             PROVE  CopyHonest(Tail(q)[i].job, Tail(q)[i].attempts)
  BY Zenon DEF AllHonest
<1>1. i + 1 \in DOMAIN q /\ Tail(q)[i] = q[i + 1]
  BY TailProps, Zenon
<1> QED
  BY <1>1, Zenon DEF AllHonest

\* Honesty depends on rows and posts only.
LEMMA HonestChannel ==
    ASSUME UNCHANGED <<rows, posts>>
    PROVE  /\ AllHonest(queue') => AllHonest(queue)'
           /\ AllHonest(batch') => AllHonest(batch)'
  BY Zenon DEF AllHonest, CopyHonest

\* A step that leaves store and endpoint alone keeps the rows' truth, and lets
\* history stand still.
LEMMA QuietStep ==
    ASSUME IInv, UNCHANGED storeVars, UNCHANGED endpointVars
    PROVE  Grows /\ AttemptsHonest' /\ LedgerTruthful'
<1>1. \A k \in Jobs : posts[k] <= posts[k]
  <2>1. posts \in [Jobs -> 0..(MaxAttempts + 1)]
    BY Zenon DEF IInv, TypeOK, EndpointType
  <2> QED
    BY <2>1, PostsNat
<1>2. AttemptsHonest /\ LedgerTruthful
  BY Zenon DEF IInv
<1>3. rows' = rows /\ accepted' = accepted /\ refused' = refused /\ posts' = posts
  BY Zenon DEF storeVars, endpointVars
<1>4. Grows
  BY <1>1, <1>3, Zenon DEF Grows
<1> QED
  BY <1>2, <1>3, <1>4, Zenon DEF AttemptsHonest, LedgerTruthful

\* Workers other than the one that steps keep what they hold; a worker that
\* ends its attempt holds nothing.
LEMMA WorkersStay ==
    ASSUME TypeOK, TypeOK', Grows, CopiesHonest, NEW w \in Workers, NEW r,
           worker' = [worker EXCEPT ![w] = r],
           r \in {Idle, Exited} \/ WorkerHonest(w)'
    PROVE  \A v \in Workers : WorkerHonest(v)'
<1>1. /\ worker'[w] = r
      /\ \A v \in Workers \ {w} : worker'[v] = worker[v]
  BY Zenon DEF TypeOK, WorkerType
<1>2. ASSUME NEW v \in Workers \ {w} PROVE WorkerHonest(v)'
  BY <1>1, HonestStays, Zenon DEF CopiesHonest
<1>3. WorkerHonest(w)'
  <2>1. r \in {Idle, Exited} => r.pc \notin {"taken", "answered"}
    BY DEF Idle, Exited
  <2> QED
    BY <1>1, <2>1, Zenon DEF WorkerHonest
<1> QED
  BY <1>2, <1>3, Zenon

\* A request that cannot be built fails without a POST, and leaves an attempt for
\* the next time.
LEMMA BuildFailsHonest ==
    ASSUME IInv, TypeOK', NEW w \in Workers, BuildRequestFails(w)
    PROVE  \A v \in Workers : WorkerHonest(v)'
<1>1. PICK j \in Jobs, n \in Nat : j = worker[w].job /\ n = worker[w].attempts
  BY BusyWorker, Zenon DEF IInv, BuildRequestFails
<1>2. CopyHonest(j, n) /\ MaxAttempts \in Nat
  BY <1>1, ConstantsAssumption, Zenon DEF IInv, CopiesHonest, WorkerHonest, BuildRequestFails
<1>3. failStatus(n, FALSE) = "failed"
  BY <1>2 DEF CopyHonest, failStatus
<1>4. worker' = [worker EXCEPT ![w] = [pc |-> "answered", job |-> j, attempts |-> n, status |-> "failed"]]
  BY <1>1, <1>3, Zenon DEF BuildRequestFails
<1>5. UNCHANGED storeVars /\ UNCHANGED endpointVars
  BY Zenon DEF BuildRequestFails
<1>6. OutcomeHonest(j, n, "failed")'
  BY <1>2, <1>5 DEF CopyHonest, OutcomeHonest, storeVars, endpointVars
<1>7. worker'[w] = [pc |-> "answered", job |-> j, attempts |-> n, status |-> "failed"]
  BY <1>4, Zenon DEF IInv, TypeOK, WorkerType
<1>8. WorkerHonest(w)'
  BY <1>6, <1>7 DEF WorkerHonest
<1>9. Grows
  BY <1>5, QuietStep, Zenon
<1> QED
  BY <1>4, <1>8, <1>9, WorkersStay, Zenon DEF IInv

\* A POST leaves rows and copies honest: the answer the worker holds is what the
\* endpoint gave.
LEMMA PostHonest ==
    ASSUME IInv, TypeOK', NEW w \in Workers, NEW code \in Codes, NEW takes \in BOOLEAN,
           Post(w, code, takes)
    PROVE  CopiesHonest' /\ AttemptsHonest' /\ LedgerTruthful'
<1>a. TypeOK /\ TypeOK' /\ CopiesHonest /\ AttemptsHonest /\ LedgerTruthful
  BY Zenon DEF IInv
<1>b. \A v \in Workers : WorkerHonest(v)
  BY <1>a, Zenon DEF CopiesHonest
<1>c. rows \in [Jobs -> Row] /\ posts \in [Jobs -> 0..(MaxAttempts + 1)]
  BY <1>a, Zenon DEF TypeOK, StoreType, EndpointType
<1>f. MaxAttempts \in Nat \ {0} /\ \A k \in Jobs : posts[k] \in Nat
  BY <1>c, PostsNat, Zenon
<1> DEFINE j == worker[w].job
           n == worker[w].attempts + 1
           s == answerStatus(n, code)
           r == [pc |-> "answered", job |-> j, attempts |-> n, status |-> s]
<1>1. j \in Jobs /\ worker[w].attempts \in Nat /\ CopyHonest(j, worker[w].attempts)
  BY <1>a, <1>b, BusyWorker, Zenon DEF Post, WorkerHonest
<1>2. /\ posts' = [posts EXCEPT ![j] = IF @ <= MaxAttempts THEN @ + 1 ELSE @]
      /\ accepted' = IF takes THEN accepted \cup {j} ELSE accepted
      /\ refused' = IF code \in RefusedAnswers THEN refused \cup {j} ELSE refused
      /\ worker' = [worker EXCEPT ![w] = r]
      /\ rows' = rows
      /\ code # 0 => (takes <=> code \in TakenAnswers)
  BY Zenon DEF Post, storeVars
<1>3. n \in Nat /\ n <= MaxAttempts /\ worker[w].attempts <= posts[j] /\ rows[j].status # "none"
  BY <1>f, <1>1 DEF CopyHonest
<1>4. worker'[w] = r
  BY <1>a, <1>2, Zenon DEF TypeOK, WorkerType
<1>5. s = "delivered" => j \in accepted'
  <2>1. s = "delivered" => code >= 200 /\ code < 300
    BY Zenon DEF answerStatus, isSuccess, failStatus
  <2>2. code \in Nat
    BY ConstantsAssumption, Zenon
  <2> HIDE DEF s, j
  <2>3. s = "delivered" => code # 0 /\ code \in TakenAnswers
    BY <2>1, <2>2 DEF TakenAnswers
  <2> QED
    BY <1>2, <2>3, Zenon
<1>6. s = "dead" => j \in refused' \/ n >= MaxAttempts
  <2>1. code \in Nat
    BY ConstantsAssumption, Zenon
  <2>2. s = "dead" => code \in RefusedAnswers \/ n >= MaxAttempts
    BY <2>1 DEF answerStatus, isPermanentFailure, RefusedAnswers, failStatus
  <2> HIDE DEF s, j, n
  <2> QED
    BY <1>2, <2>2, Zenon
<1>7. s \in {"failed", "delivered", "dead"} /\ (s = "failed" => n < MaxAttempts)
  BY <1>f, <1>3 DEF answerStatus, failStatus
<1> HIDE DEF j, n, s
<1>8. /\ \A k \in Jobs : posts[k] \in Nat /\ posts'[k] \in Nat /\ posts[k] <= posts'[k]
      /\ posts[j] <= MaxAttempts => posts'[j] = posts[j] + 1
      /\ posts[j] > MaxAttempts => posts'[j] = posts[j]
  BY <1>c, <1>1, <1>2, PostsGrow, SMTT(20)
<1>9. n <= posts'[j]
  BY <1>f, <1>1, <1>3, <1>8 DEF n
<1>10. accepted \subseteq accepted' /\ refused \subseteq refused'
  BY <1>2, Zenon
<1>11. Grows
  BY <1>2, <1>8, <1>10, Zenon DEF Grows
<1>12. AttemptsHonest'
  <2>1. \A k \in Jobs : rows[k].attempts \in Nat
    BY <1>c, Zenon DEF Row
  <2> QED
    BY <1>a, <1>2, <1>8, <2>1 DEF AttemptsHonest
<1>13. LedgerTruthful'
  BY <1>a, <1>f, <1>2, <1>8, <1>10 DEF LedgerTruthful
<1>14. s = "dead" => j \in refused' \/ posts'[j] >= MaxAttempts
  BY <1>f, <1>1, <1>3, <1>6, <1>8, <1>9, SMTT(20)
<1>15. WorkerHonest(w)'
  <2>1. rows'[j].status # "none"
    BY <1>2, <1>3, Zenon
  <2>2. worker'[w].pc = "answered" /\ worker'[w].job = j
        /\ worker'[w].attempts = n /\ worker'[w].status = s
    BY <1>4
  <2> QED
    BY <1>3, <1>5, <1>7, <1>9, <1>14, <2>1, <2>2, SMTT(20) DEF WorkerHonest, OutcomeHonest
<1> HIDE DEF r
<1>16. \A v \in Workers : WorkerHonest(v)'
  BY <1>a, <1>2, <1>11, <1>15, WorkersStay, ZenonT(20)
<1> QED
  BY <1>a, <1>11, <1>12, <1>13, <1>16, HonestFrame, Zenon DEF Post, CopiesHonest

\* A listing is a sequence of copies of due jobs with the attempts of their rows.
LEMMA ListType ==
    ASSUME TypeOK
    PROVE  /\ ListPendingDeliveryJobs \in Seq(Copies)
           /\ \A i \in DOMAIN ListPendingDeliveryJobs :
                 /\ i \in DOMAIN due
                 /\ ListPendingDeliveryJobs[i] = Copy(due[i], rows[due[i]].attempts)
<1> DEFINE n == IF Len(due) < QueueCap THEN Len(due) ELSE QueueCap
           l == [i \in 1..n |-> Copy(due[i], rows[due[i]].attempts)]
<1>1. QueueCap \in Nat
  BY ConstantsAssumption DEF QueueCap
<1>2. n \in 0..Len(due) /\ Len(due) \in Nat
  BY <1>1 DEF TypeOK, StoreType
<1>3. \A i \in 1..n : i \in DOMAIN due /\ Copy(due[i], rows[due[i]].attempts) \in Copies
  BY <1>2 DEF TypeOK, StoreType, Copy, Copies, Row
<1> HIDE DEF n
<1>4. l \in Seq(Copies)
  BY <1>2, <1>3
<1>5. ListPendingDeliveryJobs = l
  BY Zenon DEF ListPendingDeliveryJobs, n
<1> QED
  BY <1>3, <1>4, <1>5, Zenon

\* Every step keeps rows and copies honest.
LEMMA HonestStep ==
    IInv /\ TypeOK' /\ [Next]_vars => CopiesHonest' /\ AttemptsHonest' /\ LedgerTruthful'
<1> SUFFICES ASSUME IInv, TypeOK', [Next]_vars
             PROVE  CopiesHonest' /\ AttemptsHonest' /\ LedgerTruthful'
  BY Zenon
<1>a. TypeOK /\ TypeOK' /\ CopiesHonest /\ AttemptsHonest /\ LedgerTruthful
  BY Zenon DEF IInv
<1>b. RowsHonest /\ AllHonest(queue) /\ AllHonest(batch) /\ \A w \in Workers : WorkerHonest(w)
  BY <1>a, Zenon DEF CopiesHonest
<1>c. rows \in [Jobs -> Row] /\ saved \in [Jobs -> Nat]
  BY <1>a, Zenon DEF TypeOK, StoreType, EventType
<1>d. queue \in Seq(Copies) /\ batch \in Seq(Copies)
  BY <1>a, Zenon DEF TypeOK, SweepType
<1>e. posts \in [Jobs -> 0..(MaxAttempts + 1)]
  BY <1>a, Zenon DEF TypeOK, EndpointType
<1>f. MaxAttempts \in Nat \ {0} /\ \A k \in Jobs : posts[k] \in Nat
  BY <1>e, PostsNat, Zenon
<1>1. ASSUME NEW j \in Jobs, OnMessageReceived(j)
      PROVE  CopiesHonest' /\ AttemptsHonest' /\ LedgerTruthful'
  <2>1. \/ rows' = rows /\ (saved' = saved \/ rows[j].status # "none")
        \/ /\ rows[j].status = "none"
           /\ rows' = [rows EXCEPT ![j] = [status |-> "pending", attempts |-> 0]]
    <3>1. CASE SaveDeliveryJob(j)
      BY <3>1, Zenon DEF SaveDeliveryJob, storeVars
    <3>2. CASE rows' = rows /\ saved' = saved
      BY <3>2, Zenon
    <3> QED
      BY <1>1, <3>1, <3>2, Zenon DEF OnMessageReceived
  <2>2. \A k \in Jobs : rows'[k] = rows[k] \/ (rows'[k] = [status |-> "pending", attempts |-> 0]
                                                /\ rows[k].status = "none")
    BY <1>c, <2>1, Zenon
  <2>3. accepted' = accepted /\ refused' = refused /\ posts' = posts
    BY <1>1, Zenon DEF OnMessageReceived, endpointVars
  <2>4. Grows
    BY <1>f, <2>2, <2>3 DEF Grows
  <2>5. AttemptsHonest'
    BY <1>a, <1>f, <2>2, <2>3 DEF AttemptsHonest
  <2>6. LedgerTruthful'
    BY <1>a, <2>2, <2>3 DEF LedgerTruthful
  <2>7. RowsHonest'
    <3>1. \A k \in Jobs : k # j => saved'[k] = saved[k]
      BY <1>1, <1>c, Zenon DEF OnMessageReceived
    <3>2. saved'[j] > 0 => rows'[j].status # "none"
      BY <1>b, <1>c, <2>1 DEF RowsHonest
    <3> QED
      BY <1>b, <1>f, <2>2, <3>1, <3>2 DEF RowsHonest
  <2> QED
    BY <1>1, <1>a, <2>4, <2>5, <2>6, <2>7, HonestFrame, Zenon DEF OnMessageReceived, CopiesHonest
<1>2. ASSUME NEW j \in Jobs, EnqueueNew(j)
      PROVE  CopiesHonest' /\ AttemptsHonest' /\ LedgerTruthful'
  <2>1. Grows /\ AttemptsHonest' /\ LedgerTruthful'
    BY <1>2, QuietStep, Zenon DEF EnqueueNew
  <2>2. rows' = rows /\ posts' = posts
    BY <1>2, Zenon DEF EnqueueNew, storeVars, endpointVars
  <2>3. saved[j] > 0 /\ saved' = [saved EXCEPT ![j] = @ - 1]
    BY <1>2, Zenon DEF EnqueueNew
  <2>4. RowsHonest'
    <3>1. \A k \in Jobs : saved'[k] > 0 => saved[k] > 0
      BY <1>c, <2>3, Zenon
    <3> QED
      BY <1>b, <2>2, <3>1, Zenon DEF RowsHonest
  <2>5. AllHonest(queue)'
    <3>1. Copy(j, 0) \in Copies /\ Copy(j, 0).job = j /\ Copy(j, 0).attempts = 0
      BY Zenon DEF Copy, Copies
    <3>2. CopyHonest(j, 0)
      BY <1>b, <1>f, <2>3 DEF RowsHonest, CopyHonest
    <3>3. AllHonest(Offer(queue, Copy(j, 0)))
      BY <1>b, <1>d, <3>1, <3>2, OfferHonest, Zenon
    <3> QED
      BY <1>2, <2>2, <3>3, HonestChannel, Zenon DEF EnqueueNew
  <2> QED
    BY <1>2, <1>a, <2>1, <2>4, <2>5, HonestFrame, Zenon DEF EnqueueNew, CopiesHonest
<1>3. ASSUME NEW w \in Workers, WorkerTake(w)
      PROVE  CopiesHonest' /\ AttemptsHonest' /\ LedgerTruthful'
  <2>1. Grows /\ AttemptsHonest' /\ LedgerTruthful'
    BY <1>3, QuietStep, Zenon DEF WorkerTake
  <2>2. rows' = rows /\ posts' = posts /\ queue # <<>> /\ queue' = Tail(queue)
    BY <1>3, Zenon DEF WorkerTake, storeVars, endpointVars
  <2>3. AllHonest(queue)'
    BY <1>b, <1>d, <2>2, TailHonest, HonestChannel, Zenon
  <2>4. \A v \in Workers : WorkerHonest(v)'
    <3> DEFINE r == [pc |-> "taken", job |-> Head(queue).job,
                     attempts |-> Head(queue).attempts, status |-> "pending"]
    <3>1. worker' = [worker EXCEPT ![w] = r]
      BY <1>3, Zenon DEF WorkerTake
    <3>2. CopyHonest(Head(queue).job, Head(queue).attempts)
      BY <1>b, <1>d, <2>2, TailProps, Zenon DEF AllHonest
    <3>3. worker'[w] = r
      BY <1>a, <3>1, Zenon DEF TypeOK, WorkerType
    <3>4. WorkerHonest(w)'
      BY <2>2, <3>2, <3>3 DEF WorkerHonest, CopyHonest
    <3> HIDE DEF r
    <3> QED
      BY <1>a, <2>1, <3>1, <3>4, WorkersStay, ZenonT(20)
  <2> QED
    BY <1>3, <1>a, <2>1, <2>3, <2>4, HonestFrame, Zenon DEF WorkerTake, CopiesHonest
<1>4. ASSUME NEW w \in Workers, WorkerExit(w) \/ FetchFails(w) \/ RecordFails(w)
      PROVE  CopiesHonest' /\ AttemptsHonest' /\ LedgerTruthful'
  <2>1. /\ UNCHANGED storeVars /\ UNCHANGED endpointVars /\ UNCHANGED queue
        /\ UNCHANGED sweepVars /\ UNCHANGED eventVars
        /\ worker' = [worker EXCEPT ![w] = Exited] \/ worker' = [worker EXCEPT ![w] = Idle]
    BY <1>4, Zenon DEF WorkerExit, FetchFails, RecordFails
  <2>2. Grows /\ AttemptsHonest' /\ LedgerTruthful'
    BY <2>1, QuietStep, Zenon
  <2>3. \A v \in Workers : WorkerHonest(v)'
    BY <1>a, <2>1, <2>2, WorkersStay, Zenon
  <2> QED
    BY <1>a, <2>1, <2>2, <2>3, HonestFrame, Zenon DEF CopiesHonest
<1>5. ASSUME NEW w \in Workers, BuildRequestFails(w)
      PROVE  CopiesHonest' /\ AttemptsHonest' /\ LedgerTruthful'
  <2>1. Grows /\ AttemptsHonest' /\ LedgerTruthful'
    BY <1>5, QuietStep, Zenon DEF BuildRequestFails
  <2>2. \A v \in Workers : WorkerHonest(v)'
    BY <1>5, BuildFailsHonest, Zenon
  <2> QED
    BY <1>5, <1>a, <2>1, <2>2, HonestFrame, ZenonT(20) DEF BuildRequestFails, CopiesHonest
<1>6. ASSUME NEW w \in Workers, NEW code \in Codes, NEW takes \in BOOLEAN, Post(w, code, takes)
      PROVE  CopiesHonest' /\ AttemptsHonest' /\ LedgerTruthful'
  BY <1>6, PostHonest, Zenon
<1>7. ASSUME NEW w \in Workers, RecordOutcome(w)
      PROVE  CopiesHonest' /\ AttemptsHonest' /\ LedgerTruthful'
  <2> DEFINE j == worker[w].job
             n == worker[w].attempts
             s == worker[w].status
  <2>1. j \in Jobs /\ n \in Nat /\ OutcomeHonest(j, n, s)
    BY <1>7, <1>a, <1>b, BusyWorker, Zenon DEF RecordOutcome, WorkerHonest
  <2>2. /\ rows' = [rows EXCEPT ![j] = [status |-> s, attempts |-> n]]
        /\ worker' = [worker EXCEPT ![w] = Idle]
        /\ saved' = saved /\ accepted' = accepted /\ refused' = refused /\ posts' = posts
    BY <1>7, Zenon DEF RecordOutcome, UpdateDeliveryJob, eventVars, endpointVars
  <2> HIDE DEF j, n, s
  <2>3. \A k \in Jobs : rows'[k] = IF k = j THEN [status |-> s, attempts |-> n] ELSE rows[k]
    BY <1>c, <2>1, <2>2, Zenon
  <2>4. Grows
    BY <1>f, <2>1, <2>2, <2>3 DEF Grows, OutcomeHonest
  <2>5. AttemptsHonest'
    BY <1>a, <2>1, <2>2, <2>3, SMTT(20) DEF AttemptsHonest, OutcomeHonest
  <2>6. LedgerTruthful'
    BY <1>a, <2>1, <2>2, <2>3, SMTT(20) DEF LedgerTruthful, OutcomeHonest
  <2>7. RowsHonest'
    BY <1>b, <2>1, <2>2, <2>3 DEF RowsHonest, OutcomeHonest, OpenStatus
  <2>8. \A v \in Workers : WorkerHonest(v)'
    BY <1>a, <2>2, <2>4, WorkersStay, ZenonT(20)
  <2> QED
    BY <1>7, <1>a, <2>4, <2>5, <2>6, <2>7, <2>8, HonestFrame, Zenon DEF RecordOutcome, CopiesHonest
<1>8. CASE SweepList
  <2>1. Grows /\ AttemptsHonest' /\ LedgerTruthful'
    BY <1>8, QuietStep, Zenon DEF SweepList
  <2>2. AllHonest(batch)'
    <3>1. ASSUME NEW i \in DOMAIN ListPendingDeliveryJobs
          PROVE  CopyHonest(ListPendingDeliveryJobs[i].job, ListPendingDeliveryJobs[i].attempts)
      <4>1. i \in DOMAIN due /\ ListPendingDeliveryJobs[i] = Copy(due[i], rows[due[i]].attempts)
        BY <1>a, ListType, Zenon
      <4>2. due[i] \in Jobs
        BY <1>a, <4>1 DEF TypeOK, StoreType
      <4>3. rows[due[i]].status \in OpenStatus
        BY <4>1, <4>2, Zenon DEF IInv, OpenRowsScheduled
      <4>4. CopyHonest(due[i], rows[due[i]].attempts)
        BY <1>a, <1>b, <4>2, <4>3, Zenon DEF CopyHonest, OpenStatus, RowsHonest, AttemptsHonest
      <4> QED
        BY <4>1, <4>4 DEF Copy
    <3>2. AllHonest(ListPendingDeliveryJobs)
      BY <3>1, Zenon DEF AllHonest
    <3>3. rows' = rows /\ posts' = posts /\ batch' = ListPendingDeliveryJobs
      BY <1>8, Zenon DEF SweepList, storeVars, endpointVars
    <3> QED
      BY <3>2, <3>3, HonestChannel, Zenon
  <2> QED
    BY <1>8, <1>a, <2>1, <2>2, HonestFrame, Zenon DEF SweepList, CopiesHonest
<1>9. CASE SweepOffer
  <2>1. Grows /\ AttemptsHonest' /\ LedgerTruthful'
    BY <1>9, QuietStep, Zenon DEF SweepOffer
  <2>2. /\ rows' = rows /\ posts' = posts /\ batch # <<>>
        /\ batch' = Tail(batch) /\ queue' = Offer(queue, Head(batch))
    BY <1>9, Zenon DEF SweepOffer, storeVars, endpointVars
  <2>3. AllHonest(batch)'
    BY <1>b, <1>d, <2>2, TailHonest, HonestChannel, Zenon
  <2>4. AllHonest(queue)'
    <3>1. Head(batch) \in Copies /\ CopyHonest(Head(batch).job, Head(batch).attempts)
      BY <1>b, <1>d, <2>2, TailProps, Zenon DEF AllHonest
    <3>2. AllHonest(Offer(queue, Head(batch)))
      BY <1>b, <1>d, <3>1, OfferHonest, Zenon
    <3> QED
      BY <2>2, <3>2, HonestChannel, Zenon
  <2> QED
    BY <1>9, <1>a, <2>1, <2>3, <2>4, HonestFrame, Zenon DEF SweepOffer, CopiesHonest
<1>10. ASSUME NEW j \in Jobs, RetryDue(j)
       PROVE  CopiesHonest' /\ AttemptsHonest' /\ LedgerTruthful'
  <2>1. rows' = rows /\ saved' = saved /\ accepted' = accepted /\ refused' = refused /\ posts' = posts
    BY <1>10, Zenon DEF RetryDue, eventVars, endpointVars
  <2>2. Grows
    BY <1>f, <2>1 DEF Grows
  <2>3. AttemptsHonest' /\ LedgerTruthful' /\ RowsHonest'
    BY <1>a, <1>b, <2>1, Zenon DEF AttemptsHonest, LedgerTruthful, RowsHonest
  <2> QED
    BY <1>10, <1>a, <2>2, <2>3, HonestFrame, Zenon DEF RetryDue, CopiesHonest
<1>11. ASSUME GoDown PROVE CopiesHonest' /\ AttemptsHonest' /\ LedgerTruthful'
  <2>1. Grows /\ AttemptsHonest' /\ LedgerTruthful'
    BY <1>11, QuietStep, Zenon DEF GoDown
  <2>2. RowsHonest'
    <3>1. rows' = rows /\ \A j \in Jobs : saved'[j] = 0
      BY <1>11, Zenon DEF GoDown, storeVars
    <3> QED
      BY <1>b, <3>1 DEF RowsHonest
  <2>3. \A v \in Workers : WorkerHonest(v)'
    BY <1>11, Zenon DEF GoDown, Idle, WorkerHonest
  <2>4. AllHonest(queue)' /\ AllHonest(batch)'
    BY <1>11 DEF GoDown, AllHonest
  <2> QED
    BY <2>1, <2>2, <2>3, <2>4, Zenon DEF CopiesHonest
<1>12. ASSUME /\ UNCHANGED storeVars /\ UNCHANGED endpointVars /\ UNCHANGED eventVars
              /\ UNCHANGED queue /\ UNCHANGED batch /\ UNCHANGED worker
       PROVE  CopiesHonest' /\ AttemptsHonest' /\ LedgerTruthful'
  <2>1. Grows /\ AttemptsHonest' /\ LedgerTruthful'
    BY <1>12, QuietStep, Zenon
  <2>2. AllHonest(batch)'
    BY <1>12, <1>a, <1>b, <2>1, HonestStays, SMTT(20)
  <2> QED
    BY <1>12, <1>a, <2>1, <2>2, HonestFrame, Zenon DEF CopiesHonest
<1>13. CASE SweeperExit \/ (\E j \in Jobs : DeleteMessage(j)) \/ Signal \/ Stop \/ Start
  BY <1>12, <1>13, Zenon DEF SweeperExit, DeleteMessage, Signal, Stop, Start, sweepVars
<1>14. CASE UNCHANGED vars
  BY <1>12, <1>14, Zenon DEF vars, storeVars, eventVars, endpointVars
<1> QED
  BY <1>1, <1>2, <1>3, <1>4, <1>5, <1>6, <1>7, <1>8, <1>9, <1>10, <1>11, <1>13, <1>14, SMTT(20)
     DEF Next, Attempt, Exit, Crash

-----------------------------------------------------------------------------
(* The schedule: exactly the open rows are due or waiting *)

\* Append adds one member, and no repetition if that is new.
LEMMA AppendMembers ==
    ASSUME NEW S, NEW s \in Seq(S), NEW j \in S,
           \A i, k \in DOMAIN s : s[i] = s[k] => i = k,
           \A i \in DOMAIN s : s[i] # j
    PROVE  /\ \A x : (\E i \in DOMAIN Append(s, j) : Append(s, j)[i] = x)
                     <=> (x = j \/ \E i \in DOMAIN s : s[i] = x)
           /\ \A i, k \in DOMAIN Append(s, j) :
                 Append(s, j)[i] = Append(s, j)[k] => i = k
<1> DEFINE t == Append(s, j)
<1>1. /\ Len(s) \in Nat /\ DOMAIN s = 1..Len(s) /\ DOMAIN t = 1..(Len(s) + 1)
      /\ \A i \in DOMAIN s : i \in DOMAIN t /\ t[i] = s[i]
      /\ t[Len(s) + 1] = j /\ Len(s) + 1 \in DOMAIN t
      /\ \A i \in DOMAIN t : i \in DOMAIN s \/ i = Len(s) + 1
  OBVIOUS
<1> HIDE DEF t
<1>2. \A x : (\E i \in DOMAIN t : t[i] = x) <=> (x = j \/ \E i \in DOMAIN s : s[i] = x)
  BY <1>1, Zenon
<1>3. \A i, k \in DOMAIN t : t[i] = t[k] => i = k
  BY <1>1, Zenon
<1> QED
  BY <1>2, <1>3, Zenon DEF t

\* Without(s, j) is a sequence over the same set.
LEMMA WithoutType ==
    ASSUME NEW S, NEW s \in Seq(S), NEW j
    PROVE  Without(s, j) \in Seq(S)
<1>1. CASE \E k \in DOMAIN s : s[k] = j
  <2> DEFINE i == CHOOSE i \in DOMAIN s : s[i] = j
             t == [k \in 1..(Len(s) - 1) |-> IF k < i THEN s[k] ELSE s[k + 1]]
  <2>1. i \in 1..Len(s)
    BY <1>1
  <2>2. Len(s) - 1 \in Nat
    BY <2>1
  <2>3. \A k \in 1..(Len(s) - 1) : s[k] \in S /\ s[k + 1] \in S
    BY <2>2
  <2> HIDE DEF i
  <2>4. t \in Seq(S)
    BY <2>1, <2>2, <2>3
  <2>5. Without(s, j) = t
    BY <1>1, Zenon DEF Without, i
  <2> QED
    BY <2>4, <2>5, Zenon
<1>2. CASE ~ \E k \in DOMAIN s : s[k] = j
  BY <1>2, Zenon DEF Without
<1> QED
  BY <1>1, <1>2, Zenon

\* In a sequence without repetitions, Without removes j and nothing else.
LEMMA WithoutMembers ==
    ASSUME NEW S, NEW s \in Seq(S), NEW j,
           \A i, k \in DOMAIN s : s[i] = s[k] => i = k
    PROVE  /\ \A x : (\E i \in DOMAIN Without(s, j) : Without(s, j)[i] = x)
                     <=> (x # j /\ \E i \in DOMAIN s : s[i] = x)
           /\ \A i, k \in DOMAIN Without(s, j) :
                 Without(s, j)[i] = Without(s, j)[k] => i = k
<1>1. CASE \E k \in DOMAIN s : s[k] = j
  <2> DEFINE i == CHOOSE i \in DOMAIN s : s[i] = j
             t == [k \in 1..(Len(s) - 1) |-> IF k < i THEN s[k] ELSE s[k + 1]]
  <2>1. i \in 1..Len(s) /\ s[i] = j
    BY <1>1
  <2>2. Without(s, j) = t
    BY <1>1, Zenon DEF Without
  <2> HIDE DEF i
  <2>3. Len(s) \in Nat /\ Len(s) - 1 \in Nat /\ DOMAIN s = 1..Len(s)
    BY <2>1
  <2>4. DOMAIN t = 1..(Len(s) - 1)
    BY Zenon
  <2>5. \A x : (\E k \in DOMAIN t : t[k] = x) => x # j /\ \E k \in DOMAIN s : s[k] = x
    <3> SUFFICES ASSUME NEW k \in 1..(Len(s) - 1)
                 PROVE  t[k] # j /\ \E m \in DOMAIN s : s[m] = t[k]
      BY <2>4
    <3>1. CASE k < i
      BY <3>1, <2>1, <2>3
    <3>2. CASE ~(k < i)
      <4>1. t[k] = s[k + 1] /\ k + 1 \in DOMAIN s /\ k + 1 # i
        BY <3>2, <2>1, <2>3
      <4> QED
        BY <4>1, <2>1, <2>3, Zenon
    <3> QED
      BY <3>1, <3>2, Zenon
  <2>6. ASSUME NEW x, x # j, NEW m \in DOMAIN s, s[m] = x
        PROVE  \E k \in DOMAIN t : t[k] = x
    <3>1. m # i
      BY <2>6, <2>1, Zenon
    <3>2. CASE m < i
      <4>1. m \in 1..(Len(s) - 1) /\ t[m] = s[m]
        BY <3>2, <2>1, <2>3
      <4> QED
        BY <4>1, <2>6, <2>4, Zenon
    <3>3. CASE m > i
      <4>1. m - 1 \in 1..(Len(s) - 1) /\ t[m - 1] = s[m]
        BY <3>3, <2>1, <2>3
      <4> QED
        BY <4>1, <2>6, <2>4, Zenon
    <3> QED
      BY <3>1, <3>2, <3>3, <2>1, <2>3
  <2>7. ASSUME NEW k \in DOMAIN t, NEW m \in DOMAIN t, t[k] = t[m]
        PROVE  k = m
    <3> DEFINE f(n) == IF n < i THEN n ELSE n + 1
    <3>1. k \in 1..(Len(s) - 1) /\ m \in 1..(Len(s) - 1)
      BY <2>4, Zenon
    <3>2. f(k) \in DOMAIN s /\ f(m) \in DOMAIN s /\ t[k] = s[f(k)] /\ t[m] = s[f(m)]
      BY <3>1, <2>1, <2>3
    <3>3. f(k) = f(m)
      BY <3>2, <2>7, Zenon
    <3> QED
      BY <3>1, <3>3, <2>1, <2>3
  <2> HIDE DEF t
  <2>8. \A x : x # j /\ (\E m \in DOMAIN s : s[m] = x) => \E k \in DOMAIN t : t[k] = x
    BY <2>6, Zenon
  <2>9. \A k, m \in DOMAIN t : t[k] = t[m] => k = m
    BY <2>7, Zenon
  <2> QED
    BY <2>2, <2>5, <2>8, <2>9, Zenon
<1>2. CASE ~ \E k \in DOMAIN s : s[k] = j
  BY <1>2, Zenon DEF Without
<1> QED
  BY <1>1, <1>2, Zenon

\* An insert schedules the new row; an update schedules the row again if it
\* failed and takes it out of the schedule otherwise.
LEMMA ScheduleStep ==
    TypeOK /\ OpenRowsScheduled /\ CopiesHonest /\ [Next]_vars => OpenRowsScheduled'
<1> SUFFICES ASSUME TypeOK, OpenRowsScheduled, CopiesHonest, [Next]_vars
             PROVE  OpenRowsScheduled'
  BY Zenon
<1>0. due \in Seq(Jobs) /\ \A i, k \in DOMAIN due : due[i] = due[k] => i = k
  BY Zenon DEF TypeOK, StoreType, OpenRowsScheduled
<1>1. CASE UNCHANGED storeVars
  BY <1>1, SMTT(20) DEF OpenRowsScheduled, storeVars
<1>2. ASSUME NEW j \in Jobs, rows[j].status = "none", SaveDeliveryJob(j)
      PROVE  OpenRowsScheduled'
  <2>1. /\ rows' = [rows EXCEPT ![j] = [status |-> "pending", attempts |-> 0]]
        /\ due' = Append(due, j)
        /\ waiting' = waiting
    BY <1>2, Zenon DEF SaveDeliveryJob
  <2>2. j \notin waiting /\ \A i \in DOMAIN due : due[i] # j
    BY <1>2, Zenon DEF OpenRowsScheduled, OpenStatus
  <2>3. /\ \A x : (\E i \in DOMAIN due' : due'[i] = x) <=> x = j \/ \E i \in DOMAIN due : due[i] = x
        /\ \A i, k \in DOMAIN due' : due'[i] = due'[k] => i = k
    <3>1. /\ \A x : (\E i \in DOMAIN Append(due, j) : Append(due, j)[i] = x)
                    <=> (x = j \/ \E i \in DOMAIN due : due[i] = x)
          /\ \A i, k \in DOMAIN Append(due, j) : Append(due, j)[i] = Append(due, j)[k] => i = k
      BY <1>0, <2>2, AppendMembers, Zenon
    <3> QED
      BY <3>1, <2>1, Zenon
  <2>4. rows'[j].status = "pending" /\ \A k \in Jobs \ {j} : rows'[k] = rows[k]
    BY <2>1, Zenon DEF TypeOK, StoreType
  <2>5. \A k \in Jobs : rows'[k].status \in OpenStatus
           <=> (k \in waiting' \/ \E i \in DOMAIN due' : due'[i] = k)
    BY <2>1, <2>3, <2>4, SMTT(20) DEF OpenRowsScheduled, OpenStatus
  <2>6. \A i \in DOMAIN due' : due'[i] \notin waiting'
    BY <2>1, <2>2, <2>3, SMTT(20) DEF OpenRowsScheduled
  <2> QED
    BY <2>3, <2>5, <2>6, SMTT(20) DEF OpenRowsScheduled
<1>3. ASSUME NEW j \in Jobs, RetryDue(j) PROVE OpenRowsScheduled'
  <2>1. rows' = rows /\ due' = Append(due, j) /\ waiting' = waiting \ {j} /\ j \in waiting
    BY <1>3, Zenon DEF RetryDue
  <2>2. \A i \in DOMAIN due : due[i] # j
    BY <2>1, SMTT(20) DEF OpenRowsScheduled
  <2>3. /\ \A x : (\E i \in DOMAIN due' : due'[i] = x) <=> x = j \/ \E i \in DOMAIN due : due[i] = x
        /\ \A i, k \in DOMAIN due' : due'[i] = due'[k] => i = k
    <3>1. /\ \A x : (\E i \in DOMAIN Append(due, j) : Append(due, j)[i] = x)
                    <=> (x = j \/ \E i \in DOMAIN due : due[i] = x)
          /\ \A i, k \in DOMAIN Append(due, j) : Append(due, j)[i] = Append(due, j)[k] => i = k
      BY <1>0, <2>2, AppendMembers, Zenon
    <3> QED
      BY <3>1, <2>1, Zenon
  <2> QED
    BY <2>1, <2>2, <2>3 DEF OpenRowsScheduled
<1>4. ASSUME NEW w \in Workers, RecordOutcome(w) PROVE OpenRowsScheduled'
  <2> DEFINE j == worker[w].job
             s == worker[w].status
  <2>1. j \in Jobs /\ s \in {"failed", "delivered", "dead"}
    BY <1>4, BusyWorker, Zenon DEF RecordOutcome, CopiesHonest, WorkerHonest, OutcomeHonest
  <2>2. /\ rows' = [rows EXCEPT ![j] = [status |-> s, attempts |-> worker[w].attempts]]
        /\ due' = Without(due, j)
        /\ waiting' = IF s = "failed" THEN waiting \cup {j} ELSE waiting \ {j}
    BY <1>4, Zenon DEF RecordOutcome, UpdateDeliveryJob
  <2> HIDE DEF j, s
  <2>3. /\ \A x : (\E i \in DOMAIN due' : due'[i] = x) <=> x # j /\ \E i \in DOMAIN due : due[i] = x
        /\ \A i, k \in DOMAIN due' : due'[i] = due'[k] => i = k
    <3>1. /\ \A x : (\E i \in DOMAIN Without(due, j) : Without(due, j)[i] = x)
                    <=> (x # j /\ \E i \in DOMAIN due : due[i] = x)
          /\ \A i, k \in DOMAIN Without(due, j) : Without(due, j)[i] = Without(due, j)[k] => i = k
      BY <1>0, WithoutMembers, ZenonT(20)
    <3> QED
      BY <3>1, <2>2, Zenon
  <2>4. rows'[j].status = s /\ \A k \in Jobs \ {j} : rows'[k] = rows[k]
    BY <2>1, <2>2, Zenon DEF TypeOK, StoreType
  <2>5. j \in waiting' <=> s = "failed"
    BY <2>2, Zenon
  <2>6. \A k \in Jobs \ {j} : k \in waiting' <=> k \in waiting
    BY <2>2, Zenon
  <2>7. \A k \in Jobs : rows'[k].status \in OpenStatus
           <=> (k \in waiting' \/ \E i \in DOMAIN due' : due'[i] = k)
    BY <2>1, <2>3, <2>4, <2>5, <2>6, SMTT(20) DEF OpenRowsScheduled, OpenStatus
  <2>8. \A i \in DOMAIN due' : due'[i] \notin waiting'
    BY <2>2, <2>3 DEF OpenRowsScheduled
  <2> QED
    BY <2>3, <2>7, <2>8, SMTT(20) DEF OpenRowsScheduled
<1>5. ASSUME NEW j \in Jobs, OnMessageReceived(j) PROVE OpenRowsScheduled'
  <2>1. SaveDeliveryJob(j) \/ UNCHANGED storeVars
    BY <1>5, Zenon DEF OnMessageReceived, storeVars
  <2> QED
    BY <1>1, <1>2, <2>1, Zenon DEF SaveDeliveryJob
<1> QED
  BY <1>1, <1>3, <1>4, <1>5, ZenonT(30) DEF Next, Attempt, EnqueueNew, WorkerTake, WorkerExit, FetchFails,
     BuildRequestFails, Post, RecordFails, SweepList, SweepOffer, SweeperExit, DeleteMessage,
     Signal, Stop, Exit, Crash, GoDown, Start, vars, storeVars

-----------------------------------------------------------------------------
(* Type correctness *)

\* The statuses fail() and attempt() give a job.
LEMMA StatusType ==
    ASSUME NEW n, NEW c, NEW b
    PROVE  /\ failStatus(n, b) \in {"failed", "dead"}
           /\ answerStatus(n, c) \in {"failed", "delivered", "dead"}
  BY Zenon DEF failStatus, answerStatus

\* A group of variables that a step leaves alone stays typed.
LEMMA TypeFrame ==
    ASSUME TypeOK
    PROVE  /\ UNCHANGED storeVars => StoreType'
           /\ UNCHANGED queue => queue' \in Seq(Copies)
           /\ UNCHANGED worker => WorkerType'
           /\ UNCHANGED sweepVars => SweepType'
           /\ UNCHANGED lifeVars => LifeType'
           /\ UNCHANGED eventVars => EventType'
           /\ UNCHANGED endpointVars => EndpointType'
           /\ UNCHANGED deleted => deleted' \subseteq Jobs
           /\ UNCHANGED faults => faults' \in 0..MaxFaults
<1>1. UNCHANGED storeVars => StoreType'
  BY Zenon DEF TypeOK, StoreType, storeVars
<1>2. UNCHANGED worker => WorkerType'
  BY Zenon DEF TypeOK, WorkerType
<1>3. UNCHANGED sweepVars => SweepType'
  BY Zenon DEF TypeOK, SweepType, sweepVars
<1>4. UNCHANGED lifeVars => LifeType'
  BY Zenon DEF TypeOK, LifeType, lifeVars
<1>5. UNCHANGED eventVars => EventType'
  BY Zenon DEF TypeOK, EventType, eventVars
<1>6. UNCHANGED endpointVars => EndpointType'
  BY Zenon DEF TypeOK, EndpointType, endpointVars
<1>7. /\ UNCHANGED queue => queue' \in Seq(Copies)
      /\ UNCHANGED deleted => deleted' \subseteq Jobs
      /\ UNCHANGED faults => faults' \in 0..MaxFaults
  BY Zenon DEF TypeOK
<1> QED
  BY <1>1, <1>2, <1>3, <1>4, <1>5, <1>6, <1>7, Zenon

\* A worker may turn to anything a worker can hold.
LEMMA WorkerTyped ==
    ASSUME TypeOK, NEW w \in Workers, NEW r, worker' = [worker EXCEPT ![w] = r],
           \/ r \in {Idle, Exited}
           \/ r \in [pc : {"taken", "answered"}, job : Jobs, attempts : Nat,
                     status : OpenStatus \cup ClosedStatus]
    PROVE  WorkerType' /\ worker'[w] = r /\ \A v \in Workers \ {w} : worker'[v] = worker[v]
<1> DEFINE A == [pc : {"idle", "exited"}, job : {NoJob}, attempts : {0}, status : {"pending"}]
           B == [pc : {"taken", "answered"}, job : Jobs, attempts : Nat,
                 status : OpenStatus \cup ClosedStatus]
<1>1. worker \in [Workers -> A \cup B]
  BY Zenon DEF TypeOK, WorkerType
<1>2. Idle \in A /\ Exited \in A
  BY Zenon DEF Idle, Exited
<1>3. r \in A \cup B
  BY <1>2, Zenon
<1> HIDE DEF A, B
<1>4. worker' \in [Workers -> A \cup B]
  BY <1>1, <1>3, Zenon
<1>5. WorkerType'
  BY <1>4, Zenon DEF WorkerType, A, B
<1> QED
  BY <1>1, <1>5, Zenon

\* A worker inside attempt() holds a job, a count and a status.
LEMMA HolderTyped ==
    ASSUME TypeOK, NEW w \in Workers, NEW pc \in {"taken", "answered"}, NEW j \in Jobs,
           NEW n \in Nat, NEW s \in OpenStatus \cup ClosedStatus,
           worker' = [worker EXCEPT ![w] = [pc |-> pc, job |-> j, attempts |-> n, status |-> s]]
    PROVE  WorkerType'
  BY WorkerTyped, Zenon

\* A fault is counted within its bound.
LEMMA FaultType == TypeOK /\ Fault => faults' \in 0..MaxFaults
  BY ConstantsAssumption DEF TypeOK, Fault

\* What the process loses when it ends is typed as at its start.
LEMMA GoDownType == TypeOK /\ GoDown /\ faults' \in 0..MaxFaults => TypeOK'
<1> SUFFICES ASSUME TypeOK, GoDown, faults' \in 0..MaxFaults PROVE TypeOK'
  BY Zenon
<1>1. WorkerType'
  BY Zenon DEF GoDown, WorkerType, Idle
<1>2. queue' \in Seq(Copies) /\ SweepType'
  BY DEF GoDown, SweepType
<1>3. LifeType' /\ EventType'
  BY Zenon DEF GoDown, TypeOK, LifeType, EventType
<1>4. deleted' \subseteq Jobs
  BY Zenon DEF GoDown, TypeOK
<1>5. StoreType' /\ EndpointType'
  BY TypeFrame, Zenon DEF GoDown
<1> QED
  BY <1>1, <1>2, <1>3, <1>4, <1>5, Zenon DEF TypeOK

\* Every step keeps the state well typed.
LEMMA TypeStep == TypeOK /\ [Next]_vars => TypeOK'
<1> SUFFICES ASSUME TypeOK, [Next]_vars PROVE TypeOK'
  BY Zenon
<1>1. ASSUME NEW j \in Jobs, OnMessageReceived(j) PROVE TypeOK'
  <2>1. StoreType'
    <3>1. CASE UNCHANGED storeVars
      BY <3>1, TypeFrame, Zenon
    <3>2. CASE /\ rows' = [rows EXCEPT ![j] = [status |-> "pending", attempts |-> 0]]
               /\ due' = Append(due, j)
               /\ UNCHANGED waiting
      <4>1. [status |-> "pending", attempts |-> 0] \in Row
        BY Zenon DEF Row, OpenStatus
      <4> QED
        BY <3>2, <4>1 DEF TypeOK, StoreType
    <3> QED
      BY <1>1, <3>1, <3>2, Zenon DEF OnMessageReceived, SaveDeliveryJob, storeVars
  <2>2. EventType'
    <3>1. events' \in [Jobs -> Nat]
      BY <1>1 DEF TypeOK, EventType, OnMessageReceived
    <3>2. saved \in [Jobs -> Nat] /\ unsaved \subseteq Jobs
      BY Zenon DEF TypeOK, EventType
    <3>3. \/ saved' = [saved EXCEPT ![j] = @ + 1] /\ unsaved' = unsaved
          \/ saved' = saved /\ unsaved' = unsaved \cup {j}
      BY <1>1, Zenon DEF OnMessageReceived
    <3> QED
      BY <3>1, <3>2, <3>3 DEF EventType
  <2>3. faults' \in 0..MaxFaults
    BY <1>1, TypeFrame, FaultType, Zenon DEF OnMessageReceived
  <2> QED
    BY <1>1, <2>1, <2>2, <2>3, TypeFrame, Zenon DEF TypeOK, OnMessageReceived
<1>2. ASSUME NEW j \in Jobs, EnqueueNew(j) PROVE TypeOK'
  <2>1. Copy(j, 0) \in Copies /\ queue \in Seq(Copies)
    BY Zenon DEF Copy, Copies, TypeOK
  <2>2. queue' \in Seq(Copies)
    BY <1>2, <2>1, OfferProps, Zenon DEF EnqueueNew
  <2>3. EventType'
    BY <1>2 DEF TypeOK, EventType, EnqueueNew
  <2> QED
    BY <1>2, <2>2, <2>3, TypeFrame, Zenon DEF TypeOK, EnqueueNew
<1>3. ASSUME NEW w \in Workers, WorkerTake(w) PROVE TypeOK'
  <2>1. queue \in Seq(Copies) /\ queue # <<>>
    BY <1>3, Zenon DEF TypeOK, WorkerTake
  <2>2. Head(queue) \in Copies /\ queue' \in Seq(Copies)
    BY <1>3, <2>1, TailProps, Zenon DEF WorkerTake
  <2>3. Head(queue).job \in Jobs /\ Head(queue).attempts \in Nat /\ "pending" \in OpenStatus
    BY <2>2, Zenon DEF Copies, OpenStatus
  <2>4. WorkerType'
    BY <1>3, <2>3, HolderTyped, Zenon DEF WorkerTake
  <2> QED
    BY <1>3, <2>2, <2>4, TypeFrame, Zenon DEF TypeOK, WorkerTake
<1>4. ASSUME NEW w \in Workers, WorkerExit(w) PROVE TypeOK'
  <2>1. WorkerType'
    BY <1>4, WorkerTyped, ZenonT(20) DEF WorkerExit
  <2> QED
    BY <1>4, <2>1, TypeFrame, Zenon DEF TypeOK, WorkerExit
<1>5. ASSUME NEW w \in Workers, FetchFails(w) PROVE TypeOK'
  <2>1. WorkerType'
    BY <1>5, WorkerTyped, ZenonT(20) DEF FetchFails
  <2>2. faults' \in 0..MaxFaults
    BY <1>5, TypeFrame, FaultType, Zenon DEF FetchFails
  <2> QED
    BY <1>5, <2>1, <2>2, TypeFrame, Zenon DEF TypeOK, FetchFails
<1>6. ASSUME NEW w \in Workers, BuildRequestFails(w) PROVE TypeOK'
  <2>1. failStatus(worker[w].attempts, FALSE) \in OpenStatus \cup ClosedStatus
    BY StatusType, ZenonT(20) DEF OpenStatus, ClosedStatus
  <2>2. worker[w].job \in Jobs /\ worker[w].attempts \in Nat
    BY <1>6, BusyWorker, Zenon DEF BuildRequestFails
  <2>3. WorkerType'
    BY <1>6, <2>1, <2>2, HolderTyped, Zenon DEF BuildRequestFails
  <2> QED
    BY <1>6, <2>3, TypeFrame, Zenon DEF TypeOK, BuildRequestFails
<1>7. ASSUME NEW w \in Workers, NEW code \in Codes, NEW takes \in BOOLEAN,
             Post(w, code, takes)
      PROVE  TypeOK'
  <2>1. worker[w].job \in Jobs /\ worker[w].attempts + 1 \in Nat
    BY <1>7, BusyWorker DEF Post
  <2>2. answerStatus(worker[w].attempts + 1, code) \in OpenStatus \cup ClosedStatus
    BY StatusType, Zenon DEF OpenStatus, ClosedStatus
  <2>5. WorkerType'
    BY <1>7, <2>1, <2>2, HolderTyped, Zenon DEF Post
  <2>6. /\ posts \in [Jobs -> 0..(MaxAttempts + 1)]
        /\ posts' = [posts EXCEPT ![worker[w].job] = IF @ <= MaxAttempts THEN @ + 1 ELSE @]
    BY <1>7, Zenon DEF TypeOK, EndpointType, Post
  <2>7. posts' \in [Jobs -> 0..(MaxAttempts + 1)]
    BY <2>1, <2>6, PostsGrow, Zenon
  <2>8. accepted' \subseteq Jobs /\ refused' \subseteq Jobs
    BY <1>7, <2>1, Zenon DEF TypeOK, EndpointType, Post
  <2>9. EndpointType'
    BY <2>7, <2>8, Zenon DEF EndpointType
  <2> QED
    BY <1>7, <2>5, <2>9, TypeFrame, Zenon DEF TypeOK, Post
<1>8. ASSUME NEW w \in Workers, RecordOutcome(w) PROVE TypeOK'
  <2>1. worker[w].job \in Jobs /\ worker[w].attempts \in Nat
        /\ worker[w].status \in OpenStatus \cup ClosedStatus
    BY <1>8, BusyWorker, Zenon DEF RecordOutcome
  <2>2. [status |-> worker[w].status, attempts |-> worker[w].attempts] \in Row
    BY <2>1, Zenon DEF Row
  <2>3. rows' \in [Jobs -> Row]
    BY <1>8, <2>2, ZenonT(20) DEF TypeOK, StoreType, RecordOutcome, UpdateDeliveryJob
  <2>4. waiting' \subseteq Jobs
    BY <1>8, <2>1, Zenon DEF TypeOK, StoreType, RecordOutcome, UpdateDeliveryJob
  <2>5. due' \in Seq(Jobs)
    BY <1>8, WithoutType, Zenon DEF TypeOK, StoreType, RecordOutcome, UpdateDeliveryJob
  <2>6. WorkerType'
    BY <1>8, WorkerTyped, ZenonT(20) DEF RecordOutcome
  <2>7. StoreType'
    BY <2>3, <2>4, <2>5, Zenon DEF StoreType
  <2> QED
    BY <1>8, <2>6, <2>7, TypeFrame, Zenon DEF TypeOK, RecordOutcome
<1>9. ASSUME NEW w \in Workers, RecordFails(w) PROVE TypeOK'
  <2>1. WorkerType'
    BY <1>9, WorkerTyped, ZenonT(20) DEF RecordFails
  <2>2. faults' \in 0..MaxFaults
    BY <1>9, TypeFrame, FaultType, Zenon DEF RecordFails
  <2> QED
    BY <1>9, <2>1, <2>2, TypeFrame, Zenon DEF TypeOK, RecordFails
<1>10. CASE SweepList
  <2>1. SweepType'
    BY <1>10, ListType, Zenon DEF SweepList, TypeOK, SweepType
  <2> QED
    BY <1>10, <2>1, TypeFrame, Zenon DEF TypeOK, SweepList
<1>11. CASE SweepOffer
  <2>1. batch \in Seq(Copies) /\ batch # <<>> /\ queue \in Seq(Copies)
    BY <1>11, Zenon DEF TypeOK, SweepType, SweepOffer
  <2>2. Head(batch) \in Copies /\ batch' \in Seq(Copies)
    BY <1>11, <2>1, TailProps, Zenon DEF SweepOffer
  <2>3. queue' \in Seq(Copies)
    BY <1>11, <2>1, <2>2, OfferProps, ZenonT(20) DEF SweepOffer
  <2>4. SweepType'
    BY <1>11, <2>2, Zenon DEF TypeOK, SweepType, SweepOffer
  <2> QED
    BY <1>11, <2>3, <2>4, TypeFrame, Zenon DEF TypeOK, SweepOffer
<1>12. CASE SweeperExit
  <2>1. SweepType'
    BY <1>12, Zenon DEF TypeOK, SweepType, SweeperExit
  <2> QED
    BY <1>12, <2>1, TypeFrame, Zenon DEF TypeOK, SweeperExit
<1>13. ASSUME NEW j \in Jobs, RetryDue(j) PROVE TypeOK'
  <2>1. StoreType'
    BY <1>13 DEF TypeOK, StoreType, RetryDue
  <2> QED
    BY <1>13, <2>1, TypeFrame, Zenon DEF TypeOK, RetryDue
<1>14. ASSUME NEW j \in Jobs, DeleteMessage(j) PROVE TypeOK'
  <2>1. deleted' \subseteq Jobs
    BY <1>14, Zenon DEF TypeOK, DeleteMessage
  <2> QED
    BY <1>14, <2>1, TypeFrame, Zenon DEF TypeOK, DeleteMessage
<1>15. CASE Signal \/ Stop
  <2>1. LifeType'
    BY <1>15, ZenonT(20) DEF TypeOK, LifeType, Signal, Stop
  <2>2. faults' \in 0..MaxFaults
    BY <1>15, TypeFrame, FaultType, Zenon DEF Signal, Stop
  <2> QED
    BY <1>15, <2>1, <2>2, TypeFrame, Zenon DEF TypeOK, Signal, Stop
<1>16. CASE Exit \/ Crash
  <2>1. faults' \in 0..MaxFaults
    BY <1>16, TypeFrame, FaultType, Zenon DEF Exit, Crash
  <2> QED
    BY <1>16, <2>1, GoDownType, Zenon DEF Exit, Crash
<1>17. CASE Start
  <2>1. LifeType'
    BY <1>17, ZenonT(20) DEF LifeType, Start
  <2> QED
    BY <1>17, <2>1, TypeFrame, Zenon DEF TypeOK, Start
<1>18. CASE UNCHANGED vars
  BY <1>18, TypeFrame, Zenon DEF TypeOK, vars, storeVars, sweepVars, lifeVars, eventVars, endpointVars
<1> QED
  BY <1>1, <1>2, <1>3, <1>4, <1>5, <1>6, <1>7, <1>8, <1>9, <1>10, <1>11, <1>12,
     <1>13, <1>14, <1>15, <1>16, <1>17, <1>18, Zenon DEF Next, Attempt

-----------------------------------------------------------------------------
(* The theorems *)

\* The state is always well typed.
THEOREM TypeCorrect == Spec => []TypeOK
  BY InitType, TypeStep, PTL DEF Spec

\* Every step preserves the inductive invariant.
LEMMA InvStep == IInv /\ [Next]_vars => IInv'
  BY TypeStep, ScheduleStep, HonestStep, Zenon DEF IInv

\* IInv holds in every reachable state.
THEOREM Inductive == Spec => []IInv
<1>1. Init => IInv
  BY InitType, InitHonest, Zenon DEF IInv
<1> QED
  BY <1>1, InvStep, PTL DEF Spec

\* "delivered" and "dead" in the store are always true of the endpoint,
\* although UpdateDeliveryJob overwrites rows from copies of any age.
THEOREM LedgerIsTruthful == Spec => []LedgerTruthful
  BY Inductive, PTL DEF IInv

\* A row never shows more attempts than POSTs made, nor more than MaxAttempts:
\* no job is given up early.
THEOREM AttemptsAreHonest == Spec => []AttemptsHonest
  BY Inductive, PTL DEF IInv

\* Exactly the open rows are on the sweeper's schedule, each once, so that no
\* crash, lost enqueue or failed store call takes an open row out of reach.
THEOREM OpenRowsAreScheduled == Spec => []OpenRowsScheduled
  BY Inductive, PTL DEF IInv

\* Every copy of a job in the channel, a batch or a worker is honest.
THEOREM CopiesAreHonest == Spec => []CopiesHonest
  BY Inductive, PTL DEF IInv

\* Evidence holds in every reachable state.
LEMMA EvidenceInvariant == Spec => []Evidence
<1>1. Init => Evidence
  BY Zenon DEF Init, Evidence
<1> QED
  BY <1>1, Inductive, EvidenceStep, PTL DEF Spec

\* The dispatcher with its queue, workers, sweeper and crashes implements the ledger
\* that GetDeliveryStatus shows, for every set of jobs and workers.
THEOREM LedgerIsImplemented == Spec => ImplementsLedger
<1>1. Init => Ledger!LedgerInit
  BY DEF Init, Ledger!LedgerInit, OpenStatus
<1> QED
  BY <1>1, Inductive, EvidenceInvariant, LedgerStep, PTL DEF Spec, ImplementsLedger, Ledger!LedgerSpec
=============================================================================
