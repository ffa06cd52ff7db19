------------------------- MODULE RelayQueue_proof -------------------------
(***************************************************************************)
(* Safety of the relay for all messages, workers, retries and channel      *)
(* capacities: a job has one home, its attempts are counted, and a Stop    *)
(* within its deadline drains the queue.                                   *)
(***************************************************************************)
EXTENDS RelayQueue, TLAPS

JobSet == [msg : Messages, attempts : Nat]
Free == [pc : {"idle", "exited"}, msg : {NoMsg}, attempts : {0}]
Busy == [pc : {"waiting", "sending", "retrying"}, msg : Messages, attempts : Nat]

-----------------------------------------------------------------------------
(* Sequences and workers *)

\* What a send on the channel does (Enqueue and the requeue of a retry).
LEMMA AppendFacts ==
    ASSUME NEW S, NEW s \in Seq(S), NEW e \in S
    PROVE  /\ Append(s, e) \in Seq(S)
           /\ DOMAIN s = 1 .. Len(s) /\ Len(s) \in Nat
           /\ DOMAIN Append(s, e) = 1 .. Len(s) + 1
           /\ \A i \in DOMAIN s : Append(s, e)[i] = s[i]
           /\ Append(s, e)[Len(s) + 1] = e
OBVIOUS

\* What a receive from the channel does (a worker takes a job).
LEMMA TailFacts ==
    ASSUME NEW S, NEW s \in Seq(S), s # <<>>
    PROVE  /\ Tail(s) \in Seq(S) /\ Head(s) \in S
           /\ Len(s) \in Nat \ {0} /\ DOMAIN s = 1 .. Len(s)
           /\ DOMAIN Tail(s) = 1 .. Len(s) - 1
           /\ \A i \in DOMAIN Tail(s) : Tail(s)[i] = s[i + 1] /\ i + 1 \in DOMAIN s
           /\ s[1] = Head(s) /\ 1 \in DOMAIN s
           /\ \A i \in DOMAIN s : i # 1 => i - 1 \in DOMAIN Tail(s) /\ Tail(s)[i - 1] = s[i]
OBVIOUS

\* The fields of a worker.
LEMMA WorkerFields ==
    ASSUME TypeOK, NEW w \in Workers
    PROVE  /\ worker[w] \in Free \cup Busy
           /\ worker[w].pc \in {"idle", "exited", "waiting", "sending", "retrying"}
           /\ worker[w].pc \in {"idle", "exited"} => worker[w].msg = NoMsg
           /\ worker[w].pc \notin {"idle", "exited"} => worker[w].msg \in Messages /\ worker[w].msg # NoMsg
           /\ worker[w].attempts \in Nat
<1>1. worker[w] \in Free \cup Busy  BY DEF TypeOK, Free, Busy
<1>2. CASE worker[w] \in Free  BY <1>2 DEF Free, Busy
<1>3. CASE worker[w] \in Busy  BY <1>3, RelayAssumption DEF Free, Busy
<1>. QED  BY <1>1, <1>2, <1>3

\* The fields of a queued job.
LEMMA JobFields ==
    ASSUME TypeOK, NEW i \in DOMAIN jobs
    PROVE  jobs[i] \in JobSet /\ jobs[i].msg \in Messages /\ jobs[i].msg # NoMsg
<1>1. jobs \in Seq(JobSet)  BY DEF TypeOK, JobSet
<1>2. jobs[i] \in JobSet  BY <1>1
<1>. QED  BY <1>2, RelayAssumption DEF JobSet

\* A step of one worker changes who holds what at that worker only.
LEMMA WorkerSteps ==
    ASSUME TypeOK, OneHome, NEW w \in Workers, NEW r \in Free \cup Busy,
           worker' = [worker EXCEPT ![w] = r]
    PROVE  /\ worker' \in [Workers -> Free \cup Busy]
           /\ worker'[w] = r
           /\ \A v \in Workers : v # w => worker'[v] = worker[v]
           /\ \A n \in Messages : Held(n)' <=> r.msg = n \/ (Held(n) /\ worker[w].msg # n)
<1>1. worker \in [Workers -> Free \cup Busy]  BY DEF TypeOK, Free, Busy
<1>2. /\ worker' \in [Workers -> Free \cup Busy] /\ worker'[w] = r
      /\ \A v \in Workers : v # w => worker'[v] = worker[v]
  BY <1>1
<1>3. ASSUME NEW n \in Messages
      PROVE  Held(n)' <=> r.msg = n \/ (Held(n) /\ worker[w].msg # n)
  <2>1. n # NoMsg  BY RelayAssumption
  <2>2. \A v, u \in Workers : worker[v].msg = n /\ worker[u].msg = n => v = u
    BY <2>1 DEF OneHome
  <2>. QED  BY <1>2, <2>2 DEF Held
<1>. QED  BY <1>2, <1>3

\* A send puts one message more on the channel.
LEMMA Enqueued ==
    ASSUME TypeOK, NEW j \in JobSet, jobs' = Append(jobs, j)
    PROVE  /\ jobs' \in Seq(JobSet) /\ jobs' # <<>>
           /\ \A i \in DOMAIN jobs' : \/ i \in DOMAIN jobs /\ jobs'[i] = jobs[i]
                                      \/ i = Len(jobs) + 1 /\ i \notin DOMAIN jobs /\ jobs'[i] = j
           /\ \A n \in Messages : Queued(n)' <=> Queued(n) \/ n = j.msg
<1>1. jobs \in Seq(JobSet)  BY DEF TypeOK, JobSet
<1>2. /\ jobs' \in Seq(JobSet) /\ DOMAIN jobs = 1 .. Len(jobs) /\ Len(jobs) \in Nat
      /\ DOMAIN jobs' = 1 .. Len(jobs) + 1
      /\ \A i \in DOMAIN jobs : jobs'[i] = jobs[i]
      /\ jobs'[Len(jobs) + 1] = j
  BY <1>1, AppendFacts
<1>3. jobs' # <<>>  BY <1>1
<1>4. Len(jobs) + 1 \in DOMAIN jobs' /\ \A i \in DOMAIN jobs : i \in DOMAIN jobs'  BY <1>2
<1>5. \A i \in DOMAIN jobs' : i \in DOMAIN jobs \/ (i = Len(jobs) + 1 /\ i \notin DOMAIN jobs)  BY <1>2
<1>6. \A n \in Messages : Queued(n)' <=> Queued(n) \/ n = j.msg
  BY <1>2, <1>4, <1>5 DEF Queued
<1>. QED  BY <1>2, <1>3, <1>5, <1>6

\* A receive takes the message at the head, and no other, off the channel.
LEMMA Dequeued ==
    ASSUME TypeOK, OneHome, jobs # <<>>, jobs' = Tail(jobs)
    PROVE  /\ jobs' \in Seq(JobSet) /\ Head(jobs) \in JobSet
           /\ \E i \in DOMAIN jobs : jobs[i] = Head(jobs)
           /\ \A i \in DOMAIN jobs' : i \in Nat /\ i + 1 \in DOMAIN jobs /\ jobs'[i] = jobs[i + 1]
                                      /\ jobs'[i].msg # Head(jobs).msg
           /\ \A n \in Messages : Queued(n)' <=> Queued(n) /\ n # Head(jobs).msg
<1>1. jobs \in Seq(JobSet)  BY DEF TypeOK, JobSet
<1>2. /\ jobs' \in Seq(JobSet) /\ Head(jobs) \in JobSet
      /\ Len(jobs) \in Nat \ {0} /\ DOMAIN jobs = 1 .. Len(jobs)
      /\ DOMAIN jobs' = 1 .. Len(jobs) - 1
      /\ \A i \in DOMAIN jobs' : jobs'[i] = jobs[i + 1] /\ i + 1 \in DOMAIN jobs
      /\ jobs[1] = Head(jobs) /\ 1 \in DOMAIN jobs
      /\ \A i \in DOMAIN jobs : i # 1 => i - 1 \in DOMAIN jobs' /\ jobs'[i - 1] = jobs[i]
  BY <1>1, TailFacts
<1>3. \A i \in DOMAIN jobs' : i \in Nat /\ i + 1 # 1  BY <1>2
<1>4. \A i \in DOMAIN jobs : jobs[i].msg = Head(jobs).msg => i = 1  BY <1>2 DEF OneHome
<1>5. \A i \in DOMAIN jobs' : jobs'[i].msg # Head(jobs).msg  BY <1>2, <1>3, <1>4
<1>6. \A n \in Messages : Queued(n)' <=> Queued(n) /\ n # Head(jobs).msg
  BY <1>2, <1>4, <1>5 DEF Queued
<1>. QED  BY <1>2, <1>3, <1>5, <1>6

-----------------------------------------------------------------------------
(* RelayServer *)

\* Jobs and workers stay where they are while the server starts and stops.
LEMMA Untouched ==
    ASSUME OneHome, AttemptsCounted, UNCHANGED <<handler, jobs, worker, outcome, sends>>
    PROVE  OneHome' /\ AttemptsCounted'
BY DEF OneHome, AttemptsCounted, Queued, Held

LEMMA StartStep == ASSUME RelayInv, NEW ok \in BOOLEAN, Start(ok) PROVE RelayInv'
<1>1. TypeOK /\ OneHome /\ AttemptsCounted /\ StopInv  BY DEF RelayInv
<1>2. starts' \in Seq({"nil", "error"})
  <2>1. CASE server = "new"
    <3>1. \E r \in {"nil", "error"} : starts' = <<r>>  BY <2>1 DEF Start
    <3>. QED  BY <3>1
  <2>2. CASE server # "new"
    <3>1. starts' = Append(starts, "nil") /\ starts \in Seq({"nil", "error"})  BY <2>2, <1>1 DEF Start, TypeOK
    <3>. QED  BY <3>1, AppendFacts
  <2>. QED  BY <2>1, <2>2
<1>3. server' \in {"new", "failed", "serving", "graceful", "draining", "stopped"}
      /\ (StopClosed' <=> StopClosed) /\ (server' = "stopped" <=> server = "stopped")
      /\ (server' \in {"new", "failed"} => server \in {"new", "failed"})
  BY <1>1 DEF Start, TypeOK, StopClosed
<1>4. UNCHANGED <<expired, cancelled, handler, jobs, worker, outcome, sends>>  BY DEF Start
<1>5. TypeOK'  BY <1>1, <1>2, <1>3, <1>4 DEF TypeOK
<1>6. StopInv'  BY <1>1, <1>3, <1>4 DEF StopInv
<1>. QED  BY <1>1, <1>4, <1>5, <1>6, Untouched DEF RelayInv

\* Stop, its deadline, and the two ways out of GracefulStop.
LEMMA StopStep ==
    ASSUME RelayInv, Stop \/ Expire \/ GracefulDone \/ ForceStop \/ QueueStopped
    PROVE  RelayInv'
<1>1. TypeOK /\ OneHome /\ AttemptsCounted /\ StopInv  BY DEF RelayInv
<1>2. UNCHANGED <<starts, handler, jobs, worker, outcome, sends>>
  BY DEF Stop, Expire, GracefulDone, ForceStop, QueueStopped
<1>3. TypeOK'
  BY <1>1, <1>2 DEF TypeOK, Stop, Expire, GracefulDone, ForceStop, QueueStopped
<1>4. \E w \in Workers : TRUE  BY RelayAssumption
<1>5. StopInv'
  <2>1. CASE Stop
    <3>1. server = "serving" => server' = "graceful"  BY <2>1 DEF Stop
    <3>2. server # "serving" => server' = "draining" /\ \A m \in Messages : handler[m] = "none"
      BY <2>1, <1>1 DEF Stop, StopInv
    <3>3. ~StopClosed /\ UNCHANGED <<expired, cancelled>>  BY <2>1 DEF Stop, StopClosed
    <3>4. \A w \in Workers : worker[w].pc # "exited"  BY <1>1, <3>3 DEF StopInv
    <3>. QED  BY <1>1, <1>2, <1>4, <3>1, <3>2, <3>3, <3>4 DEF StopInv, StopClosed
  <2>2. CASE Expire
    BY <2>2, <1>1, <1>2 DEF StopInv, Expire, StopClosed
  <2>3. CASE GracefulDone
    BY <2>3, <1>1, <1>2, <1>4 DEF StopInv, GracefulDone, StopClosed
  <2>4. CASE ForceStop
    BY <2>4, <1>1, <1>2 DEF StopInv, ForceStop, StopClosed
  <2>5. CASE QueueStopped
    BY <2>5, <1>1, <1>2 DEF StopInv, QueueStopped, StopClosed
  <2>. QED  BY <2>1, <2>2, <2>3, <2>4, <2>5
<1>. QED  BY <1>1, <1>2, <1>3, <1>5, Untouched DEF RelayInv

LEMMA CallStep == ASSUME RelayInv, NEW m \in Messages, Call(m) PROVE RelayInv'
<1>1. TypeOK /\ OneHome /\ AttemptsCounted /\ StopInv  BY DEF RelayInv
<1>2. /\ handler' \in [Messages -> {"none", "called", "accepted", "refused"}]
      /\ \A n \in Messages : /\ handler'[n] = "accepted" <=> handler[n] = "accepted"
                             /\ handler'[n] = IF n = m THEN "called" ELSE handler[n]
      /\ server = "serving" /\ UNCHANGED <<serverVars, jobs, worker, outcome, sends>>
  BY <1>1 DEF Call, TypeOK
<1>3. TypeOK'  BY <1>1, <1>2 DEF TypeOK, serverVars
<1>4. OneHome'  BY <1>1, <1>2 DEF OneHome, Queued, Held
<1>5. AttemptsCounted'  BY <1>1, <1>2 DEF AttemptsCounted
<1>6. StopInv'  BY <1>1, <1>2 DEF StopInv, serverVars, StopClosed
<1>. QED  BY <1>3, <1>4, <1>5, <1>6 DEF RelayInv

LEMMA SendMessageStep ==
    ASSUME RelayInv, NEW m \in Messages, NEW gone \in BOOLEAN, SendMessage(m, gone) PROVE RelayInv'
<1>1. TypeOK /\ OneHome /\ AttemptsCounted /\ StopInv  BY DEF RelayInv
<1>2. handler[m] = "called" /\ UNCHANGED <<server, starts, expired, cancelled, worker, outcome, sends>>
  BY DEF SendMessage, serverVars
<1>3. ~Queued(m) /\ ~Held(m) /\ outcome[m] = "none" /\ sends[m] = 0
  BY <1>1, <1>2 DEF OneHome, AttemptsCounted
<1>4. CASE /\ jobs' = Append(jobs, Job(m, 0))
           /\ handler' = [handler EXCEPT ![m] = "accepted"]
  <2>1. Job(m, 0) \in JobSet /\ Job(m, 0).msg = m /\ Job(m, 0).attempts = 0  BY DEF Job, JobSet
  <2>2. /\ jobs' \in Seq(JobSet) /\ jobs' # <<>>
        /\ \A i \in DOMAIN jobs' : \/ i \in DOMAIN jobs /\ jobs'[i] = jobs[i]
                                   \/ i = Len(jobs) + 1 /\ i \notin DOMAIN jobs /\ jobs'[i] = Job(m, 0)
        /\ \A n \in Messages : Queued(n)' <=> Queued(n) \/ n = m
    BY <1>1, <1>4, <2>1, Enqueued
  <2>3. /\ handler' \in [Messages -> {"none", "called", "accepted", "refused"}]
        /\ \A n \in Messages : handler'[n] = IF n = m THEN "accepted" ELSE handler[n]
    BY <1>1, <1>4 DEF TypeOK
  <2>4. TypeOK'  BY <1>1, <1>2, <2>2, <2>3 DEF TypeOK, JobSet
  <2>5. OneHome'
    <3>1. \A n \in Messages :
            (handler'[n] = "accepted" /\ outcome'[n] = "none") <=> (Queued(n)' \/ Held(n)')
      BY <1>1, <1>2, <1>3, <2>2, <2>3 DEF OneHome, Held
    <3>2. \A i, k \in DOMAIN jobs' : jobs'[i].msg = jobs'[k].msg => i = k
      BY <1>1, <1>3, <2>1, <2>2 DEF OneHome, Queued
    <3>3. \A i \in DOMAIN jobs', w \in Workers : jobs'[i].msg # worker'[w].msg
      BY <1>1, <1>2, <1>3, <2>1, <2>2 DEF OneHome, Held
    <3>. QED  BY <1>1, <1>2, <3>1, <3>2, <3>3 DEF OneHome
  <2>6. AttemptsCounted'
    <3>1. \A i \in DOMAIN jobs' : sends'[jobs'[i].msg] = jobs'[i].attempts /\ jobs'[i].attempts < MaxRetries
      BY <1>1, <1>2, <1>3, <2>1, <2>2, RelayAssumption DEF AttemptsCounted
    <3>. QED  BY <1>1, <1>2, <2>3, <3>1 DEF AttemptsCounted
  <2>7. StopInv'
    <3>1. server \notin {"new", "failed"}  BY <1>1, <1>2 DEF StopInv
    <3>2. ~expired => ~StopClosed  BY <1>1, <1>2 DEF StopInv
    <3>3. ~expired => \E w \in Workers : worker[w].pc # "exited"
      BY <1>1, <3>2, RelayAssumption DEF StopInv
    <3>. QED  BY <1>1, <1>2, <2>3, <3>1, <3>2, <3>3 DEF StopInv, StopClosed
  <2>. QED  BY <2>4, <2>5, <2>6, <2>7 DEF RelayInv
<1>5. CASE handler' = [handler EXCEPT ![m] = "refused"] /\ jobs' = jobs
  <2>1. /\ handler' \in [Messages -> {"none", "called", "accepted", "refused"}]
        /\ \A n \in Messages : /\ handler'[n] = "accepted" <=> handler[n] = "accepted"
                               /\ handler'[n] = IF n = m THEN "refused" ELSE handler[n]
    BY <1>1, <1>2, <1>5 DEF TypeOK
  <2>2. TypeOK'  BY <1>1, <1>2, <1>5, <2>1 DEF TypeOK
  <2>3. OneHome'  BY <1>1, <1>2, <1>5, <2>1 DEF OneHome, Queued, Held
  <2>4. AttemptsCounted'  BY <1>1, <1>2, <1>5, <2>1 DEF AttemptsCounted
  <2>5. StopInv'  BY <1>1, <1>2, <1>5, <2>1 DEF StopInv, StopClosed
  <2>. QED  BY <2>2, <2>3, <2>4, <2>5 DEF RelayInv
<1>. QED  BY <1>4, <1>5 DEF SendMessage

-----------------------------------------------------------------------------
(* RelayQueue workers *)

\* A worker without a job changes neither homes nor counts by leaving.
LEMMA WorkerExitStep == ASSUME RelayInv, NEW w \in Workers, WorkerExit(w) PROVE RelayInv'
<1>1. TypeOK /\ OneHome /\ AttemptsCounted /\ StopInv  BY DEF RelayInv
<1>2. /\ StopClosed /\ jobs = <<>> /\ worker[w].pc = "idle"
      /\ worker' = [worker EXCEPT ![w] = Exited]
      /\ UNCHANGED <<server, starts, expired, cancelled, handler, jobs, outcome, sends>>
  BY DEF WorkerExit, serverVars
<1>3. worker[w].msg = NoMsg  BY <1>1, <1>2, WorkerFields
<1>4. Exited \in Free \cup Busy /\ Exited.msg = NoMsg /\ Exited.pc = "exited"
  BY DEF Exited, Holding, Free
<1>5. /\ worker' \in [Workers -> Free \cup Busy] /\ worker'[w] = Exited
      /\ \A v \in Workers : v # w => worker'[v] = worker[v]
  BY <1>1, <1>2, <1>4, WorkerSteps
<1>6. \A v \in Workers : worker'[v].msg = worker[v].msg /\ (worker'[v].msg # NoMsg => worker'[v] = worker[v])
  BY <1>3, <1>4, <1>5
<1>7. TypeOK'  BY <1>1, <1>2, <1>5 DEF TypeOK, Free, Busy
<1>8. OneHome'  BY <1>1, <1>2, <1>6 DEF OneHome, Queued, Held
<1>9. AttemptsCounted'  BY <1>1, <1>2, <1>6 DEF AttemptsCounted
<1>10. StopInv'  BY <1>1, <1>2, <1>4, <1>5 DEF StopInv, StopClosed
<1>. QED  BY <1>7, <1>8, <1>9, <1>10 DEF RelayInv

LEMMA TimerFiresStep == ASSUME RelayInv, NEW w \in Workers, TimerFires(w) PROVE RelayInv'
<1>1. TypeOK /\ OneHome /\ AttemptsCounted /\ StopInv  BY DEF RelayInv
<1>. DEFINE r == [worker[w] EXCEPT !.pc = "sending"]
<1>2. /\ worker[w].pc = "waiting" /\ worker' = [worker EXCEPT ![w] = r]
      /\ UNCHANGED <<server, starts, expired, cancelled, handler, jobs, outcome, sends>>
  BY DEF TimerFires, serverVars
<1>3. worker[w] \in Busy  BY <1>1, <1>2, WorkerFields DEF Free
<1>4. r \in Busy /\ r.pc = "sending" /\ r.msg = worker[w].msg /\ r.attempts = worker[w].attempts
  BY <1>3 DEF Busy
<1>. HIDE DEF r
<1>5. /\ worker' \in [Workers -> Free \cup Busy] /\ worker'[w] = r
      /\ \A v \in Workers : v # w => worker'[v] = worker[v]
  BY <1>1, <1>2, <1>4, WorkerSteps
<1>6. \A v \in Workers : worker'[v].msg = worker[v].msg /\ worker'[v].attempts = worker[v].attempts
  BY <1>4, <1>5
<1>7. TypeOK'  BY <1>1, <1>2, <1>5 DEF TypeOK, Free, Busy
<1>8. OneHome'  BY <1>1, <1>2, <1>6 DEF OneHome, Queued, Held
<1>9. AttemptsCounted'  BY <1>1, <1>2, <1>6 DEF AttemptsCounted
<1>10. StopInv'  BY <1>1, <1>2, <1>4, <1>5 DEF StopInv, StopClosed
<1>. QED  BY <1>7, <1>8, <1>9, <1>10 DEF RelayInv

\* A worker takes the job at the head of the channel: the job changes its home.
LEMMA WorkerTakeStep == ASSUME RelayInv, NEW w \in Workers, WorkerTake(w) PROVE RelayInv'
<1>1. TypeOK /\ OneHome /\ AttemptsCounted /\ StopInv  BY DEF RelayInv
<1>. DEFINE h == Head(jobs)
            r == Holding(IF h.attempts = 0 THEN "sending" ELSE "waiting", h.msg, h.attempts)
<1>2. /\ worker[w].pc = "idle" /\ jobs # <<>> /\ worker' = [worker EXCEPT ![w] = r] /\ jobs' = Tail(jobs)
      /\ UNCHANGED <<server, starts, expired, cancelled, handler, outcome, sends>>
  BY DEF WorkerTake, serverVars
<1>3. /\ jobs' \in Seq(JobSet) /\ h \in JobSet
      /\ \E i \in DOMAIN jobs : jobs[i] = h
      /\ \A i \in DOMAIN jobs' : i \in Nat /\ i + 1 \in DOMAIN jobs /\ jobs'[i] = jobs[i + 1]
                                 /\ jobs'[i].msg # h.msg
      /\ \A n \in Messages : Queued(n)' <=> Queued(n) /\ n # h.msg
  BY <1>1, <1>2, Dequeued
<1>4. /\ r \in Busy /\ r.msg = h.msg /\ r.attempts = h.attempts /\ r.pc # "exited"
      /\ h.msg \in Messages /\ h.attempts \in Nat
      /\ r.pc \in {"waiting", "retrying"} => r.attempts > 0
  BY <1>3 DEF Busy, Holding, JobSet
<1>5. worker[w].msg = NoMsg  BY <1>1, <1>2, WorkerFields
<1>. HIDE DEF h, r
<1>6. /\ worker' \in [Workers -> Free \cup Busy] /\ worker'[w] = r
      /\ \A v \in Workers : v # w => worker'[v] = worker[v]
      /\ \A n \in Messages : Held(n)' <=> n = h.msg \/ Held(n)
  <2>1. \A n \in Messages : n # NoMsg  BY RelayAssumption
  <2>. QED  BY <1>1, <1>2, <1>4, <1>5, <2>1, WorkerSteps
<1>7. Queued(h.msg) /\ \A v \in Workers : worker[v].msg # h.msg  BY <1>1, <1>3 DEF Queued, OneHome
<1>8. TypeOK'  BY <1>1, <1>2, <1>3, <1>6 DEF TypeOK, Free, Busy, JobSet
<1>9. OneHome'
  <2>1. \A n \in Messages :
          (handler'[n] = "accepted" /\ outcome'[n] = "none") <=> (Queued(n)' \/ Held(n)')
    BY <1>1, <1>2, <1>3, <1>6, <1>7 DEF OneHome
  <2>2. \A i, k \in DOMAIN jobs' : jobs'[i].msg = jobs'[k].msg => i = k
    BY <1>1, <1>3 DEF OneHome
  <2>3. \A v, u \in Workers : worker'[v].msg = worker'[u].msg /\ worker'[v].msg # NoMsg => v = u
    BY <1>1, <1>4, <1>6, <1>7 DEF OneHome
  <2>4. \A i \in DOMAIN jobs', v \in Workers : jobs'[i].msg # worker'[v].msg
    BY <1>1, <1>3, <1>4, <1>6 DEF OneHome
  <2>. QED  BY <2>1, <2>2, <2>3, <2>4 DEF OneHome
<1>10. AttemptsCounted'
  <2>1. sends[h.msg] = h.attempts /\ h.attempts < MaxRetries  BY <1>1, <1>3 DEF AttemptsCounted
  <2>2. \A i \in DOMAIN jobs' : sends[jobs'[i].msg] = jobs'[i].attempts /\ jobs'[i].attempts < MaxRetries
    BY <1>1, <1>3 DEF AttemptsCounted
  <2>3. \A v \in Workers : worker'[v].msg # NoMsg =>
           sends[worker'[v].msg] = worker'[v].attempts /\ worker'[v].attempts < MaxRetries
    BY <1>1, <1>4, <1>6, <2>1 DEF AttemptsCounted
  <2>. QED  BY <1>1, <1>2, <2>2, <2>3 DEF AttemptsCounted
<1>11. StopInv'
  <2>1. ~expired => \E v \in Workers : worker'[v].pc # "exited"  BY <1>4, <1>6
  <2>2. ~expired => server # "stopped"  BY <1>1, <1>2 DEF StopInv
  <2>. QED  BY <1>1, <1>2, <1>4, <1>6, <2>1, <2>2 DEF StopInv, StopClosed
<1>. QED  BY <1>8, <1>9, <1>10, <1>11 DEF RelayInv

\* A job that ends leaves its worker, and its outcome fits the calls of
\* Backend.Send that were made for it.
LEMMA FinishStep ==
    ASSUME RelayInv, NEW w \in Workers, worker[w].pc \in {"waiting", "sending", "retrying"},
           NEW how \in {"delivered", "exhausted", "full", "shutdown", "aborted"}, Finish(w, how),
           NEW k \in Nat, sends' = [sends EXCEPT ![worker[w].msg] = k], k <= MaxRetries,
           how = "exhausted" => k = MaxRetries,
           how \in {"delivered", "full", "shutdown"} => k > 0,
           how \in {"full", "shutdown", "aborted"} => k < MaxRetries,
           how = "aborted" => expired,
           UNCHANGED <<serverVars, handler, jobs>>
    PROVE  RelayInv'
<1>1. TypeOK /\ OneHome /\ AttemptsCounted /\ StopInv  BY DEF RelayInv
<1>. DEFINE m == worker[w].msg
<1>2. m \in Messages /\ m # NoMsg  BY <1>1, WorkerFields
<1>3. /\ worker' = [worker EXCEPT ![w] = Idle] /\ outcome' = [outcome EXCEPT ![m] = how]
      /\ UNCHANGED <<server, starts, expired, cancelled, handler, jobs>>
  BY DEF Finish, serverVars
<1>4. Idle \in Free \cup Busy /\ Idle.msg = NoMsg /\ Idle.pc = "idle"  BY DEF Idle, Holding, Free
<1>. HIDE DEF m
<1>5. /\ worker' \in [Workers -> Free \cup Busy] /\ worker'[w] = Idle
      /\ \A v \in Workers : v # w => worker'[v] = worker[v]
      /\ \A n \in Messages : Held(n)' <=> Held(n) /\ n # m
  <2>1. \A n \in Messages : n # NoMsg  BY RelayAssumption
  <2>. QED  BY <1>1, <1>3, <1>4, <2>1, WorkerSteps DEF m
<1>6. /\ outcome' \in [Messages -> {"none", "delivered", "exhausted", "full", "shutdown", "aborted"}]
      /\ outcome'[m] = how /\ \A n \in Messages : n # m => outcome'[n] = outcome[n]
  BY <1>1, <1>2, <1>3 DEF TypeOK
<1>7. sends' \in [Messages -> Nat] /\ sends'[m] = k /\ \A n \in Messages : n # m => sends'[n] = sends[n]
  BY <1>1, <1>2 DEF TypeOK, m
<1>8. Held(m) /\ ~Queued(m) /\ handler[m] = "accepted"
  <2>1. Held(m)  BY DEF Held, m
  <2>2. ~Queued(m)  BY <1>1 DEF OneHome, Queued, m
  <2>. QED  BY <1>1, <1>2, <2>1, <2>2 DEF OneHome
<1>9. TypeOK'  BY <1>1, <1>3, <1>5, <1>6, <1>7 DEF TypeOK, Free, Busy
<1>10. OneHome'
  <2>1. \A n \in Messages : Queued(n)' <=> Queued(n)  BY <1>3 DEF Queued
  <2>2. \A n \in Messages :
          (handler'[n] = "accepted" /\ outcome'[n] = "none") <=> (Queued(n)' \/ Held(n)')
    BY <1>1, <1>3, <1>5, <1>6, <1>8, <2>1 DEF OneHome
  <2>3. \A v, u \in Workers : worker'[v].msg = worker'[u].msg /\ worker'[v].msg # NoMsg => v = u
    BY <1>1, <1>4, <1>5 DEF OneHome
  <2>4. \A i \in DOMAIN jobs : jobs[i].msg \in Messages /\ jobs[i].msg # NoMsg
    BY <1>1, JobFields
  <2>5. \A i \in DOMAIN jobs, v \in Workers : jobs[i].msg # worker'[v].msg
    BY <1>1, <1>4, <1>5, <2>4 DEF OneHome
  <2>. QED  BY <1>1, <1>3, <2>2, <2>3, <2>5 DEF OneHome
<1>11. AttemptsCounted'
  <2>1. \A i \in DOMAIN jobs : jobs[i].msg \in Messages /\ jobs[i].msg # m
    BY <1>1, <1>8, JobFields DEF Queued
  <2>2. \A i \in DOMAIN jobs : sends'[jobs[i].msg] = jobs[i].attempts /\ jobs[i].attempts < MaxRetries
    BY <1>1, <1>7, <2>1 DEF AttemptsCounted
  <2>3. ASSUME NEW v \in Workers, worker'[v].msg # NoMsg
        PROVE  sends'[worker'[v].msg] = worker'[v].attempts /\ worker'[v].attempts < MaxRetries
    <3>1. v # w /\ worker'[v] = worker[v]  BY <1>4, <1>5, <2>3
    <3>2. worker[v].msg \in Messages /\ worker[v].msg # m
      BY <1>1, <1>2, <2>3, <3>1, WorkerFields DEF OneHome, m
    <3>. QED  BY <1>1, <1>7, <2>3, <3>1, <3>2 DEF AttemptsCounted
  <2>4. ASSUME NEW n \in Messages
        PROVE  /\ sends'[n] <= MaxRetries
               /\ outcome'[n] = "exhausted" => sends'[n] = MaxRetries
               /\ outcome'[n] \in {"delivered", "full", "shutdown"} => sends'[n] > 0
               /\ outcome'[n] \in {"full", "shutdown", "aborted"} => sends'[n] < MaxRetries
               /\ handler'[n] # "accepted" => sends'[n] = 0 /\ outcome'[n] = "none"
    BY <1>1, <1>3, <1>6, <1>7, <1>8 DEF AttemptsCounted
  <2>. QED  BY <1>3, <2>2, <2>3, <2>4 DEF AttemptsCounted
<1>12. StopInv'
  <2>1. \A v \in Workers : worker'[v].pc \in {"waiting", "retrying", "exited"} => worker'[v] = worker[v]
    BY <1>4, <1>5
  <2>2. ~expired => \A n \in Messages : outcome'[n] # "aborted"  BY <1>1, <1>6 DEF StopInv
  <2>3. ~expired => server # "stopped"  BY <1>1 DEF StopInv
  <2>4. ~(\A v \in Workers : worker'[v].pc = "exited")  BY <1>4, <1>5
  <2>. QED  BY <1>1, <1>3, <2>1, <2>2, <2>3, <2>4 DEF StopInv, StopClosed
<1>. QED  BY <1>9, <1>10, <1>11, <1>12 DEF RelayInv

LEMMA AbortStep == ASSUME RelayInv, NEW w \in Workers, Abort(w) PROVE RelayInv'
<1>1. TypeOK /\ OneHome /\ AttemptsCounted /\ StopInv  BY DEF RelayInv
<1>2. worker[w].pc = "waiting" /\ Finish(w, "aborted") /\ UNCHANGED <<serverVars, handler, jobs, sends>> /\ expired
  BY <1>1 DEF Abort, StopInv
<1>3. worker[w].msg \in Messages /\ worker[w].msg # NoMsg  BY <1>1, <1>2, WorkerFields
<1>4. sends[worker[w].msg] \in Nat /\ sends' = [sends EXCEPT ![worker[w].msg] = sends[worker[w].msg]]
  BY <1>1, <1>2, <1>3 DEF TypeOK
<1>5. sends[worker[w].msg] < MaxRetries  BY <1>1, <1>3 DEF AttemptsCounted
<1>6. sends[worker[w].msg] <= MaxRetries  BY <1>4, <1>5, RelayAssumption
<1>. QED  BY <1>2, <1>4, <1>5, <1>6, FinishStep

LEMMA SendStep == ASSUME RelayInv, NEW w \in Workers, NEW ok \in BOOLEAN, Send(w, ok) PROVE RelayInv'
<1>1. TypeOK /\ OneHome /\ AttemptsCounted /\ StopInv  BY DEF RelayInv
<1>. DEFINE m == worker[w].msg
            n == worker[w].attempts + 1
<1>2. worker[w].pc = "sending" /\ UNCHANGED <<serverVars, handler, jobs>>  BY DEF Send
<1>3. m \in Messages /\ m # NoMsg /\ worker[w].attempts \in Nat  BY <1>1, <1>2, WorkerFields
<1>4. sends[m] = worker[w].attempts /\ worker[w].attempts < MaxRetries  BY <1>1, <1>3 DEF AttemptsCounted
<1>5. /\ n \in Nat /\ n > 0 /\ n <= MaxRetries
      /\ sends' = [sends EXCEPT ![m] = n]
  BY <1>3, <1>4, RelayAssumption DEF Send
<1>6. CASE ok
  <2>1. Finish(w, "delivered")  BY <1>6 DEF Send
  <2>. QED  BY <1>2, <1>5, <2>1, FinishStep
<1>7. CASE ~ok /\ n >= MaxRetries
  <2>1. Finish(w, "exhausted") /\ n = MaxRetries  BY <1>5, <1>7, RelayAssumption DEF Send
  <2>. QED  BY <1>2, <1>5, <2>1, FinishStep
<1>8. CASE ~ok /\ ~(n >= MaxRetries)
  <2>. DEFINE r == Holding("retrying", m, n)
  <2>1. /\ worker' = [worker EXCEPT ![w] = r] /\ n < MaxRetries
        /\ UNCHANGED <<server, starts, expired, cancelled, handler, jobs, outcome>>
    BY <1>5, <1>8, RelayAssumption DEF Send, serverVars
  <2>2. r \in Busy /\ r.pc = "retrying" /\ r.msg = m /\ r.attempts = n
    BY <1>3, <1>5 DEF Busy, Holding
  <2>. HIDE DEF r, n
  <2>3. /\ worker' \in [Workers -> Free \cup Busy] /\ worker'[w] = r
        /\ \A v \in Workers : v # w => worker'[v] = worker[v]
    BY <1>1, <2>1, <2>2, WorkerSteps
  <2>4. \A v \in Workers : worker'[v].msg = worker[v].msg  BY <2>2, <2>3
  <2>5. sends' \in [Messages -> Nat] /\ sends'[m] = n /\ \A l \in Messages : l # m => sends'[l] = sends[l]
    BY <1>1, <1>3, <1>5 DEF TypeOK
  <2>6. Held(m) /\ ~Queued(m) /\ handler[m] = "accepted" /\ outcome[m] = "none"
    <3>1. Held(m)  BY DEF Held
    <3>2. ~Queued(m)  BY <1>1 DEF OneHome, Queued
    <3>. QED  BY <1>1, <1>3, <3>1, <3>2 DEF OneHome
  <2>7. TypeOK'  BY <1>1, <2>1, <2>3, <2>5 DEF TypeOK, Free, Busy
  <2>8. OneHome'  BY <1>1, <2>1, <2>4 DEF OneHome, Queued, Held
  <2>9. AttemptsCounted'
    <3>1. \A i \in DOMAIN jobs : jobs[i].msg \in Messages /\ jobs[i].msg # m
      BY <1>1, <2>6, JobFields DEF Queued
    <3>2. \A i \in DOMAIN jobs : sends'[jobs[i].msg] = jobs[i].attempts /\ jobs[i].attempts < MaxRetries
      BY <1>1, <2>5, <3>1 DEF AttemptsCounted
    <3>3. ASSUME NEW v \in Workers, worker'[v].msg # NoMsg
          PROVE  sends'[worker'[v].msg] = worker'[v].attempts /\ worker'[v].attempts < MaxRetries
      <4>1. CASE v = w  BY <4>1, <2>1, <2>2, <2>3, <2>5
      <4>2. CASE v # w
        <5>1. worker'[v] = worker[v]  BY <2>3, <4>2
        <5>2. worker[v].msg \in Messages /\ worker[v].msg # m
          BY <1>1, <1>3, <3>3, <4>2, <5>1, WorkerFields DEF OneHome
        <5>. QED  BY <1>1, <2>5, <3>3, <5>1, <5>2 DEF AttemptsCounted
      <4>. QED  BY <4>1, <4>2
    <3>4. ASSUME NEW l \in Messages
          PROVE  /\ sends'[l] <= MaxRetries
                 /\ outcome'[l] = "exhausted" => sends'[l] = MaxRetries
                 /\ outcome'[l] \in {"delivered", "full", "shutdown"} => sends'[l] > 0
                 /\ outcome'[l] \in {"full", "shutdown", "aborted"} => sends'[l] < MaxRetries
                 /\ handler'[l] # "accepted" => sends'[l] = 0 /\ outcome'[l] = "none"
      BY <1>1, <1>5, <2>1, <2>5, <2>6 DEF AttemptsCounted
    <3>. QED  BY <2>1, <3>2, <3>3, <3>4 DEF AttemptsCounted
  <2>10. StopInv'
    <3>1. ~expired => server # "stopped"  BY <1>1, <1>2 DEF StopInv
    <3>2. ~(\A v \in Workers : worker'[v].pc = "exited")  BY <2>2, <2>3
    <3>. QED  BY <1>1, <1>5, <2>1, <2>2, <2>3, <3>1, <3>2 DEF StopInv, StopClosed
  <2>. QED  BY <2>7, <2>8, <2>9, <2>10 DEF RelayInv
<1>. QED  BY <1>6, <1>7, <1>8

\* A retry goes back to the channel, or ends there.
LEMMA RequeueStep == ASSUME RelayInv, NEW w \in Workers, Requeue(w) PROVE RelayInv'
<1>1. TypeOK /\ OneHome /\ AttemptsCounted /\ StopInv  BY DEF RelayInv
<1>. DEFINE m == worker[w].msg
            n == worker[w].attempts
<1>2. worker[w].pc = "retrying" /\ UNCHANGED <<serverVars, handler, sends>>  BY DEF Requeue
<1>3. m \in Messages /\ m # NoMsg /\ n \in Nat /\ n > 0  BY <1>1, <1>2, WorkerFields DEF StopInv
<1>4. sends[m] = n /\ n < MaxRetries  BY <1>1, <1>3 DEF AttemptsCounted
<1>5. CASE \E how \in {"shutdown", "full"} : Finish(w, how) /\ UNCHANGED jobs
  <2>1. PICK how \in {"shutdown", "full"} : Finish(w, how) /\ UNCHANGED jobs  BY <1>5
  <2>2. sends' = [sends EXCEPT ![m] = n]  BY <1>1, <1>2, <1>3, <1>4 DEF TypeOK
  <2>3. n <= MaxRetries  BY <1>3, <1>4, RelayAssumption
  <2>. QED  BY <1>2, <1>3, <1>4, <2>1, <2>2, <2>3, FinishStep
<1>6. CASE jobs' = Append(jobs, Job(m, n)) /\ worker' = [worker EXCEPT ![w] = Idle] /\ UNCHANGED outcome
  <2>1. Job(m, n) \in JobSet /\ Job(m, n).msg = m /\ Job(m, n).attempts = n  BY <1>3 DEF Job, JobSet
  <2>2. /\ jobs' \in Seq(JobSet) /\ jobs' # <<>>
        /\ \A i \in DOMAIN jobs' : \/ i \in DOMAIN jobs /\ jobs'[i] = jobs[i]
                                   \/ i = Len(jobs) + 1 /\ i \notin DOMAIN jobs /\ jobs'[i] = Job(m, n)
        /\ \A l \in Messages : Queued(l)' <=> Queued(l) \/ l = m
    BY <1>1, <1>6, <2>1, Enqueued
  <2>3. Idle \in Free \cup Busy /\ Idle.msg = NoMsg /\ Idle.pc = "idle"  BY DEF Idle, Holding, Free
  <2>4. /\ worker' \in [Workers -> Free \cup Busy] /\ worker'[w] = Idle
        /\ \A v \in Workers : v # w => worker'[v] = worker[v]
        /\ \A l \in Messages : Held(l)' <=> Held(l) /\ l # m
    <3>1. \A l \in Messages : l # NoMsg  BY RelayAssumption
    <3>. QED  BY <1>1, <1>6, <2>3, <3>1, WorkerSteps
  <2>5. UNCHANGED <<server, starts, expired, cancelled, handler, outcome, sends>>
    BY <1>2, <1>6 DEF serverVars
  <2>6. Held(m) /\ ~Queued(m)
    <3>1. Held(m)  BY DEF Held
    <3>2. ~Queued(m)  BY <1>1 DEF OneHome, Queued
    <3>. QED  BY <3>1, <3>2
  <2>7. \A v \in Workers : v # w => worker[v].msg # m  BY <1>1, <1>3 DEF OneHome
  <2>. HIDE DEF m, n
  <2>8. TypeOK'  BY <1>1, <2>2, <2>4, <2>5 DEF TypeOK, Free, Busy, JobSet
  <2>9. OneHome'
    <3>1. \A l \in Messages :
            (handler'[l] = "accepted" /\ outcome'[l] = "none") <=> (Queued(l)' \/ Held(l)')
      BY <1>1, <2>2, <2>4, <2>5, <2>6 DEF OneHome
    <3>2. \A i, k \in DOMAIN jobs' : jobs'[i].msg = jobs'[k].msg => i = k
      BY <1>1, <2>1, <2>2, <2>6 DEF OneHome, Queued
    <3>3. \A v, u \in Workers : worker'[v].msg = worker'[u].msg /\ worker'[v].msg # NoMsg => v = u
      BY <1>1, <2>3, <2>4 DEF OneHome
    <3>4. ASSUME NEW i \in DOMAIN jobs', NEW v \in Workers PROVE jobs'[i].msg # worker'[v].msg
      <4>1. CASE v = w  BY <4>1, <1>1, <1>3, <2>1, <2>2, <2>3, <2>4, JobFields
      <4>2. CASE v # w  BY <4>2, <1>1, <2>1, <2>2, <2>4, <2>7 DEF OneHome
      <4>. QED  BY <4>1, <4>2
    <3>. QED  BY <3>1, <3>2, <3>3, <3>4 DEF OneHome
  <2>10. AttemptsCounted'
    <3>1. \A i \in DOMAIN jobs' : sends'[jobs'[i].msg] = jobs'[i].attempts /\ jobs'[i].attempts < MaxRetries
      BY <1>1, <1>4, <2>1, <2>2, <2>5 DEF AttemptsCounted
    <3>2. \A v \in Workers : worker'[v].msg # NoMsg =>
             sends'[worker'[v].msg] = worker'[v].attempts /\ worker'[v].attempts < MaxRetries
      BY <1>1, <2>3, <2>4, <2>5 DEF AttemptsCounted
    <3>. QED  BY <1>1, <2>5, <3>1, <3>2 DEF AttemptsCounted
  <2>11. StopInv'
    <3>1. ~expired => server # "stopped"  BY <1>1, <1>2 DEF StopInv
    <3>2. ~(\A v \in Workers : worker'[v].pc = "exited")  BY <2>3, <2>4
    <3>. QED  BY <1>1, <2>3, <2>4, <2>5, <3>1, <3>2 DEF StopInv, StopClosed
  <2>. QED  BY <2>8, <2>9, <2>10, <2>11 DEF RelayInv
<1>. QED  BY <1>5, <1>6 DEF Requeue

-----------------------------------------------------------------------------
(* The theorems *)

LEMMA RelayInit == Init => RelayInv
<1>. SUFFICES ASSUME Init PROVE RelayInv  OBVIOUS
<1>1. Idle \in Free /\ Idle.pc = "idle" /\ Idle.msg = NoMsg  BY DEF Idle, Holding, Free
<1>2. \A w \in Workers : worker[w] = Idle  BY DEF Init
<1>3. TypeOK
  <2>1. worker \in [Workers -> Free \cup Busy]  BY <1>1 DEF Init
  <2>2. starts \in Seq({"nil", "error"}) /\ jobs \in Seq(JobSet)  BY DEF Init
  <2>. QED  BY <2>1, <2>2 DEF Init, TypeOK, Free, Busy, JobSet
<1>4. OneHome
  <2>1. \A m \in Messages : ~Queued(m) /\ ~Held(m)
    BY <1>1, <1>2, RelayAssumption DEF Init, Queued, Held
  <2>. QED  BY <1>1, <1>2, <2>1 DEF Init, OneHome
<1>5. AttemptsCounted  BY <1>1, <1>2, RelayAssumption DEF Init, AttemptsCounted
<1>6. StopInv  BY <1>1, <1>2 DEF Init, StopInv
<1>. QED  BY <1>3, <1>4, <1>5, <1>6 DEF RelayInv

LEMMA RelayNext == RelayInv /\ [Next]_vars => RelayInv'
<1>. SUFFICES ASSUME RelayInv, [Next]_vars PROVE RelayInv'  OBVIOUS
<1>1. CASE Server  BY <1>1, StartStep, StopStep DEF Server
<1>2. CASE \E m \in Messages : Call(m) \/ \E gone \in BOOLEAN : SendMessage(m, gone)
  BY <1>2, CallStep, SendMessageStep
<1>3. CASE \E w \in Workers : Work(w)
  BY <1>3, WorkerTakeStep, WorkerExitStep, TimerFiresStep, AbortStep, SendStep, RequeueStep DEF Work
<1>4. CASE UNCHANGED vars
  BY <1>4 DEF vars, RelayInv, StopInv, TypeOK, OneHome, AttemptsCounted, StopClosed, Queued, Held
<1>. QED  BY <1>1, <1>2, <1>3, <1>4 DEF Next

\* However handlers, workers, retries and Stop interleave, and for every number of
\* workers, retries and places in the channel: an accepted message has one home
\* until it has its outcome, and no more attempts than MaxRetries.
THEOREM RelayInvariant == Spec => []RelayInv
BY RelayInit, RelayNext, PTL DEF Spec

\* A Stop that returns within its deadline leaves no accepted message behind: each
\* was sent at least once and has an outcome, and no worker runs on.
THEOREM CleanStopDrainsHolds == Spec => []CleanStopDrains
<1>1. RelayInv => CleanStopDrains
  <2>. SUFFICES ASSUME RelayInv, server = "stopped", ~expired
               PROVE  /\ jobs = <<>>
                      /\ \A w \in Workers : worker[w].pc = "exited"
                      /\ \A m \in Messages : handler[m] = "accepted" =>
                            sends[m] > 0 /\ outcome[m] \notin {"none", "aborted"}
    BY DEF CleanStopDrains
  <2>1. TypeOK /\ OneHome /\ AttemptsCounted /\ StopInv  BY DEF RelayInv
  <2>2. jobs = <<>> /\ \A w \in Workers : worker[w].pc = "exited"  BY <2>1 DEF StopInv
  <2>3. \A w \in Workers : worker[w].msg = NoMsg  BY <2>1, <2>2, WorkerFields
  <2>4. \A m \in Messages : ~Queued(m) /\ ~Held(m)  BY <2>2, <2>3, RelayAssumption DEF Queued, Held
  <2>5. ASSUME NEW m \in Messages, handler[m] = "accepted"
        PROVE  sends[m] > 0 /\ outcome[m] \notin {"none", "aborted"}
    <3>1. outcome[m] \notin {"none", "aborted"}  BY <2>1, <2>4, <2>5 DEF OneHome, StopInv
    <3>2. outcome[m] \in {"delivered", "exhausted", "full", "shutdown"}  BY <2>1, <3>1 DEF TypeOK
    <3>. QED  BY <2>1, <3>1, <3>2, RelayAssumption DEF AttemptsCounted
  <2>. QED  BY <2>2, <2>5
<1>. QED  BY <1>1, RelayInvariant, PTL
=============================================================================
