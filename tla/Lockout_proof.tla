--------------------------- MODULE Lockout_proof ---------------------------
(***************************************************************************)
(* The lockout of addresses, proved for any limits, times and connections  *)
(* and for both stores.  Three invariants are inductive together: HoldInv  *)
(* (what was announced lasts), OwnInv (what is counted was tried) and      *)
(* AttemptInv (what was tried is counted, pending or was asked before);    *)
(* the last two count the sessions of an address.                          *)
(***************************************************************************)
EXTENDS Lockouts, TLAPS, FiniteSetTheorems

\* An instance has its own finite sets and cardinalities, which are the same.
LEMMA SameFinite == ASSUME NEW conf, NEW S PROVE Lock(conf)!IsFiniteSet(S) <=> IsFiniteSet(S)
  BY Zenon DEF Lock!IsFiniteSet, IsFiniteSet

\* The same for cardinalities.
LEMMA SameCardinality == ASSUME NEW conf, NEW S PROVE Lock(conf)!Cardinality(S) = Cardinality(S)
  BY Zenon DEF Lock!Cardinality, Cardinality

\* What the bounds of the lockout are.
LEMMA LockConstants ==
    ASSUME NEW conf, Lock(conf)!ConstantsOK
    PROVE  /\ IsFiniteSet(conf.sessions) /\ conf.limit \in Nat /\ conf.limit >= 1 /\ conf.delay \in Nat
           /\ conf.lock \in Nat /\ conf.ttl \in Nat /\ conf.clock \in Nat
           /\ \A s \in conf.sessions : Lock(conf)!hostOnly(s) \in Lock(conf)!IPs
<1>1. \A s \in conf.sessions : Lock(conf)!hostOnly(s) \in Lock(conf)!IPs
  BY Zenon DEF Lock!IPs
<1>2. /\ IsFiniteSet(conf.sessions) /\ conf.limit \in Nat /\ conf.limit >= 1 /\ conf.delay \in Nat
      /\ conf.lock \in Nat /\ conf.ttl \in Nat /\ conf.clock \in Nat
  BY SameFinite DEF Lock!ConstantsOK
<1> QED
  BY <1>1, <1>2, Zenon

\* A lockout holds at the beginning: there is none.
LEMMA HoldInit == ASSUME NEW conf, Lock(conf)!ConstantsOK, Lock(conf)!Init PROVE Lock(conf)!HoldInv
<1>1. Lock(conf)!Never \in Nat
  BY LockConstants DEF Lock!Never
<1> QED
  BY <1>1, LockConstants DEF Lock!Init, Lock!HoldInv, Lock!TypeOK, Lock!NoEntry

\* Every step of the sessions, of Redis, of eviction and of the clock keeps a
\* lockout as long as was promised.
LEMMA HoldStep ==
    ASSUME NEW conf, Lock(conf)!ConstantsOK, Lock(conf)!HoldInv, Lock(conf)!Next
    PROVE  Lock(conf)!HoldInv'
<1> USE LockConstants DEF Lock!HoldInv, Lock!TypeOK
<1>1. ASSUME NEW s \in conf.sessions, Lock(conf)!Auth(s) PROVE Lock(conf)!HoldInv'
  BY <1>1, Zenon DEF Lock!Auth, Lock!Goto
<1>2. ASSUME NEW s \in conf.sessions, Lock(conf)!AuthOK(s) PROVE Lock(conf)!HoldInv'
  BY <1>2, Zenon DEF Lock!AuthOK, Lock!Goto
<1>3. ASSUME NEW s \in conf.sessions, Lock(conf)!AuthFailed(s) PROVE Lock(conf)!HoldInv'
  <2>1. Lock(conf)!TypeOK'
    <3>1. Lock(conf)!hostOnly(s) \in Lock(conf)!IPs
      BY Zenon
    <3>2. lastSeen' \in [Lock(conf)!IPs -> Nat \cup {Lock(conf)!NoEntry}] /\ tried' \in [Lock(conf)!IPs -> Nat]
      BY <1>3, <3>1 DEF Lock!AuthFailed
    <3>3. sess' \in [conf.sessions -> [pc : {"idle", "sasl", "add", "expire", "lock"}, now : Nat, n : Nat]]
      BY <1>3 DEF Lock!AuthFailed
    <3> QED
      BY <1>3, <3>2, <3>3, Zenon DEF Lock!AuthFailed
  <2>2. UNCHANGED <<clock, lockedUntil, promised>>
    BY <1>3, Zenon DEF Lock!AuthFailed
  <2>3. sess'[s].now = clock /\ \A t \in conf.sessions \ {s} : sess'[t] = sess[t]
    BY <1>3, Zenon DEF Lock!AuthFailed
  <2> QED
    BY <2>1, <2>2, <2>3
<1>4. ASSUME NEW s \in conf.sessions, Lock(conf)!Add(s) PROVE Lock(conf)!HoldInv'
  <2> DEFINE ip == Lock(conf)!hostOnly(s)
             gone == conf.store = "redis" /\ expiry[ip] <= clock
             n == IF gone THEN 1 ELSE failures[ip] + 1
  <2>1. /\ failures' = [failures EXCEPT ![ip] = n]
        /\ expiry' = IF gone THEN [expiry EXCEPT ![ip] = Lock(conf)!Never] ELSE expiry
        /\ sess' = [sess EXCEPT ![s].pc = Lock(conf)!AfterCount(n), ![s].n = n]
        /\ sess[s].pc = "add"
        /\ UNCHANGED <<clock, lastSeen, lockedUntil, tried, promised, outages, restarts>>
    BY <1>4, Zenon DEF Lock!Add
  <2>2. n \in Nat /\ Lock(conf)!Never \in Nat /\ Lock(conf)!AfterCount(n) \in {"idle", "expire", "lock"}
    BY DEF Lock!AfterCount, Lock!Never
  <2> HIDE DEF n, gone, ip
  <2>3. Lock(conf)!TypeOK'
    BY <2>1, <2>2, Zenon DEF ip
  <2>4. sess'[s].now = sess[s].now /\ \A t \in conf.sessions \ {s} : sess'[t] = sess[t]
    BY <2>1, <2>2, Zenon
  <2> QED
    BY <2>1, <2>3, <2>4
<1>5. ASSUME NEW s \in conf.sessions, Lock(conf)!Expire(s) PROVE Lock(conf)!HoldInv'
  <2>1. Lock(conf)!TypeOK'
    <3>1. Lock(conf)!hostOnly(s) \in Lock(conf)!IPs /\ clock + conf.ttl \in Nat
      OBVIOUS
    <3>2. expiry' \in [Lock(conf)!IPs -> Nat]
      BY <1>5, <3>1, Zenon DEF Lock!Expire
    <3>3. sess' \in [conf.sessions -> [pc : {"idle", "sasl", "add", "expire", "lock"}, now : Nat, n : Nat]]
      BY <1>5 DEF Lock!Expire, Lock!Goto
    <3> QED
      BY <1>5, <3>2, <3>3, Zenon DEF Lock!Expire
  <2>2. UNCHANGED <<clock, lockedUntil, promised>> /\ sess[s].pc = "expire"
    BY <1>5, Zenon DEF Lock!Expire
  <2>3. sess'[s].now = sess[s].now /\ \A t \in conf.sessions \ {s} : sess'[t] = sess[t]
    BY <1>5, Zenon DEF Lock!Expire, Lock!Goto
  <2> QED
    BY <2>1, <2>2, <2>3, Zenon
<1>6. ASSUME NEW s \in conf.sessions, Lock(conf)!Lock(s) PROVE Lock(conf)!HoldInv'
  <2> DEFINE ip == Lock(conf)!hostOnly(s)
             until == (IF conf.store = "redis" THEN clock ELSE sess[s].now) + conf.lock
  <2>1. /\ lockedUntil' = [lockedUntil EXCEPT ![ip] = until]
        /\ promised' = [promised EXCEPT ![ip] = IF until > promised[ip] THEN until ELSE promised[ip]]
        /\ sess' = [sess EXCEPT ![s].pc = "idle"]
        /\ sess[s].pc = "lock"
        /\ UNCHANGED <<clock, failures, lastSeen, expiry, tried, outages, restarts>>
    BY <1>6, Zenon DEF Lock!Lock, Lock!Goto
  <2>2. until \in Nat /\ until <= clock + conf.lock /\ clock + conf.lock <= until + conf.delay /\ ip \in Lock(conf)!IPs
    <3>1. sess[s].now \in Nat /\ clock \in Nat /\ sess[s].now <= clock /\ clock - sess[s].now <= conf.delay
      BY <2>1, Zenon
    <3>2. ip \in Lock(conf)!IPs /\ conf.lock \in Nat /\ conf.delay \in Nat
      BY Zenon
    <3> QED
      BY <3>1, <3>2
  <2> HIDE DEF until, ip
  <2>3. Lock(conf)!TypeOK'
    BY <2>1, <2>2
  <2>4. ASSUME NEW i \in Lock(conf)!IPs
        PROVE  /\ promised'[i] <= clock + conf.lock
               /\ clock + conf.delay < promised'[i] => promised'[i] <= lockedUntil'[i] + conf.delay
    <3>1. CASE i = ip
      <4>1. lockedUntil'[i] = until /\ promised'[i] \in {until, promised[i]}
        BY <2>1, <2>2, <3>1, Zenon
      <4> QED
        BY <2>2, <4>1
    <3>2. CASE i # ip
      BY <2>1, <2>2, <3>2, Zenon
    <3> QED
      BY <3>1, <3>2, Zenon
  <2>5. sess'[s].pc = "idle" /\ \A t \in conf.sessions \ {s} : sess'[t] = sess[t]
    BY <2>1, Zenon
  <2> QED
    BY <2>1, <2>3, <2>4, <2>5, Zenon
<1>7. ASSUME NEW s \in conf.sessions, Lock(conf)!StoreFails(s) PROVE Lock(conf)!HoldInv'
  BY <1>7 DEF Lock!StoreFails, Lock!Goto
<1>8. ASSUME Lock(conf)!Evict PROVE Lock(conf)!HoldInv'
  BY <1>8 DEF Lock!Evict, Lock!NoEntry
<1>9. ASSUME Lock(conf)!Restart PROVE Lock(conf)!HoldInv'
  BY <1>9 DEF Lock!Restart, Lock!NoEntry
<1>10. ASSUME Lock(conf)!Tick PROVE Lock(conf)!HoldInv'
  BY <1>10 DEF Lock!Tick
<1> QED
  BY <1>1, <1>2, <1>3, <1>4, <1>5, <1>6, <1>7, <1>8, <1>9, <1>10, Zenon DEF Lock!Next

\* Sets that differ in one element at most.
LEMMA CountStep ==
    ASSUME NEW S, IsFiniteSet(S), NEW A \in SUBSET S, NEW B \in SUBSET S, NEW s \in S, A \ {s} = B \ {s}
    PROVE  /\ Cardinality(A) \in Nat /\ Cardinality(B) \in Nat
           /\ Cardinality(B) + (IF s \in A THEN 1 ELSE 0) = Cardinality(A) + (IF s \in B THEN 1 ELSE 0)
<1>1. IsFiniteSet(A) /\ IsFiniteSet(B) /\ IsFiniteSet(A \ {s})
  BY FS_Subset, Zenon
<1>2. Cardinality(A) \in Nat /\ Cardinality(B) \in Nat /\ Cardinality(A \ {s}) \in Nat
  BY <1>1, FS_CardinalityType, Zenon
<1>3. Cardinality(A \ {s}) = IF s \in A THEN Cardinality(A) - 1 ELSE Cardinality(A)
  BY <1>1, FS_RemoveElement, Zenon
<1>4. Cardinality(B \ {s}) = IF s \in B THEN Cardinality(B) - 1 ELSE Cardinality(B)
  BY <1>1, FS_RemoveElement, Zenon
<1>5. Cardinality(A \ {s}) = Cardinality(B \ {s})
  BY Zenon
<1> QED
  <2> DEFINE a == Cardinality(A)
             b == Cardinality(B)
             c == Cardinality(A \ {s})
  <2>1. /\ a \in Nat /\ b \in Nat
        /\ c = IF s \in A THEN a - 1 ELSE a
        /\ c = IF s \in B THEN b - 1 ELSE b
    BY <1>2, <1>3, <1>4, <1>5, Zenon
  <2> HIDE DEF a, b, c
  <2>2. b + (IF s \in A THEN 1 ELSE 0) = a + (IF s \in B THEN 1 ELSE 0)
    BY <2>1
  <2> QED
    BY <1>2, <2>2, Zenon DEF a, b

\* A step of one session leaves the sessions of other addresses alone.
LEMMA OtherSets ==
    ASSUME NEW conf, NEW s \in conf.sessions, NEW se, NEW se2, NEW i, i # Lock(conf)!hostOnly(s),
           \A t \in conf.sessions \ {s} : se2[t] = se[t]
    PROVE  /\ Lock(conf)!Asking(se2, i) = Lock(conf)!Asking(se, i)
           /\ Lock(conf)!Adding(se2, i) = Lock(conf)!Adding(se, i)
           /\ Lock(conf)!Pending(se2, i) = Lock(conf)!Pending(se, i)
  BY Zenon DEF Lock!Asking, Lock!Adding, Lock!Pending

\* How a step of session s changes the number of sessions of its address
\* that evaluate credentials.
LEMMA AskingStep ==
    ASSUME NEW conf, Lock(conf)!ConstantsOK, NEW s \in conf.sessions, NEW se, NEW se2, NEW ip, ip = Lock(conf)!hostOnly(s),
           \A t \in conf.sessions \ {s} : se2[t] = se[t]
    PROVE  Lock(conf)!Cardinality(Lock(conf)!Asking(se2, ip)) + (IF s \in Lock(conf)!Asking(se, ip) THEN 1 ELSE 0)
             = Lock(conf)!Cardinality(Lock(conf)!Asking(se, ip)) + (IF s \in Lock(conf)!Asking(se2, ip) THEN 1 ELSE 0)
<1>1. /\ Lock(conf)!Asking(se, ip) \in SUBSET conf.sessions /\ Lock(conf)!Asking(se2, ip) \in SUBSET conf.sessions
      /\ Lock(conf)!Asking(se, ip) \ {s} = Lock(conf)!Asking(se2, ip) \ {s}
  BY Zenon DEF Lock!Asking
<1>2. IsFiniteSet(conf.sessions)
  BY LockConstants, Zenon
<1>3. Cardinality(Lock(conf)!Asking(se2, ip)) + (IF s \in Lock(conf)!Asking(se, ip) THEN 1 ELSE 0)
                = Cardinality(Lock(conf)!Asking(se, ip)) + (IF s \in Lock(conf)!Asking(se2, ip) THEN 1 ELSE 0)
  BY <1>1, <1>2, CountStep
<1> QED
  BY <1>3, SameCardinality, Zenon

\* How a step of session s changes the number of sessions of its address
\* with a failure to count.
LEMMA AddingStep ==
    ASSUME NEW conf, Lock(conf)!ConstantsOK, NEW s \in conf.sessions, NEW se, NEW se2, NEW ip, ip = Lock(conf)!hostOnly(s),
           \A t \in conf.sessions \ {s} : se2[t] = se[t]
    PROVE  Lock(conf)!Cardinality(Lock(conf)!Adding(se2, ip)) + (IF s \in Lock(conf)!Adding(se, ip) THEN 1 ELSE 0)
             = Lock(conf)!Cardinality(Lock(conf)!Adding(se, ip)) + (IF s \in Lock(conf)!Adding(se2, ip) THEN 1 ELSE 0)
<1>1. /\ Lock(conf)!Adding(se, ip) \in SUBSET conf.sessions /\ Lock(conf)!Adding(se2, ip) \in SUBSET conf.sessions
      /\ Lock(conf)!Adding(se, ip) \ {s} = Lock(conf)!Adding(se2, ip) \ {s}
  BY Zenon DEF Lock!Adding
<1>2. IsFiniteSet(conf.sessions)
  BY LockConstants, Zenon
<1>3. Cardinality(Lock(conf)!Adding(se2, ip)) + (IF s \in Lock(conf)!Adding(se, ip) THEN 1 ELSE 0)
                = Cardinality(Lock(conf)!Adding(se, ip)) + (IF s \in Lock(conf)!Adding(se2, ip) THEN 1 ELSE 0)
  BY <1>1, <1>2, CountStep
<1> QED
  BY <1>3, SameCardinality, Zenon

\* How a step of session s changes the number of sessions of its address
\* with a failure to count or a lockout to set.
LEMMA PendingStep ==
    ASSUME NEW conf, Lock(conf)!ConstantsOK, NEW s \in conf.sessions, NEW se, NEW se2, NEW ip, ip = Lock(conf)!hostOnly(s),
           \A t \in conf.sessions \ {s} : se2[t] = se[t]
    PROVE  Lock(conf)!Cardinality(Lock(conf)!Pending(se2, ip)) + (IF s \in Lock(conf)!Pending(se, ip) THEN 1 ELSE 0)
             = Lock(conf)!Cardinality(Lock(conf)!Pending(se, ip)) + (IF s \in Lock(conf)!Pending(se2, ip) THEN 1 ELSE 0)
<1>1. /\ Lock(conf)!Pending(se, ip) \in SUBSET conf.sessions /\ Lock(conf)!Pending(se2, ip) \in SUBSET conf.sessions
      /\ Lock(conf)!Pending(se, ip) \ {s} = Lock(conf)!Pending(se2, ip) \ {s}
  BY Zenon DEF Lock!Pending
<1>2. IsFiniteSet(conf.sessions)
  BY LockConstants, Zenon
<1>3. Cardinality(Lock(conf)!Pending(se2, ip)) + (IF s \in Lock(conf)!Pending(se, ip) THEN 1 ELSE 0)
                = Cardinality(Lock(conf)!Pending(se, ip)) + (IF s \in Lock(conf)!Pending(se2, ip) THEN 1 ELSE 0)
  BY <1>1, <1>2, CountStep
<1> QED
  BY <1>3, SameCardinality, Zenon

\* The numbers of sessions, and how they relate to all of an address.
LEMMA Counts ==
    ASSUME NEW conf, Lock(conf)!ConstantsOK, NEW se, NEW ip
    PROVE  /\ Lock(conf)!Cardinality(Lock(conf)!Asking(se, ip)) \in Nat
           /\ Lock(conf)!Cardinality(Lock(conf)!Adding(se, ip)) \in Nat
           /\ Lock(conf)!Cardinality(Lock(conf)!Pending(se, ip)) \in Nat
           /\ Lock(conf)!SessionsOf(ip) \in Nat
           /\ Lock(conf)!Cardinality(Lock(conf)!Asking(se, ip)) + Lock(conf)!Cardinality(Lock(conf)!Pending(se, ip))
                 <= Lock(conf)!SessionsOf(ip)
           /\ \A s \in conf.sessions : Lock(conf)!hostOnly(s) = ip /\ se[s].pc = "idle" =>
                 Lock(conf)!Cardinality(Lock(conf)!Asking(se, ip)) + Lock(conf)!Cardinality(Lock(conf)!Pending(se, ip)) + 1
                 <= Lock(conf)!SessionsOf(ip)
<1> DEFINE A == Lock(conf)!Asking(se, ip)
           D == Lock(conf)!Adding(se, ip)
           P == Lock(conf)!Pending(se, ip)
           T == {s \in conf.sessions : Lock(conf)!hostOnly(s) = ip}
<1>1. IsFiniteSet(conf.sessions)
  BY LockConstants, Zenon
<1>2. A \in SUBSET T /\ D \in SUBSET T /\ P \in SUBSET T /\ A \cap P = {} /\ T \in SUBSET conf.sessions
  BY Zenon DEF Lock!Asking, Lock!Adding, Lock!Pending
<1>3. Lock(conf)!SessionsOf(ip) = Cardinality(T)
  BY SameCardinality, Zenon DEF Lock!SessionsOf
<1>4. \A s \in T : se[s].pc = "idle" => s \notin A /\ s \notin P
  BY Zenon DEF Lock!Asking, Lock!Pending
<1>4a. \A s \in conf.sessions : Lock(conf)!hostOnly(s) = ip => s \in T
  BY Zenon
<1>5. IsFiniteSet(T)
  BY <1>1, <1>2, FS_Subset, Zenon
<1> HIDE DEF A, D, P, T
<1>6. IsFiniteSet(A) /\ IsFiniteSet(D) /\ IsFiniteSet(P) /\ IsFiniteSet(A \cup P) /\ A \cup P \in SUBSET T
  BY <1>2, <1>5, FS_Subset, FS_Union, Zenon
<1>7. Cardinality(A) \in Nat /\ Cardinality(D) \in Nat /\ Cardinality(P) \in Nat /\ Cardinality(T) \in Nat
      /\ Cardinality(A \cup P) \in Nat
  BY <1>5, <1>6, FS_CardinalityType, Zenon
<1>8. Cardinality(A \cup P) = Cardinality(A) + Cardinality(P)
  <2>1. Cardinality(A \cap P) = 0
    BY <1>2, FS_EmptySet, Zenon
  <2>2. Cardinality(A \cup P) = Cardinality(A) + Cardinality(P) - Cardinality(A \cap P)
    BY <1>6, FS_Union, Zenon
  <2> QED
    BY <1>7, <2>1, <2>2
<1>9. Cardinality(A) + Cardinality(P) <= Cardinality(T)
  BY <1>5, <1>6, <1>8, FS_Subset, Zenon
<1>10. ASSUME NEW s \in T, se[s].pc = "idle" PROVE Cardinality(A) + Cardinality(P) + 1 <= Cardinality(T)
  <2>1. s \notin A \cup P
    BY <1>4, <1>10, Zenon
  <2>2. IsFiniteSet(T \ {s}) /\ A \cup P \in SUBSET (T \ {s})
    BY <1>5, <1>6, <2>1, FS_Subset, Zenon
  <2>3. Cardinality(A \cup P) <= Cardinality(T \ {s}) /\ Cardinality(T \ {s}) = Cardinality(T) - 1
    BY <1>5, <2>2, FS_Subset, FS_RemoveElement, Zenon
  <2> QED
    BY <1>7, <1>8, <2>3
<1>11. /\ Cardinality(A) = Lock(conf)!Cardinality(A) /\ Cardinality(D) = Lock(conf)!Cardinality(D)
       /\ Cardinality(P) = Lock(conf)!Cardinality(P)
  BY SameCardinality, Zenon
<1> QED
  BY <1>3, <1>4a, <1>7, <1>9, <1>10, <1>11, Zenon DEF A, D, P

\* Before any attempt nothing is counted.
LEMMA OwnInit == ASSUME NEW conf, Lock(conf)!ConstantsOK, Lock(conf)!Init PROVE Lock(conf)!OwnInv
<1>1. ASSUME NEW ip \in Lock(conf)!IPs PROVE Lock(conf)!Cardinality(Lock(conf)!Adding(sess, ip)) = 0
  <2>1. Lock(conf)!Adding(sess, ip) = {}
    BY Zenon DEF Lock!Adding, Lock!Init
  <2> QED
    BY <2>1, SameCardinality, FS_EmptySet, Zenon
<1>2. \A ip \in Lock(conf)!IPs : failures[ip] = 0 /\ tried[ip] = 0 /\ lockedUntil[ip] = 0
  BY Zenon DEF Lock!Init
<1>3. \A s \in conf.sessions : sess[s].pc = "idle"
  BY Zenon DEF Lock!Init
<1> QED
  BY <1>1, <1>2, <1>3 DEF Lock!OwnInv

\* A step of one session changes the counts of its own address only.
LEMMA OwnFrame ==
    ASSUME NEW conf, Lock(conf)!ConstantsOK, Lock(conf)!HoldInv, Lock(conf)!HoldInv', Lock(conf)!OwnInv,
           NEW s \in conf.sessions, NEW ip \in Lock(conf)!IPs, ip = Lock(conf)!hostOnly(s),
           \A t \in conf.sessions \ {s} : sess'[t] = sess[t],
           \A i \in Lock(conf)!IPs \ {ip} :
              failures'[i] = failures[i] /\ tried'[i] = tried[i] /\ lockedUntil'[i] = lockedUntil[i],
           tried'[ip] >= tried[ip],
           failures'[ip] + Lock(conf)!Cardinality(Lock(conf)!Adding(sess', ip)) <= tried'[ip],
           lockedUntil'[ip] > 0 => tried'[ip] >= conf.limit,
           sess'[s].pc \in {"expire", "lock"} => sess'[s].n <= tried'[ip],
           sess'[s].pc = "lock" => sess'[s].n >= conf.limit
    PROVE  Lock(conf)!OwnInv'
<1>1. \A i \in Lock(conf)!IPs \ {ip} : Lock(conf)!Adding(sess', i) = Lock(conf)!Adding(sess, i)
  BY OtherSets
<1>2. ASSUME NEW i \in Lock(conf)!IPs
      PROVE  /\ failures'[i] + Lock(conf)!Cardinality(Lock(conf)!Adding(sess', i)) <= tried'[i]
             /\ lockedUntil'[i] > 0 => tried'[i] >= conf.limit
             /\ tried[i] \in Nat /\ tried'[i] \in Nat /\ tried'[i] >= tried[i]
  <2>1. tried[i] \in Nat /\ tried'[i] \in Nat
    BY Zenon DEF Lock!HoldInv, Lock!TypeOK
  <2>2. CASE i = ip
    BY <2>1, <2>2, Zenon
  <2>3. CASE i # ip
    BY <1>1, <2>1, <2>3 DEF Lock!OwnInv
  <2> QED
    BY <2>2, <2>3, Zenon
<1>3. ASSUME NEW t \in conf.sessions
      PROVE  /\ sess'[t].pc \in {"expire", "lock"} => sess'[t].n <= tried'[Lock(conf)!hostOnly(t)]
             /\ sess'[t].pc = "lock" => sess'[t].n >= conf.limit
  <2>1. CASE t = s
    BY <2>1, Zenon
  <2>2. CASE t # s
    <3>1. sess'[t] = sess[t] /\ sess[t].n \in Nat /\ Lock(conf)!hostOnly(t) \in Lock(conf)!IPs
      BY <2>2, LockConstants, Zenon DEF Lock!HoldInv, Lock!TypeOK
    <3>2. /\ sess[t].pc \in {"expire", "lock"} => sess[t].n <= tried[Lock(conf)!hostOnly(t)]
          /\ sess[t].pc = "lock" => sess[t].n >= conf.limit
      BY Zenon DEF Lock!OwnInv
    <3> QED
      BY <1>2, <3>1, <3>2
  <2> QED
    BY <2>1, <2>2, Zenon
<1> QED
  BY <1>2, <1>3, Zenon DEF Lock!OwnInv

\* Every step keeps what was counted within what was tried.
LEMMA OwnStep ==
    ASSUME NEW conf, Lock(conf)!ConstantsOK, Lock(conf)!HoldInv, Lock(conf)!OwnInv, Lock(conf)!Next
    PROVE  Lock(conf)!OwnInv'
<1> DEFINE num(se, i) == Lock(conf)!Cardinality(Lock(conf)!Adding(se, i))
<1>0. Lock(conf)!HoldInv'
  BY HoldStep, Zenon
<1>n. ASSUME NEW s \in conf.sessions, \A t \in conf.sessions \ {s} : sess'[t] = sess[t], NEW ip, ip = Lock(conf)!hostOnly(s)
      PROVE  /\ num(sess', ip) \in Nat /\ num(sess, ip) \in Nat
             /\ num(sess', ip) + (IF sess[s].pc = "add" THEN 1 ELSE 0) = num(sess, ip) + (IF sess'[s].pc = "add" THEN 1 ELSE 0)
  <2>1. PICK se2 : se2 = sess'
    BY Zenon
  <2>2. num(se2, ip) \in Nat /\ num(sess, ip) \in Nat
    BY Counts, Zenon
  <2>3. num(se2, ip) + (IF s \in Lock(conf)!Adding(sess, ip) THEN 1 ELSE 0) = num(sess, ip) + (IF s \in Lock(conf)!Adding(se2, ip) THEN 1 ELSE 0)
    BY <1>n, <2>1, AddingStep
  <2>4. (s \in Lock(conf)!Adding(sess, ip) <=> sess[s].pc = "add") /\ (s \in Lock(conf)!Adding(se2, ip) <=> se2[s].pc = "add")
    BY <1>n, Zenon DEF Lock!Adding
  <2> HIDE DEF num
  <2> QED
    BY <2>1, <2>2, <2>3, <2>4, Zenon
<1>p. ASSUME NEW s \in conf.sessions, NEW ip, ip = Lock(conf)!hostOnly(s)
      PROVE  /\ ip \in Lock(conf)!IPs /\ failures[ip] \in Nat /\ tried[ip] \in Nat /\ lockedUntil[ip] \in Nat
             /\ sess[s].n \in Nat /\ sess[s].pc \in {"idle", "sasl", "add", "expire", "lock"}
             /\ failures[ip] + num(sess, ip) <= tried[ip]
             /\ lockedUntil[ip] > 0 => tried[ip] >= conf.limit
             /\ sess[s].pc \in {"expire", "lock"} => sess[s].n <= tried[ip]
             /\ sess[s].pc = "lock" => sess[s].n >= conf.limit
             /\ conf.limit \in Nat
  BY <1>p, LockConstants, Zenon DEF Lock!HoldInv, Lock!TypeOK, Lock!OwnInv
<1> HIDE DEF num
<1>1. ASSUME NEW s \in conf.sessions, NEW ip, ip = Lock(conf)!hostOnly(s), NEW to0 \in {"idle", "sasl", "lock"},
             sess' = [sess EXCEPT ![s].pc = to0], to0 = "lock" => sess[s].pc = "expire" /\ sess[s].n >= conf.limit,
             UNCHANGED <<failures, tried, lockedUntil>>
      PROVE  Lock(conf)!OwnInv'
  <2>1. /\ \A t \in conf.sessions \ {s} : sess'[t] = sess[t]
        /\ sess'[s].pc = to0 /\ sess'[s].n = sess[s].n
    BY <1>1, Zenon DEF Lock!HoldInv, Lock!TypeOK
  <2>2. num(sess', ip) <= num(sess, ip) /\ num(sess', ip) \in Nat /\ num(sess, ip) \in Nat
    <3>1. num(sess', ip) + (IF sess[s].pc = "add" THEN 1 ELSE 0) = num(sess, ip) + (IF sess'[s].pc = "add" THEN 1 ELSE 0)
          /\ num(sess, ip) \in Nat /\ num(sess', ip) \in Nat
      BY <1>n, <1>1, <2>1, Zenon
    <3> QED
      BY <1>1, <2>1, <3>1
  <2>3. failures'[ip] + num(sess', ip) <= tried'[ip]
    BY <1>1, <1>p, <2>2
  <2>4. /\ ip \in Lock(conf)!IPs /\ tried'[ip] >= tried[ip]
        /\ lockedUntil'[ip] > 0 => tried'[ip] >= conf.limit
        /\ \A i \in Lock(conf)!IPs \ {ip} :
              failures'[i] = failures[i] /\ tried'[i] = tried[i] /\ lockedUntil'[i] = lockedUntil[i]
    BY <1>1, <1>p
  <2>5. /\ sess'[s].pc \in {"expire", "lock"} => sess'[s].n <= tried'[ip]
        /\ sess'[s].pc = "lock" => sess'[s].n >= conf.limit
    BY <1>1, <1>p, <2>1, Zenon
  <2>6. failures'[ip] + Lock(conf)!Cardinality(Lock(conf)!Adding(sess', ip)) <= tried'[ip]
    BY <2>3, Zenon DEF num
  <2> QED
    BY <1>0, <1>1, <2>1, <2>4, <2>5, <2>6, OwnFrame, Zenon
<1>2. ASSUME NEW s \in conf.sessions, Lock(conf)!AuthFailed(s) PROVE Lock(conf)!OwnInv'
  <2>0. PICK ip : ip = Lock(conf)!hostOnly(s)
    BY Zenon
  <2>1. /\ sess[s].pc = "sasl" /\ sess' = [sess EXCEPT ![s].pc = "add", ![s].now = clock]
        /\ tried' = [tried EXCEPT ![ip] = tried[ip] + 1]
        /\ UNCHANGED <<failures, lockedUntil>>
    BY <1>2, <2>0, Zenon DEF Lock!AuthFailed
  <2>2. /\ \A t \in conf.sessions \ {s} : sess'[t] = sess[t]
        /\ sess'[s].pc = "add"
    BY <2>1, Zenon DEF Lock!HoldInv, Lock!TypeOK
  <2>3. num(sess', ip) = num(sess, ip) + 1 /\ num(sess, ip) \in Nat
    <3>1. num(sess', ip) + (IF sess[s].pc = "add" THEN 1 ELSE 0) = num(sess, ip) + (IF sess'[s].pc = "add" THEN 1 ELSE 0)
          /\ num(sess, ip) \in Nat /\ num(sess', ip) \in Nat
      BY <1>n, <2>0, <2>2, Zenon
    <3> QED
      BY <2>1, <2>2, <3>1
  <2>4. tried'[ip] = tried[ip] + 1 /\ \A i \in Lock(conf)!IPs \ {ip} : tried'[i] = tried[i]
    BY <1>p, <2>0, <2>1, Zenon DEF Lock!HoldInv, Lock!TypeOK
  <2>5. /\ failures'[ip] + num(sess', ip) <= tried'[ip] /\ tried'[ip] >= tried[ip]
        /\ lockedUntil'[ip] > 0 => tried'[ip] >= conf.limit
    BY <1>p, <2>0, <2>1, <2>3, <2>4
  <2>6. /\ ip \in Lock(conf)!IPs
        /\ \A i \in Lock(conf)!IPs \ {ip} :
              failures'[i] = failures[i] /\ tried'[i] = tried[i] /\ lockedUntil'[i] = lockedUntil[i]
    BY <1>p, <2>0, <2>1, <2>4, Zenon
  <2>7. failures'[ip] + Lock(conf)!Cardinality(Lock(conf)!Adding(sess', ip)) <= tried'[ip]
    BY <2>5, Zenon DEF num
  <2>8. sess'[s].pc \notin {"expire", "lock"} /\ sess'[s].pc # "lock"
    BY <2>2, Zenon
  <2> QED
    BY <1>0, <2>0, <2>2, <2>5, <2>6, <2>7, <2>8, OwnFrame, Zenon
<1>3. ASSUME NEW s \in conf.sessions, Lock(conf)!Add(s) PROVE Lock(conf)!OwnInv'
  <2>0. PICK ip : ip = Lock(conf)!hostOnly(s)
    BY Zenon
  <2>1. PICK n : n = IF conf.store = "redis" /\ expiry[ip] <= clock THEN 1 ELSE failures[ip] + 1
    BY Zenon
  <2>2. /\ failures' = [failures EXCEPT ![ip] = n]
        /\ sess' = [sess EXCEPT ![s].pc = Lock(conf)!AfterCount(n), ![s].n = n]
        /\ sess[s].pc = "add"
        /\ UNCHANGED <<tried, lockedUntil>>
    BY <1>3, <2>0, <2>1, Zenon DEF Lock!Add
  <2>3. n \in Nat /\ n <= failures[ip] + 1
    BY <1>p, <2>0, <2>1
  <2>4. Lock(conf)!AfterCount(n) \in {"idle", "expire", "lock"} /\ (Lock(conf)!AfterCount(n) = "lock" => n >= conf.limit)
    BY Zenon DEF Lock!AfterCount
  <2>5. /\ \A t \in conf.sessions \ {s} : sess'[t] = sess[t]
        /\ sess'[s].pc = Lock(conf)!AfterCount(n) /\ sess'[s].n = n
        /\ failures'[ip] = n /\ \A i \in Lock(conf)!IPs \ {ip} : failures'[i] = failures[i]
    BY <1>p, <2>0, <2>2, Zenon DEF Lock!HoldInv, Lock!TypeOK
  <2>6. num(sess', ip) + 1 = num(sess, ip) /\ num(sess', ip) \in Nat
    <3>1. num(sess', ip) + (IF sess[s].pc = "add" THEN 1 ELSE 0) = num(sess, ip) + (IF sess'[s].pc = "add" THEN 1 ELSE 0)
          /\ num(sess, ip) \in Nat /\ num(sess', ip) \in Nat
      BY <1>n, <2>0, <2>5, Zenon
    <3> QED
      BY <2>2, <2>4, <2>5, <3>1
  <2>7. n + num(sess', ip) <= tried[ip] /\ n <= tried[ip]
    BY <1>p, <2>0, <2>3, <2>6
  <2>8. /\ ip \in Lock(conf)!IPs /\ tried'[ip] >= tried[ip]
        /\ lockedUntil'[ip] > 0 => tried'[ip] >= conf.limit
        /\ \A i \in Lock(conf)!IPs \ {ip} :
              failures'[i] = failures[i] /\ tried'[i] = tried[i] /\ lockedUntil'[i] = lockedUntil[i]
    BY <1>p, <2>0, <2>2, <2>5
  <2>9. /\ sess'[s].pc \in {"expire", "lock"} => sess'[s].n <= tried'[ip]
        /\ sess'[s].pc = "lock" => sess'[s].n >= conf.limit
    BY <2>2, <2>4, <2>5, <2>7, Zenon
  <2>10. failures'[ip] + Lock(conf)!Cardinality(Lock(conf)!Adding(sess', ip)) <= tried'[ip]
    BY <2>2, <2>5, <2>7, Zenon DEF num
  <2> QED
    BY <1>0, <2>0, <2>5, <2>8, <2>9, <2>10, OwnFrame, Zenon
<1>4. ASSUME NEW s \in conf.sessions, Lock(conf)!Lock(s) PROVE Lock(conf)!OwnInv'
  <2>0. PICK ip : ip = Lock(conf)!hostOnly(s)
    BY Zenon
  <2>1. /\ lockedUntil' = [lockedUntil EXCEPT ![ip] = lockedUntil'[ip]]
        /\ sess' = [sess EXCEPT ![s].pc = "idle"] /\ sess[s].pc = "lock"
        /\ UNCHANGED <<failures, tried>>
    BY <1>4, <1>p, <2>0, Zenon DEF Lock!Lock, Lock!Goto, Lock!HoldInv, Lock!TypeOK
  <2>2. /\ \A t \in conf.sessions \ {s} : sess'[t] = sess[t]
        /\ sess'[s].pc = "idle"
        /\ \A i \in Lock(conf)!IPs \ {ip} : lockedUntil'[i] = lockedUntil[i]
    BY <1>p, <2>0, <2>1 DEF Lock!HoldInv, Lock!TypeOK
  <2>3. num(sess', ip) <= num(sess, ip) /\ num(sess', ip) \in Nat /\ num(sess, ip) \in Nat
    BY <1>n, <2>0, <2>2
  <2>4. failures'[ip] + num(sess', ip) <= tried'[ip] /\ tried'[ip] >= conf.limit
    BY <1>p, <2>0, <2>1, <2>3
  <2>5. /\ ip \in Lock(conf)!IPs /\ tried'[ip] >= tried[ip]
        /\ \A i \in Lock(conf)!IPs \ {ip} :
              failures'[i] = failures[i] /\ tried'[i] = tried[i] /\ lockedUntil'[i] = lockedUntil[i]
    BY <1>p, <2>0, <2>1, <2>2
  <2>6. failures'[ip] + Lock(conf)!Cardinality(Lock(conf)!Adding(sess', ip)) <= tried'[ip]
    BY <2>4, Zenon DEF num
  <2>7. sess'[s].pc # "expire" /\ sess'[s].pc # "lock"
    BY <2>2, Zenon
  <2> QED
    BY <1>0, <2>0, <2>2, <2>4, <2>5, <2>6, <2>7, OwnFrame, Zenon
<1>5. ASSUME NEW s \in conf.sessions, Lock(conf)!Auth(s) \/ Lock(conf)!AuthOK(s) \/ Lock(conf)!StoreFails(s)
      PROVE  Lock(conf)!OwnInv'
  <2>1. UNCHANGED <<failures, tried, lockedUntil>>
    BY <1>5, Zenon DEF Lock!Auth, Lock!AuthOK, Lock!StoreFails
  <2>2. \E to0 \in {"idle", "sasl"} : sess' = [sess EXCEPT ![s].pc = to0]
    BY <1>5, Zenon DEF Lock!Auth, Lock!AuthOK, Lock!StoreFails, Lock!Goto
  <2> QED
    BY <1>1, <2>1, <2>2, Zenon
<1>6. ASSUME NEW s \in conf.sessions, Lock(conf)!Expire(s) PROVE Lock(conf)!OwnInv'
  <2>1. /\ UNCHANGED <<failures, tried, lockedUntil>> /\ sess[s].pc = "expire"
        /\ sess' = [sess EXCEPT ![s].pc = IF sess[s].n >= conf.limit THEN "lock" ELSE "idle"]
    BY <1>6, Zenon DEF Lock!Expire, Lock!Goto
  <2> QED
    BY <1>1, <2>1, Zenon
<1>7. ASSUME UNCHANGED <<sess, tried>>,
             \A i \in Lock(conf)!IPs : failures'[i] \in {0, failures[i]} /\ lockedUntil'[i] \in {0, lockedUntil[i]}
      PROVE  Lock(conf)!OwnInv'
  <2>1. ASSUME NEW i \in Lock(conf)!IPs
        PROVE  /\ failures'[i] + num(sess, i) <= tried[i]
               /\ lockedUntil'[i] > 0 => tried[i] >= conf.limit
    <3>1. num(sess, i) \in Nat /\ failures[i] \in Nat /\ tried[i] \in Nat /\ failures[i] + num(sess, i) <= tried[i]
          /\ (lockedUntil[i] > 0 => tried[i] >= conf.limit)
      BY Counts, Zenon DEF num, Lock!HoldInv, Lock!TypeOK, Lock!OwnInv
    <3> QED
      BY <1>7, <3>1
  <2> QED
    BY <1>7, <2>1, Zenon DEF num, Lock!OwnInv
<1>8. ASSUME Lock(conf)!Evict PROVE Lock(conf)!OwnInv'
  BY <1>7, <1>8, Zenon DEF Lock!Evict
<1>9. ASSUME Lock(conf)!Tick PROVE Lock(conf)!OwnInv'
  BY <1>7, <1>9, Zenon DEF Lock!Tick
<1>10. ASSUME Lock(conf)!Restart PROVE Lock(conf)!OwnInv'
  <2>1. \A t \in conf.sessions : sess'[t].pc = "idle"
    BY <1>10, Zenon DEF Lock!Restart
  <2>2. \A i \in Lock(conf)!IPs : failures'[i] \in {0, failures[i]} /\ lockedUntil'[i] \in {0, lockedUntil[i]} /\ tried'[i] = tried[i]
    BY <1>10, Zenon DEF Lock!Restart
  <2>3. ASSUME NEW i \in Lock(conf)!IPs
        PROVE  /\ failures'[i] + num(sess', i) <= tried'[i]
               /\ lockedUntil'[i] > 0 => tried'[i] >= conf.limit
    <3>1. num(sess, i) \in Nat /\ failures[i] \in Nat /\ tried[i] \in Nat /\ failures[i] + num(sess, i) <= tried[i]
          /\ (lockedUntil[i] > 0 => tried[i] >= conf.limit)
      BY Counts, Zenon DEF num, Lock!HoldInv, Lock!TypeOK, Lock!OwnInv
    <3>2. Lock(conf)!Adding(sess', i) = {}
      BY <2>1, Zenon DEF Lock!Adding
    <3>3. num(sess', i) = 0
      BY <3>2, SameCardinality, FS_EmptySet, Zenon DEF num
    <3> QED
      BY <2>2, <3>1, <3>3
  <2> QED
    BY <2>1, <2>3, Zenon DEF num, Lock!OwnInv
<1> QED
  BY <1>2, <1>3, <1>4, <1>5, <1>6, <1>8, <1>9, <1>10, Zenon DEF Lock!Next

\* The bound of a restart and what n restarts add.
LEMMA PerRestarts ==
    ASSUME NEW conf, Lock(conf)!ConstantsOK, NEW ip, NEW r \in Nat
    PROVE  /\ Lock(conf)!PerRestart(ip) \in Nat /\ r * Lock(conf)!PerRestart(ip) \in Nat
           /\ (r + 1) * Lock(conf)!PerRestart(ip) = r * Lock(conf)!PerRestart(ip) + Lock(conf)!PerRestart(ip)
           /\ 0 * Lock(conf)!PerRestart(ip) = 0
<1>1. PICK u : u = Lock(conf)!PerRestart(ip)
  BY Zenon
<1>2. u \in Nat
  BY <1>1, Counts, LockConstants DEF Lock!PerRestart
<1>3. r * u \in Nat /\ (r + 1) * u = r * u + u /\ 0 * u = 0
  BY <1>2
<1> QED
  BY <1>1, <1>2, <1>3, Zenon

\* No attempt was made at the beginning.
LEMMA AttemptInit == ASSUME NEW conf, Lock(conf)!ConstantsOK, Lock(conf)!Init PROVE Lock(conf)!AttemptInv
<1>1. ASSUME NEW ip \in Lock(conf)!IPs
      PROVE  /\ tried[ip] + Lock(conf)!Cardinality(Lock(conf)!Asking(sess, ip)) <=
                    conf.limit - 1 + Lock(conf)!SessionsOf(ip) + restarts * Lock(conf)!PerRestart(ip)
             /\ tried[ip] <= (IF failures[ip] < conf.limit THEN failures[ip] ELSE conf.limit - 1)
                    + Lock(conf)!Cardinality(Lock(conf)!Pending(sess, ip)) + restarts * Lock(conf)!PerRestart(ip)
             /\ lockedUntil[ip] = 0 \/ lockedUntil[ip] >= conf.lock
             /\ expiry[ip] >= conf.ttl
  <2>1. Lock(conf)!Asking(sess, ip) = {} /\ Lock(conf)!Pending(sess, ip) = {}
    BY Zenon DEF Lock!Asking, Lock!Pending, Lock!Init
  <2>2. Lock(conf)!Cardinality(Lock(conf)!Asking(sess, ip)) = 0 /\ Lock(conf)!Cardinality(Lock(conf)!Pending(sess, ip)) = 0
    BY <2>1, SameCardinality, FS_EmptySet, Zenon
  <2>3. tried[ip] = 0 /\ failures[ip] = 0 /\ lockedUntil[ip] = 0 /\ restarts = 0 /\ expiry[ip] = Lock(conf)!Never
    BY Zenon DEF Lock!Init
  <2>4. Lock(conf)!Never >= conf.ttl
    BY LockConstants DEF Lock!Never
  <2>5. Lock(conf)!SessionsOf(ip) \in Nat /\ conf.limit \in Nat /\ conf.limit >= 1
        /\ restarts * Lock(conf)!PerRestart(ip) = 0
    BY <2>3, Counts, LockConstants, PerRestarts, Zenon
  <2> QED
    BY <2>2, <2>3, <2>4, <2>5
<1>2. \A s \in conf.sessions : sess[s].pc = "idle"
  BY Zenon DEF Lock!Init
<1> QED
  BY <1>1, <1>2, Zenon DEF Lock!AttemptInv

\* What AttemptInv says of one address, when counts are used instead of sets.
AttemptsOf(conf, ip, t, asking, pending, f, until, exp, now, more) ==
    /\ t + asking <= conf.limit - 1 + Lock(conf)!SessionsOf(ip) + more
    /\ ~(now < until) => t <= (IF f < conf.limit THEN f ELSE conf.limit - 1) + pending + more
    /\ until = 0 \/ until >= conf.lock
    /\ exp >= conf.ttl

\* The time until a first lockout or counter could end, with Redis available.
Window(conf) == clock < conf.lock /\ clock < conf.ttl /\ outages = 0

\* AttemptInv of one address.
AttemptAt(conf, ip) ==
    AttemptsOf(conf, ip, tried[ip], Lock(conf)!Cardinality(Lock(conf)!Asking(sess, ip)),
               Lock(conf)!Cardinality(Lock(conf)!Pending(sess, ip)), failures[ip], lockedUntil[ip], expiry[ip],
               clock, restarts * Lock(conf)!PerRestart(ip))

\* The two are the same.
LEMMA AttemptForm ==
    ASSUME NEW conf
    PROVE  Lock(conf)!AttemptInv <=>
              (Window(conf) =>
                 /\ \A ip \in Lock(conf)!IPs : AttemptAt(conf, ip)
                 /\ \A s \in conf.sessions : sess[s].pc \in {"expire", "lock"} => sess[s].n <= failures[Lock(conf)!hostOnly(s)])
  BY Zenon DEF Lock!AttemptInv, Window, AttemptAt, AttemptsOf, Lock!IsLockedOut

\* A step of one session changes what is known of its own address only.
LEMMA AttemptFrame ==
    ASSUME NEW conf, Lock(conf)!ConstantsOK, Lock(conf)!HoldInv, Lock(conf)!HoldInv', Lock(conf)!AttemptInv,
           NEW s \in conf.sessions, NEW ip \in Lock(conf)!IPs, ip = Lock(conf)!hostOnly(s),
           \A t \in conf.sessions \ {s} : sess'[t] = sess[t],
           \A i \in Lock(conf)!IPs \ {ip} :
              /\ failures'[i] = failures[i] /\ tried'[i] = tried[i]
              /\ lockedUntil'[i] = lockedUntil[i] /\ expiry'[i] = expiry[i],
           UNCHANGED <<clock, outages, restarts>>,
           Window(conf) => /\ AttemptAt(conf, ip)'
                           /\ failures'[ip] >= failures[ip]
                           /\ sess'[s].pc \in {"expire", "lock"} => sess'[s].n <= failures'[ip]
    PROVE  Lock(conf)!AttemptInv'
<1> SUFFICES ASSUME Window(conf)'
             PROVE  /\ \A i \in Lock(conf)!IPs : AttemptAt(conf, i)'
                    /\ \A t \in conf.sessions : sess'[t].pc \in {"expire", "lock"} => sess'[t].n <= failures'[Lock(conf)!hostOnly(t)]
  BY AttemptForm, Zenon DEF Lock!AttemptInv, Window, AttemptAt, AttemptsOf, Lock!IsLockedOut
<1>1. Window(conf)
  BY Zenon DEF Window
<1>2. /\ \A i \in Lock(conf)!IPs : AttemptAt(conf, i)
      /\ \A t \in conf.sessions : sess[t].pc \in {"expire", "lock"} => sess[t].n <= failures[Lock(conf)!hostOnly(t)]
  BY <1>1, AttemptForm, Zenon
<1>3. ASSUME NEW i \in Lock(conf)!IPs, i # ip PROVE AttemptAt(conf, i)'
  <2>1. Lock(conf)!Asking(sess', i) = Lock(conf)!Asking(sess, i) /\ Lock(conf)!Pending(sess', i) = Lock(conf)!Pending(sess, i)
    BY <1>3, OtherSets
  <2>2. AttemptAt(conf, i)
    BY <1>2, Zenon
  <2> QED
    BY <1>3, <2>1, <2>2, Zenon DEF AttemptAt
<1>4. ASSUME NEW t \in conf.sessions, sess'[t].pc \in {"expire", "lock"}
      PROVE  sess'[t].n <= failures'[Lock(conf)!hostOnly(t)]
  <2>1. CASE t = s
    BY <1>1, <1>4, <2>1, Zenon
  <2>2. CASE t # s
    <3>1. PICK j : j = Lock(conf)!hostOnly(t)
      BY Zenon
    <3>2. j \in Lock(conf)!IPs /\ sess'[t] = sess[t] /\ sess[t].n \in Nat /\ failures[j] \in Nat /\ failures'[j] \in Nat
      BY <2>2, <3>1, LockConstants, Zenon DEF Lock!HoldInv, Lock!TypeOK
    <3>3. sess[t].n <= failures[j] /\ failures'[j] >= failures[j]
      <4>1. sess[t].n <= failures[j]
        BY <1>2, <1>4, <3>1, <3>2, Zenon
      <4>2. CASE j = ip
        BY <1>1, <4>1, <4>2, Zenon
      <4>3. CASE j # ip
        BY <3>2, <4>1, <4>3
      <4> QED
        BY <4>2, <4>3, Zenon
    <3> QED
      BY <3>1, <3>2, <3>3
  <2> QED
    BY <2>1, <2>2, Zenon
<1> QED
  BY <1>1, <1>3, <1>4, Zenon

\* Without Redis, with an entry that is evicted, and as the clock moves, no address
\* gets a further attempt.
LEMMA AttemptTimeStep ==
    ASSUME NEW conf, Lock(conf)!ConstantsOK, Lock(conf)!HoldInv, Lock(conf)!AttemptInv,
           \/ \E s \in conf.sessions : Lock(conf)!StoreFails(s)
           \/ Lock(conf)!Evict \/ Lock(conf)!Tick
    PROVE  Lock(conf)!AttemptInv'
<1>c. conf.limit \in Nat /\ conf.limit >= 1 /\ conf.lock \in Nat /\ conf.ttl \in Nat /\ clock \in Nat
  BY LockConstants, Zenon DEF Lock!HoldInv, Lock!TypeOK
<1>1. ASSUME NEW s \in conf.sessions, Lock(conf)!StoreFails(s) PROVE Lock(conf)!AttemptInv'
  <2>1. outages' = outages + 1 /\ outages \in Nat
    BY <1>1, Zenon DEF Lock!StoreFails, Lock!HoldInv, Lock!TypeOK
  <2>2. outages' # 0
    BY <2>1
  <2> QED
    BY <2>2, Zenon DEF Lock!AttemptInv
<1>2. ASSUME Lock(conf)!Evict PROVE Lock(conf)!AttemptInv'
  <2>1. PICK i \in Lock(conf)!IPs : lastSeen[i] # Lock(conf)!NoEntry /\ lastSeen[i] < clock - conf.ttl
    BY <1>2, Zenon DEF Lock!Evict, Lock!Stale
  <2>2. lastSeen[i] \in Nat
    BY <2>1, Zenon DEF Lock!HoldInv, Lock!TypeOK
  <2>3. clock >= conf.ttl
    BY <1>c, <2>1, <2>2
  <2>4. clock' = clock
    BY <1>2, Zenon DEF Lock!Evict
  <2> QED
    BY <1>c, <2>3, <2>4 DEF Lock!AttemptInv
<1>3. ASSUME Lock(conf)!Tick PROVE Lock(conf)!AttemptInv'
  <2>1. clock' = clock + 1 /\ UNCHANGED <<failures, lockedUntil, expiry, sess, tried, outages, restarts>>
    BY <1>3, Zenon DEF Lock!Tick
  <2> SUFFICES ASSUME Window(conf)'
               PROVE  /\ \A i \in Lock(conf)!IPs : AttemptAt(conf, i)'
                      /\ \A t \in conf.sessions : sess'[t].pc \in {"expire", "lock"} => sess'[t].n <= failures'[Lock(conf)!hostOnly(t)]
    BY Zenon DEF Lock!AttemptInv, Window, AttemptAt, AttemptsOf, Lock!IsLockedOut
  <2>2. Window(conf)
    BY <1>c, <2>1 DEF Window
  <2>3. /\ \A i \in Lock(conf)!IPs : AttemptAt(conf, i)
        /\ \A t \in conf.sessions : sess[t].pc \in {"expire", "lock"} => sess[t].n <= failures[Lock(conf)!hostOnly(t)]
    BY <2>2, AttemptForm, Zenon
  <2>4. ASSUME NEW i \in Lock(conf)!IPs PROVE AttemptAt(conf, i)'
    <3>1. AttemptAt(conf, i) /\ lockedUntil[i] \in Nat
      BY <2>3, Zenon DEF Lock!HoldInv, Lock!TypeOK
    <3>2. ~(clock' < lockedUntil[i]) => ~(clock < lockedUntil[i])
      BY <1>c, <2>1, <3>1 DEF Window, AttemptAt, AttemptsOf
    <3> QED
      BY <2>1, <3>1, <3>2, Zenon DEF AttemptAt, AttemptsOf
  <2> QED
    BY <2>1, <2>3, <2>4, Zenon
<1> QED
  BY <1>1, <1>2, <1>3, Zenon

\* A restart ends what was being recorded, and the counts of the process.
LEMMA AttemptRestart ==
    ASSUME NEW conf, Lock(conf)!ConstantsOK, Lock(conf)!HoldInv, Lock(conf)!AttemptInv, Lock(conf)!Restart
    PROVE  Lock(conf)!AttemptInv'
<1>c. conf.limit \in Nat /\ conf.limit >= 1 /\ conf.lock \in Nat /\ conf.ttl \in Nat /\ clock \in Nat
  BY LockConstants, Zenon DEF Lock!HoldInv, Lock!TypeOK
<1>1. /\ restarts' = restarts + 1 /\ \A t \in conf.sessions : sess'[t].pc = "idle"
      /\ UNCHANGED <<clock, expiry, tried, outages>>
      /\ conf.store = "redis" => UNCHANGED <<failures, lockedUntil>>
      /\ conf.store # "redis" => \A i \in Lock(conf)!IPs : failures'[i] = 0 /\ lockedUntil'[i] = 0
  BY Zenon DEF Lock!Restart
<1> SUFFICES ASSUME Window(conf)' PROVE \A i \in Lock(conf)!IPs : AttemptAt(conf, i)'
  BY <1>1, Zenon DEF Lock!AttemptInv, Window, AttemptAt, AttemptsOf, Lock!IsLockedOut
<1>2. Window(conf)
  BY <1>1, Zenon DEF Window
<1>3. ASSUME NEW i \in Lock(conf)!IPs PROVE AttemptAt(conf, i)'
  <2>1. PICK u, m, m2, al : u = Lock(conf)!PerRestart(i) /\ m = restarts * Lock(conf)!PerRestart(i)
                            /\ m2 = restarts' * Lock(conf)!PerRestart(i) /\ al = Lock(conf)!SessionsOf(i)
    BY Zenon
  <2>2. u \in Nat /\ m \in Nat /\ m2 = m + u /\ al \in Nat
    BY <1>1, <2>1, Counts, PerRestarts, Zenon DEF Lock!HoldInv, Lock!TypeOK
  <2>3. u = IF conf.store = "redis" THEN al ELSE conf.limit - 1 + al
    BY <2>1, Zenon DEF Lock!PerRestart
  <2>4. PICK a, p : /\ a = Lock(conf)!Cardinality(Lock(conf)!Asking(sess, i))
                    /\ p = Lock(conf)!Cardinality(Lock(conf)!Pending(sess, i))
    BY Zenon
  <2>5. a \in Nat /\ p \in Nat /\ a + p <= al
    BY <2>1, <2>4, Counts, Zenon
  <2>6. AttemptsOf(conf, i, tried[i], a, p, failures[i], lockedUntil[i], expiry[i], clock, m)
    BY <1>2, <2>1, <2>4, AttemptForm, Zenon DEF AttemptAt
  <2>7. /\ Lock(conf)!Cardinality(Lock(conf)!Asking(sess', i)) = 0
        /\ Lock(conf)!Cardinality(Lock(conf)!Pending(sess', i)) = 0
    <3>1. Lock(conf)!Asking(sess', i) = {} /\ Lock(conf)!Pending(sess', i) = {}
      BY <1>1, Zenon DEF Lock!Asking, Lock!Pending
    <3> QED
      BY <3>1, SameCardinality, FS_EmptySet, Zenon
  <2>8. tried[i] \in Nat /\ failures[i] \in Nat /\ lockedUntil[i] \in Nat
    BY Zenon DEF Lock!HoldInv, Lock!TypeOK
  <2>9. AttemptsOf(conf, i, tried[i], 0, 0, failures'[i], lockedUntil'[i], expiry[i], clock, m2)
    BY <1>c, <1>1, <2>1, <2>2, <2>3, <2>5, <2>6, <2>8 DEF AttemptsOf
  <2> QED
    BY <1>1, <2>1, <2>7, <2>9, Zenon DEF AttemptAt
<1> QED
  BY <1>3, Zenon

\* Every step keeps the attempts of an address within the limit and what its
\* sessions had begun.
LEMMA AttemptStep ==
    ASSUME NEW conf, Lock(conf)!ConstantsOK, Lock(conf)!HoldInv, Lock(conf)!OwnInv, Lock(conf)!AttemptInv, Lock(conf)!Next
    PROVE  Lock(conf)!AttemptInv'
<1> DEFINE ask(se, i) == Lock(conf)!Cardinality(Lock(conf)!Asking(se, i))
           pend(se, i) == Lock(conf)!Cardinality(Lock(conf)!Pending(se, i))
           more(i) == restarts * Lock(conf)!PerRestart(i)
           all(i) == Lock(conf)!SessionsOf(i)
           K(f) == IF f < conf.limit THEN f ELSE conf.limit - 1
           Holds(i, t, a, p, f, u) == /\ t + a <= conf.limit - 1 + all(i) + more(i)
                                      /\ ~(clock < u) => t <= K(f) + p + more(i)
<1>0. Lock(conf)!HoldInv'
  BY HoldStep, Zenon
<1>c. conf.limit \in Nat /\ conf.limit >= 1 /\ conf.lock \in Nat /\ conf.ttl \in Nat /\ clock \in Nat
  BY LockConstants, Zenon DEF Lock!HoldInv, Lock!TypeOK
<1>n. ASSUME NEW s \in conf.sessions, \A t \in conf.sessions \ {s} : sess'[t] = sess[t], NEW ip, ip = Lock(conf)!hostOnly(s)
      PROVE  /\ ask(sess', ip) \in Nat /\ pend(sess', ip) \in Nat
             /\ ask(sess', ip) + (IF sess[s].pc = "sasl" THEN 1 ELSE 0) = ask(sess, ip) + (IF sess'[s].pc = "sasl" THEN 1 ELSE 0)
             /\ pend(sess', ip) + (IF s \in Lock(conf)!Pending(sess, ip) THEN 1 ELSE 0)
                  = pend(sess, ip) + (IF s \in Lock(conf)!Pending(sess', ip) THEN 1 ELSE 0)
  <2>1. PICK se2 : se2 = sess'
    BY Zenon
  <2>2. ask(se2, ip) \in Nat /\ pend(se2, ip) \in Nat /\ ask(sess, ip) \in Nat
    BY Counts, Zenon
  <2>3. ask(se2, ip) + (IF s \in Lock(conf)!Asking(sess, ip) THEN 1 ELSE 0) = ask(sess, ip) + (IF s \in Lock(conf)!Asking(se2, ip) THEN 1 ELSE 0)
    BY <1>n, <2>1, AskingStep
  <2>4. (s \in Lock(conf)!Asking(sess, ip) <=> sess[s].pc = "sasl") /\ (s \in Lock(conf)!Asking(se2, ip) <=> se2[s].pc = "sasl")
    BY <1>n, Zenon DEF Lock!Asking
  <2>5. pend(se2, ip) + (IF s \in Lock(conf)!Pending(sess, ip) THEN 1 ELSE 0)
                  = pend(sess, ip) + (IF s \in Lock(conf)!Pending(se2, ip) THEN 1 ELSE 0)
    BY <1>n, <2>1, PendingStep
  <2> HIDE DEF ask, pend
  <2>6. ask(se2, ip) + (IF sess[s].pc = "sasl" THEN 1 ELSE 0) = ask(sess, ip) + (IF se2[s].pc = "sasl" THEN 1 ELSE 0)
    BY <2>2, <2>3, <2>4, Zenon
  <2> QED
    BY <2>1, <2>2, <2>5, <2>6, Zenon
<1>t. ASSUME NEW s \in conf.sessions, NEW ip, ip = Lock(conf)!hostOnly(s)
      PROVE  /\ ip \in Lock(conf)!IPs /\ failures[ip] \in Nat /\ tried[ip] \in Nat /\ lockedUntil[ip] \in Nat /\ expiry[ip] \in Nat
             /\ sess[s].n \in Nat /\ sess[s].pc \in {"idle", "sasl", "add", "expire", "lock"}
             /\ ask(sess, ip) \in Nat /\ pend(sess, ip) \in Nat /\ all(ip) \in Nat /\ more(ip) \in Nat
  <2>1. restarts \in Nat
    BY Zenon DEF Lock!HoldInv, Lock!TypeOK
  <2>2. ask(sess, ip) \in Nat /\ pend(sess, ip) \in Nat /\ all(ip) \in Nat /\ more(ip) \in Nat
    BY <2>1, Counts, PerRestarts, Zenon
  <2> QED
    BY <1>t, <2>2, LockConstants, Zenon DEF Lock!HoldInv, Lock!TypeOK
<1>i. ASSUME NEW s \in conf.sessions, NEW ip, ip = Lock(conf)!hostOnly(s), sess[s].pc = "idle"
      PROVE  ask(sess, ip) + pend(sess, ip) + 1 <= all(ip)
  BY <1>i, Counts, Zenon
<1>p. ASSUME NEW s \in conf.sessions, NEW ip, ip = Lock(conf)!hostOnly(s), Window(conf)
      PROVE  /\ Holds(ip, tried[ip], ask(sess, ip), pend(sess, ip), failures[ip], lockedUntil[ip])
             /\ lockedUntil[ip] = 0 \/ lockedUntil[ip] >= conf.lock
             /\ expiry[ip] >= conf.ttl
             /\ sess[s].pc \in {"expire", "lock"} => sess[s].n <= failures[ip]
  BY <1>p, <1>t, AttemptForm, Zenon DEF AttemptAt, AttemptsOf
<1>q. ASSUME NEW s \in conf.sessions, NEW ip \in Lock(conf)!IPs, ip = Lock(conf)!hostOnly(s),
             \A t \in conf.sessions \ {s} : sess'[t] = sess[t],
             \A i \in Lock(conf)!IPs \ {ip} :
                /\ failures'[i] = failures[i] /\ tried'[i] = tried[i]
                /\ lockedUntil'[i] = lockedUntil[i] /\ expiry'[i] = expiry[i],
             UNCHANGED <<clock, outages, restarts>>,
             Window(conf) => /\ Holds(ip, tried'[ip], ask(sess', ip), pend(sess', ip), failures'[ip], lockedUntil'[ip])
                             /\ lockedUntil'[ip] = 0 \/ lockedUntil'[ip] >= conf.lock
                             /\ expiry'[ip] >= conf.ttl
                             /\ failures'[ip] >= failures[ip]
                             /\ sess'[s].pc \in {"expire", "lock"} => sess'[s].n <= failures'[ip]
      PROVE  Lock(conf)!AttemptInv'
  <2>1. Window(conf) => AttemptAt(conf, ip)'
    BY <1>q, Zenon DEF AttemptAt, AttemptsOf
  <2> QED
    BY <1>0, <1>q, <2>1, AttemptFrame, Zenon
<1> HIDE DEF ask, pend, more, all
<1>1. ASSUME NEW s \in conf.sessions, Lock(conf)!Auth(s) PROVE Lock(conf)!AttemptInv'
  <2>0. PICK ip : ip = Lock(conf)!hostOnly(s)
    BY Zenon
  <2>1. /\ sess[s].pc = "idle" /\ ~(clock < lockedUntil[ip]) /\ sess' = [sess EXCEPT ![s].pc = "sasl"]
        /\ UNCHANGED <<failures, tried, lockedUntil, expiry, clock, outages, restarts>>
    BY <1>1, <2>0, Zenon DEF Lock!Auth, Lock!Goto, Lock!IsLockedOut
  <2>2. /\ \A t \in conf.sessions \ {s} : sess'[t] = sess[t]
        /\ sess'[s].pc = "sasl"
    BY <1>t, <2>0, <2>1 DEF Lock!HoldInv, Lock!TypeOK
  <2>3. s \notin Lock(conf)!Pending(sess, ip) /\ s \notin Lock(conf)!Pending(sess', ip)
    BY <1>c, <1>t, <2>0, <2>1, <2>2, Zenon DEF Lock!Pending
  <2>4. ask(sess', ip) = ask(sess, ip) + 1 /\ pend(sess', ip) = pend(sess, ip)
    <3>1. /\ ask(sess', ip) \in Nat /\ pend(sess', ip) \in Nat
          /\ ask(sess', ip) + (IF sess[s].pc = "sasl" THEN 1 ELSE 0) = ask(sess, ip) + (IF sess'[s].pc = "sasl" THEN 1 ELSE 0)
          /\ pend(sess', ip) + (IF s \in Lock(conf)!Pending(sess, ip) THEN 1 ELSE 0)
               = pend(sess, ip) + (IF s \in Lock(conf)!Pending(sess', ip) THEN 1 ELSE 0)
      BY <1>n, <2>0, <2>2, Zenon
    <3> QED
      BY <1>c, <1>t, <2>0, <2>1, <2>2, <2>3, <3>1
  <2>5. ASSUME Window(conf)
        PROVE  /\ Holds(ip, tried'[ip], ask(sess', ip), pend(sess', ip), failures'[ip], lockedUntil'[ip])
               /\ lockedUntil'[ip] = 0 \/ lockedUntil'[ip] >= conf.lock
               /\ expiry'[ip] >= conf.ttl
               /\ failures'[ip] >= failures[ip]
               /\ sess'[s].pc \in {"expire", "lock"} => sess'[s].n <= failures'[ip]
    <3>1. /\ Holds(ip, tried[ip], ask(sess, ip), pend(sess, ip), failures[ip], lockedUntil[ip])
          /\ lockedUntil[ip] = 0 \/ lockedUntil[ip] >= conf.lock
          /\ expiry[ip] >= conf.ttl
          /\ sess[s].pc \in {"expire", "lock"} => sess[s].n <= failures[ip]
      BY <1>p, <2>0, <2>5, Zenon
    <3>2. ask(sess, ip) + pend(sess, ip) + 1 <= all(ip)
      BY <1>i, <2>0, <2>1, Zenon
    <3> QED
      BY <1>c, <1>t, <2>0, <2>1, <2>2, <2>4, <3>1, <3>2
  <2>6. /\ ip \in Lock(conf)!IPs
        /\ \A i \in Lock(conf)!IPs \ {ip} :
              /\ failures'[i] = failures[i] /\ tried'[i] = tried[i]
              /\ lockedUntil'[i] = lockedUntil[i] /\ expiry'[i] = expiry[i]
    BY <1>t, <2>0, <2>1, Zenon DEF Lock!HoldInv, Lock!TypeOK
  <2> HIDE DEF Holds
  <2> QED
    BY <1>q, <2>0, <2>1, <2>2, <2>5, <2>6, Zenon
<1>2. ASSUME NEW s \in conf.sessions, Lock(conf)!AuthOK(s) PROVE Lock(conf)!AttemptInv'
  <2>0. PICK ip : ip = Lock(conf)!hostOnly(s)
    BY Zenon
  <2>1. /\ sess[s].pc = "sasl" /\ sess' = [sess EXCEPT ![s].pc = "idle"]
        /\ UNCHANGED <<failures, tried, lockedUntil, expiry, clock, outages, restarts>>
    BY <1>2, <2>0, Zenon DEF Lock!AuthOK, Lock!Goto
  <2>2. /\ \A t \in conf.sessions \ {s} : sess'[t] = sess[t]
        /\ sess'[s].pc = "idle"
    BY <1>t, <2>0, <2>1, Zenon DEF Lock!HoldInv, Lock!TypeOK
  <2>3. s \notin Lock(conf)!Pending(sess, ip) /\ s \notin Lock(conf)!Pending(sess', ip)
    BY <1>c, <1>t, <2>0, <2>1, <2>2, Zenon DEF Lock!Pending
  <2>4. ask(sess', ip) + 1 = ask(sess, ip) /\ pend(sess', ip) = pend(sess, ip) /\ ask(sess', ip) \in Nat
    <3>1. /\ ask(sess', ip) \in Nat /\ pend(sess', ip) \in Nat
          /\ ask(sess', ip) + (IF sess[s].pc = "sasl" THEN 1 ELSE 0) = ask(sess, ip) + (IF sess'[s].pc = "sasl" THEN 1 ELSE 0)
          /\ pend(sess', ip) + (IF s \in Lock(conf)!Pending(sess, ip) THEN 1 ELSE 0)
               = pend(sess, ip) + (IF s \in Lock(conf)!Pending(sess', ip) THEN 1 ELSE 0)
      BY <1>n, <2>0, <2>2, Zenon
    <3> QED
      BY <1>c, <1>t, <2>0, <2>1, <2>2, <2>3, <3>1
  <2>5. ASSUME Window(conf)
        PROVE  /\ Holds(ip, tried'[ip], ask(sess', ip), pend(sess', ip), failures'[ip], lockedUntil'[ip])
               /\ lockedUntil'[ip] = 0 \/ lockedUntil'[ip] >= conf.lock
               /\ expiry'[ip] >= conf.ttl
               /\ failures'[ip] >= failures[ip]
               /\ sess'[s].pc \in {"expire", "lock"} => sess'[s].n <= failures'[ip]
    <3>1. /\ Holds(ip, tried[ip], ask(sess, ip), pend(sess, ip), failures[ip], lockedUntil[ip])
          /\ lockedUntil[ip] = 0 \/ lockedUntil[ip] >= conf.lock
          /\ expiry[ip] >= conf.ttl
          /\ sess[s].pc \in {"expire", "lock"} => sess[s].n <= failures[ip]
      BY <1>p, <2>0, <2>5, Zenon
    <3> QED
      BY <1>c, <1>t, <2>0, <2>1, <2>2, <2>4, <3>1
  <2>6. /\ ip \in Lock(conf)!IPs
        /\ \A i \in Lock(conf)!IPs \ {ip} :
              /\ failures'[i] = failures[i] /\ tried'[i] = tried[i]
              /\ lockedUntil'[i] = lockedUntil[i] /\ expiry'[i] = expiry[i]
    BY <1>t, <2>0, <2>1, Zenon DEF Lock!HoldInv, Lock!TypeOK
  <2> HIDE DEF Holds
  <2> QED
    BY <1>q, <2>0, <2>1, <2>2, <2>5, <2>6
<1>3. ASSUME NEW s \in conf.sessions, Lock(conf)!AuthFailed(s) PROVE Lock(conf)!AttemptInv'
  <2>0. PICK ip : ip = Lock(conf)!hostOnly(s)
    BY Zenon
  <2>1. /\ sess[s].pc = "sasl" /\ sess' = [sess EXCEPT ![s].pc = "add", ![s].now = clock]
        /\ tried' = [tried EXCEPT ![ip] = tried[ip] + 1]
        /\ UNCHANGED <<failures, lockedUntil, expiry, clock, outages, restarts>>
    BY <1>3, <2>0, Zenon DEF Lock!AuthFailed
  <2>2. /\ \A t \in conf.sessions \ {s} : sess'[t] = sess[t]
        /\ sess'[s].pc = "add" /\ tried'[ip] = tried[ip] + 1
    BY <1>t, <2>0, <2>1, Zenon DEF Lock!HoldInv, Lock!TypeOK
  <2>3. s \notin Lock(conf)!Pending(sess, ip) /\ s \in Lock(conf)!Pending(sess', ip)
    BY <1>c, <1>t, <2>0, <2>1, <2>2, Zenon DEF Lock!Pending
  <2>4. ask(sess', ip) + 1 = ask(sess, ip) /\ pend(sess', ip) = pend(sess, ip) + 1 /\ ask(sess', ip) \in Nat
    <3>1. /\ ask(sess', ip) \in Nat /\ pend(sess', ip) \in Nat
          /\ ask(sess', ip) + (IF sess[s].pc = "sasl" THEN 1 ELSE 0) = ask(sess, ip) + (IF sess'[s].pc = "sasl" THEN 1 ELSE 0)
          /\ pend(sess', ip) + (IF s \in Lock(conf)!Pending(sess, ip) THEN 1 ELSE 0)
               = pend(sess, ip) + (IF s \in Lock(conf)!Pending(sess', ip) THEN 1 ELSE 0)
      BY <1>n, <2>0, <2>2, Zenon
    <3> QED
      BY <1>c, <1>t, <2>0, <2>1, <2>2, <2>3, <3>1
  <2>5. ASSUME Window(conf)
        PROVE  /\ Holds(ip, tried'[ip], ask(sess', ip), pend(sess', ip), failures'[ip], lockedUntil'[ip])
               /\ lockedUntil'[ip] = 0 \/ lockedUntil'[ip] >= conf.lock
               /\ expiry'[ip] >= conf.ttl
               /\ failures'[ip] >= failures[ip]
               /\ sess'[s].pc \in {"expire", "lock"} => sess'[s].n <= failures'[ip]
    <3>1. /\ Holds(ip, tried[ip], ask(sess, ip), pend(sess, ip), failures[ip], lockedUntil[ip])
          /\ lockedUntil[ip] = 0 \/ lockedUntil[ip] >= conf.lock
          /\ expiry[ip] >= conf.ttl
          /\ sess[s].pc \in {"expire", "lock"} => sess[s].n <= failures[ip]
      BY <1>p, <2>0, <2>5, Zenon
    <3> QED
      BY <1>c, <1>t, <2>0, <2>1, <2>2, <2>4, <3>1
  <2>6. /\ ip \in Lock(conf)!IPs
        /\ \A i \in Lock(conf)!IPs \ {ip} :
              /\ failures'[i] = failures[i] /\ tried'[i] = tried[i]
              /\ lockedUntil'[i] = lockedUntil[i] /\ expiry'[i] = expiry[i]
    BY <1>t, <2>0, <2>1, Zenon DEF Lock!HoldInv, Lock!TypeOK
  <2> HIDE DEF Holds
  <2> QED
    BY <1>q, <2>0, <2>1, <2>2, <2>5, <2>6, Zenon
<1>4. ASSUME NEW s \in conf.sessions, Lock(conf)!Add(s) PROVE Lock(conf)!AttemptInv'
  <2>0. PICK ip : ip = Lock(conf)!hostOnly(s)
    BY Zenon
  <2>n. PICK n : n = IF conf.store = "redis" /\ expiry[ip] <= clock THEN 1 ELSE failures[ip] + 1
    BY Zenon
  <2>m. n \in Nat
    BY <1>t, <2>0, <2>n
  <2>a. PICK to0 : to0 = Lock(conf)!AfterCount(n)
    BY Zenon
  <2>b. to0 \in {"idle", "expire", "lock"} /\ (to0 = "lock" => n >= conf.limit) /\ (to0 = "idle" => n < conf.limit)
    BY <1>c, <2>a, <2>m DEF Lock!AfterCount
  <2>1. /\ sess[s].pc = "add" /\ failures' = [failures EXCEPT ![ip] = n]
        /\ sess' = [sess EXCEPT ![s].pc = to0, ![s].n = n]
        /\ expiry' = IF conf.store = "redis" /\ expiry[ip] <= clock THEN [expiry EXCEPT ![ip] = Lock(conf)!Never] ELSE expiry
        /\ UNCHANGED <<tried, lockedUntil, clock, outages, restarts>>
    BY <1>4, <2>0, <2>n, <2>a, Zenon DEF Lock!Add
  <2>2. /\ \A t \in conf.sessions \ {s} : sess'[t] = sess[t]
        /\ sess'[s].pc = to0 /\ sess'[s].n = n /\ failures'[ip] = n
    BY <1>t, <2>0, <2>1, Zenon DEF Lock!HoldInv, Lock!TypeOK
  <2>3. s \in Lock(conf)!Pending(sess, ip) /\ (s \in Lock(conf)!Pending(sess', ip) <=> n >= conf.limit)
    BY <1>c, <1>t, <2>0, <2>1, <2>2, <2>b, <2>m DEF Lock!Pending
  <2>4. /\ ask(sess', ip) = ask(sess, ip) /\ pend(sess', ip) \in Nat
        /\ pend(sess', ip) + 1 = pend(sess, ip) + (IF n >= conf.limit THEN 1 ELSE 0)
    <3>1. /\ ask(sess', ip) \in Nat /\ pend(sess', ip) \in Nat
          /\ ask(sess', ip) + (IF sess[s].pc = "sasl" THEN 1 ELSE 0) = ask(sess, ip) + (IF sess'[s].pc = "sasl" THEN 1 ELSE 0)
          /\ pend(sess', ip) + (IF s \in Lock(conf)!Pending(sess, ip) THEN 1 ELSE 0)
               = pend(sess, ip) + (IF s \in Lock(conf)!Pending(sess', ip) THEN 1 ELSE 0)
      BY <1>n, <2>0, <2>2, Zenon
    <3> QED
      BY <1>c, <1>t, <2>0, <2>1, <2>2, <2>3, <2>b, <2>m, <3>1
  <2>5. ASSUME Window(conf)
        PROVE  /\ Holds(ip, tried'[ip], ask(sess', ip), pend(sess', ip), failures'[ip], lockedUntil'[ip])
               /\ lockedUntil'[ip] = 0 \/ lockedUntil'[ip] >= conf.lock
               /\ expiry'[ip] >= conf.ttl
               /\ failures'[ip] >= failures[ip]
               /\ sess'[s].pc \in {"expire", "lock"} => sess'[s].n <= failures'[ip]
    <3>1. /\ Holds(ip, tried[ip], ask(sess, ip), pend(sess, ip), failures[ip], lockedUntil[ip])
          /\ lockedUntil[ip] = 0 \/ lockedUntil[ip] >= conf.lock
          /\ expiry[ip] >= conf.ttl
          /\ sess[s].pc \in {"expire", "lock"} => sess[s].n <= failures[ip]
      BY <1>p, <2>0, <2>5, Zenon
    <3>2. ~(expiry[ip] <= clock) /\ n = failures[ip] + 1 /\ expiry' = expiry
      BY <1>c, <1>t, <2>0, <2>1, <2>5, <2>n, <3>1 DEF Window
    <3> QED
      BY <1>c, <1>t, <2>0, <2>1, <2>2, <2>4, <3>1, <3>2
  <2>6. /\ ip \in Lock(conf)!IPs
        /\ \A i \in Lock(conf)!IPs \ {ip} :
              /\ failures'[i] = failures[i] /\ tried'[i] = tried[i]
              /\ lockedUntil'[i] = lockedUntil[i] /\ expiry'[i] = expiry[i]
    BY <1>t, <2>0, <2>1, Zenon DEF Lock!HoldInv, Lock!TypeOK
  <2> HIDE DEF Holds
  <2> QED
    BY <1>q, <2>0, <2>1, <2>2, <2>5, <2>6, Zenon
<1>5. ASSUME NEW s \in conf.sessions, Lock(conf)!Expire(s) PROVE Lock(conf)!AttemptInv'
  <2>0. PICK ip : ip = Lock(conf)!hostOnly(s)
    BY Zenon
  <2>1. /\ sess[s].pc = "expire"
        /\ expiry' = [expiry EXCEPT ![ip] = clock + conf.ttl]
        /\ sess' = [sess EXCEPT ![s].pc = IF sess[s].n >= conf.limit THEN "lock" ELSE "idle"]
        /\ UNCHANGED <<failures, tried, lockedUntil, clock, outages, restarts>>
    BY <1>5, <2>0, Zenon DEF Lock!Expire, Lock!Goto
  <2>2. /\ \A t \in conf.sessions \ {s} : sess'[t] = sess[t]
        /\ sess'[s].pc = (IF sess[s].n >= conf.limit THEN "lock" ELSE "idle") /\ sess'[s].n = sess[s].n
        /\ expiry'[ip] = clock + conf.ttl
    BY <1>t, <2>0, <2>1, Zenon DEF Lock!HoldInv, Lock!TypeOK
  <2>3. s \in Lock(conf)!Pending(sess, ip) <=> s \in Lock(conf)!Pending(sess', ip)
    BY <1>c, <1>t, <2>0, <2>1, <2>2 DEF Lock!Pending
  <2>4. ask(sess', ip) = ask(sess, ip) /\ pend(sess', ip) = pend(sess, ip)
    <3>1. /\ ask(sess', ip) \in Nat /\ pend(sess', ip) \in Nat
          /\ ask(sess', ip) + (IF sess[s].pc = "sasl" THEN 1 ELSE 0) = ask(sess, ip) + (IF sess'[s].pc = "sasl" THEN 1 ELSE 0)
          /\ pend(sess', ip) + (IF s \in Lock(conf)!Pending(sess, ip) THEN 1 ELSE 0)
               = pend(sess, ip) + (IF s \in Lock(conf)!Pending(sess', ip) THEN 1 ELSE 0)
      BY <1>n, <2>0, <2>2, Zenon
    <3> QED
      BY <1>c, <1>t, <2>0, <2>1, <2>2, <2>3, <3>1
  <2>5. ASSUME Window(conf)
        PROVE  /\ Holds(ip, tried'[ip], ask(sess', ip), pend(sess', ip), failures'[ip], lockedUntil'[ip])
               /\ lockedUntil'[ip] = 0 \/ lockedUntil'[ip] >= conf.lock
               /\ expiry'[ip] >= conf.ttl
               /\ failures'[ip] >= failures[ip]
               /\ sess'[s].pc \in {"expire", "lock"} => sess'[s].n <= failures'[ip]
    <3>1. /\ Holds(ip, tried[ip], ask(sess, ip), pend(sess, ip), failures[ip], lockedUntil[ip])
          /\ lockedUntil[ip] = 0 \/ lockedUntil[ip] >= conf.lock
          /\ expiry[ip] >= conf.ttl
          /\ sess[s].pc \in {"expire", "lock"} => sess[s].n <= failures[ip]
      BY <1>p, <2>0, <2>5, Zenon
    <3> QED
      BY <1>c, <1>t, <2>0, <2>1, <2>2, <2>4, <3>1
  <2>6. /\ ip \in Lock(conf)!IPs
        /\ \A i \in Lock(conf)!IPs \ {ip} :
              /\ failures'[i] = failures[i] /\ tried'[i] = tried[i]
              /\ lockedUntil'[i] = lockedUntil[i] /\ expiry'[i] = expiry[i]
    BY <1>t, <2>0, <2>1, Zenon DEF Lock!HoldInv, Lock!TypeOK
  <2> HIDE DEF Holds
  <2> QED
    BY <1>q, <2>0, <2>1, <2>2, <2>5, <2>6
<1>6. ASSUME NEW s \in conf.sessions, Lock(conf)!Lock(s) PROVE Lock(conf)!AttemptInv'
  <2>0. PICK ip : ip = Lock(conf)!hostOnly(s)
    BY Zenon
  <2>n. PICK until : until = (IF conf.store = "redis" THEN clock ELSE sess[s].now) + conf.lock
    BY Zenon
  <2>m. until \in Nat /\ until >= conf.lock
    <3>1. sess[s].now \in Nat
      BY Zenon DEF Lock!HoldInv, Lock!TypeOK
    <3> QED
      BY <1>c, <2>n, <3>1
  <2>1. /\ sess[s].pc = "lock"
        /\ lockedUntil' = [lockedUntil EXCEPT ![ip] = until]
        /\ sess' = [sess EXCEPT ![s].pc = "idle"]
        /\ UNCHANGED <<failures, tried, expiry, clock, outages, restarts>>
    BY <1>6, <2>0, <2>n, Zenon DEF Lock!Lock, Lock!Goto
  <2>2. /\ \A t \in conf.sessions \ {s} : sess'[t] = sess[t]
        /\ sess'[s].pc = "idle" /\ lockedUntil'[ip] = until
    BY <1>t, <2>0, <2>1, Zenon DEF Lock!HoldInv, Lock!TypeOK
  <2>3. s \notin Lock(conf)!Pending(sess', ip)
    BY <1>c, <1>t, <2>0, <2>1, <2>2, Zenon DEF Lock!Pending
  <2>4. ask(sess', ip) = ask(sess, ip)
    <3>1. /\ ask(sess', ip) \in Nat /\ pend(sess', ip) \in Nat
          /\ ask(sess', ip) + (IF sess[s].pc = "sasl" THEN 1 ELSE 0) = ask(sess, ip) + (IF sess'[s].pc = "sasl" THEN 1 ELSE 0)
          /\ pend(sess', ip) + (IF s \in Lock(conf)!Pending(sess, ip) THEN 1 ELSE 0)
               = pend(sess, ip) + (IF s \in Lock(conf)!Pending(sess', ip) THEN 1 ELSE 0)
      BY <1>n, <2>0, <2>2, Zenon
    <3> QED
      BY <1>c, <1>t, <2>0, <2>1, <2>2, <2>3, <3>1
  <2>5. ASSUME Window(conf)
        PROVE  /\ Holds(ip, tried'[ip], ask(sess', ip), pend(sess', ip), failures'[ip], lockedUntil'[ip])
               /\ lockedUntil'[ip] = 0 \/ lockedUntil'[ip] >= conf.lock
               /\ expiry'[ip] >= conf.ttl
               /\ failures'[ip] >= failures[ip]
               /\ sess'[s].pc \in {"expire", "lock"} => sess'[s].n <= failures'[ip]
    <3>1. /\ Holds(ip, tried[ip], ask(sess, ip), pend(sess, ip), failures[ip], lockedUntil[ip])
          /\ lockedUntil[ip] = 0 \/ lockedUntil[ip] >= conf.lock
          /\ expiry[ip] >= conf.ttl
          /\ sess[s].pc \in {"expire", "lock"} => sess[s].n <= failures[ip]
      BY <1>p, <2>0, <2>5, Zenon
    <3>2. clock < until
      BY <1>c, <2>5, <2>m DEF Window
    <3> QED
      BY <1>c, <1>t, <2>0, <2>1, <2>2, <2>4, <2>m, <3>1, <3>2
  <2>6. /\ ip \in Lock(conf)!IPs
        /\ \A i \in Lock(conf)!IPs \ {ip} :
              /\ failures'[i] = failures[i] /\ tried'[i] = tried[i]
              /\ lockedUntil'[i] = lockedUntil[i] /\ expiry'[i] = expiry[i]
    BY <1>t, <2>0, <2>1, Zenon DEF Lock!HoldInv, Lock!TypeOK
  <2> HIDE DEF Holds
  <2> QED
    BY <1>q, <2>0, <2>1, <2>2, <2>5, <2>6, Zenon
<1> QED
  BY <1>1, <1>2, <1>3, <1>4, <1>5, <1>6, AttemptTimeStep, AttemptRestart DEF Lock!Next

\* The invariant of the lockout in the configuration of the part that moves.
LocksInv ==
    \A k \in DOMAIN LockoutConf : part = k =>
        /\ Lock(LockoutConf[k])!HoldInv /\ Lock(LockoutConf[k])!OwnInv /\ Lock(LockoutConf[k])!AttemptInv

\* Whatever part moves, the lockout keeps its invariant.
LEMMA LockStep == LocksInv /\ [LockoutNext]_<<part, lockoutVars>> => LocksInv'
<1> SUFFICES ASSUME LocksInv, [LockoutNext]_<<part, lockoutVars>>,
                    NEW k \in DOMAIN LockoutConf, part' = k
             PROVE  (Lock(LockoutConf[k])!HoldInv /\ Lock(LockoutConf[k])!OwnInv /\ Lock(LockoutConf[k])!AttemptInv)'
  BY Zenon DEF LocksInv
<1>0. PICK conf : conf = LockoutConf[k]
  BY Zenon
<1> SUFFICES (Lock(conf)!HoldInv /\ Lock(conf)!OwnInv /\ Lock(conf)!AttemptInv)'
  BY <1>0, Zenon
<1>1. part' = part
  BY Zenon DEF LockoutNext
<1>2. Lock(conf)!HoldInv /\ Lock(conf)!OwnInv /\ Lock(conf)!AttemptInv
  BY <1>0, <1>1, Zenon DEF LocksInv
<1>3. CASE UNCHANGED lockoutVars
  <2>2. UNCHANGED <<clock, failures, lastSeen, lockedUntil, expiry, sess, tried, promised, outages, restarts>>
    BY <1>3, Zenon DEF lockoutVars
  <2>3. Lock(conf)!HoldInv'
    BY <1>2, <2>2, Zenon DEF Lock!HoldInv, Lock!TypeOK
  <2>4. Lock(conf)!OwnInv'
    BY <1>2, <2>2, Zenon DEF Lock!OwnInv
  <2>5. Lock(conf)!AttemptInv'
    BY <1>2, <2>2, Zenon DEF Lock!AttemptInv, Lock!IsLockedOut
  <2> QED
    BY <2>3, <2>4, <2>5, Zenon
<1>4. CASE LockoutNext
  <2>1. Lock(conf)!Next
    BY <1>0, <1>1, <1>4, Zenon DEF LockoutNext
  <2>2. Lock(conf)!ConstantsOK
    BY <1>0, LockoutAssumption, Zenon
  <2> QED
    BY <1>2, <2>1, <2>2, HoldStep, OwnStep, AttemptStep, Zenon
<1> QED
  BY <1>3, <1>4, Zenon

\* The lockout keeps its invariant in every configuration.
THEOREM LockInvariant == LockoutSpec => []LocksInv
<1>1. ASSUME LockoutInit, NEW k \in DOMAIN LockoutConf, part = k
      PROVE  Lock(LockoutConf[k])!HoldInv /\ Lock(LockoutConf[k])!OwnInv /\ Lock(LockoutConf[k])!AttemptInv
  <2>1. Lock(LockoutConf[k])!Init
    BY <1>1, Zenon DEF LockoutInit, Named
  <2>2. Lock(LockoutConf[k])!ConstantsOK
    BY LockoutAssumption, Zenon
  <2> QED
    BY <2>1, <2>2, HoldInit, OwnInit, AttemptInit, Zenon
<1>2. LockoutInit => LocksInv
  BY <1>1, Zenon DEF LocksInv
<1> QED
  BY <1>2, LockStep, PTL DEF LockoutSpec

\* A lockout that was announced lasts, and no address is locked out for the
\* failures of another.
THEOREM LockExactHolds == LockoutSpec => []LockExact
<1>1. LocksInv => LockExact
  <2> SUFFICES ASSUME LocksInv, NEW k \in DOMAIN LockoutConf, part = k
               PROVE  Lock(LockoutConf[k])!LockHolds /\ Lock(LockoutConf[k])!LockedForItsOwn
    BY Zenon DEF LockExact
  <2>0. PICK conf : conf = LockoutConf[k]
    BY Zenon
  <2>1. Lock(conf)!HoldInv /\ Lock(conf)!OwnInv /\ Lock(conf)!ConstantsOK
    BY <2>0, LockoutAssumption, Zenon DEF LocksInv
  <2>2. Lock(conf)!LockHolds
    BY <2>1, LockConstants DEF Lock!HoldInv, Lock!TypeOK, Lock!LockHolds, Lock!IsLockedOut
  <2>3. Lock(conf)!LockedForItsOwn
    BY <2>1 DEF Lock!HoldInv, Lock!TypeOK, Lock!OwnInv, Lock!LockedForItsOwn, Lock!IsLockedOut
  <2> QED
    BY <2>0, <2>2, <2>3, Zenon
<1> QED
  BY <1>1, LockInvariant, PTL

\* Until a first lockout or counter could end, an address gets no more attempts
\* than the limit and one for each further connection, and what a restart adds.
THEOREM AttemptsBoundedHolds == LockoutSpec => []AttemptsBounded
<1>1. LocksInv => AttemptsBounded
  <2> SUFFICES ASSUME LocksInv, NEW k \in DOMAIN LockoutConf, part = k
               PROVE  Lock(LockoutConf[k])!AttemptsBounded
    BY Zenon DEF AttemptsBounded
  <2>0. PICK conf : conf = LockoutConf[k]
    BY Zenon
  <2>1. Lock(conf)!HoldInv /\ Lock(conf)!AttemptInv /\ Lock(conf)!ConstantsOK
    BY <2>0, LockoutAssumption, Zenon DEF LocksInv
  <2>2. ASSUME Window(conf), NEW ip \in Lock(conf)!IPs
        PROVE  tried[ip] <= IF conf.store = "redis"
                            THEN conf.limit - 1 + Lock(conf)!SessionsOf(ip) * (1 + restarts)
                            ELSE (conf.limit - 1 + Lock(conf)!SessionsOf(ip)) * (1 + restarts)
    <3>1. PICK al, a, u : /\ al = Lock(conf)!SessionsOf(ip)
                          /\ a = Lock(conf)!Cardinality(Lock(conf)!Asking(sess, ip))
                          /\ u = Lock(conf)!PerRestart(ip)
      BY Zenon
    <3>2. al \in Nat /\ a \in Nat /\ u = (IF conf.store = "redis" THEN al ELSE conf.limit - 1 + al)
      BY <2>1, <3>1, Counts, Zenon DEF Lock!PerRestart
    <3>3. tried[ip] + a <= conf.limit - 1 + al + restarts * u
      BY <2>1, <2>2, <3>1, AttemptForm, Zenon DEF AttemptAt, AttemptsOf
    <3>4. tried[ip] \in Nat /\ restarts \in Nat /\ conf.limit \in Nat /\ conf.limit >= 1
      BY <2>1, LockConstants, Zenon DEF Lock!HoldInv, Lock!TypeOK
    <3>5. \A x, r \in Nat : x * (1 + r) = x + r * x /\ r * x \in Nat
      OBVIOUS
    <3>6. CASE conf.store = "redis"
      <4>1. al * (1 + restarts) = al + restarts * u
        BY <3>2, <3>4, <3>5, <3>6, Zenon
      <4>2. restarts * u \in Nat
        BY <3>2, <3>4, <3>5, <3>6, Zenon
      <4> QED
        BY <3>1, <3>2, <3>3, <3>4, <3>6, <4>1, <4>2
    <3>7. CASE conf.store # "redis"
      <4>1. u \in Nat /\ u = conf.limit - 1 + al
        BY <3>2, <3>4, <3>7
      <4>2. u * (1 + restarts) = u + restarts * u /\ restarts * u \in Nat
        BY <3>4, <3>5, <4>1, Zenon
      <4>3. tried[ip] <= u * (1 + restarts)
        BY <3>2, <3>3, <3>4, <4>1, <4>2
      <4> QED
        BY <3>1, <3>7, <4>1, <4>3, Zenon
    <3> QED
      BY <3>6, <3>7, Zenon
  <2> QED
    BY <2>0, <2>2, Zenon DEF Lock!AttemptsBounded, Window
<1> QED
  BY <1>1, LockInvariant, PTL
============================================================================
