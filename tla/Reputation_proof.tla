-------------------------- MODULE Reputation_proof --------------------------
(***************************************************************************)
(* Proofs about what the hooks know of a sender.  The verdicts: an answer  *)
(* in the cache, or on its way there, that differs from what the service   *)
(* says now was asked for before the service changed; one lemma per        *)
(* action.  The rate: the entry agrees with a limiter that is never        *)
(* forgotten, for an entry is forgotten only when it is full and nobody    *)
(* holds it.                                                               *)
(***************************************************************************)
EXTENDS Reputation, TLAPS

-----------------------------------------------------------------------------
(* The verdicts of DNSBL and CrowdSec *)

\* What is assumed of every configuration holds of the one in use.
LEMMA ConfFacts ==
    /\ CacheTTL \in Nat \ {0} /\ Timeout \in Nat
    /\ Plugin \in {"crowdsec", "dnsbl"} /\ FailOpen \in BOOLEAN
    /\ Len(Zones) \in Nat /\ (Plugin = "crowdsec" => Len(Zones) = 1)
<1>1. Named(VerdictConf) \in DOMAIN VerdictConf
  BY VerdictAssumption DEF Named
<1> QED
  BY <1>1, VerdictAssumption DEF Conf, Timeout, Plugin, FailOpen, Zones

\* The configuration in use does not change while the program runs.
LEMMA ConfStays ==
    ASSUME UNCHANGED part
    PROVE  UNCHANGED <<Zones, FailOpen, ZoneSet, MaxAge>>
  BY DEF Zones, FailOpen, ZoneSet, MaxAge, Plugin, Timeout, Conf, Named

\* MaxAge is a positive length of time, at least CacheTTL.
LEMMA MaxAgePositive == MaxAge \in Nat /\ MaxAge >= CacheTTL /\ MaxAge > 0
  BY ConfFacts DEF MaxAge

\* The zones a check goes through are those of the plugin.
LEMMA ZoneAt == \A k \in 1 .. Len(Zones) : Zones[k] \in ZoneSet
  BY DEF ZoneSet

\* Skip preserves the invariant.
LEMMA SkipStep ==
    ASSUME UNCHANGED part, IInv, NEW c \in Checks, NEW h \in Headers, Skip(c, h)
    PROVE IInv'
<1>0. UNCHANGED <<Zones, FailOpen, ZoneSet, MaxAge>>
  BY ConfStays
<1>1. TypeOK'
  BY <1>0, SMTT(30) DEF IInv, Skip, TypeOK, Answers
<1>2. CacheTrue'
  BY <1>0, MaxAgePositive, SMTT(30) DEF IInv, Skip, TypeOK, CacheTrue, Answers
<1>3. AnswerTrue'
  BY <1>0, ConfFacts, MaxAgePositive, ZoneAt, SMTT(30) DEF IInv, Skip, TypeOK, AnswerTrue, CacheTrue, Z
<1>4. SettledTrue'
  BY <1>0, MaxAgePositive, SMTT(30) DEF IInv, Skip, TypeOK, SettledTrue
<1>5. LongListedRejected'
  BY <1>0, SMTT(30) DEF IInv, Skip, TypeOK, LongListedRejected, Checked
<1>6. LongCleanAccepted'
  BY <1>0, SMTT(30) DEF IInv, Skip, TypeOK, LongCleanAccepted, Checked
<1> QED
  BY <1>1, <1>2, <1>3, <1>4, <1>5, <1>6 DEF IInv

\* BeforeSend preserves the invariant.
LEMMA BeforeSendStep ==
    ASSUME UNCHANGED part, IInv, NEW c \in Checks, NEW h \in Headers, NEW i \in IPs, BeforeSend(c, h, i)
    PROVE IInv'
<1>0. UNCHANGED <<Zones, FailOpen, ZoneSet, MaxAge>>
  BY ConfStays
<1>1. TypeOK'
  BY <1>0, SMTT(30) DEF IInv, BeforeSend, Settled, TypeOK, Answers
<1>2. CacheTrue'
  BY <1>0, MaxAgePositive, SMTT(30) DEF IInv, BeforeSend, Settled, TypeOK, CacheTrue, Answers
<1>3. AnswerTrue'
  <2>1. 1 \in 1 .. Len(Zones)
    BY ConfFacts DEF BeforeSend, Skips
  <2> QED
    BY <1>0, <2>1, SMTT(30) DEF IInv, BeforeSend, TypeOK, AnswerTrue, Z
<1>4. SettledTrue'
  BY <1>0, MaxAgePositive, SMTT(30) DEF IInv, BeforeSend, Settled, TypeOK, SettledTrue
<1>5. LongListedRejected'
  BY <1>0, SMTT(30) DEF IInv, BeforeSend, Settled, TypeOK, LongListedRejected, Checked
<1>6. LongCleanAccepted'
  BY <1>0, SMTT(30) DEF IInv, BeforeSend, Settled, TypeOK, LongCleanAccepted, Checked
<1> QED
  BY <1>1, <1>2, <1>3, <1>4, <1>5, <1>6 DEF IInv

\* Miss preserves the invariant.
LEMMA MissStep ==
    ASSUME UNCHANGED part, IInv, NEW c \in Checks, Miss(c)
    PROVE IInv'
<1>0. UNCHANGED <<Zones, FailOpen, ZoneSet, MaxAge>>
  BY ConfStays
<1>1. TypeOK'
  BY <1>0, SMTT(30) DEF IInv, Miss, Fresh, Z, TypeOK, Answers
<1>2. CacheTrue'
  BY <1>0, MaxAgePositive, SMTT(30) DEF IInv, Miss, Fresh, Z, TypeOK, CacheTrue, Answers
<1>3. AnswerTrue'
  BY <1>0, ConfFacts, MaxAgePositive, ZoneAt, SMTT(30) DEF IInv, Miss, Fresh, Z, TypeOK, AnswerTrue, CacheTrue
<1>4. SettledTrue'
  BY <1>0, MaxAgePositive, SMTT(30) DEF IInv, Miss, Fresh, Z, TypeOK, SettledTrue
<1>5. LongListedRejected'
  BY <1>0, SMTT(30) DEF IInv, Miss, Fresh, Z, TypeOK, LongListedRejected, Checked
<1>6. LongCleanAccepted'
  BY <1>0, SMTT(30) DEF IInv, Miss, Fresh, Z, TypeOK, LongCleanAccepted, Checked
<1> QED
  BY <1>1, <1>2, <1>3, <1>4, <1>5, <1>6 DEF IInv

\* Query preserves the invariant.
LEMMA QueryStep ==
    ASSUME UNCHANGED part, IInv, NEW c \in Checks, Query(c)
    PROVE IInv'
<1>0. UNCHANGED <<Zones, FailOpen, ZoneSet, MaxAge>>
  BY ConfStays
<1>1. TypeOK'
  <2>1. Zones[zone[c]] \in ZoneSet /\ ip[c] \in IPs
    BY ZoneAt, Zenon DEF IInv, TypeOK, AnswerTrue, Query
  <2>2. listed[Zones[zone[c]]][ip[c]] \in Answers
    BY <2>1 DEF IInv, TypeOK
  <2> QED
    BY <1>0, <2>2, SMTT(30) DEF IInv, Query, Z, TypeOK
<1>2. CacheTrue'
  BY <1>0, MaxAgePositive, SMTT(30) DEF IInv, Query, Z, TypeOK, CacheTrue, Answers
<1>3. AnswerTrue'
  BY <1>0, ConfFacts, MaxAgePositive, ZoneAt, SMTT(30) DEF IInv, Query, Z, TypeOK, AnswerTrue, CacheTrue
<1>4. SettledTrue'
  BY <1>0, MaxAgePositive, SMTT(30) DEF IInv, Query, Z, TypeOK, SettledTrue
<1>5. LongListedRejected'
  BY <1>0, SMTT(30) DEF IInv, Query, Z, TypeOK, LongListedRejected, Checked
<1>6. LongCleanAccepted'
  BY <1>0, SMTT(30) DEF IInv, Query, Z, TypeOK, LongCleanAccepted, Checked
<1> QED
  BY <1>1, <1>2, <1>3, <1>4, <1>5, <1>6 DEF IInv

\* Change preserves the invariant.
LEMMA ChangeStep ==
    ASSUME UNCHANGED part, IInv, NEW z \in ZoneSet, NEW i \in IPs, Change(z, i)
    PROVE IInv'
<1>0. UNCHANGED <<Zones, FailOpen, ZoneSet, MaxAge>>
  BY ConfStays
<1>1. TypeOK'
  BY <1>0, SMTT(30) DEF IInv, Change, TypeOK, Answers
<1>2. CacheTrue'
  BY <1>0, MaxAgePositive, SMTT(30) DEF IInv, Change, TypeOK, CacheTrue, Answers
<1>3. AnswerTrue'
  BY <1>0, ConfFacts, MaxAgePositive, ZoneAt, SMTT(30) DEF IInv, Change, TypeOK, AnswerTrue, CacheTrue, Z
<1>4. SettledTrue'
  BY <1>0, MaxAgePositive, SMTT(30) DEF IInv, Change, TypeOK, SettledTrue
<1>5. LongListedRejected'
  BY <1>0, SMTT(30) DEF IInv, Change, TypeOK, LongListedRejected, Checked
<1>6. LongCleanAccepted'
  BY <1>0, SMTT(30) DEF IInv, Change, TypeOK, LongCleanAccepted, Checked
<1> QED
  BY <1>1, <1>2, <1>3, <1>4, <1>5, <1>6 DEF IInv

\* Tick preserves the invariant.
LEMMA TickStep ==
    ASSUME UNCHANGED part, IInv, Tick
    PROVE IInv'
<1>0. UNCHANGED <<Zones, FailOpen, ZoneSet, MaxAge>>
  BY ConfStays
<1>1. TypeOK'
  BY <1>0, SMTT(30) DEF IInv, Tick, TypeOK, Answers
<1>2. CacheTrue'
  BY <1>0, MaxAgePositive, SMTT(30) DEF IInv, Tick, TypeOK, CacheTrue, Answers
<1>3. AnswerTrue'
  BY <1>0, ConfFacts, MaxAgePositive, ZoneAt, SMTT(30) DEF IInv, Tick, TypeOK, AnswerTrue, CacheTrue, Z
<1>4. SettledTrue'
  BY <1>0, MaxAgePositive, SMTT(30) DEF IInv, Tick, TypeOK, SettledTrue
<1>5. LongListedRejected'
  BY <1>0, SMTT(30) DEF IInv, Tick, TypeOK, LongListedRejected, Checked
<1>6. LongCleanAccepted'
  BY <1>0, SMTT(30) DEF IInv, Tick, TypeOK, LongCleanAccepted, Checked
<1> QED
  BY <1>1, <1>2, <1>3, <1>4, <1>5, <1>6 DEF IInv

\* What a check does with the answer about its zone preserves the invariant,
\* if the answer agrees with a status the zone has had for long.
LEMMA AnsweredStep ==
    ASSUME UNCHANGED part, IInv, NEW c \in Checks, NEW a \in Answers, Answered(c, a), pc[c] # "end",
           cached' \in [ZoneSet -> [IPs -> Answers]], expires' \in [ZoneSet -> [IPs -> Int]],
           failed' = failed \/ failed' = failed \cup {c},
           CacheTrue',
           Zones[zone[c]] \in long[c] => a = "ban" \/ c \in failed',
           Zones[zone[c]] \in clean[c] => a = "clean" \/ (c \in failed' /\ ~FailOpen),
           c \in failed' /\ ~FailOpen => a = "ban"
    PROVE IInv'
<1>0. UNCHANGED <<Zones, FailOpen, ZoneSet, MaxAge>>
  BY ConfStays
<1>1. zone[c] \in 1 .. Len(Zones) /\ Zones[zone[c]] \in ZoneSet
  BY ZoneAt DEF IInv, AnswerTrue
<1>2. CASE a = "clean" /\ zone[c] < Len(Zones)
  <2>1. /\ pc' = [pc EXCEPT ![c] = "cache"]
        /\ zone' = [zone EXCEPT ![c] = zone[c] + 1]
        /\ UNCHANGED result
    BY <1>2 DEF Answered
  <2>2. TypeOK'
    BY <1>0, <2>1, <1>1, ConfFacts, SMTT(30) DEF IInv, TypeOK, Answered, Answers
  <2>3. AnswerTrue'
    BY <1>0, <2>1, <1>1, <1>2, ConfFacts, SMTT(30) DEF IInv, TypeOK, AnswerTrue, Answered, Z
  <2>4. SettledTrue'
    BY <1>0, <2>1, <1>1, <1>2, ConfFacts, MaxAgePositive, SMTT(30) DEF IInv, TypeOK, AnswerTrue, SettledTrue, Answered
  <2>5. LongListedRejected'
    BY <1>0, <2>1, SMTT(30) DEF IInv, TypeOK, LongListedRejected, Checked, Answered
  <2>6. LongCleanAccepted'
    BY <1>0, <2>1, SMTT(30) DEF IInv, TypeOK, LongCleanAccepted, Checked, Answered
  <2> QED
    BY <2>2, <2>3, <2>4, <2>5, <2>6 DEF IInv
<1>3. CASE ~(a = "clean" /\ zone[c] < Len(Zones))
  <2>1. /\ pc' = [pc EXCEPT ![c] = "end"]
        /\ result' = [result EXCEPT ![c] = IF a = "ban" THEN "reject" ELSE "accept"]
        /\ UNCHANGED zone
    BY <1>3 DEF Answered
  <2>2. TypeOK'
    BY <1>0, <2>1, SMTT(30) DEF IInv, TypeOK, Answered, Answers
  <2>3. AnswerTrue'
    BY <1>0, <2>1, <1>1, SMTT(30) DEF IInv, TypeOK, AnswerTrue, Answered, Z
  <2>4. SettledTrue'
    BY <1>0, <2>1, MaxAgePositive, SMTT(30) DEF IInv, TypeOK, SettledTrue, Answered
  <2>5. a = "clean" => zone[c] = Len(Zones)
    BY <1>1, <1>3, ConfFacts DEF IInv, TypeOK
  <2>6. ASSUME a = "clean", long[c] # {} PROVE c \in failed'
    <3>1. PICK z \in long[c] : TRUE
      BY <2>6
    <3>2. PICK k \in 1 .. Len(Zones) : z = Zones[k]
      BY <3>1 DEF IInv, TypeOK, ZoneSet
    <3>3. CASE k = zone[c]
      BY <3>1, <3>2, <3>3, <2>6
    <3>4. CASE k # zone[c]
      <4>1. k \in 1 .. (zone[c] - 1)
        BY <3>2, <3>4, <2>5, <2>6, ConfFacts
      <4>2. c \in failed
        BY <4>1, <3>1, <3>2 DEF IInv, SettledTrue
      <4> QED
        BY <4>2
    <3> QED
      BY <3>3, <3>4
  <2>7. c \in failed' /\ a = "clean" => FailOpen
    OBVIOUS
  <2>8. LongListedRejected'
    BY <1>0, <2>1, <2>6, <2>7, SMTT(30) DEF IInv, TypeOK, LongListedRejected, Checked, Answered, Answers
  <2>9. LongCleanAccepted'
    BY <1>0, <2>1, <1>1, SMTT(30) DEF IInv, TypeOK, LongCleanAccepted, Checked, Answered, Answers
  <2> QED
    BY <2>2, <2>3, <2>4, <2>8, <2>9 DEF IInv
<1> QED
  BY <1>2, <1>3

\* An entry that has not expired agrees with what the zone has said for long.
LEMMA HitStep ==
    ASSUME UNCHANGED part, IInv, NEW c \in Checks, Hit(c)
    PROVE IInv'
<1>0. UNCHANGED <<Zones, FailOpen, ZoneSet, MaxAge>>
  BY ConfStays
<1>1. zone[c] \in 1 .. Len(Zones) /\ Zones[zone[c]] \in ZoneSet /\ ip[c] \in IPs
  BY ZoneAt DEF IInv, AnswerTrue, TypeOK, Hit
<1> DEFINE a == cached[Zones[zone[c]]][ip[c]]
<1>2. a \in Answers /\ Answered(c, a) /\ pc[c] = "cache" /\ clock < expires[Zones[zone[c]]][ip[c]]
  BY <1>1 DEF IInv, TypeOK, Hit, Z, Fresh
<1>3. CacheTrue'
  <2>1. UNCHANGED <<clock, listed, since, cached, expires>>
    BY DEF Hit, Answered
  <2> QED
    BY <1>0, <2>1, SMTT(30) DEF IInv, CacheTrue
<1>4. /\ Zones[zone[c]] \in long[c] => a = "ban"
      /\ Zones[zone[c]] \in clean[c] => a = "clean"
  <2> DEFINE z == Zones[zone[c]]
  <2>1. a # listed[z][ip[c]] => expires[z][ip[c]] <= since[z][ip[c]] + MaxAge
    BY <1>1 DEF IInv, CacheTrue
  <2>2. clock \in Int /\ since[z][ip[c]] \in Int /\ expires[z][ip[c]] \in Int
    BY <1>1 DEF IInv, TypeOK
  <2>3. z \in long[c] \cup clean[c] => since[z][ip[c]] + MaxAge <= clock
    BY <1>2 DEF IInv, SettledTrue
  <2>4. z \in long[c] \cup clean[c] => a = listed[z][ip[c]]
    BY <1>2, <2>1, <2>2, <2>3, MaxAgePositive, SMTT(30)
  <2>5. /\ z \in long[c] => listed[z][ip[c]] = "ban"
        /\ z \in clean[c] => listed[z][ip[c]] = "clean"
    BY <1>2 DEF IInv, SettledTrue
  <2> HIDE DEF a
  <2> QED
    BY <2>4, <2>5
<1>5. c \in failed => FailOpen
  BY <1>2 DEF IInv, SettledTrue
<1>6. UNCHANGED <<cached, expires, failed>>
  BY DEF Hit
<1> HIDE DEF a
<1> QED
  BY <1>2, <1>3, <1>4, <1>5, <1>6, AnsweredStep, Zenon DEF IInv, TypeOK

\* An answer that reaches the cache was asked for by a check that is still
\* waiting: it ends within MaxAge of when the zone said so.
LEMMA StoreStep ==
    ASSUME UNCHANGED part, IInv, NEW c \in Checks, Store(c)
    PROVE IInv'
<1>0. UNCHANGED <<Zones, FailOpen, ZoneSet, MaxAge>>
  BY ConfStays
<1>1. zone[c] \in 1 .. Len(Zones) /\ Zones[zone[c]] \in ZoneSet /\ ip[c] \in IPs
  BY ZoneAt DEF IInv, AnswerTrue, TypeOK, Store
<1> DEFINE a == answer[c]
           until == CacheTTL + (IF Plugin = "crowdsec" THEN clock ELSE asked[c])
<1>2. a \in Answers /\ Answered(c, a) /\ pc[c] = "store"
  BY DEF IInv, TypeOK, Store
<1>3. /\ cached' = [cached EXCEPT ![Zones[zone[c]]][ip[c]] = a]
      /\ expires' = [expires EXCEPT ![Zones[zone[c]]][ip[c]] = until]
  BY DEF Store, Put, Z
<1>4. until \in Int /\ until <= asked[c] + MaxAge /\ until <= clock + MaxAge
  BY <1>0, <1>2, ConfFacts, SMTT(30) DEF IInv, TypeOK, AnswerTrue, Store, InTime, MaxAge
<1>5. UNCHANGED <<clock, listed, since, failed>>
  BY DEF Store, Answered
<1>6. a # listed[Zones[zone[c]]][ip[c]] => asked[c] <= since[Zones[zone[c]]][ip[c]]
  BY <1>2 DEF IInv, AnswerTrue, Z
<1>7. cached' \in [ZoneSet -> [IPs -> Answers]] /\ expires' \in [ZoneSet -> [IPs -> Int]]
  <2> HIDE DEF a, until
  <2> QED
    BY <1>0, <1>1, <1>2, <1>3, <1>4, SMTT(30) DEF IInv, TypeOK
<1>8. CacheTrue'
  <2>1. asked[c] \in Int
    BY DEF IInv, TypeOK
  <2> HIDE DEF a, until
  <2> QED
    BY <1>0, <2>1, <1>1, <1>3, <1>4, <1>5, <1>6, MaxAgePositive, SMTT(30) DEF IInv, TypeOK, CacheTrue
<1>9. /\ Zones[zone[c]] \in long[c] => a = "ban"
      /\ Zones[zone[c]] \in clean[c] => a = "clean"
  <2> DEFINE z == Zones[zone[c]]
  <2>2. asked[c] \in Int /\ since[z][ip[c]] \in Int
    BY <1>1 DEF IInv, TypeOK
  <2>3. z \in long[c] \cup clean[c] => since[z][ip[c]] + MaxAge <= asked[c]
    BY <1>2 DEF IInv, SettledTrue
  <2>4. z \in long[c] \cup clean[c] => a = listed[z][ip[c]]
    BY <1>6, <2>2, <2>3, MaxAgePositive
  <2>5. /\ z \in long[c] => listed[z][ip[c]] = "ban"
        /\ z \in clean[c] => listed[z][ip[c]] = "clean"
    BY <1>2 DEF IInv, SettledTrue
  <2> HIDE DEF a
  <2> QED
    BY <2>4, <2>5
<1>10. c \in failed => FailOpen
  BY <1>2 DEF IInv, SettledTrue
<1> HIDE DEF a, until
<1> QED
  BY <1>2, <1>5, <1>7, <1>8, <1>9, <1>10, AnsweredStep

\* A lookup without an answer marks the check and leaves the cache alone.
LEMMA FailStep ==
    ASSUME UNCHANGED part, IInv, NEW c \in Checks, Fail(c)
    PROVE IInv'
<1>0. UNCHANGED <<Zones, FailOpen, ZoneSet, MaxAge>>
  BY ConfStays
<1> DEFINE a == WithoutAnswer
<1>1. a \in Answers /\ Answered(c, a) /\ pc[c] # "end" /\ failed' = failed \cup {c}
  BY DEF WithoutAnswer, Answers, Fail
<1>2. UNCHANGED <<cached, expires>>
  BY DEF Fail
<1>3. CacheTrue'
  <2>1. UNCHANGED <<clock, listed, since, cached, expires>>
    BY DEF Fail, Answered
  <2> QED
    BY <1>0, <2>1, SMTT(30) DEF IInv, CacheTrue
<1>4. FailOpen => a = "clean"
  BY DEF WithoutAnswer
<1>5. ~FailOpen => a = "ban"
  BY DEF WithoutAnswer
<1> HIDE DEF a
<1> QED
  BY <1>1, <1>2, <1>3, <1>4, <1>5, ConfFacts, AnsweredStep, Zenon DEF IInv, TypeOK

\* Before the first check nothing is cached and no zone lists anything.
LEMMA VerdictBegins == VerdictInit => IInv
  BY ConfFacts, MaxAgePositive, SMTT(30)
  DEF VerdictInit, Init, IInv, TypeOK, CacheTrue, AnswerTrue, SettledTrue, LongListedRejected, LongCleanAccepted, Checked, Answers

\* Whatever check, change or tick comes next, the cache keeps its invariant.
LEMMA VerdictStep == IInv /\ [VerdictNext]_<<part, verdictVars>> => IInv'
<1> SUFFICES ASSUME IInv, [VerdictNext]_<<part, verdictVars>> PROVE IInv'
  OBVIOUS
<1>1. UNCHANGED part
  BY Zenon DEF VerdictNext
<1>2. CASE UNCHANGED verdictVars
  <2>1. UNCHANGED <<Zones, FailOpen, ZoneSet, MaxAge>>
    BY <1>1, ConfStays
  <2> QED
    BY <1>2, <2>1, SMTT(30)
    DEF verdictVars, vars, IInv, TypeOK, CacheTrue, AnswerTrue, SettledTrue, LongListedRejected, LongCleanAccepted, Checked, Z
<1>3. CASE Next
  BY <1>1, <1>3, SkipStep, BeforeSendStep, HitStep, MissStep, QueryStep, StoreStep, FailStep, ChangeStep, TickStep, Zenon DEF Next
<1> QED
  BY <1>2, <1>3 DEF VerdictNext

\* The cache keeps its invariant in every configuration of DNSBL and CrowdSec.
THEOREM VerdictInvariant == VerdictSpec => []IInv
  BY VerdictBegins, VerdictStep, PTL DEF VerdictSpec

\* Whatever overlapping lookups put in the cache, an address listed for MaxAge is
\* rejected and one that no zone has listed for MaxAge is accepted, unless a lookup
\* of the check failed, open or closed.
THEOREM VerdictsCurrentHolds == VerdictSpec => []VerdictsCurrent
<1>1. IInv => VerdictsCurrent
  BY DEF IInv, VerdictsCurrent
<1> QED
  BY <1>1, VerdictInvariant, PTL

-----------------------------------------------------------------------------
(* The rate *)

\* A limiter holds at least the price of a message (NewSecurityAgent makes the
\* burst at least 1).
LEMMA FullNat ==
    ASSUME Rate!ConstantsOK
    PROVE Rate!Full \in Nat /\ Rate!Full >= 1
<1>1. Burst \in Nat /\ Period \in Nat /\ Burst >= 1 /\ Period >= 1
  BY DEF Rate!ConstantsOK
<1>2. Burst * Period >= 1
  BY <1>1
<1> QED
  BY <1>1, <1>2 DEF Rate!Full

\* Earning a token keeps a limiter within its size (the refill of rate.Limiter).
LEMMA EarnWithin ==
    ASSUME Rate!ConstantsOK, NEW n \in 0 .. Rate!Full
    PROVE Rate!Earn(n) \in 0 .. Rate!Full /\ Rate!Earn(n) >= n /\ (Rate!Earn(n) = Rate!Full \/ Rate!Earn(n) = n + 1)
  BY FullNat DEF Rate!Earn

\* One more tick of idling, and one more token.
LEMMA OneMore == ASSUME NEW a \in Int, NEW i \in Int, NEW j \in Int, NEW s \in Int, j <= i + 1, a >= i - s
                 PROVE a + 1 >= j - s
  OBVIOUS

\* A sender nobody has heard of has a full limiter.
LEMMA RateInitInv ==
    ASSUME Rate!ConstantsOK, Rate!Init
    PROVE Rate!RateInv
<1>1. Rate!TypeOK
  BY FullNat DEF Rate!ConstantsOK, Rate!Init, Rate!TypeOK
<1> QED
  BY <1>1, FullNat DEF Rate!Init, Rate!RateInv

\* limiterFor: the entry found is the ideal one, a new one is full as it is.
LEMMA RateLookupStep ==
    ASSUME Rate!ConstantsOK, Rate!RateInv, NEW p \in Procs, Rate!limiterFor(p)
    PROVE Rate!RateInv'
<1>1. cur' \in Limiters /\ cur' # None
  BY DEF Rate!ConstantsOK, Rate!RateInv, Rate!TypeOK, Rate!limiterFor
<1>2. Rate!TypeOK'
  BY <1>1, FullNat DEF Rate!ConstantsOK, Rate!RateInv, Rate!TypeOK, Rate!limiterFor
<1>3. tokens'[cur'] = ideal' /\ ideal' \in 0 .. Rate!Full
  BY <1>1 DEF Rate!RateInv, Rate!TypeOK, Rate!limiterFor
<1>4. ASSUME NEW q \in Procs, held'[q] # None PROVE held'[q] = cur' /\ idle' <= age'[q]
  <2>1. CASE q = p
    BY <2>1 DEF Rate!RateInv, Rate!TypeOK, Rate!limiterFor
  <2>2. CASE q # p
    <3>1. held'[q] = held[q] /\ age'[q] = age[q]
      BY <2>2 DEF Rate!RateInv, Rate!TypeOK, Rate!limiterFor
    <3>2. held[q] = cur /\ cur # None
      BY <3>1, <1>4 DEF Rate!RateInv
    <3>3. age[q] \in 0 .. Stall /\ Stall \in Nat
      BY DEF Rate!ConstantsOK, Rate!RateInv, Rate!TypeOK
    <3> QED
      BY <3>1, <3>2, <3>3 DEF Rate!limiterFor
  <2> QED
    BY <2>1, <2>2
<1>5. idle' = 0
  BY DEF Rate!limiterFor
<1>6. ideal' >= idle' - Stall
  BY <1>3, <1>5, FullNat DEF Rate!ConstantsOK
<1> QED
  BY <1>1, <1>2, <1>3, <1>4, <1>6 DEF Rate!RateInv

\* The hook that asks holds the entry, which was looked up at most Stall ago.
LEMMA HolderFacts ==
    ASSUME Rate!ConstantsOK, Rate!RateInv, NEW p \in Procs, held[p] # None
    PROVE  /\ held[p] = cur /\ cur \in Limiters /\ cur # None
           /\ tokens[cur] = ideal /\ idle \in Nat /\ idle <= Stall
<1>1. held[p] = cur /\ idle <= age[p]
  BY DEF Rate!RateInv
<1>2. age[p] \in 0 .. Stall /\ idle \in 0 .. TTL + 1 /\ held[p] \in Limiters \cup {None}
  BY DEF Rate!RateInv, Rate!TypeOK
<1> QED
  BY <1>1, <1>2 DEF Rate!ConstantsOK, Rate!RateInv

\* Allow takes from the entry what it takes from the ideal limiter.
LEMMA RateAllowedStep ==
    ASSUME Rate!ConstantsOK, Rate!RateInv, NEW p \in Procs, Rate!Allowed(p)
    PROVE Rate!RateInv'
<1>1. /\ held[p] = cur /\ cur \in Limiters /\ cur # None
      /\ tokens[cur] = ideal /\ idle \in Nat /\ idle <= Stall
  BY HolderFacts DEF Rate!Allowed
<1>2. ideal \in 0 .. Rate!Full /\ ideal >= Period /\ ideal' = ideal - Period
  BY <1>1 DEF Rate!Allowed, Rate!RateInv
<1>3. ideal' \in 0 .. Rate!Full
  BY <1>2, FullNat DEF Rate!ConstantsOK
<1>4. tokens' = [tokens EXCEPT ![cur] = ideal']
  BY <1>1, <1>2 DEF Rate!Allowed
<1>5. tokens'[cur'] = ideal' /\ cur' = cur /\ idle' = idle
  BY <1>1, <1>4 DEF Rate!RateInv, Rate!TypeOK, Rate!Allowed, Rate!Answered
<1>6. Rate!TypeOK'
  <2>1. tokens' \in [Limiters -> 0 .. Rate!Full]
    BY <1>1, <1>3, <1>4 DEF Rate!RateInv, Rate!TypeOK
  <2>2. ideal' \in Int
    BY <1>3
  <2> QED
    BY <2>1, <2>2 DEF Rate!ConstantsOK, Rate!RateInv, Rate!TypeOK, Rate!Allowed, Rate!Answered
<1>7. \A q \in Procs : held'[q] # None => held'[q] = cur' /\ idle' <= age'[q]
  BY <1>5 DEF Rate!RateInv, Rate!TypeOK, Rate!Allowed, Rate!Answered
<1>8. ideal' >= idle' - Stall
  BY <1>1, <1>3, <1>5, FullNat DEF Rate!ConstantsOK
<1> QED
  BY <1>1, <1>3, <1>5, <1>6, <1>7, <1>8 DEF Rate!RateInv

\* A refusal changes no limiter.
LEMMA RateRefusedStep ==
    ASSUME Rate!ConstantsOK, Rate!RateInv, NEW p \in Procs, Rate!Refused(p)
    PROVE Rate!RateInv'
<1>1. Rate!TypeOK'
  BY DEF Rate!ConstantsOK, Rate!RateInv, Rate!TypeOK, Rate!Refused, Rate!Answered
<1>2. \A q \in Procs : held'[q] # None => held'[q] = cur' /\ idle' <= age'[q]
  BY DEF Rate!RateInv, Rate!TypeOK, Rate!Refused, Rate!Answered
<1> QED
  BY <1>1, <1>2 DEF Rate!RateInv, Rate!Refused, Rate!Answered

\* evict: by then no hook holds the entry, and it is full.
LEMMA RateEvictStep ==
    ASSUME Rate!ConstantsOK, Rate!RateInv, Rate!KeptLongEnough, Rate!evict
    PROVE Rate!RateInv'
<1>1. idle > TTL /\ idle \in Nat /\ cur # None /\ Stall \in Nat /\ TTL \in Nat
  BY DEF Rate!ConstantsOK, Rate!evict, Rate!RateInv, Rate!TypeOK
<1>2. \A q \in Procs : held[q] = None
  <2> SUFFICES ASSUME NEW q \in Procs, held[q] # None PROVE FALSE
    OBVIOUS
  <2>1. idle <= Stall
    BY HolderFacts
  <2> QED
    BY <2>1, <1>1, FullNat DEF Rate!KeptLongEnough
<1>3. ideal = Rate!Full
  <2>1. ideal = Rate!Full \/ ideal >= idle - Stall
    BY <1>1 DEF Rate!RateInv
  <2>2. ideal \in 0 .. Rate!Full
    BY DEF Rate!RateInv
  <2> QED
    BY <2>1, <2>2, <1>1, FullNat DEF Rate!KeptLongEnough
<1>4. Rate!TypeOK'
  BY <1>1 DEF Rate!RateInv, Rate!TypeOK, Rate!evict
<1> QED
  BY <1>2, <1>3, <1>4 DEF Rate!RateInv, Rate!evict

\* Time fills the entry and the ideal limiter alike.
LEMMA RateTickStep ==
    ASSUME Rate!ConstantsOK, Rate!RateInv, Rate!Tick
    PROVE Rate!RateInv'
<1> USE FullNat DEF Rate!ConstantsOK
<1>1. /\ ideal \in 0 .. Rate!Full /\ ideal' \in 0 .. Rate!Full
      /\ ideal' = Rate!Full \/ ideal' = ideal + 1
      /\ ideal' >= ideal
  BY EarnWithin DEF Rate!RateInv, Rate!Tick
<1>2. idle \in 0 .. TTL + 1 /\ idle' \in 0 .. TTL + 1 /\ idle' <= idle + 1
  BY DEF Rate!RateInv, Rate!TypeOK, Rate!Tick
<1>3. tokens' \in [Limiters -> 0 .. Rate!Full]
  <2>1. \A l \in Limiters : Rate!Earn(tokens[l]) \in 0 .. Rate!Full
    BY EarnWithin DEF Rate!RateInv, Rate!TypeOK
  <2> QED
    BY <2>1 DEF Rate!Tick
<1>4. ASSUME NEW q \in Procs
      PROVE  /\ age'[q] \in 0 .. Stall
             /\ held'[q] # None => held'[q] = cur' /\ idle' <= age'[q]
  <2>1. age[q] \in 0 .. Stall
    BY DEF Rate!RateInv, Rate!TypeOK
  <2>2. CASE held[q] # None
    <3>1. age[q] < Stall /\ age'[q] = age[q] + 1
      BY <2>2 DEF Rate!Tick
    <3>2. held[q] = cur /\ idle <= age[q]
      BY <2>2 DEF Rate!RateInv
    <3> QED
      BY <2>1, <3>1, <3>2, <1>2 DEF Rate!Tick
  <2>3. CASE held[q] = None
    BY <2>3 DEF Rate!Tick
  <2> QED
    BY <2>2, <2>3
<1>5. age' \in [Procs -> 0 .. Stall]
  <2>1. age' = [q \in Procs |-> age'[q]]
    BY DEF Rate!Tick
  <2> QED
    BY <2>1, <1>4
<1>6. Rate!TypeOK'
  BY <1>1, <1>2, <1>3, <1>5 DEF Rate!RateInv, Rate!TypeOK, Rate!Tick
<1>7. cur # None => tokens'[cur] = ideal'
  BY DEF Rate!RateInv, Rate!TypeOK, Rate!Tick
<1>8. cur # None => ideal' = Rate!Full \/ ideal' >= idle' - Stall
  <2>1. cur # None => ideal = Rate!Full \/ ideal >= idle - Stall
    BY DEF Rate!RateInv
  <2>2. Stall \in Nat /\ Rate!Full \in Nat /\ TTL \in Nat
    OBVIOUS
  <2>3. CASE ideal = Rate!Full
    BY <2>3, <1>1, <2>2
  <2>4. CASE ideal >= idle - Stall
    <3>1. CASE ideal' = ideal + 1
      <4>1. idle \in Int /\ idle' \in Int /\ ideal \in Int
        BY <1>1, <1>2
      <4>2. idle' <= idle + 1 /\ Stall \in Int
        BY <1>2
      <4>3. ideal + 1 >= idle' - Stall
        BY <4>1, <4>2, <2>4, OneMore, Zenon
      <4> QED
        BY <4>3, <3>1
    <3> QED
      BY <3>1, <1>1
  <2> QED
    BY <2>1, <2>3, <2>4
<1>9. cur = None => ideal' = Rate!Full
  BY DEF Rate!RateInv, Rate!Tick, Rate!Earn
<1> QED
  BY <1>1, <1>4, <1>6, <1>7, <1>8, <1>9 DEF Rate!RateInv, Rate!Tick

\* Every step of the hooks, the goroutine and the clock keeps the invariant.
LEMMA RateNextInv ==
    ASSUME Rate!ConstantsOK, Rate!KeptLongEnough, Rate!RateInv, [Rate!Next]_rateVars
    PROVE Rate!RateInv'
<1>1. CASE UNCHANGED rateVars
  BY <1>1 DEF Rate!RateInv, Rate!TypeOK, rateVars
<1>2. CASE Rate!evict
  BY <1>2, RateEvictStep
<1>3. CASE Rate!Tick
  BY <1>3, RateTickStep
<1>4. ASSUME NEW p \in Procs, Rate!limiterFor(p) \/ Rate!Allowed(p) \/ Rate!Refused(p) PROVE Rate!RateInv'
  BY <1>4, RateLookupStep, RateAllowedStep, RateRefusedStep
<1> QED
  BY <1>1, <1>2, <1>3, <1>4 DEF Rate!Next

\* The entry agrees with a limiter that is never forgotten.
THEOREM RateInvariant == Rate!KeptLongEnough => (RateSpec => []Rate!RateInv)
<1> SUFFICES ASSUME Rate!KeptLongEnough PROVE RateSpec => []Rate!RateInv
  OBVIOUS
<1>0. Rate!ConstantsOK
  BY RateAssumption
<1>1. Rate!RateInv /\ [RateNext]_<<part, rateVars>> => Rate!RateInv'
  BY <1>0, RateNextInv DEF RateNext
<1>2. Rate!Init => Rate!RateInv
  BY <1>0, RateInitInv
<1> QED
  BY <1>1, <1>2, PTL DEF RateSpec

\* A hook that ends without charging the ideal limiter found it short of a message.
LEMMA RefusedOver ==
    ASSUME Rate!ConstantsOK, Rate!RateInv, Rate!Next PROVE Rate!RefusedOverRate
<1> SUFFICES ASSUME NEW p \in Procs, held[p] # None, held'[p] = None, ideal' = ideal PROVE ideal < Period
  BY DEF Rate!RefusedOverRate
<1>0. tokens[held[p]] = ideal
  BY HolderFacts
<1>1. CASE Rate!evict
  BY <1>1 DEF Rate!evict
<1>2. CASE Rate!Tick
  BY <1>2 DEF Rate!Tick
<1>3. ASSUME NEW q \in Procs, Rate!limiterFor(q) PROVE ideal < Period
  <2>1. q # p
    BY <1>3 DEF Rate!limiterFor
  <2> QED
    BY <2>1, <1>3 DEF Rate!limiterFor, Rate!RateInv, Rate!TypeOK
<1>4. ASSUME NEW q \in Procs, Rate!Allowed(q) PROVE ideal < Period
  <2>1. ideal' = ideal - Period /\ ideal \in Int
    BY <1>4 DEF Rate!Allowed, Rate!RateInv, Rate!TypeOK
  <2> QED
    BY <2>1 DEF Rate!ConstantsOK
<1>5. ASSUME NEW q \in Procs, Rate!Refused(q) PROVE ideal < Period
  <2>1. CASE q = p
    BY <2>1, <1>5, <1>0 DEF Rate!Refused
  <2>2. CASE q # p
    BY <2>2, <1>5 DEF Rate!Refused, Rate!Answered, Rate!RateInv, Rate!TypeOK
  <2> QED
    BY <2>1, <2>2
<1> QED
  BY <1>1, <1>2, <1>3, <1>4, <1>5 DEF Rate!Next

\* However the hooks and the goroutine interleave, no more messages of a sender pass
\* than the burst and what the rate adds, and none is refused to a sender within it,
\* as long as SenderTTL covers the time to fill a limiter and a hook's stall.
THEOREM RateExactHolds == Rate!KeptLongEnough => (RateSpec => RateExact)
<1> SUFFICES ASSUME Rate!KeptLongEnough PROVE RateSpec => RateExact
  OBVIOUS
<1>0. Rate!ConstantsOK
  BY RateAssumption
<1>1. ASSUME Rate!RateInv, Rate!RateInv', [RateNext]_<<part, rateVars>>
      PROVE  [Rate!WithinRate' /\ Rate!RefusedOverRate]_rateVars
  <2>1. Rate!WithinRate'
    BY <1>0, <1>1, FullNat DEF Rate!RateInv, Rate!WithinRate
  <2>2. Rate!Next => Rate!RefusedOverRate
    BY <1>0, <1>1, RefusedOver
  <2> QED
    BY <1>1, <2>1, <2>2 DEF RateNext
<1>2. RateSpec => []Rate!RateInv
  BY RateInvariant
<1>3. RateSpec => [][RateNext]_<<part, rateVars>>
  BY DEF RateSpec
<1>4. RateSpec => [][Rate!WithinRate' /\ Rate!RefusedOverRate]_rateVars
  BY <1>1, <1>2, <1>3, PTL
<1> QED
  BY <1>4 DEF RateExact
=============================================================================
