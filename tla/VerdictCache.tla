---------------------------- MODULE VerdictCache ----------------------------
(***************************************************************************)
(* The plugins that ask a service about the client's address and keep its  *)
(* answers for a while: CrowdSec, which asks its LAPI                      *)
(* (internal/plugin/crowdsec.go), and DNSBL, which asks DNS about each of  *)
(* its zones (internal/plugin/dnsbl.go).  The LAPI is one zone here.       *)
(*                                                                         *)
(* The cache is read under the lock, the service is asked without it, and  *)
(* the answer is put in the cache under it again: lookups of one address   *)
(* overlap, and a slow one overwrites the answer of a quick one.           *)
(***************************************************************************)
EXTENDS Integers, Sequences, Parts

CONSTANTS
    VerdictConf,        \* the configurations, by part
    IPs,
    Checks,             \* concurrent calls of BeforeSend
    CacheTTL

Conf == VerdictConf[Named(VerdictConf)]

Plugin == Conf.plugin       \* "crowdsec" or "dnsbl"
Zones == Conf.zones         \* sequence of zones
FailOpen == Conf.failOpen
Timeout == Conf.timeout
MaxClock == Conf.clock      \* bounds
MaxChanges == Conf.changes

ASSUME VerdictAssumption ==
    /\ CacheTTL \in Nat \ {0}
    /\ DOMAIN VerdictConf # {}
    /\ \A p \in DOMAIN VerdictConf :
        /\ VerdictConf[p].timeout \in Nat /\ VerdictConf[p].failOpen \in BOOLEAN
        /\ VerdictConf[p].plugin \in {"crowdsec", "dnsbl"}
        /\ Len(VerdictConf[p].zones) \in Nat
        /\ VerdictConf[p].plugin = "crowdsec" => Len(VerdictConf[p].zones) = 1

VARIABLES
    clock, changes,
    listed, since,      \* zone, address -> "ban" or "clean", and since when
    cached, expires,    \* zone, address -> the entry in the cache; 0: none
    pc, ip, zone,       \* per check: where it is
    asked, answer,      \* per check: when it asked, and what it was told
    failed,             \* the checks that met a lookup without an answer
    result,             \* per check: what BeforeSend returned
    long, clean         \* per check: the zones that had listed its address, or
                        \* not, for MaxAge when it began and have done so since

vars == <<clock, changes, listed, since, cached, expires,
          pc, ip, zone, asked, answer, failed, result, long, clean>>

ZoneSet == {Zones[i] : i \in 1 .. Len(Zones)}
Answers == {"ban", "clean"}

\* How old an answer taken from the cache may be: the CrowdSec entry ends
\* CacheTTL after the answer came, the DNSBL entry CacheTTL after it was asked for.
MaxAge == IF Plugin = "crowdsec" THEN CacheTTL + Timeout ELSE CacheTTL

\* X-SMTP-Remote-Addr: absent, an address with a port, one without, or IPv6.
Headers == {"absent", "hostport", "bare", "ipv6"}
Skips(header) ==
    IF Plugin = "crowdsec" THEN header = "absent"
    ELSE Len(Zones) = 0 \/ header # "hostport"

Init ==
    /\ clock = 0 /\ changes = 0
    /\ listed = [z \in ZoneSet |-> [i \in IPs |-> "clean"]]
    /\ since = [z \in ZoneSet |-> [i \in IPs |-> 0 - MaxAge]]
    /\ cached = [z \in ZoneSet |-> [i \in IPs |-> "clean"]]
    /\ expires = [z \in ZoneSet |-> [i \in IPs |-> 0]]
    /\ pc = [c \in Checks |-> "end"]
    /\ ip \in [Checks -> IPs]
    /\ zone = [c \in Checks |-> 1]
    /\ asked = [c \in Checks |-> 0]
    /\ answer = [c \in Checks |-> "clean"]
    /\ failed = {}
    /\ result = [c \in Checks |-> "skip"]
    /\ long = [c \in Checks |-> {}]
    /\ clean = [c \in Checks |-> {}]

\* The zones that have listed the address, or not, for at least MaxAge.
Settled(i, status) ==
    {z \in ZoneSet : listed[z][i] = status /\ clock - since[z][i] >= MaxAge}

\* A message that did not come by SMTP, or whose address cannot be asked about,
\* passes; a call that has returned may be followed by another.
Skip(c, header) ==
    /\ pc[c] = "end" /\ Skips(header)
    /\ result' = [result EXCEPT ![c] = "skip"]
    /\ UNCHANGED <<clock, changes, listed, since, cached, expires>>
    /\ UNCHANGED <<pc, ip, zone, asked, answer, failed, long, clean>>

BeforeSend(c, header, i) ==
    /\ pc[c] = "end" /\ ~Skips(header)
    /\ pc' = [pc EXCEPT ![c] = "cache"]
    /\ ip' = [ip EXCEPT ![c] = i]
    /\ zone' = [zone EXCEPT ![c] = 1]
    /\ failed' = failed \ {c}
    /\ result' = [result EXCEPT ![c] = "skip"]
    /\ long' = [long EXCEPT ![c] = Settled(i, "ban")]
    /\ clean' = [clean EXCEPT ![c] = Settled(i, "clean")]
    /\ UNCHANGED <<clock, changes, listed, since, cached, expires, asked, answer>>

\* BeforeSend goes on with the answer about one zone.
Answered(c, a) ==
    /\ asked' = [asked EXCEPT ![c] = 0]
    /\ answer' = [answer EXCEPT ![c] = "clean"]
    /\ IF a = "clean" /\ zone[c] < Len(Zones)
       THEN /\ pc' = [pc EXCEPT ![c] = "cache"]
            /\ zone' = [zone EXCEPT ![c] = @ + 1]
            /\ UNCHANGED result
       ELSE /\ pc' = [pc EXCEPT ![c] = "end"]
            /\ result' = [result EXCEPT ![c] = IF a = "ban" THEN "reject" ELSE "accept"]
            /\ UNCHANGED zone
    /\ UNCHANGED <<clock, changes, listed, since, ip, long, clean>>

Z(c) == Zones[zone[c]]
Fresh(c) == clock < expires[Z(c)][ip[c]]

\* isBanned, queryZone: an entry that has not expired is the answer.
Hit(c) ==
    /\ pc[c] = "cache" /\ Fresh(c)
    /\ Answered(c, cached[Z(c)][ip[c]])
    /\ UNCHANGED <<cached, expires, failed>>

Miss(c) ==
    /\ pc[c] = "cache" /\ ~Fresh(c)
    /\ pc' = [pc EXCEPT ![c] = "query"]
    /\ asked' = [asked EXCEPT ![c] = clock]
    /\ UNCHANGED <<clock, changes, listed, since, cached, expires>>
    /\ UNCHANGED <<ip, zone, answer, failed, result, long, clean>>

\* The service answers with what it has at this moment.
Query(c) ==
    /\ pc[c] = "query"
    /\ pc' = [pc EXCEPT ![c] = "store"]
    /\ answer' = [answer EXCEPT ![c] = listed[Z(c)][ip[c]]]
    /\ UNCHANGED <<clock, changes, listed, since, cached, expires>>
    /\ UNCHANGED <<ip, zone, asked, failed, result, long, clean>>

\* The HTTP client of CrowdSec gives up after Timeout; DNS may take any time.
InTime(c) == Plugin = "crowdsec" => clock <= asked[c] + Timeout

Put(c, a, until) ==
    /\ cached' = [cached EXCEPT ![Z(c)][ip[c]] = a]
    /\ expires' = [expires EXCEPT ![Z(c)][ip[c]] = until]

\* (variant) DNSBL too counts from the time of the answer
StoreLate(c) ==
    /\ pc[c] = "store" /\ InTime(c)
    /\ Put(c, answer[c], clock + CacheTTL)
    /\ Answered(c, answer[c])
    /\ UNCHANGED failed

Store(c) ==
    /\ pc[c] = "store" /\ InTime(c)
    /\ Put(c, answer[c], CacheTTL + (IF Plugin = "crowdsec" THEN clock ELSE asked[c]))
    /\ Answered(c, answer[c])
    /\ UNCHANGED failed

WithoutAnswer == IF FailOpen THEN "clean" ELSE "ban"

\* No answer, or one that makes no sense; nothing is put in the cache.
Fail(c) ==
    /\ pc[c] \in {"query", "store"}
    /\ failed' = failed \cup {c}
    /\ Answered(c, WithoutAnswer)
    /\ UNCHANGED <<cached, expires>>

\* The service lists an address or takes it off its list.
Change(z, i) ==
    /\ changes < MaxChanges /\ changes' = changes + 1
    /\ listed' = [listed EXCEPT ![z][i] = IF @ = "ban" THEN "clean" ELSE "ban"]
    /\ since' = [since EXCEPT ![z][i] = clock]
    /\ long' = [c \in Checks |-> IF pc[c] # "end" /\ ip[c] = i THEN long[c] \ {z} ELSE long[c]]
    /\ clean' = [c \in Checks |-> IF pc[c] # "end" /\ ip[c] = i THEN clean[c] \ {z} ELSE clean[c]]
    /\ UNCHANGED <<clock, cached, expires, pc, ip, zone, asked, answer, failed, result>>

Tick ==
    /\ clock < MaxClock /\ clock' = clock + 1
    /\ UNCHANGED <<changes, listed, since, cached, expires>>
    /\ UNCHANGED <<pc, ip, zone, asked, answer, failed, result, long, clean>>

Next ==
    \/ \E c \in Checks :
          \/ \E h \in Headers : Skip(c, h) \/ \E i \in IPs : BeforeSend(c, h, i)
          \/ Hit(c) \/ Miss(c) \/ Query(c) \/ Store(c) \/ Fail(c)
    \/ \E z \in ZoneSet, i \in IPs : Change(z, i)
    \/ Tick

Spec == Init /\ [][Next]_vars

-----------------------------------------------------------------------------

Checked(c) == pc[c] = "end" /\ result[c] # "skip"

\* An address a zone had listed for MaxAge when the check began, and lists still,
\* is rejected, whatever older answers overlapping lookups put in the cache; only
\* a lookup of this very check that failed, with FailOpen, may let it through.
LongListedRejected ==
    \A c \in Checks :
        Checked(c) /\ long[c] # {} /\ ~(FailOpen /\ c \in failed) => result[c] = "reject"

\* An address no zone had listed for MaxAge, nor lists since, is accepted: a ban
\* that was lifted is not remembered longer, and a failed lookup, without
\* FailOpen, costs that message only.
LongCleanAccepted ==
    \A c \in Checks :
        Checked(c) /\ ZoneSet \subseteq clean[c] /\ ~(~FailOpen /\ c \in failed) => result[c] = "accept"

-----------------------------------------------------------------------------
(* Why: an answer in the cache, or on its way there, that differs from what *)
(* the service says now was asked for before the service changed.           *)

\* The variables keep to their sets, and times are not ahead of the clock.
TypeOK ==
    /\ clock \in Nat /\ changes \in Nat
    /\ listed \in [ZoneSet -> [IPs -> Answers]]
    /\ since \in [ZoneSet -> [IPs -> Int]]
    /\ cached \in [ZoneSet -> [IPs -> Answers]]
    /\ expires \in [ZoneSet -> [IPs -> Int]]
    /\ pc \in [Checks -> {"end", "cache", "query", "store"}]
    /\ ip \in [Checks -> IPs]
    /\ zone \in [Checks -> Nat]
    /\ asked \in [Checks -> Int]
    /\ answer \in [Checks -> Answers]
    /\ failed \subseteq Checks
    /\ result \in [Checks -> {"skip", "accept", "reject"}]
    /\ long \in [Checks -> SUBSET ZoneSet]
    /\ clean \in [Checks -> SUBSET ZoneSet]

\* An entry that contradicts the service ends within MaxAge of the change.
CacheTrue ==
    \A z \in ZoneSet, i \in IPs :
        /\ since[z][i] <= clock
        /\ expires[z][i] <= clock + MaxAge
        /\ cached[z][i] # listed[z][i] => expires[z][i] <= since[z][i] + MaxAge

\* The same of an answer that has not reached the cache yet.
AnswerTrue ==
    \A c \in Checks :
        /\ pc[c] # "end" => zone[c] \in 1 .. Len(Zones)
        /\ pc[c] \in {"query", "store"} => asked[c] <= clock
        /\ pc[c] = "store" /\ answer[c] # listed[Z(c)][ip[c]] => asked[c] <= since[Z(c)][ip[c]]

\* What a check under way still knows of the zones that had settled.
SettledTrue ==
    \A c \in Checks : pc[c] # "end" =>
        /\ \A z \in long[c] : listed[z][ip[c]] = "ban"
        /\ \A z \in clean[c] : listed[z][ip[c]] = "clean"
        /\ \A z \in long[c] \cup clean[c] :
              /\ since[z][ip[c]] + MaxAge <= clock
              /\ pc[c] \in {"query", "store"} => since[z][ip[c]] + MaxAge <= asked[c]
        /\ c \in failed => FailOpen
        /\ \A k \in 1 .. (zone[c] - 1) : Zones[k] \in long[c] => c \in failed

IInv == TypeOK /\ CacheTrue /\ AnswerTrue /\ SettledTrue /\ LongListedRejected /\ LongCleanAccepted
=============================================================================
