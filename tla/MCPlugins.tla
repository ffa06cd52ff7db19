----------------------------- MODULE MCPlugins -----------------------------
(***************************************************************************)
(* The send hooks, for model checking: what they know of a sender          *)
(* (Reputation) and what they make of a message (Filtering).               *)
(***************************************************************************)
EXTENDS Reputation, Filtering, TLC

PluginInit ==
    /\ part \in Parts
    /\ VerdictInit /\ Rate!Init /\ FilterInit
    /\ IF part \in DOMAIN ChainConf THEN TRUE ELSE msg = CHOOSE m \in ChainConf[Named(ChainConf)].msgs : TRUE
    /\ ChainInit
PluginNext ==
    \/ VerdictNext /\ UNCHANGED <<rateVars, filterVars, chainVars>>
    \/ RateNext /\ UNCHANGED <<verdictVars, filterVars, chainVars>>
    \/ FilterNext /\ UNCHANGED <<verdictVars, rateVars, chainVars>>
    \/ ChainNext /\ UNCHANGED <<verdictVars, rateVars, filterVars>>
PluginSpec == PluginInit /\ [][PluginNext]_<<part, verdictVars, rateVars, filterVars, chainVars>>

CONSTANTS u1, u2, k1    \* updaters and a check of the address filter

-----------------------------------------------------------------------------
(* The address lists: DNSBL with two zones, and CrowdSec, where the LAPI   *)
(* may time out, and then the message passes.                              *)

MCVerdictConf ==
    [dnsbl    |-> [plugin |-> "dnsbl", zones |-> <<"zen", "bl">>, failOpen |-> FALSE, timeout |-> 0,
                   clock |-> 4, changes |-> 1],
     crowdsec |-> [plugin |-> "crowdsec", zones |-> <<"lapi">>, failOpen |-> TRUE, timeout |-> 1,
                   clock |-> 5, changes |-> 2]]

-----------------------------------------------------------------------------
(* The address filter: three rules, one that does not compile, and messages *)
(* whose sender or recipients they match.                                   *)

Rule(id, matches, field) == [id |-> id, matches |-> matches, field |-> field, valid |-> id > 0]
R1 == Rule(1, {"a"}, {"sender"})
MCRules == {R1, Rule(2, {"b"}, {"sender", "recipients"}), Rule(3, {"a", "b"}, {"recipients"})}
MCInitial == {R1, Rule(0, {}, {"sender", "recipients"})}
MCMails == {[sender |-> "a", recipients |-> <<"c">>], [sender |-> "c", recipients |-> <<"c", "b">>]}

\* With a store and one updater; an allow list and two; rules in memory only.
\* Checks only read, so that one is enough.
MCFilterConf ==
    [stored |-> [upd |-> {u1}, chk |-> {k1}, mode |-> "block", backing |-> "store", ops |-> 3],
     allow  |-> [upd |-> {u1, u2}, chk |-> {k1}, mode |-> "allow", backing |-> "store", ops |-> 3],
     memory |-> [upd |-> {u1}, chk |-> {k1}, mode |-> "block", backing |-> "none", ops |-> 4]]

-----------------------------------------------------------------------------
(* The chain of hooks, strict and lenient, on small families of messages.  *)

Dom(o, s) == [org |-> o, sub |-> s]
Nobody == [user |-> "", dom |-> Dom("", "")]
A == [user |-> "u", dom |-> Dom("a", "")]
AM == [user |-> "u", dom |-> Dom("a", "m")]
B == [user |-> "u", dom |-> Dom("b", "")]

MCDmarc == (A.dom :> [p |-> "reject", aspf |-> "r", adkim |-> "s"]) @@ (B.dom :> [p |-> "none", aspf |-> "r", adkim |-> "r"])

MaxInt == 2^(Width - 1) - 1
Sig(d, ok) == [dom |-> d, ok |-> ok]
Plain == [door |-> "smtp", authed |-> A, envelope |-> A, from |-> A, spf |-> "pass", sigs |-> <<>>,
          subject |-> 1, rcpts |-> 1, body |-> 1, atts |-> <<>>, newline |-> FALSE]

\* By SMTP a user who has authenticated sends as themselves.
BySMTP ==
    {[Plain EXCEPT !.authed = u, !.envelope = u, !.from = f, !.spf = r, !.sigs = g, !.subject = n] :
        u \in {A, AM, B}, f \in {Nobody, A, B}, r \in {"", "none", "neutral", "pass", "softfail", "fail"},
        g \in {<<>>, <<Sig(A.dom, TRUE)>>, <<Sig(B.dom, FALSE), Sig(AM.dom, TRUE)>>}, n \in 1 .. 2}
\* By LMTP nobody authenticates, and a bounce has an empty envelope sender.
ByLMTP ==
    {[Plain EXCEPT !.door = "lmtp", !.authed = Nobody, !.envelope = e, !.from = f, !.rcpts = n, !.body = b] :
        e \in {Nobody, A, B}, f \in {Nobody, A}, n \in 1 .. 3, b \in 1 .. 2}
Att(n, t, name) == [size |-> n, mime |-> t, name |-> name]
Atts == {Att(n, t, name) : n \in {-1, 0, 2, 3, MaxInt}, t \in {"pdf", "png", "zip"}, name \in {<<"f">>, <<"f", "exe", "pdf">>}}
ByGRPC ==
    {[Plain EXCEPT !.door = "grpc", !.envelope = Nobody, !.from = f, !.spf = "", !.newline = w, !.atts = as] :
        f \in {Nobody, A, B}, w \in BOOLEAN, as \in {<<>>} \cup {<<a>> : a \in Atts}}
    \cup
    {[Plain EXCEPT !.door = "grpc", !.envelope = Nobody, !.from = Nobody, !.spf = "", !.atts = as] :
        as \in {<<a, b>> : a \in Atts, b \in Atts} \cup {<<a, a, a>> : a \in Atts}}

StrictCfg ==
    [maxCount |-> 2, maxSingle |-> 2, maxTotal |-> 3, allowedMimes |-> {"pdf", "zip"}, blockedMimes |-> {"zip"},
     blockedDomains |-> {B.dom}, allowedDomains |-> {}, spoofCheck |-> TRUE, maxSubject |-> 1, requireAuth |-> TRUE,
     spf |-> "require", dkim |-> "require", dmarc |-> "reject", threshold |-> 5, tagOnly |-> FALSE,
     avFailOpen |-> FALSE, maxRcpts |-> 2, maxBody |-> 1, blockedExt |-> {"exe"}]
\* Mail by LMTP and gRPC carries no result of DKIM or SPF.
LenientCfg ==
    [StrictCfg EXCEPT !.allowedDomains = {A.dom, AM.dom}, !.blockedDomains = {}, !.spf = "reject",
                      !.dkim = "reject", !.dmarc = "warn", !.tagOnly = TRUE, !.avFailOpen = TRUE]

Content == {"attachment", "smtpsecurity", "emailauth", "spam", "antivirus", "agent"}
Traffic == BySMTP \cup ByLMTP \cup ByGRPC
MCChainConf ==
    [strict  |-> [msgs |-> Traffic, cfg |-> StrictCfg,
                  hooks |-> Content \cup {"address", "crowdsec", "dnsbl"}],
     lenient |-> [msgs |-> Traffic, cfg |-> LenientCfg, hooks |-> Content \cup {"address"}],
     dmarc   |-> [msgs |-> BySMTP, cfg |-> [LenientCfg EXCEPT !.dmarc = "reject", !.dkim = "warn"],
                  hooks |-> Content \cup {"address"}]]

PluginSymmetry == Permutations(Checks)
=============================================================================
