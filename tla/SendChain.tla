----------------------------- MODULE SendChain -----------------------------
(***************************************************************************)
(* The way of a message from the door it comes in by to the mailbox: the   *)
(* draft an SMTP or LMTP session or a gRPC call makes of it, and the       *)
(* BeforeSend hooks in the order cmd/serve.go registers them.  CrowdSec,   *)
(* DNSBL and the address filter have modules of their own (VerdictCache,   *)
(* AddressFilter) and pass or reject here as they like, and so do the      *)
(* lockout of the SMTP security plugin (Lockout) and the rate limit of the *)
(* security agent (RateLimits); the spam and anti-virus services answer    *)
(* anything.                                                               *)
(*                                                                         *)
(* A domain is [org, sub], its organisational domain and what stands       *)
(* before it; an address is [user, dom], Nobody the empty one; a MIME type *)
(* stands without its parameters and a file name as the sequence of its    *)
(* parts between dots, both in lower case.                                 *)
(***************************************************************************)
EXTENDS Integers, Sequences, Parts

CONSTANTS
    ChainConf,          \* the configurations, by part
    Dmarc,              \* domain -> [p, aspf, adkim], the records in DNS
    Scores,             \* scores the spam service gives
    Width               \* of the integers sizes are added up in

Conf == ChainConf[Named(ChainConf)]

Messages == Conf.msgs       \* what comes in
Enabled == Conf.hooks       \* the hooks in use, and their configuration
Cfg == Conf.cfg

VARIABLES msg, draft, at, result, spam, av
vars == <<msg, draft, at, result, spam, av>>

Nobody == [user |-> "", dom |-> [org |-> "", sub |-> ""]]

\* session.Data: one signature that fails makes the result fail; the domain is
\* that of the first that passes.
DkimResult(sigs) ==
    IF sigs = <<>> THEN [result |-> "none", dom |-> Nobody.dom]
    ELSE LET good == {i \in DOMAIN sigs : sigs[i].ok}
         IN [result |-> IF good = DOMAIN sigs THEN "pass" ELSE "fail",
             dom |-> IF good = {} THEN Nobody.dom ELSE sigs[CHOOSE i \in good : \A j \in good : i <= j].dom]

FirstOf(as) == IF \E i \in DOMAIN as : as[i] # Nobody
               THEN as[CHOOSE i \in DOMAIN as : as[i] # Nobody /\ \A j \in 1 .. i - 1 : as[j] = Nobody]
               ELSE Nobody

\* The draft: its sender, the headers the hooks look at, and its attachments.
\* What comes by SMTP or LMTP has none: the parts of its body stay in the body.
\* SMTP prefers the authenticated user, then the envelope, then From:.
SMTPDraft(m) ==
    [sender |-> FirstOf(<<m.authed, m.envelope, m.from>>), from |-> Nobody, envelope |-> m.envelope,
     spf |-> m.spf, dkim |-> DkimResult(m.sigs), internal |-> TRUE, newline |-> FALSE, tag |-> FALSE,
     atts |-> <<>>]
LMTPDraft(m) ==
    [sender |-> FirstOf(<<m.envelope, m.from>>), from |-> Nobody, envelope |-> m.envelope,
     spf |-> "", dkim |-> [result |-> "", dom |-> Nobody.dom], internal |-> TRUE, newline |-> FALSE, tag |-> FALSE,
     atts |-> <<>>]
\* A gRPC caller names the sender and gives headers of its own.
GRPCDraft(m) ==
    [sender |-> m.authed, from |-> m.from, envelope |-> m.envelope,
     spf |-> m.spf, dkim |-> DkimResult(m.sigs), internal |-> FALSE, newline |-> m.newline, tag |-> FALSE,
     atts |-> m.atts]

Draft(m) == CASE m.door = "smtp" -> SMTPDraft(m) [] m.door = "lmtp" -> LMTPDraft(m) [] OTHER -> GRPCDraft(m)

Chain == <<"crowdsec", "dnsbl", "address", "attachment", "smtpsecurity", "emailauth", "spam",
           "antivirus", "agent">>

NoAnswer == [kind |-> "none", score |-> 0, isSpam |-> FALSE, newline |-> FALSE]

Init ==
    /\ msg \in Messages
    /\ draft = Draft(msg)
    /\ at = 1 /\ result = "none"
    /\ spam = NoAnswer /\ av = "none"

\* A hook's error ends the send; after the last hook the message is stored.
Goes(ok) ==
    IF ~ok THEN result' = "rejected" /\ at' = at
    ELSE /\ result' = IF at = Len(Chain) THEN "stored" ELSE "none"
         /\ at' = IF at = Len(Chain) THEN at ELSE at + 1

Hook(name) == result = "none" /\ Chain[at] = name /\ name \in Enabled

NotEnabled ==
    /\ result = "none" /\ Chain[at] \notin Enabled
    /\ Goes(TRUE)
    /\ UNCHANGED <<msg, draft, spam, av>>

\* CrowdSec and DNSBL look at the address SMTP came from, and at no other mail.
Elsewhere ==
    /\ \E name \in {"crowdsec", "dnsbl", "address"}, ok \in BOOLEAN :
          /\ Hook(name)
          /\ ~ok => name = "address" \/ msg.door = "smtp"
          /\ Goes(ok)
    /\ UNCHANGED <<msg, draft, spam, av>>

\* int64 addition.
Wrap(n) == ((n + 2^(Width - 1)) % 2^Width) - 2^(Width - 1)

Over(limit, n) == limit > 0 /\ n > limit

\* One turn of the loop over the attachments: the sum so far and the verdict.
\* (variant) a type that is allowed is not looked up among the blocked
AttachmentLoose(acc, a) ==
    LET sum == Wrap(acc.total + a.size)
        bad == \/ a.size < 0
               \/ Over(Cfg.maxSingle, a.size)
               \/ a.mime \in Cfg.blockedMimes /\ a.mime \notin Cfg.allowedMimes
               \/ Cfg.allowedMimes # {} /\ a.mime \notin Cfg.allowedMimes
    IN [total |-> sum, bad |-> acc.bad \/ bad]

Attachment(acc, a) ==
    LET sum == Wrap(acc.total + a.size)
        bad == \/ a.size < 0
               \/ Over(Cfg.maxSingle, a.size)
               \/ a.mime \in Cfg.blockedMimes
               \/ Cfg.allowedMimes # {} /\ a.mime \notin Cfg.allowedMimes
    IN [total |-> sum, bad |-> acc.bad \/ bad]

AttachmentFilter ==
    /\ Hook("attachment")
    /\ LET n == Len(draft.atts)
           loop[i \in 0 .. n] ==
               IF i = 0 THEN [total |-> 0, bad |-> FALSE] ELSE Attachment(loop[i - 1], draft.atts[i])
       IN Goes(~(Over(Cfg.maxCount, n) \/ loop[n].bad \/ Over(Cfg.maxTotal, loop[n].total)))
    /\ UNCHANGED <<msg, draft, spam, av>>

\* SMTPSecurityPlugin.BeforeSend; the lockout is of the address SMTP came from.
SMTPSecurity ==
    /\ Hook("smtpsecurity")
    /\ LET dom == draft.sender.dom
           bad == \/ /\ draft.sender # Nobody
                     /\ \/ dom \in Cfg.blockedDomains
                        \/ Cfg.allowedDomains # {} /\ dom \notin Cfg.allowedDomains
                  \/ Cfg.spoofCheck /\ Nobody \notin {draft.envelope, draft.sender} /\ draft.envelope # draft.sender
                  \/ Over(Cfg.maxSubject, msg.subject)
                  \/ Cfg.requireAuth /\ draft.sender = Nobody
       IN \E locked \in BOOLEAN : (locked => msg.door = "smtp") /\ Goes(~locked /\ ~bad)
    /\ UNCHANGED <<msg, draft, spam, av>>

Missing(r) == r \in {"", "none"}

\* checkSPF and checkDKIM, which differ in what has failed.
Policy(policy, r, failures) ==
    /\ policy \in {"reject", "require"} => r \notin failures
    /\ policy = "require" => ~Missing(r)

domainMatch(got, want, strict) ==
    /\ got # Nobody.dom /\ want # Nobody.dom
    /\ got = want \/ (~strict /\ got.org = want.org)

\* checkDMARC, of the From header.
DMARC(d) ==
    LET dom == d.from.dom
    IN \/ Cfg.dmarc \in {"", "off"}
       \/ d.from = Nobody
       \/ dom \notin DOMAIN Dmarc
       \/ Dmarc[dom].p \in {"", "none"}
       \/ d.spf = "pass" /\ domainMatch(d.envelope.dom, dom, Dmarc[dom].aspf = "s")
       \/ d.dkim.result = "pass" /\ domainMatch(d.dkim.dom, dom, Dmarc[dom].adkim = "s")
       \/ Cfg.dmarc # "reject"

EmailAuth ==
    /\ Hook("emailauth")
    /\ Goes(/\ Policy(Cfg.spf, draft.spf, {"fail", "softfail"})
            /\ Policy(Cfg.dkim, draft.dkim.result, {"fail"})
            /\ DMARC(draft))
    /\ UNCHANGED <<msg, draft, spam, av>>

\* An answer is what the service said of the message, if it can be read.
SpamAnswers ==
    {[NoAnswer EXCEPT !.kind = "unusable"]}
        \cup [kind : {"answer"}, score : Scores, isSpam : BOOLEAN, newline : BOOLEAN]

IsSpam(a) == a.kind = "answer" /\ (a.isSpam \/ a.score > Cfg.threshold)

\* Without an answer the check is skipped; the tag is in headers of the draft,
\* one of which quotes the reason the service gave.
SpamChecker ==
    /\ Hook("spam")
    /\ \E a \in SpamAnswers :
          /\ spam' = a
          /\ Goes(IsSpam(a) => Cfg.tagOnly)
          /\ draft' = IF IsSpam(a) /\ Cfg.tagOnly
                      THEN [draft EXCEPT !.tag = TRUE, !.newline = @ \/ a.newline] ELSE draft
    /\ UNCHANGED <<msg, av>>

\* (variant) an answer with a status that is not 200 counts as clean
AntiVirusStatus ==
    /\ Hook("antivirus")
    /\ \E a \in {"clean", "threat", "unreachable", "status", "garbled"} :
          /\ av' = a
          /\ Goes(CASE a \in {"clean", "status"} -> TRUE [] a = "threat" -> FALSE [] OTHER -> Cfg.avFailOpen)
    /\ UNCHANGED <<msg, draft, spam>>

AntiVirus ==
    /\ Hook("antivirus")
    /\ \E a \in {"clean", "threat", "unreachable", "status", "garbled"} :
          /\ av' = a
          /\ Goes(CASE a = "clean" -> TRUE [] a = "threat" -> FALSE [] OTHER -> Cfg.avFailOpen)
    /\ UNCHANGED <<msg, draft, spam>>

\* blockedExtension: from the last part down to the one after the first dot.
blockedExtension(name) ==
    LET from[i \in Nat] == i > 1 /\ (name[i] \in Cfg.blockedExt \/ from[i - 1])
    IN from[Len(name)]

\* SecurityAgent.BeforeSend after the limiter, which may refuse any message.
SecurityAgent ==
    /\ Hook("agent")
    /\ LET bad == \/ Over(Cfg.maxRcpts, msg.rcpts)
                  \/ Over(Cfg.maxBody, msg.body)
                  \/ draft.newline
                  \/ \E i \in DOMAIN draft.atts : blockedExtension(draft.atts[i].name)
       IN \E limited \in BOOLEAN : Goes(~limited /\ ~bad)
    /\ UNCHANGED <<msg, draft, spam, av>>

Next ==
    \/ NotEnabled \/ Elsewhere \/ AttachmentFilter \/ SMTPSecurity \/ EmailAuth
    \/ SpamChecker \/ AntiVirus \/ SecurityAgent

Spec == Init /\ [][Next]_vars

-----------------------------------------------------------------------------

Stored == result = "stored"
Total(atts) ==
    LET sum[i \in 0 .. Len(atts)] == IF i = 0 THEN 0 ELSE sum[i - 1] + atts[i].size
    IN sum[Len(atts)]
Has(hook) == hook \in Enabled

\* ("MaxTotalBytes is the maximum cumulative attachment size in bytes.")  With a
\* limit on their number and on the size of one, the attachments of a stored
\* message are within the limit on all of them, even as the sum may wrap around.
TotalWithin == Stored /\ Has("attachment") /\ Cfg.maxTotal > 0 => Total(draft.atts) <= Cfg.maxTotal

\* No stored message has an attachment of a blocked type or, wherever it stands
\* in the name, with a blocked extension, or of a type that is not among the
\* allowed ones; too large ones, and too many, are not stored either.
AttachmentsWithin ==
    Stored =>
        \A i \in DOMAIN draft.atts :
            LET a == draft.atts[i]
            IN /\ Has("attachment") =>
                    /\ a.mime \notin Cfg.blockedMimes
                    /\ Cfg.allowedMimes = {} \/ a.mime \in Cfg.allowedMimes
                    /\ a.size >= 0 /\ (Cfg.maxSingle = 0 \/ a.size <= Cfg.maxSingle)
                    /\ Cfg.maxCount = 0 \/ Len(draft.atts) <= Cfg.maxCount
               /\ Has("agent") => \A k \in 2 .. Len(a.name) : a.name[k] \notin Cfg.blockedExt

\* A message the services condemned is not stored, unless as spam with its tag;
\* one that could not be scanned for viruses is stored only with FailOpen.
ScannedBeforeStored ==
    Stored =>
        /\ Has("spam") /\ IsSpam(spam) => Cfg.tagOnly /\ draft.tag
        /\ Has("antivirus") => av = "clean" \/ (av # "threat" /\ Cfg.avFailOpen)

\* With a policy of require, a message by SMTP is stored only when all its
\* signatures verified, and when SPF was checked and did not fail.
RequiredAuthPresent ==
    Stored /\ Has("emailauth") /\ msg.door = "smtp" =>
        /\ Cfg.dkim = "require" => msg.sigs # <<>> /\ \A i \in DOMAIN msg.sigs : msg.sigs[i].ok
        /\ Cfg.spf = "require" => msg.spf \notin {"", "none", "fail", "softfail"}

\* ("checkDMARC evaluates the sender's DMARC DNS record and enforces the policy.")
\* With a policy of reject, a message by SMTP whose From domain asks for rejection
\* and with which nothing aligns is not stored.
DMARCEnforced ==
    Stored /\ Has("emailauth") /\ Cfg.dmarc = "reject" /\ msg.door = "smtp" =>
        DMARC([draft EXCEPT !.from = msg.from])

\* ("the stricter of the DNS policy and this setting applies") A message whose From
\* domain asks for rejection and with which nothing aligns is not stored, when the
\* plugin is set to the milder warn.
StricterApplies ==
    Stored /\ Has("emailauth") /\ Cfg.dmarc = "warn" /\ draft.from # Nobody =>
        \A dom \in DOMAIN Dmarc \cap {draft.from.dom} :
            LET r == Dmarc[dom]
            IN r.p = "reject" =>
                  \/ draft.spf = "pass" /\ domainMatch(draft.envelope.dom, dom, r.aspf = "s")
                  \/ draft.dkim.result = "pass" /\ domainMatch(draft.dkim.dom, dom, r.adkim = "s")

\* ("Require authenticated sender (SenderID non-empty means Auth succeeded).")
SenderAuthenticated ==
    Stored /\ Has("smtpsecurity") /\ Cfg.requireAuth => msg.authed # Nobody

\* ("annotates the draft with X-Spam-Score and X-Spam-Status headers instead of
\* rejecting the message outright") With TagOnly a message is not refused for
\* what the spam service said of it.
TagInsteadOfReject ==
    result = "rejected" /\ Cfg.tagOnly /\ Chain[at] = "agent" /\ draft.newline => ~draft.tag \/ msg.newline

\* ("internalHeaders are injected by the SMTP layer for plugin use and stripped
\* before messages are exposed to external consumers.") No stored message has them.
InternalStripped == Stored => ~draft.internal
-----------------------------------------------------------------------------
(* Why: a hook that has been passed has judged, and no later one changes    *)
(* what it judged by.                                                       *)

Past(name) == Stored \/ \E i \in 1 .. at - 1 : Chain[i] = name

ChainInv ==
    /\ msg \in Messages /\ at \in 1 .. Len(Chain) /\ result \in {"none", "rejected", "stored"}
    /\ DOMAIN draft = DOMAIN Draft(msg) /\ draft.spf = Draft(msg).spf /\ draft.dkim = Draft(msg).dkim
    /\ result # "rejected" =>
          /\ Has("spam") /\ Past("spam") /\ IsSpam(spam) => Cfg.tagOnly /\ draft.tag
          /\ Has("antivirus") /\ Past("antivirus") => av = "clean" \/ (av # "threat" /\ Cfg.avFailOpen)
          /\ Has("emailauth") /\ Past("emailauth") =>
                /\ Policy(Cfg.spf, draft.spf, {"fail", "softfail"})
                /\ Policy(Cfg.dkim, draft.dkim.result, {"fail"})
=============================================================================
